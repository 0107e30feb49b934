---------------------------- MODULE Subscription ----------------------------
(***************************************************************************)
(* A configuration subscription of go-outbound (configuration/export.go):  *)
(* SubscribeConfiguration of the embedded runtime in a goroutine, against  *)
(* a stream whose first message is the subscription id and whose later     *)
(* ones are updates for the app.                                           *)
(*                                                                         *)
(* The app is one thread: its exports and its callbacks nest, and the pump *)
(* runs a callback only when neither is on the stack.  Of the event queue  *)
(* only that is kept.  Dapr sends one message at a time.                   *)
(*                                                                         *)
(* Names that Boot also has begin with Sub: RuntimeProofs extends both.    *)
(***************************************************************************)
EXTENDS Naturals

CONSTANT Updates  \* the updates of the store

VARIABLES
  pumping,   \* an app pumps events
  op,        \* the app's export: "none", "subscribing", "unsubscribing", "dead"
  handle,    \* the app's subscription: "none", "held", "dropped"
  result,    \* of Subscribe: "none", "ok", "error", "panic"
  api,       \* SubscribeConfiguration: "off", "running", "subscribed",
             \* "returned", "gone"
  first,     \* the stream has sent its first message, the id
  id,        \* the channel id holds the subscription id
  done,      \* the channel done: "none", "nil", "error"
  ctx,       \* the stream's context: "live" or "cancelled"
  update,    \* each update: "none", "sending" (past the check of the
             \* context), "queued", "handled", "over", "refused"
  late       \* history: the updates handled after the handle was dropped

goroutine == <<api, first, id, done>>
subVars == <<pumping, op, handle, result, goroutine, ctx, update, late>>

SubInit ==
  /\ pumping \in BOOLEAN
  /\ op = "none"
  /\ handle = "none"
  /\ result = "none"
  /\ api = "off"
  /\ first = FALSE
  /\ id = FALSE
  /\ done = "none"
  /\ ctx = "live"
  /\ update = [u \in Updates |-> "none"]
  /\ late = {}

-----------------------------------------------------------------------------
(* Subscribe.                                                              *)

Subscribe ==
  /\ op = "none" /\ api = "off"
  /\ op' = "subscribing"
  /\ api' = "running"
  /\ UNCHANGED <<pumping, handle, result, first, id, done, ctx, update, late>>

SelectId ==
  /\ op = "subscribing" /\ id
  /\ op' = "none"
  /\ handle' = "held"
  /\ result' = "ok"
  /\ id' = FALSE
  /\ UNCHANGED <<pumping, api, first, done, ctx, update, late>>

(* Mutants of SelectDone: the result is passed on as it is; a call that     *)
(* ended without an error is a failure like any other.                     *)
SelectDoneRaw ==
  /\ op = "subscribing" /\ done # "none"
  /\ ctx' = "cancelled"
  /\ result' = done
  /\ op' = IF done = "nil" THEN "dead" ELSE "none"
  /\ done' = "none"
  /\ UNCHANGED <<pumping, handle, api, first, id, update, late>>

SelectDoneLenient ==
  /\ op = "subscribing" /\ done # "none"
  /\ ctx' = "cancelled"
  /\ result' = "error"
  /\ op' = "none"
  /\ done' = "none"
  /\ UNCHANGED <<pumping, handle, api, first, id, update, late>>

SelectDone ==
  /\ op = "subscribing" /\ done # "none"
  /\ ctx' = "cancelled"
  /\ result' = IF done = "nil" THEN "panic" ELSE "error"
  /\ op' = IF done = "nil" THEN "dead" ELSE "none"
  /\ done' = "none"
  /\ UNCHANGED <<pumping, handle, api, first, id, update, late>>

-----------------------------------------------------------------------------
(* The goroutine.                                                          *)

(* Dapr subscribes to the store and sends the id; or fails.                *)
SendId ==
  /\ api = "running"
  /\ api' = "subscribed"
  /\ first' = TRUE
  /\ id' = TRUE
  /\ UNCHANGED <<pumping, op, handle, result, done, ctx, update, late>>

Fail ==
  /\ api = "running"
  /\ api' = "returned"
  /\ done' = "error"
  /\ UNCHANGED <<pumping, op, handle, result, first, id, ctx, update, late>>

(* Dapr's call lasts until its context is cancelled, or Dapr shuts down.   *)
End ==
  /\ api = "subscribed"
  /\ api' = "returned"
  /\ done' = "nil"
  /\ UNCHANGED <<pumping, op, handle, result, first, id, ctx, update, late>>

(* cancel() after the call.                                                *)
Leave ==
  /\ api = "returned"
  /\ api' = "gone"
  /\ ctx' = "cancelled"
  /\ UNCHANGED <<pumping, op, handle, result, first, id, done, update, late>>

-----------------------------------------------------------------------------
(* The updates.                                                            *)

Sending == {u \in Updates : update[u] \in {"sending", "queued", "handled"}}

(* Mutant of Send: the context is not looked at.                           *)
SendAnyway(u) ==
  /\ first
  /\ update[u] = "none" /\ Sending = {}
  /\ update' = [update EXCEPT ![u] = "sending"]
  /\ UNCHANGED <<pumping, op, handle, result, goroutine, ctx, late>>

(* Dapr's watcher of the store may outlive the call it was started by.     *)
Send(u) ==
  /\ first
  /\ update[u] = "none" /\ Sending = {}
  /\ update' = [update EXCEPT ![u] = IF ctx = "live" THEN "sending" ELSE "refused"]
  /\ UNCHANGED <<pumping, op, handle, result, goroutine, ctx, late>>

(* events.Deliver: into the queue, or not attached.                        *)
DeliverUpdate(u) ==
  /\ update[u] = "sending"
  /\ update' = [update EXCEPT ![u] = IF pumping THEN "queued" ELSE "over"]
  /\ UNCHANGED <<pumping, op, handle, result, goroutine, ctx, late>>

(* The pump calls on-configuration-event.                                  *)
Callback(u) ==
  /\ op = "none"
  /\ update[u] = "queued"
  /\ update' = [update EXCEPT ![u] = "handled"]
  /\ late' = IF handle = "dropped" THEN late \cup {u} ELSE late
  /\ UNCHANGED <<pumping, op, handle, result, goroutine, ctx>>

CallbackReturns(u) ==
  /\ op = "none"
  /\ update[u] = "handled"
  /\ update' = [update EXCEPT ![u] = "over"]
  /\ UNCHANGED <<pumping, op, handle, result, goroutine, ctx, late>>

-----------------------------------------------------------------------------
(* OnDrop: unsubscribe, then cancel, once.                                 *)

Drop ==
  /\ op = "none" /\ handle = "held"
  /\ handle' = "dropped"
  /\ op' = "unsubscribing"
  /\ UNCHANGED <<pumping, result, goroutine, ctx, update, late>>

(* Mutant of Dropped: the context is cancelled when unsubscribing succeeds.*)
DroppedWhenOk ==
  /\ op = "unsubscribing"
  /\ op' = "none"
  /\ ctx' \in {ctx, "cancelled"}
  /\ UNCHANGED <<pumping, handle, result, goroutine, update, late>>

(* Whether unsubscribing succeeded or failed.                              *)
Dropped ==
  /\ op = "unsubscribing"
  /\ op' = "none"
  /\ ctx' = "cancelled"
  /\ UNCHANGED <<pumping, handle, result, goroutine, update, late>>

-----------------------------------------------------------------------------
SubNext ==
  \/ Subscribe \/ SelectId \/ SelectDone
  \/ SendId \/ Fail \/ End \/ Leave
  \/ \E u \in Updates : Send(u) \/ DeliverUpdate(u) \/ Callback(u) \/ CallbackReturns(u)
  \/ Drop \/ Dropped

SubSpec == SubInit /\ [][SubNext]_subVars

(* The Go scheduler; Dapr answers the subscribe and the unsubscribe call,  *)
(* and its call returns once the context is cancelled.                     *)
SubFairSpec ==
  /\ SubSpec
  /\ WF_subVars(SelectId \/ SelectDone) /\ WF_subVars(SendId \/ Fail)
  /\ WF_subVars(ctx = "cancelled" /\ End) /\ WF_subVars(Leave) /\ WF_subVars(Dropped)

-----------------------------------------------------------------------------
SubTypeOK ==
  /\ pumping \in BOOLEAN /\ first \in BOOLEAN /\ id \in BOOLEAN
  /\ op \in {"none", "subscribing", "unsubscribing", "dead"}
  /\ handle \in {"none", "held", "dropped"}
  /\ result \in {"none", "ok", "error", "panic"}
  /\ api \in {"off", "running", "subscribed", "returned", "gone"}
  /\ done \in {"none", "nil", "error"}
  /\ ctx \in {"live", "cancelled"}
  /\ update \in [Updates -> {"none", "sending", "queued", "handled", "over", "refused"}]
  /\ late \subseteq Updates

(* The app is called back only for a subscription whose id it has been     *)
(* given, though Dapr may send the first update before Subscribe returns.  *)
UpdatesAreKnown == \A u \in Updates : update[u] = "handled" => result = "ok"

(* After the handle is dropped at most the one update that was on its way  *)
(* is handled, whether unsubscribing succeeded or failed.                  *)
OneLateUpdate == \A u, v \in late : u = v

(* A subscription that failed or was dropped leaves no goroutine behind.   *)
SubscriptionEnds ==
  (result = "error" \/ handle = "dropped") ~> (api = "gone" /\ ctx = "cancelled")

-----------------------------------------------------------------------------
(* What makes UpdatesAreKnown and OneLateUpdate inductive.                 *)

(* What is known of Dapr's call when the app's export has returned.        *)
Outcomes ==
  /\ api \in {"off", "running"} => ~first
  /\ id => first
  /\ done = "error" => ~first /\ api \in {"returned", "gone"}
  /\ result = "error" => ~first /\ api \in {"returned", "gone"}
  /\ op = "subscribing" => result = "none" /\ handle = "none" /\ api # "off"
  /\ op = "unsubscribing" => handle = "dropped"
  /\ result = "none" => api = "off" \/ op = "subscribing"
  /\ api = "off" => result = "none"
  /\ result = "panic" => op = "dead"
  /\ handle # "none" => result = "ok"
  /\ result = "ok" => first
  /\ api = "gone" => ctx = "cancelled"
  /\ \A u \in Updates : update[u] # "none" => first

(* Dapr sends one update at a time, and none into a cancelled context.     *)
OneAtATime == \A u, v \in Sending : u = v

LateIsTheLast ==
  /\ handle = "dropped" /\ op # "unsubscribing" => ctx = "cancelled"
  /\ late # {} => handle = "dropped" /\ op # "unsubscribing"
  /\ \A u \in late, v \in late \cup Sending : u = v

SubInv == SubTypeOK /\ UpdatesAreKnown /\ Outcomes /\ OneAtATime /\ LateIsTheLast

(* Nothing but its own guard holds back a step by which it ends.           *)
EndNotHeldBack ==
  /\ op = "unsubscribing" => ENABLED <<Dropped>>_subVars
  /\ api = "subscribed" /\ ctx = "cancelled" => ENABLED <<ctx = "cancelled" /\ End>>_subVars
  /\ api = "returned" => ENABLED <<Leave>>_subVars

SubStateInv == SubInv /\ EndNotHeldBack
=============================================================================
