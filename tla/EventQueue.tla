----------------------------- MODULE EventQueue -----------------------------
(***************************************************************************)
(* The delivery path of the go provider family: the event queue of         *)
(* go-outbound (internal/events), the goroutines of the embedded Dapr      *)
(* runtime that call Deliver, and the go-inbound pump that pulls events,   *)
(* runs the app's callback and hands the answer back.                      *)
(*                                                                         *)
(* Everything shares one thread.  Goroutines run only while an export of   *)
(* go-outbound is on the stack (GoRuns): inside attach, next-event and     *)
(* complete-event, and inside a building block called by the app.  A panic *)
(* of any of them ends the composition ("trapped").                        *)
(***************************************************************************)
EXTENDS Naturals, Sequences

CONSTANTS
  Callers,        \* goroutines of the Dapr runtime that call Deliver
  Kinds,          \* cases of the event variant (and of event-result)
  Bodies,         \* payloads of events and of answers
  Targets,        \* what the building-block calls of a callback reach
  Resiliency,     \* TRUE: Dapr gives up a call after a timeout policy
  QueueCap,       \* capacity of the queue channel
  MaxDeliveries,  \* bound on nextID, for model checking
  NoOne, NoEvent, NoAnswer, NotAttached   \* distinguished values

Event  == [kind : Kinds, body : Bodies]
Answer == [kind : Kinds, body : Bodies]

(* "store": a call that needs no delivery.  "self": invocation.invoke of   *)
(* the app's own id.  "actor": actors.invoke of an actor this app hosts.   *)
(* "cycle": an invocation of a peer that invokes this app.                 *)
TargetKinds == {"store", "self", "actor", "cycle"}
NeedsDelivery == {"actor", "cycle"}

ASSUME ConstantsAssumption ==
  /\ QueueCap \in Nat \ {0}
  /\ MaxDeliveries \in Nat
  /\ Targets \subseteq TargetKinds
  /\ Resiliency \in BOOLEAN
  /\ NoOne \notin Callers /\ NoEvent \notin Event
  /\ NoAnswer \notin Answer /\ NotAttached \notin Answer
  /\ NoAnswer # NotAttached

VARIABLES
  attached,  \* events.attached
  nextID,    \* events.nextID
  inflight,  \* keys of events.inflight
  queue,     \* contents of the channel events.queue
  pend,      \* pend[id]: the pending of delivery id (event, done channel)
  pc,        \* where each goroutine is inside Deliver
  mine,      \* mine[g]: the id of g's latest delivery, 0 before the first
  got,       \* got[g]: what g's latest Deliver returned, NoAnswer meanwhile
  pump,      \* where the pump is
  cur,       \* the id the pump holds
  seen,      \* the event next-event returned for it
  answer,    \* the app's answer to it
  callee,    \* goroutine whose delivery the app's current call waits for
  log        \* history: callbacks run, <<[id, event, answer], ...>>

events == <<attached, nextID, inflight, queue, pend>>
dapr   == <<pc, mine, got>>
app    == <<pump, cur, seen, answer, callee, log>>
vars   == <<events, dapr, app>>

PumpStates == {"absent", "detached", "next", "lookup", "callback",
               "calling", "complete", "send", "trapped"}

Init ==
  /\ attached = FALSE
  /\ nextID = 0
  /\ inflight = {}
  /\ queue = <<>>
  /\ pend = <<>>
  /\ pc = [g \in Callers |-> "idle"]
  /\ mine = [g \in Callers |-> 0]
  /\ got = [g \in Callers |-> NoAnswer]
  /\ pump \in {"detached", "absent"}   \* composed with go-inbound, or not
  /\ cur = 0
  /\ seen = NoEvent
  /\ answer = NoAnswer
  /\ callee = NoOne
  /\ log = <<>>

-----------------------------------------------------------------------------
(* The goroutines: Deliver.                                                *)

GoRuns == pump \in {"absent", "next", "lookup", "calling", "complete", "send"}

(* Under mu: take an id, make the pending, enter it in inflight.           *)
Enter(g, e) ==
  /\ attached
  /\ pc[g] = "idle"
  /\ nextID < MaxDeliveries
  /\ nextID' = nextID + 1
  /\ pend' = Append(pend, [event |-> e, done |-> NoAnswer])
  /\ inflight' = inflight \cup {nextID'}
  /\ mine' = [mine EXCEPT ![g] = nextID']
  /\ got' = [got EXCEPT ![g] = NoAnswer]
  /\ pc' = [pc EXCEPT ![g] = "enqueue"]
  /\ UNCHANGED <<attached, queue>>

(* A delivery Dapr starts on its own: a message, a due job, a health probe *)
Register(g, e) ==
  /\ GoRuns
  /\ g # callee
  /\ Enter(g, e)
  /\ UNCHANGED app

Refuse(g) ==
  /\ GoRuns
  /\ pc[g] = "idle"
  /\ ~attached
  /\ got' = [got EXCEPT ![g] = NotAttached]
  /\ UNCHANGED <<events, pc, mine, app>>

(* Mutant of Enqueue: a send that does not block, and drops the id when    *)
(* the channel is full.                                                    *)
EnqueueOrDrop(g) ==
  /\ GoRuns
  /\ pc[g] = "enqueue"
  /\ queue' = IF Len(queue) < QueueCap THEN Append(queue, mine[g]) ELSE queue
  /\ pc' = [pc EXCEPT ![g] = "wait"]
  /\ UNCHANGED <<attached, nextID, inflight, pend, mine, got, app>>

(* queue <- id, outside mu: blocks while the channel is full.              *)
Enqueue(g) ==
  /\ GoRuns
  /\ pc[g] = "enqueue"
  /\ Len(queue) < QueueCap
  /\ queue' = Append(queue, mine[g])
  /\ pc' = [pc EXCEPT ![g] = "wait"]
  /\ UNCHANGED <<attached, nextID, inflight, pend, mine, got, app>>

(* <-p.done                                                                *)
Return(g) ==
  /\ GoRuns
  /\ pc[g] = "wait"
  /\ pend[mine[g]].done # NoAnswer
  /\ got' = [got EXCEPT ![g] = pend[mine[g]].done]
  /\ pc' = [pc EXCEPT ![g] = "idle"]
  /\ UNCHANGED <<events, mine, app>>

-----------------------------------------------------------------------------
(* The pump: run() of go-inbound over the events exports.                  *)

Attach ==
  /\ pump = "detached"
  /\ attached' = TRUE
  /\ pump' = "next"
  /\ UNCHANGED <<nextID, inflight, queue, pend, dapr, cur, seen, answer,
                 callee, log>>

(* Next: the receive; the lookup under mu is a step of its own.            *)
Receive ==
  /\ pump = "next"
  /\ queue # <<>>
  /\ cur' = Head(queue)
  /\ queue' = Tail(queue)
  /\ pump' = "lookup"
  /\ UNCHANGED <<attached, nextID, inflight, pend, dapr, seen, answer,
                 callee, log>>

(* Next: the one-second timer of an idle wait.                             *)
WakeUp == pump = "next" /\ UNCHANGED vars

(* A missing entry is a nil pending: reading its event traps.              *)
Lookup ==
  /\ pump = "lookup"
  /\ IF cur \in inflight
     THEN seen' = pend[cur].event /\ pump' = "callback"
     ELSE pump' = "trapped" /\ UNCHANGED seen
  /\ UNCHANGED <<events, dapr, cur, answer, callee, log>>

(* dispatch: the app answers with any body; the case is the event's.       *)
AppAnswers ==
  /\ pump = "callback"
  /\ \E b \in Bodies : answer' = [kind |-> seen.kind, body |-> b]
  /\ log' = Append(log, [id |-> cur, event |-> seen, answer |-> answer'])
  /\ pump' = "complete"
  /\ UNCHANGED <<events, dapr, cur, seen, callee>>

(* Complete, under mu: take the pending out of inflight.                   *)
Take ==
  /\ pump = "complete"
  /\ inflight' = inflight \ {cur}
  /\ pump' = IF cur \in inflight /\ pend[cur].event.kind = answer.kind
             THEN "send" ELSE "trapped"
  /\ UNCHANGED <<attached, nextID, queue, pend, dapr, cur, seen, answer,
                 callee, log>>

(* Mutant of Send: the result goes to the newest delivery.                 *)
SendToNewest ==
  /\ pump = "send"
  /\ pend[nextID].done = NoAnswer
  /\ pend' = [pend EXCEPT ![nextID].done = answer]
  /\ pump' = "next"
  /\ UNCHANGED <<attached, nextID, inflight, queue, dapr, cur, seen, answer,
                 callee, log>>

(* p.done <- r: the channel holds one result.                              *)
Send ==
  /\ pump = "send"
  /\ pend[cur].done = NoAnswer
  /\ pend' = [pend EXCEPT ![cur].done = answer]
  /\ pump' = "next"
  /\ UNCHANGED <<attached, nextID, inflight, queue, dapr, cur, seen, answer,
                 callee, log>>

-----------------------------------------------------------------------------
(* The building-block calls a callback makes.                              *)

(* A call that Dapr answers without the app.                               *)
CallStore ==
  /\ pump = "callback"
  /\ "store" \in Targets
  /\ pump' = "calling"
  /\ UNCHANGED <<events, dapr, cur, seen, answer, callee, log>>

(* Invoke: events.Attached() && IsSelf(appID) returns app-unreachable      *)
(* without entering Dapr.                                                  *)
CallSelf ==
  /\ pump = "callback"
  /\ "self" \in Targets
  /\ attached
  /\ UNCHANGED vars

(* A call Dapr serves by delivering an event to this app: some goroutine g *)
(* enters Deliver and the call waits for it.                               *)
CallBack(g, e) ==
  /\ pump = "callback"
  /\ Targets \cap NeedsDelivery # {}
  /\ Enter(g, e)
  /\ pump' = "calling"
  /\ callee' = g
  /\ UNCHANGED <<cur, seen, answer, log>>

(* Mutant of CallReturns: the call ends the callback that has made it.     *)
CallReturnsToPump ==
  /\ pump = "calling"
  /\ \A g \in Callers : g = callee => pc[g] = "idle"
  /\ pump' = "next"
  /\ callee' = NoOne
  /\ UNCHANGED <<events, dapr, cur, seen, answer, log>>

(* The building block returns to the app: at once, or when the delivery it *)
(* waits for has returned.                                                 *)
CallReturns ==
  /\ pump = "calling"
  /\ \A g \in Callers : g = callee => pc[g] = "idle"
  /\ pump' = "callback"
  /\ callee' = NoOne
  /\ UNCHANGED <<events, dapr, cur, seen, answer, log>>

(* Mutant of GiveUp: a Deliver that takes its context out of the map and   *)
(* leaves the id in the queue.                                             *)
GiveUpForgetting ==
  /\ Resiliency
  /\ pump = "calling"
  /\ \E g \in Callers : g = callee /\ pc[g] # "idle"
                       /\ inflight' = inflight \ {mine[g]}
  /\ pump' = "callback"
  /\ callee' = NoOne
  /\ UNCHANGED <<attached, nextID, queue, pend, dapr, cur, seen, answer, log>>

(* A resiliency timeout fails the call; the goroutine inside Deliver stays *)
(* there, since Deliver takes no context.                                  *)
GiveUp ==
  /\ Resiliency
  /\ pump = "calling"
  /\ \E g \in Callers : g = callee /\ pc[g] # "idle"
  /\ pump' = "callback"
  /\ callee' = NoOne
  /\ UNCHANGED <<events, dapr, cur, seen, answer, log>>

-----------------------------------------------------------------------------
PumpStep == Receive \/ Lookup \/ Take \/ Send

Next ==
  \/ \E g \in Callers, e \in Event : Register(g, e) \/ CallBack(g, e)
  \/ \E g \in Callers : Refuse(g) \/ Enqueue(g) \/ Return(g)
  \/ Attach \/ WakeUp \/ PumpStep
  \/ AppAnswers \/ CallStore \/ CallSelf \/ CallReturns \/ GiveUp

Spec == Init /\ [][Next]_vars

(* The pump's loop and the host that runs it never stop.  The Go scheduler *)
(* runs every runnable goroutine again and again while an export is on the *)
(* stack (a FIFO run queue, FIFO senders of a channel): strong fairness,   *)
(* since it pauses during callbacks.  A callback makes finitely many calls *)
(* and then answers.  Dapr's timeouts fire.                                *)
Runs(g) == SF_vars(Enqueue(g)) /\ SF_vars(Return(g))
GoroutinesRun == \A g \in Callers : Runs(g)

Fairness ==
  /\ WF_vars(Attach) /\ WF_vars(PumpStep) /\ GoroutinesRun
  /\ SF_vars(AppAnswers) /\ WF_vars(CallReturns) /\ WF_vars(GiveUp)

FairSpec == Spec /\ Fairness

-----------------------------------------------------------------------------
TypeOK ==
  /\ attached \in BOOLEAN
  /\ nextID \in Nat
  /\ inflight \subseteq 1..nextID
  /\ queue \in Seq(1..nextID)
  /\ pend \in Seq([event : Event, done : Answer \cup {NoAnswer}])
  /\ Len(pend) = nextID
  /\ pc \in [Callers -> {"idle", "enqueue", "wait"}]
  /\ mine \in [Callers -> 0..nextID]
  /\ got \in [Callers -> Answer \cup {NoAnswer, NotAttached}]
  /\ pump \in PumpStates
  /\ cur \in 0..nextID
  /\ seen \in Event \cup {NoEvent}
  /\ answer \in Answer \cup {NoAnswer}
  /\ callee \in Callers \cup {NoOne}
  /\ log \in Seq([id : 1..nextID, event : Event, answer : Answer])

(* The panics of Complete ("unknown event id", "result case does not match *)
(* event case") and the nil pending of Next are never reached, whatever    *)
(* the goroutines do between the pump's steps.                             *)
NeverTraps == pump # "trapped"

(* A Deliver that has returned was refused because nothing is attached, or *)
(* returned what the app answered in the callback that its own event ran.  *)
OwnAnswer ==
  \A g \in Callers : pc[g] = "idle" /\ got[g] \in Answer =>
    \E n \in 1..Len(log) :
      log[n] = [id |-> mine[g], event |-> pend[mine[g]].event, answer |-> got[g]]

(* No delivery runs two callbacks: not across the queue, the lookup and    *)
(* the completion, nor after the caller of a delivery was given up.        *)
OneCallback == \A m, n \in 1..Len(log) : log[m].id = log[n].id => m = n

(* Nothing is lost or kept: a delivery is in the inflight map exactly from *)
(* the moment its goroutine entered until the pump takes its result, and   *)
(* the channel never holds more than its capacity.                         *)
InflightExact ==
  /\ \A i \in 1..nextID : i \in inflight <=>
       /\ pend[i].done = NoAnswer
       /\ ~(pump = "send" /\ cur = i)
  /\ \A i \in inflight : \E g \in Callers : mine[g] = i /\ pc[g] # "idle"
  /\ Len(queue) <= QueueCap

(* The inductive invariant behind the four invariants above: who holds     *)
(* which id.  Every delivery belongs to one goroutine and is at one place  *)
(* of its way through the queue, the pump and back.                        *)
Holding == pump \in {"lookup", "callback", "calling", "complete", "send"}
InQueue(i) == \E n \in 1..Len(queue) : queue[n] = i
Logged(i) == \E n \in 1..Len(log) : log[n].id = i

AttachedFirst ==
  /\ attached <=> pump \notin {"absent", "detached"}
  /\ ~attached => nextID = 0

OwnIds ==
  /\ \A g \in Callers : pc[g] # "idle" => mine[g] # 0
  /\ \A g, h \in Callers : mine[g] = mine[h] => g = h \/ mine[g] = 0

AwaitedInQueue ==
  /\ \A n \in 1..Len(queue) :
       /\ queue[n] \in inflight
       /\ \E g \in Callers : mine[g] = queue[n] /\ pc[g] = "wait"
  /\ \A m, n \in 1..Len(queue) : queue[m] = queue[n] => m = n
  /\ \A g \in Callers : pc[g] = "enqueue" =>
       /\ mine[g] \in inflight
       /\ ~InQueue(mine[g])
       /\ ~(Holding /\ cur = mine[g])
       /\ ~Logged(mine[g])
  /\ \A n \in 1..Len(queue) : ~Logged(queue[n])

HeldByPump ==
  Holding =>
    /\ cur # 0
    /\ ~InQueue(cur)
    /\ pend[cur].done = NoAnswer
    /\ cur \in inflight <=> pump # "send"
    /\ \E g \in Callers : mine[g] = cur /\ pc[g] = "wait"
    /\ pump # "lookup" => seen = pend[cur].event
    /\ Logged(cur) <=> pump \in {"complete", "send"}

AnswerOfCallback ==
  /\ pump \in {"complete", "send"} =>
       /\ answer \in Answer
       /\ answer.kind = seen.kind
       /\ \A n \in 1..Len(log) : log[n].id = cur => log[n].answer = answer
  /\ \A n \in 1..Len(log) : log[n].event = pend[log[n].id].event
  /\ \A i \in 1..nextID : pend[i].done # NoAnswer =>
       \E n \in 1..Len(log) : log[n].id = i /\ log[n].answer = pend[i].done
  /\ \A g \in Callers : pc[g] = "idle" /\ got[g] \in Answer =>
       mine[g] # 0 /\ pend[mine[g]].done = got[g]

IInv ==
  /\ TypeOK
  /\ NeverTraps
  /\ AttachedFirst
  /\ OwnIds
  /\ AwaitedInQueue
  /\ HeldByPump
  /\ AnswerOfCallback
  /\ OneCallback
  /\ InflightExact

(* The queue keeps the promise of Delivery: each phase of a call is read   *)
(* off its pending, its goroutine and the pump.                            *)
Waiting(g) == pc[g] # "idle"
Held(g) == Waiting(g) /\ cur = mine[g]

PhaseOf(g) ==
  CASE ~Waiting(g) -> "out"
    [] Held(g) /\ pump \in {"callback", "calling"} -> "running"
    [] Held(g) /\ pump \in {"complete", "send"} -> "answered"
    [] Waiting(g) /\ pend[mine[g]].done # NoAnswer -> "answered"
    [] OTHER -> "asked"

ResultOf(g) ==
  CASE PhaseOf(g) = "out" -> got[g]
    [] PhaseOf(g) = "answered" ->
         IF Held(g) /\ pump \in {"complete", "send"} THEN answer
         ELSE pend[mine[g]].done
    [] OTHER -> NoAnswer

AskOf(g) == IF mine[g] = 0 THEN NoEvent ELSE pend[mine[g]].event

Promise == INSTANCE Delivery WITH
  open   <- attached,
  phase  <- [g \in Callers |-> PhaseOf(g)],
  ask    <- [g \in Callers |-> AskOf(g)],
  result <- [g \in Callers |-> ResultOf(g)]

ImplementsDelivery == Promise!Spec
ImplementsFairDelivery == Promise!FairSpec

(* The steps that are fair can be taken as soon as they have something to  *)
(* do: nothing else that the queue is in keeps one back.                   *)
CalleeWaits == \E g \in Callers : g = callee /\ pc[g] # "idle"

StepsNotHeldBack ==
  /\ pump \in {"lookup", "complete", "send"} => ENABLED <<PumpStep>>_vars
  /\ pump = "next" /\ queue # <<>> => ENABLED <<PumpStep>>_vars
  /\ pump = "callback" => ENABLED <<AppAnswers>>_vars
  /\ pump = "calling" /\ ~CalleeWaits => ENABLED <<CallReturns>>_vars
  /\ pump = "calling" /\ CalleeWaits /\ Resiliency => ENABLED <<GiveUp>>_vars
  /\ \A g \in Callers : GoRuns =>
       /\ pc[g] = "enqueue" /\ Len(queue) < QueueCap => ENABLED <<Enqueue(g)>>_vars
       /\ pc[g] = "wait" /\ pend[mine[g]].done # NoAnswer => ENABLED <<Return(g)>>_vars

(* go.wit: "go-outbound is not on the stack, so the app may freely call    *)
(* the building blocks": such a call comes back to the callback.           *)
CallsComeBack == []StepsNotHeldBack /\ (pump = "calling" ~> pump = "callback")
=============================================================================
