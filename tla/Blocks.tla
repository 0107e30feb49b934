------------------------------- MODULE Blocks -------------------------------
(***************************************************************************)
(* The building blocks over the sidecar: the exports of the wasi providers *)
(* that act on one thing the sidecar keeps, a key of a state store or of an *)
(* actor, a job, a workflow instance, a reminder or a timer of an actor or *)
(* a secret, and those that give it something to pass on: an event, a      *)
(* request to an app, an actor or a binding, a workflow with no id.        *)
(*                                                                         *)
(* An instance of go-outbound calls the runtime it embeds: it does what one *)
(* over gRPC does of whose requests and answers none is lost, save that it *)
(* is told Dapr's error codes, as one over HTTP is.                        *)
(*                                                                         *)
(* What the sidecar keeps is Dapr's.  It carries a request out if the      *)
(* thing is in a state that permits it and, in a state store, if the etag  *)
(* of the request, if any, is the value's.  The etag of a value is the     *)
(* number of the write it came from.                                       *)
(***************************************************************************)
EXTENDS Sidecar, Sequences

CONSTANT MaxWrites  \* bound on the writes applied, for model checking

(* The exports that are called together.  A transaction has one operation, *)
(* an upsert; one on the state of an actor upserts or removes.  pause and  *)
(* resume of a workflow are as terminate: done in one state of the         *)
(* instance and refused in another.                                        *)
Exports == [
  state |-> {"get", "save", "delete"},
  bulkState |-> {"getBulk", "query", "transaction"},
  jobs |-> {"get", "schedule", "overwrite", "delete"},
  workflow |-> {"get", "start", "terminate", "raiseEvent", "purge"},
  actors |-> {"get", "register", "unregister"},
  timers |-> {"registerTimer", "unregisterTimer"},
  actorState |-> {"getState", "upsert", "remove"},
  secrets |-> {"getSecret", "getBulkSecret", "getConfiguration"},
  events |-> {"publish", "publishBulk", "startNew"},
  targets |-> {"invokeBinding", "invokeActor", "invoke"}]

Ops == UNION {Exports[b] : b \in DOMAIN Exports}

(* The exports that read one thing, that read, that remove, and whose      *)
(* requests Dapr passes on to a target that may fail half-way.             *)
Gets == {"get", "getState", "getSecret"}
Reads == Gets \cup {"getBulk", "query", "getBulkSecret", "getConfiguration"}
Removals == {"delete", "unregister", "unregisterTimer", "remove"}
PassedOn == {"publishBulk", "invokeBinding", "invokeActor", "invoke"}

Etags == 0..MaxWrites  \* 0 is no etag

Asks == [op : Ops, etag : Etags]

(* "204" over gRPC is an empty answer.  "unsupported" is an error code of  *)
(* Dapr's, "partial" the list of the events that failed; "unhosted" and    *)
(* "missing" are errors of Dapr's own (500, internal) whose text says that *)
(* the app does not host the actor, or that a store has no such secret.    *)
Statuses == {"200", "204", "400", "403", "404", "409", "429", "5xx",
             "unsupported", "partial", "unhosted", "missing"}

ASSUME BlocksAssumption ==
  /\ MaxWrites \in Nat
  /\ Requests = Asks
  /\ Answers = [status : Statuses, etag : Etags]

VARIABLES
  block,    \* the block the thing belongs to
  thing,    \* the thing: "absent", "there" or "ended"
  log,      \* the writes applied: the call each came from, and whether the
            \* thing was gone or ended after it
  known,    \* the etag the app got by its latest get
  given,    \* what the app asked for by its latest call
  outcome   \* what the instance's latest export returned

kept == <<block, thing, log>>
app == <<known, given, outcome>>
vars == <<net, kept, app>>

Things == {"absent", "there", "ended"}

Init ==
  /\ NetInit
  /\ block \in DOMAIN Exports
  /\ thing \in (IF block = "secrets" THEN {"absent", "there"} ELSE {"absent"})
  /\ log = <<>>
  /\ known = [c \in Callers |-> 0]
  /\ given = [c \in Callers |-> None]
  /\ outcome = [c \in Callers |-> "none"]

-----------------------------------------------------------------------------
(* Calls of the exports.                                                   *)

Ask(c, asked, r) ==
  /\ asked.op \in Exports[block]
  /\ Begin(c, r)
  /\ given' = [given EXCEPT ![c] = asked]
  /\ outcome' = [outcome EXCEPT ![c] = "none"]
  /\ UNCHANGED <<kept, known>>

Plain(op) == [op |-> op, etag |-> 0]

(* Mutant of WriteRequest: the etag is left out of the request.            *)
WriteRequestBare(op, etag) == Plain(op)

(* save, delete and the operations of a transaction send the etag, if the  *)
(* app gave one.                                                           *)
WriteRequest(op, etag) == [op |-> op, etag |-> etag]

CallWrite(c, op, etag) ==
  /\ block \in {"state", "bulkState"}
  /\ etag \in {0, known[c]}
  /\ Ask(c, [op |-> op, etag |-> etag], WriteRequest(op, etag))

(* The request of schedule: overwrite is sent only if it is true.          *)
ScheduleRequest(overwrite) == Plain(IF overwrite THEN "overwrite" ELSE "schedule")

CallSchedule(c, overwrite) ==
  Ask(c, Plain(IF overwrite THEN "overwrite" ELSE "schedule"),
      ScheduleRequest(overwrite))

(* The request of start: without an id the sidecar makes one up.           *)
StartRequest(hasId) == Plain(IF hasId THEN "start" ELSE "startNew")

CallStart(c, hasId) ==
  Ask(c, Plain(IF hasId THEN "start" ELSE "startNew"), StartRequest(hasId))

(* The other exports send what they are given.                             *)
CallPlain(c, op) ==
  /\ op \notin {"schedule", "overwrite", "start", "startNew"}
  /\ block \in {"state", "bulkState"} => op \in Reads
  /\ Ask(c, Plain(op), Plain(op))

Call(c) ==
  \/ \E op \in {"save", "delete", "transaction"}, etag \in Etags :
       CallWrite(c, op, etag)
  \/ \E overwrite \in BOOLEAN : CallSchedule(c, overwrite)
  \/ \E hasId \in BOOLEAN : CallStart(c, hasId)
  \/ \E op \in Ops : CallPlain(c, op)

-----------------------------------------------------------------------------
(* The sidecar.                                                            *)

(* The states of the thing in which op is carried out.                     *)
From(op) ==
  CASE op = "schedule" -> {"absent"}
    [] op = "start" -> {"absent", "ended"}
    [] op \in {"terminate", "raiseEvent"} -> {"there"}
    [] op = "purge" -> {"ended"}
    [] OTHER -> Things

(* The state it leaves the thing in.                                       *)
To(op) ==
  CASE op \in {"save", "transaction", "upsert", "schedule", "overwrite", "start",
              "register", "registerTimer"} -> "there"
    [] op \in Removals \cup {"purge"} -> "absent"
    [] op = "terminate" -> "ended"
    [] OTHER -> thing

Passes(r) ==
  /\ thing \in From(r.op)
  /\ r.etag # 0 => thing = "there" /\ r.etag = Len(log)

(* To remove what is absent writes nothing.                                *)
Writes(r) ==
  /\ Passes(r) /\ r.op \notin Reads
  /\ thing = "absent" => r.op \notin Removals

Apply(c, copy) ==
  /\ Len(log) < MaxWrites
  /\ IF Writes(copy.request)
     THEN /\ log' = Append(log, [by |-> c, call |-> copy.call,
                                ends |-> To(copy.request.op) \in {"absent", "ended"}])
          /\ thing' = To(copy.request.op)
     ELSE UNCHANGED <<log, thing>>
  /\ UNCHANGED block

(* What a get of an absent thing is answered: a state store says no        *)
(* content over HTTP, and has no word for it over gRPC; a secret store may *)
(* give nothing.                                                           *)
Absence(c) ==
  CASE block \in {"state", "actorState"} -> IF c \in Http THEN "204" ELSE "200"
    [] block = "secrets" -> "204"
    [] OTHER -> "404"

Status(c, r) ==
  CASE r.op \in Gets -> IF thing = "absent" THEN Absence(c) ELSE "200"
    [] Passes(r) -> "200"
    [] OTHER -> IF block = "workflow" /\ thing = "absent" THEN "404" ELSE "409"

Reply(c, r) ==
  [status |-> Status(c, r),
   etag |-> IF block \in {"state", "bulkState"} /\ r.op \in Reads /\ thing = "there"
            THEN Len(log) ELSE 0]

Grant(c) ==
  /\ phase[c] = "sent"
  /\ Serve(c, Reply(c, request[c]))
  /\ Apply(c, Copy(c))
  /\ UNCHANGED app

Refusals(r) ==
  {"400", "403", "429", "5xx"}
    \cup {s \in {"unsupported"} : r.op \in {"transaction", "publishBulk", "invokeBinding"}}
    \cup {s \in {"partial"} : r.op = "publishBulk"}
    \cup {s \in {"unhosted"} : r.op = "registerTimer"}
    \cup {s \in {"missing"} : r.op = "getSecret" /\ thing = "absent"}

Refuse(c) ==
  /\ phase[c] = "sent"
  /\ \E status \in Refusals(request[c]) : Serve(c, [status |-> status, etag |-> 0])
  /\ UNCHANGED <<kept, app>>

(* What was passed on has had its effect, or some of it, and failed.       *)
FailHalfWay(c) ==
  /\ phase[c] = "sent" /\ request[c].op \in PassedOn
  /\ \E status \in Refusals(request[c]) : Serve(c, [status |-> status, etag |-> 0])
  /\ Apply(c, Copy(c))
  /\ UNCHANGED app

GrantCut(c) ==
  /\ \E copy \in cut[c] : ServeCut(c, copy) /\ Apply(c, copy)
  /\ UNCHANGED app

(* A value expires, a job, a reminder or a timer has run for the last      *)
(* time, a workflow ends, a secret is removed.                             *)
Lapse ==
  /\ thing = "there"
  /\ Len(log) < MaxWrites
  /\ log' = Append(log, [by |-> None, call |-> 0, ends |-> TRUE])
  /\ thing' = IF block = "workflow" THEN "ended" ELSE "absent"
  /\ UNCHANGED <<net, block, app>>

-----------------------------------------------------------------------------
(* The exports return.                                                     *)

(* check_status: the statuses that trap over HTTP.                         *)
TrapsOverHttp == {"5xx"}

(* classify: those that trap over gRPC, exhaustion (429) among them.       *)
TrapsOverGrpc == {"429", "5xx"}

Traps(c) == IF c \in Http THEN TrapsOverHttp ELSE TrapsOverGrpc

Ends(c, ops, result) ==
  /\ phase[c] = "served" /\ request[c].op \in ops
  /\ Return(c, answer[c].status \in Traps(c))
  /\ outcome' = [outcome EXCEPT ![c] =
       IF answer[c].status \in Traps(c) THEN "panic" ELSE result]
  /\ UNCHANGED <<kept, given>>

(* An export that has nothing to make of an answer but success or refusal. *)
EndsAs(c, ops, refusal) ==
  /\ Ends(c, ops, IF answer[c].status \in {"200", "204"} THEN "ok" ELSE refusal)
  /\ UNCHANGED known

(* An export for which some answer, a success else, says what is not there. *)
EndsUnless(c, ops, absent, nothing, refusal) ==
  /\ Ends(c, ops, CASE absent -> nothing
                    [] ~absent /\ answer[c].status \in {"200", "204"} -> "ok"
                    [] OTHER -> refusal)
  /\ UNCHANGED known

(* state_error.                                                            *)
StateError(status) ==
  IF status = "403" THEN "permission-denied" ELSE "store-not-found"

(* query_error, and state_error for getBulk.                               *)
QueryError(op, status) ==
  IF op = "query" /\ status = "400" THEN "invalid-query" ELSE StateError(status)

(* getBulk and query, whose items have etags.                              *)
BulkReturns(c) ==
  /\ Ends(c, {"getBulk", "query"},
          IF answer[c].status = "200" THEN "ok"
          ELSE QueryError(request[c].op, answer[c].status))
  /\ known' = [known EXCEPT ![c] = answer[c].etag]

(* get, over HTTP.                                                         *)
GetReturns(c) ==
  /\ block = "state" /\ c \in Http
  /\ Ends(c, {"get"}, CASE answer[c].status = "200" -> "ok"
                        [] answer[c].status = "204" -> "key-not-found"
                        [] OTHER -> StateError(answer[c].status))
  /\ known' = [known EXCEPT ![c] = answer[c].etag]

(* get, over gRPC: an absent value is an empty one without an etag.        *)
GetReturnsOverGrpc(c) ==
  /\ block = "state" /\ c \notin Http
  /\ Ends(c, {"get"}, IF answer[c].status = "200" THEN "ok"
                      ELSE StateError(answer[c].status))
  /\ known' = [known EXCEPT ![c] = answer[c].etag]

(* Mutant of WriteError: a conflict of a repeated request is taken for the *)
(* success of the first.                                                   *)
WriteErrorTrusting(c) ==
  IF answer[c].status # "409" THEN StateError(answer[c].status)
  ELSE IF attempt[c] > 1 THEN "ok" ELSE "etag-mismatch"

(* write_error.                                                            *)
WriteError(c) ==
  IF answer[c].status = "409" THEN "etag-mismatch" ELSE StateError(answer[c].status)

(* save and delete.                                                        *)
WriteReturns(c) ==
  block = "state" /\ EndsAs(c, {"save", "delete"}, WriteError(c))

(* transaction_error.                                                      *)
TransactionError(c) ==
  CASE answer[c].status = "409" -> "etag-mismatch"
    [] answer[c].status = "unsupported" /\ c \in Http -> "not-transactional"
    [] OTHER -> StateError(answer[c].status)

(* execute_transaction.                                                    *)
TransactionReturns(c) == EndsAs(c, {"transaction"}, TransactionError(c))

(* schedule_error.                                                         *)
ScheduleError(status) ==
  CASE status = "409" -> "already-exists"
    [] status = "400" -> "invalid-schedule"
    [] OTHER -> "permission-denied"

ScheduleReturns(c) ==
  EndsAs(c, {"schedule", "overwrite"}, ScheduleError(answer[c].status))

(* get of jobs: jobs_error is always permission-denied.                    *)
GetJobReturns(c) ==
  /\ block = "jobs"
  /\ EndsAs(c, {"get"}, IF answer[c].status = "404" THEN "job-not-found"
                        ELSE "permission-denied")

(* delete of jobs.                                                         *)
DeleteJobReturns(c) ==
  block = "jobs" /\ EndsAs(c, {"delete"}, "permission-denied")

(* workflow_error.                                                         *)
WorkflowError(status) ==
  IF status = "403" THEN "permission-denied" ELSE "component-not-found"

(* start_error.                                                            *)
StartError(status) ==
  IF status = "409" THEN "instance-already-exists" ELSE WorkflowError(status)

StartReturns(c) ==
  EndsAs(c, {"start", "startNew"}, StartError(answer[c].status))

(* instance_error.                                                         *)
InstanceError(status) ==
  CASE status = "404" -> "not-found"
    [] status = "409" -> "invalid-state"
    [] OTHER -> WorkflowError(status)

InstanceReturns(c) ==
  EndsAs(c, {"terminate", "raiseEvent", "purge"}, InstanceError(answer[c].status))

(* get of workflows.                                                       *)
GetInstanceReturns(c) ==
  /\ block = "workflow"
  /\ EndsAs(c, {"get"}, IF answer[c].status = "404" THEN "not-found"
                        ELSE WorkflowError(answer[c].status))

(* The reminders of actors, whose only other error is permission-denied.   *)
ReminderReturns(c) ==
  /\ block = "actors"
  /\ EndsAs(c, Exports.actors,
            IF answer[c].status = "404" /\ request[c].op = "get"
            THEN "reminder-not-found" ELSE "permission-denied")

(* pubsub_error.                                                           *)
PubsubError(status) ==
  IF status = "403" THEN "permission-denied" ELSE "component-not-found"

PublishReturns(c) == EndsAs(c, {"publish"}, PubsubError(answer[c].status))

(* publish_bulk: the list of what failed is a result, not an error.        *)
PublishBulkReturns(c) ==
  EndsAs(c, {"publishBulk"},
         CASE answer[c].status = "partial" -> "partial"
           [] answer[c].status = "unsupported" /\ c \in Http -> "not-supported"
           [] OTHER -> PubsubError(answer[c].status))

(* bindings_error.                                                         *)
BindingsError(status) ==
  IF status = "403" THEN "permission-denied" ELSE "binding-not-found"

(* invoke_binding: that the operation is not supported is also told by the *)
(* message.                                                                *)
InvokeBindingReturns(c) ==
  EndsAs(c, {"invokeBinding"},
         IF answer[c].status = "unsupported" THEN "operation-not-supported"
         ELSE BindingsError(answer[c].status))

(* invoke of an app, over HTTP: any answer is the app's.                   *)
InvokeReturns(c) ==
  /\ c \in Http /\ phase[c] = "served" /\ request[c].op = "invoke"
  /\ Return(c, FALSE)
  /\ outcome' = [outcome EXCEPT ![c] =
       IF answer[c].status = "200" THEN "ok" ELSE "response"]
  /\ UNCHANGED <<kept, given, known>>

(* invoke_error: over gRPC an answer of the app's that is no success is an *)
(* error like any other.                                                   *)
InvokeReturnsOverGrpc(c) ==
  /\ c \notin Http
  /\ EndsAs(c, {"invoke"}, IF answer[c].status = "403" THEN "permission-denied"
                           ELSE "app-unreachable")

(* invoke_actor_error.                                                     *)
InvokeActorReturns(c) ==
  EndsAs(c, {"invokeActor"}, IF c \in Http THEN "actor-error" ELSE "permission-denied")

(* get_state of actors: over gRPC the key of an absent value is not known  *)
(* to be absent.                                                           *)
GetActorStateReturns(c) ==
  EndsUnless(c, {"getState"}, c \in Http /\ answer[c].status = "204",
             "key-not-found", "permission-denied")

(* execute_state_transaction and unregister_timer.                         *)
ActorsReturn(c) ==
  EndsAs(c, {"upsert", "remove", "unregisterTimer"}, "permission-denied")

(* register_timer: that the actor is not hosted is looked for before the   *)
(* status is.                                                              *)
RegisterTimerReturns(c) == EndsAs(c, {"registerTimer"}, "permission-denied")

(* get_secret: that the store has no such secret is looked for before the  *)
(* status is, and an empty answer is no secret.                            *)
GetSecretReturns(c) ==
  EndsUnless(c, {"getSecret"}, answer[c].status \in {"204", "missing"},
             "secret-not-found", StateError(answer[c].status))

(* get_bulk_secret and get of the configuration: secrets_error and         *)
(* configuration_error are as state_error.                                 *)
ReadsReturn(c) ==
  EndsAs(c, {"getBulkSecret", "getConfiguration"}, StateError(answer[c].status))

Returns(c) ==
  \/ GetReturns(c) \/ GetReturnsOverGrpc(c) \/ WriteReturns(c)
  \/ ScheduleReturns(c) \/ GetJobReturns(c) \/ DeleteJobReturns(c)
  \/ StartReturns(c) \/ InstanceReturns(c) \/ GetInstanceReturns(c)
  \/ ReminderReturns(c) \/ PublishReturns(c)
  \/ BulkReturns(c) \/ TransactionReturns(c)
  \/ PublishBulkReturns(c) \/ InvokeBindingReturns(c)
  \/ InvokeReturns(c) \/ InvokeReturnsOverGrpc(c) \/ InvokeActorReturns(c)
  \/ GetActorStateReturns(c) \/ ActorsReturn(c) \/ RegisterTimerReturns(c)
  \/ GetSecretReturns(c) \/ ReadsReturn(c)

-----------------------------------------------------------------------------
Retry(c) == NetStep(c) /\ UNCHANGED <<kept, app>>

Next ==
  \/ \E c \in Callers :
       \/ Call(c) \/ Retry(c) \/ Returns(c)
       \/ Grant(c) \/ Refuse(c) \/ FailHalfWay(c) \/ GrantCut(c)
  \/ Lapse

Spec == Init /\ [][Next]_vars

-----------------------------------------------------------------------------
(* The writes that the latest export of c has come to.                     *)
WrittenBy(c) == {i \in 1..Len(log) : log[i].by = c /\ log[i].call = calls[c]}

Errors == {
  "key-not-found", "etag-mismatch", "store-not-found", "permission-denied",
  "already-exists", "invalid-schedule", "job-not-found", "component-not-found",
  "instance-already-exists", "not-found", "invalid-state", "reminder-not-found",
  "not-transactional", "invalid-query", "not-supported", "secret-not-found",
  "binding-not-found", "operation-not-supported", "app-unreachable", "actor-error"}

TypeOK ==
  /\ NetTypeOK
  /\ block \in DOMAIN Exports
  /\ thing \in Things
  /\ log \in Seq([by : Callers \cup {None}, call : 0..MaxCalls, ends : BOOLEAN])
  /\ Len(log) <= MaxWrites
  /\ known \in [Callers -> Etags]
  /\ given \in [Callers -> Asks \cup {None}]
  /\ outcome \in [Callers -> Errors \cup {"none", "ok", "panic", "partial", "response"}]

(* A write the app made conditional on the value it had read is applied to *)
(* that value and to no other, at most once, however often it was sent.    *)
NoLostUpdate ==
  \A c \in Callers :
    given[c] # None /\ given[c].etag # 0 =>
      \A i \in WrittenBy(c) : i = given[c].etag + 1

(* A job that is scheduled without overwrite, or a workflow started with   *)
(* an id, is created again by one call only after it was gone or ended.    *)
CreatedOnce ==
  \A c \in Callers :
    given[c] # None /\ given[c].op \in {"schedule", "start"} =>
      \A i, j \in WrittenBy(c) :
        i < j => \E k \in (i + 1)..(j - 1) : log[k].ends

(* What an app asked to be done only on a condition is done on it alone.   *)
Conditional == NoLostUpdate /\ CreatedOnce

(* What the app is told is true: an export that changes something returns  *)
(* well only if it did; one refused without having been sent again has     *)
(* done nothing, unless it was passed on; etag-mismatch is returned only   *)
(* when the value is not, or no longer, the one the app had read; and an   *)
(* export does what it was asked no more often than it was sent, over gRPC *)
(* at most once.                                                           *)
OutcomeIsTrue ==
  \A c \in Callers :
    /\ outcome[c] = "ok" /\ given[c].op \notin Reads \cup Removals =>
         WrittenBy(c) # {}
    /\ outcome[c] \in Errors /\ attempt[c] = 1 /\ given[c].op \notin PassedOn =>
         WrittenBy(c) = {}
    /\ outcome[c] = "etag-mismatch" =>
         given[c].etag # 0 /\ ~(thing = "there" /\ Len(log) = given[c].etag)
    /\ Cardinality(WrittenBy(c)) <= attempt[c]
    /\ c \notin Http => Cardinality(WrittenBy(c)) <= 1

(* state.wit: "An etag check failed; nothing was written."                 *)
MismatchWroteNothing ==
  \A c \in Callers : outcome[c] = "etag-mismatch" => WrittenBy(c) = {}
-----------------------------------------------------------------------------
(* What makes Conditional and OutcomeIsTrue inductive.                     *)

Underway(c) == phase[c] \in {"sent", "served", "backoff"}

(* The copies of the latest request of c that may still be served.         *)
Out(c) == {copy \in cut[c] : copy.call = calls[c]}

(* What is on the wire is what the app asked for, or from an earlier call. *)
AsAsked(c) ==
  /\ calls[c] = 0 => phase[c] = "idle" /\ given[c] = None /\ attempt[c] = 0
  /\ calls[c] > 0 => /\ given[c] \in Asks /\ request[c] = given[c]
                     /\ given[c].op \in Exports[block]
                     /\ given[c].etag <= Len(log)
                     /\ attempt[c] \in 1..Attempts(c)
                     /\ phase[c] = "backoff" => attempt[c] < Attempts(c)
  /\ \A copy \in cut[c] : copy.call <= calls[c]
  /\ \A copy \in Out(c) : copy.request = given[c]
  /\ known[c] <= Len(log)

(* The log has no call that has not begun, and its latest write is why the *)
(* thing is in its state.                                                  *)
LogIsCurrent ==
  /\ \A i \in 1..Len(log), c \in Callers : log[i].by = c => log[i].call <= calls[c]
  /\ Len(log) > 0 => log[Len(log)].ends = (thing # "there")

(* What the writes of a call are, for what it asked.                       *)
WritesAsAsked(c) ==
  given[c] # None =>
    /\ given[c].op \in Reads => WrittenBy(c) = {}
    /\ given[c].op \in {"schedule", "start"} => \A i \in WrittenBy(c) : ~log[i].ends

(* Each attempt is under way, or cut off, or served, which writes once.    *)
Accounted(c) ==
  /\ IsFiniteSet(cut[c])
  /\ Cardinality(WrittenBy(c)) + Cardinality(Out(c))
       + (IF phase[c] = "sent" THEN 1 ELSE 0) <= attempt[c]
  /\ attempt[c] = 1 /\ phase[c] \in {"served", "idle"} => Out(c) = {}

(* The value that the app had read is not, or no longer, the present one.  *)
Overtaken(c) == given[c].etag # 0 /\ ~(thing = "there" /\ Len(log) = given[c].etag)

(* What an answer on its way back says is true.                            *)
AnswerIsTrue(c) ==
  phase[c] = "served" =>
    /\ answer[c] \in Answers
    /\ answer[c].etag <= Len(log)
    /\ answer[c].status \in {"200", "204"} /\ given[c].op \notin Reads \cup Removals =>
         WrittenBy(c) # {}
    /\ answer[c].status \notin {"200", "204"} /\ attempt[c] = 1
       /\ given[c].op \notin PassedOn => WrittenBy(c) = {}
    /\ answer[c].status = "409" /\ block \in {"state", "bulkState"} => Overtaken(c)

OutcomeOfTheIdle(c) ==
  /\ calls[c] = 0 \/ Underway(c) => outcome[c] = "none"
  /\ phase[c] = "dead" => outcome[c] \in {"none", "panic"}

Strength ==
  /\ LogIsCurrent
  /\ \A c \in Callers :
       AsAsked(c) /\ WritesAsAsked(c) /\ Accounted(c) /\ AnswerIsTrue(c) /\ OutcomeOfTheIdle(c)

IInv == TypeOK /\ Strength
=============================================================================
