------------------------------ MODULE Delivery ------------------------------
(***************************************************************************)
(* What events.Deliver promises the goroutines of the Dapr runtime,        *)
(* without ids, queue or pump: a caller asks, the app runs one callback    *)
(* for it, one callback at a time, and the caller hears that callback's    *)
(* answer.  Before an app is attached a call is refused.                   *)
(***************************************************************************)
CONSTANTS Callers, Event, Answer, NoEvent, NoAnswer, NotAttached

VARIABLES
  open,    \* an app is attached
  phase,   \* [Callers -> {"out", "asked", "running", "answered"}]
  ask,     \* the event of each caller's latest call
  result   \* its answer, once there is one

vars == <<open, phase, ask, result>>

Init ==
  /\ open = FALSE
  /\ phase = [g \in Callers |-> "out"]
  /\ ask = [g \in Callers |-> NoEvent]
  /\ result = [g \in Callers |-> NoAnswer]

Attach == ~open /\ open' = TRUE /\ UNCHANGED <<phase, ask, result>>

Refuse(g) ==
  /\ ~open
  /\ phase[g] = "out"
  /\ result' = [result EXCEPT ![g] = NotAttached]
  /\ UNCHANGED <<open, phase, ask>>

Ask(g, e) ==
  /\ open
  /\ phase[g] = "out"
  /\ phase' = [phase EXCEPT ![g] = "asked"]
  /\ ask' = [ask EXCEPT ![g] = e]
  /\ result' = [result EXCEPT ![g] = NoAnswer]
  /\ UNCHANGED open

Run(g) ==
  /\ phase[g] = "asked"
  /\ \A h \in Callers : phase[h] # "running"
  /\ phase' = [phase EXCEPT ![g] = "running"]
  /\ UNCHANGED <<open, ask, result>>

(* The answer is of the event's own case.                                  *)
Reply(g, a) ==
  /\ phase[g] = "running"
  /\ a.kind = ask[g].kind
  /\ phase' = [phase EXCEPT ![g] = "answered"]
  /\ result' = [result EXCEPT ![g] = a]
  /\ UNCHANGED <<open, ask>>

Hear(g) ==
  /\ phase[g] = "answered"
  /\ phase' = [phase EXCEPT ![g] = "out"]
  /\ UNCHANGED <<open, ask, result>>

Next ==
  \/ Attach
  \/ \E g \in Callers :
       \/ Refuse(g) \/ Run(g) \/ Hear(g)
       \/ \E e \in Event : Ask(g, e)
       \/ \E a \in Answer : Reply(g, a)

Spec == Init /\ [][Next]_vars

(* Every call gets its turn, its callback ends and the caller hears of it. *)
FairSpec ==
  /\ Spec
  /\ \A g \in Callers :
       /\ SF_vars(Run(g))
       /\ WF_vars(\E a \in Answer : Reply(g, a))
       /\ WF_vars(Hear(g))
=============================================================================
