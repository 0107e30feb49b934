----------------------------- MODULE LockProofs -----------------------------
(***************************************************************************)
(* Proofs about Lock, for any number of instances, attempts and exports:   *)
(* mutual exclusion, and what unlock tells its caller.                     *)
(***************************************************************************)
EXTENDS Lock, FiniteSetTheorems, TLAPS

USE SidecarAssumption, LockAssumption

LEMMA InitInv == Init => IInv
BY DEF Init, NetInit, IInv, TypeOK, NetTypeOK, MutualExclusion, UnlockMeansUnlocked,
       Strength, Underway, Counted, CopyOfTheDead, AnswerStands, OutcomeOfTheIdle,
       NotAcquiredIsOthers, StillWithout

LEMMA AttemptsInRange == \A c \in Callers : Attempts(c) \in 1..MaxAttempts
BY DEF Attempts

LEMMA NewCopy == ASSUME TypeOK, NEW c \in Callers, Underway(c), Counted(c)
                 PROVE  Copy(c) \in Copies
BY AttemptsInRange DEF TypeOK, NetTypeOK, Copy, Copies, Counted

(* Without late copies a request is cut off only from an instance at its   *)
(* only attempt.                                                           *)
LEMMA CutOfTheLast ==
  ASSUME IInv, NoLateCopies, NEW c \in Callers, SendFails(c)
  PROVE  \/ cut' = cut
         \/ /\ phase[c] = "sent" /\ attempt[c] = 1 /\ Attempts(c) = 1
            /\ cut' = [cut EXCEPT ![c] = @ \cup {Copy(c)}]
<1>1. CASE c \in Http
  <2>1. phase[c] \in {"sent", "served"} => cut[c] = {}
    BY DEF IInv, Strength, CopyOfTheDead
  <2>2. phase[c] \in {"sent", "served"} => Cardinality(cut[c]) = 0
    BY <2>1, FS_EmptySet
  <2>3. MaxCut[c] = 0
    BY <1>1 DEF NoLateCopies
  <2> QED
    BY <2>2, <2>3 DEF SendFails
<1>2. CASE c \notin Http
  <2>1. Attempts(c) = 1
    BY <1>2 DEF Attempts
  <2>2. phase[c] \in {"sent", "served"} => attempt[c] = 1
    BY <2>1 DEF IInv, Strength, Counted, Underway
  <2> QED
    BY <2>1, <2>2 DEF SendFails
<1> QED
  BY <1>1, <1>2

(* What the lock store does with a request, and what it says of it.        *)
Granted(c) ==
  \/ /\ request[c] = "try-lock" /\ holder = None
     /\ holder' = c /\ answer' = [answer EXCEPT ![c] = "success"]
  \/ /\ request[c] = "try-lock" /\ holder # None
     /\ holder' = holder /\ answer' = [answer EXCEPT ![c] = "held"]
  \/ /\ request[c] = "unlock" /\ holder = c
     /\ holder' = None /\ answer' = [answer EXCEPT ![c] = "success"]
  \/ /\ request[c] = "unlock" /\ holder = None
     /\ holder' = None /\ answer' = [answer EXCEPT ![c] = "does-not-exist"]
  \/ /\ request[c] = "unlock" /\ holder # c
     /\ holder' = holder /\ answer' = [answer EXCEPT ![c] = "belongs-to-others"]

LEMMA GrantCases == ASSUME NEW c \in Callers, Counted(c), Grant(c) PROVE Granted(c)
<1>1. request[c] \in {"try-lock", "unlock"}
  BY DEF Grant, Serve, Counted, Underway
<1>2. CASE request[c] = "try-lock"
  <2>1. Reply(c, request[c]) = IF holder = None THEN "success" ELSE "held"
    BY <1>2 DEF Reply
  <2>2. holder' = IF holder = None THEN c ELSE holder
    BY <1>2 DEF Grant, Effect
  <2> QED
    BY <1>2, <2>1, <2>2 DEF Grant, Serve, Granted
<1>3. CASE request[c] = "unlock"
  <2>1. Reply(c, request[c]) = IF holder = c THEN "success"
                               ELSE IF holder = None THEN "does-not-exist"
                               ELSE "belongs-to-others"
    BY <1>3 DEF Reply
  <2>2. holder' = IF holder = c THEN None ELSE holder
    BY <1>3 DEF Grant, Effect
  <2> QED
    BY <1>3, <2>1, <2>2 DEF Grant, Serve, Granted
<1> QED
  BY <1>1, <1>2, <1>3

LEMMA StepTypeOK == ASSUME IInv, [Next]_vars PROVE TypeOK'
<1> USE DEF TypeOK, NetTypeOK, net, vars
<1>0. TypeOK /\ Strength
  BY DEF IInv
<1>1. ASSUME NEW c \in Callers, NEW r \in Requests, Call(c, r) PROVE TypeOK'
  BY <1>0, <1>1 DEF Call, Begin
<1>2. ASSUME NEW c \in Callers, Retry(c) PROVE TypeOK'
  <2>1. CASE SendFails(c)
    <3>1. phase[c] \in {"sent", "served"} /\ Counted(c)
      BY <1>0, <2>1 DEF SendFails, Strength
    <3>2. Copy(c) \in Copies
      BY <1>0, <3>1, NewCopy DEF Underway
    <3>3. cut' \in [Callers -> SUBSET Copies]
      BY <1>0, <2>1, <3>2 DEF SendFails
    <3> QED
      BY <1>0, <1>2, <2>1, <3>3 DEF Retry, SendFails
  <2>2. CASE Resend(c)
    <3>1. attempt[c] + 1 \in 0..MaxAttempts
      BY <1>0, <2>2, AttemptsInRange DEF Resend, Strength, Counted, Underway
    <3> QED
      BY <1>0, <1>2, <2>2, <3>1 DEF Retry, Resend
  <2>3. CASE BodyFails(c)
    BY <1>0, <1>2, <2>3 DEF Retry, BodyFails
  <2> QED
    BY <1>2, <2>1, <2>2, <2>3 DEF Retry, NetStep
<1>3. ASSUME NEW c \in Callers, Grant(c) PROVE TypeOK'
  <2>1. Granted(c)
    BY <1>0, <1>3, GrantCases DEF Strength
  <2>2. holder' \in Callers \cup {None} /\ answer' \in [Callers -> Answers \cup {None}]
    BY <1>0, <2>1 DEF Granted
  <2> QED
    BY <1>0, <1>3, <2>2 DEF Grant, Serve
<1>4. ASSUME NEW c \in Callers, Refuse(c) PROVE TypeOK'
  BY <1>0, <1>4 DEF Refuse, Serve
<1>5. ASSUME NEW c \in Callers, TryLockReturns(c) PROVE TypeOK'
  BY <1>0, <1>5 DEF TryLockReturns, Return
<1>6. ASSUME NEW c \in Callers, UnlockReturns(c) PROVE TypeOK'
  BY <1>0, <1>6 DEF UnlockReturns, Return
<1>7. ASSUME NEW c \in Callers, GrantCut(c) PROVE TypeOK'
  BY <1>0, <1>7 DEF GrantCut, ServeCut, Effect
<1>8. CASE Expire
  BY <1>0, <1>8 DEF Expire
<1>9. CASE UNCHANGED vars
  BY <1>0, <1>9
<1> QED
  BY <1>1, <1>2, <1>3, <1>4, <1>5, <1>6, <1>7, <1>8, <1>9 DEF Next, Step

LEMMA StepInv == ASSUME IInv, NoLateCopies, [Next]_vars PROVE IInv'
<1> DEFINE Rest == /\ MutualExclusion /\ UnlockMeansUnlocked /\ NotAcquiredIsOthers
                   /\ Strength
<1>0. TypeOK /\ Rest /\ TypeOK'
  BY StepTypeOK DEF IInv
<1> USE DEF TypeOK, NetTypeOK, MutualExclusion, UnlockMeansUnlocked, Strength,
            Underway, Counted, CopyOfTheDead, AnswerStands, OutcomeOfTheIdle,
            NotAcquiredIsOthers, StillWithout
<1> SUFFICES Rest'
  BY <1>0 DEF IInv
<1>1. ASSUME NEW c \in Callers, NEW r \in Requests, Call(c, r) PROVE Rest'
  <2>1. \A d \in Callers : holds'[d] => holds[d] /\ (d = c => r # "unlock")
    <3>1. /\ holds \in [Callers -> BOOLEAN]
          /\ holds' = [holds EXCEPT ![c] = @ /\ r # "unlock"]
      BY <1>0, <1>1 DEF Call
    <3> QED
      BY <3>1, Zenon
  <2>2. \A d \in Callers : d # c => holds'[d] = holds[d] /\ lapsed'[d] = lapsed[d]
    BY <1>0, <1>1 DEF Call
  <2>3. /\ phase' = [phase EXCEPT ![c] = "sent"] /\ phase[c] = "idle"
        /\ request' = [request EXCEPT ![c] = r] /\ attempt' = [attempt EXCEPT ![c] = 1]
        /\ calls' = [calls EXCEPT ![c] = @ + 1] /\ calls[c] < MaxCalls
        /\ outcome' = [outcome EXCEPT ![c] = "none"]
        /\ UNCHANGED <<answer, cut, holder>>
    BY <1>1 DEF Call, Begin
  <2>4. MutualExclusion' /\ UnlockMeansUnlocked'
    BY <1>0, <2>1, <2>3
  <2>5. \A d \in Callers : holds'[d] => request'[d] = "try-lock"
    BY <1>0, <2>1, <2>3
  <2>6. \A d \in Callers : Counted(d)'
    BY <1>0, <2>3, AttemptsInRange
  <2>7. \A d \in Callers : CopyOfTheDead(d)'
    BY <1>0, <2>2, <2>3
  <2>8. \A d \in Callers : AnswerStands(d)' /\ OutcomeOfTheIdle(d)'
    BY <1>0, <2>2, <2>3
  <2>9. /\ \A d \in Callers : d # c => had'[d] = had[d]
        /\ ~had'[c] => holder # c
    <3>1. had \in [Callers -> BOOLEAN] /\ had' = [had EXCEPT ![c] = holder = c]
      BY <1>0, <1>1 DEF Call
    <3> QED
      BY <3>1, Zenon
  <2>10. NotAcquiredIsOthers' /\ \A d \in Callers : StillWithout(d)'
    BY <1>0, <2>3, <2>9
  <2> QED
    BY <2>4, <2>5, <2>6, <2>7, <2>8, <2>10
<1>2. ASSUME NEW c \in Callers, Retry(c) PROVE Rest'
  <2>1. CASE SendFails(c)
    <3>1. \/ cut' = cut
          \/ /\ phase[c] = "sent" /\ attempt[c] = 1 /\ Attempts(c) = 1
             /\ cut' = [cut EXCEPT ![c] = @ \cup {Copy(c)}]
      BY <2>1, CutOfTheLast
    <3>2. CASE cut' = cut
      BY <1>0, <1>2, <2>1, <3>2 DEF Retry, SendFails
    <3>3. CASE /\ phase[c] = "sent" /\ attempt[c] = 1 /\ Attempts(c) = 1
               /\ cut' = [cut EXCEPT ![c] = @ \cup {Copy(c)}]
      <4>1. phase' = [phase EXCEPT ![c] = "dead"]
        BY <2>1, <3>3 DEF SendFails
      <4>2. cut'[c] = {Copy(c)} /\ Copy(c).request = request[c]
        BY <1>0, <3>3 DEF Copy
      <4> QED
        BY <1>0, <1>2, <2>1, <3>3, <4>1, <4>2 DEF Retry, SendFails
    <3> QED
      BY <3>1, <3>2, <3>3
  <2>2. CASE Resend(c)
    BY <1>0, <1>2, <2>2, AttemptsInRange DEF Retry, Resend
  <2>3. CASE BodyFails(c)
    BY <1>0, <1>2, <2>3 DEF Retry, BodyFails
  <2> QED
    BY <1>2, <2>1, <2>2, <2>3 DEF Retry, NetStep
<1>3. ASSUME NEW c \in Callers, Grant(c) PROVE Rest'
  <2>1. Granted(c)
    BY <1>0, <1>3, GrantCases
  <2> QED
    BY <1>0, <1>3, <2>1 DEF Grant, Serve, Granted
<1>4. ASSUME NEW c \in Callers, Refuse(c) PROVE Rest'
  BY <1>0, <1>4 DEF Refuse, Serve
<1>5. ASSUME NEW c \in Callers, TryLockReturns(c) PROVE Rest'
  BY <1>0, <1>5 DEF TryLockReturns, Return
<1>6. ASSUME NEW c \in Callers, UnlockReturns(c) PROVE Rest'
  BY <1>0, <1>6 DEF UnlockReturns, Return
<1>7. ASSUME NEW c \in Callers, GrantCut(c) PROVE Rest'
  BY <1>0, <1>7 DEF GrantCut, ServeCut, Effect
<1>8. CASE Expire
  <2>1. holder \in Callers /\ holder' = None /\ UNCHANGED <<net, outcome>>
    BY <1>0, <1>8 DEF Expire
  <2>2. \A d \in Callers : holds'[d] => holds[d] /\ d # holder
    BY <1>0, <1>8, <2>1 DEF Expire
  <2>3. \A d \in Callers : ~lapsed'[d] => ~lapsed[d] /\ d # holder
    BY <1>0, <1>8, <2>1 DEF Expire
  <2>4. MutualExclusion' /\ UnlockMeansUnlocked'
    BY <1>0, <2>1, <2>2
  <2>5. \A d \in Callers : AnswerStands(d)'
    BY <1>0, <2>1, <2>3 DEF net
  <2> QED
    BY <1>0, <2>1, <2>2, <2>4, <2>5 DEF net
<1>9. CASE UNCHANGED vars
  BY <1>0, <1>9 DEF vars, net
<1> QED
  BY <1>1, <1>2, <1>3, <1>4, <1>5, <1>6, <1>7, <1>8, <1>9 DEF Next, Step

(* The invariant holds in every behaviour, for any instances, attempts and *)
(* exports, if no copy of a request is served behind its caller's back.    *)
THEOREM LockInvariant == ASSUME NoLateCopies PROVE Spec => []IInv
<1>1. NoLateCopies /\ IInv /\ [Next]_vars => IInv'
  BY StepInv
<1>2. Init => IInv
  BY InitInv
<1>3. IInv /\ [Next]_vars => IInv'
  BY <1>1
<1> QED
  BY <1>2, <1>3, PTL DEF Spec

(* Whoever was told that it has the lock has it, until it unlocks or the   *)
(* lock expires, however often its requests and answers are lost and       *)
(* repeated.                                                               *)
THEOREM LockMutualExclusion == ASSUME NoLateCopies PROVE Spec => []MutualExclusion
<1>1. IInv => MutualExclusion
  BY DEF IInv
<1> QED
  BY <1>1, LockInvariant, PTL

(* What unlock returns of a lock that is gone is true.                     *)
THEOREM LockUnlockMeansUnlocked == ASSUME NoLateCopies PROVE Spec => []UnlockMeansUnlocked
<1>1. IInv => UnlockMeansUnlocked
  BY DEF IInv
<1> QED
  BY <1>1, LockInvariant, PTL

(* After a single attempt not-acquired is what lock.wit says it is: the    *)
(* caller does not have the lock, unless it had it before it asked.        *)
THEOREM LockNotAcquiredIsOthers == ASSUME NoLateCopies PROVE Spec => []NotAcquiredIsOthers
<1>1. IInv => NotAcquiredIsOthers
  BY DEF IInv
<1> QED
  BY <1>1, LockInvariant, PTL

-----------------------------------------------------------------------------
(* Exports end.                                                            *)

(* All that this needs of the state, late copies or not.                   *)
Numbered ==
  /\ phase \in [Callers -> {"idle", "sent", "served", "backoff", "dead"}]
  /\ attempt \in [Callers -> Nat]
  /\ \A c \in Callers : Underway(c) =>
       attempt[c] \in 1..Attempts(c) /\ (phase[c] = "backoff" => attempt[c] < Attempts(c))

Sent(c, k) == phase[c] = "sent" /\ attempt[c] = k
Served(c, k) == phase[c] = "served" /\ attempt[c] = k
Asleep(c, k) == phase[c] = "backoff" /\ attempt[c] = k
Attempting(c, k) == Sent(c, k) \/ Served(c, k) \/ Asleep(c, k)
Over(c) == phase[c] \in {"idle", "dead"}

(* A caller's own steps, and that nothing else moves it out of a call.     *)
LEMMA StepOfCaller ==
  ASSUME Numbered, NEW c \in Callers, Step(c)
  PROVE  /\ \/ Retry(c) /\ SendFails(c)
            \/ phase[c] = "backoff" /\ phase' = [phase EXCEPT ![c] = "sent"]
                 /\ attempt' = [attempt EXCEPT ![c] = @ + 1]
            \/ phase[c] = "served" /\ attempt' = attempt
                 /\ \E p \in {"idle", "dead"} : phase' = [phase EXCEPT ![c] = p]
            \/ phase[c] = "sent" /\ attempt' = attempt
                 /\ phase' = [phase EXCEPT ![c] = "served"]
BY DEF Step, Retry, NetStep, Resend, BodyFails, Grant, Refuse, Serve, TryLockReturns,
   UnlockReturns, Return

LEMMA StepOfNobody ==
  ASSUME \/ \E c \in Callers : GrantCut(c)
         \/ Expire \/ UNCHANGED vars
  PROVE  UNCHANGED <<phase, attempt>>
BY DEF GrantCut, ServeCut, Expire, vars, net

LEMMA InitNumbered == Init => Numbered
BY DEF Init, NetInit, Numbered, Underway

LEMMA NumberedKeeps == Numbered /\ [Next]_vars => Numbered'
<1> SUFFICES ASSUME Numbered, [Next]_vars PROVE Numbered'
  OBVIOUS
<1> USE DEF Numbered, Underway
<1>1. ASSUME NEW c \in Callers, NEW r \in Requests, Call(c, r) PROVE Numbered'
  BY <1>1 DEF Call, Begin, Attempts
<1>2. ASSUME NEW c \in Callers, Step(c) PROVE Numbered'
  <2>1. CASE Retry(c) /\ SendFails(c)
    BY <2>1 DEF SendFails
  <2>2. CASE phase[c] = "backoff" /\ phase' = [phase EXCEPT ![c] = "sent"]
               /\ attempt' = [attempt EXCEPT ![c] = @ + 1]
    <3>1. attempt[c] + 1 \in 1..Attempts(c)
      BY <2>2 DEF Attempts
    <3> QED
      BY <2>2, <3>1
  <2>3. CASE phase[c] = "served" /\ attempt' = attempt
               /\ \E p \in {"idle", "dead"} : phase' = [phase EXCEPT ![c] = p]
    BY <2>3
  <2>4. CASE phase[c] = "sent" /\ attempt' = attempt
               /\ phase' = [phase EXCEPT ![c] = "served"]
    BY <2>4
  <2> QED
    BY <1>2, <2>1, <2>2, <2>3, <2>4, StepOfCaller
<1>3. CASE \/ \E c \in Callers : GrantCut(c)
           \/ Expire \/ UNCHANGED vars
  BY <1>3, StepOfNobody
<1> QED
  BY <1>1, <1>2, <1>3 DEF Next

(* What its own step makes of an attempt, and what any step does.          *)
LEMMA AttemptGoesOn ==
  ASSUME Numbered, NEW c \in Callers, NEW k \in Nat, Step(c)
  PROVE  /\ Sent(c, k) => Served(c, k)' \/ Asleep(c, k)' \/ Over(c)'
         /\ Served(c, k) => Asleep(c, k)' \/ Over(c)'
         /\ Asleep(c, k) => Sent(c, k + 1)'
<1> USE DEF Numbered, Sent, Served, Asleep, Over
<1>1. CASE Retry(c) /\ SendFails(c)
  BY <1>1 DEF SendFails
<1>2. CASE ~(Retry(c) /\ SendFails(c))
  BY <1>2, StepOfCaller
<1> QED
  BY <1>1, <1>2

LEMMA AttemptStays ==
  ASSUME Numbered, [Next]_vars, NEW c \in Callers, NEW k \in Nat
  PROVE  /\ Sent(c, k) => Sent(c, k)' \/ Served(c, k)' \/ Asleep(c, k)' \/ Over(c)'
         /\ Served(c, k) => Served(c, k)' \/ Asleep(c, k)' \/ Over(c)'
         /\ Asleep(c, k) => Asleep(c, k)' \/ Sent(c, k + 1)'
<1>1. CASE Step(c)
  BY <1>1, AttemptGoesOn
<1>2. ASSUME NEW d \in Callers, d # c, Step(d)
      PROVE  phase'[c] = phase[c] /\ attempt'[c] = attempt[c]
  <2>1. CASE Retry(d) /\ SendFails(d)
    BY <1>2, <2>1 DEF SendFails, Numbered
  <2>2. CASE ~(Retry(d) /\ SendFails(d))
    BY <1>2, <2>2, StepOfCaller DEF Numbered
  <2> QED
    BY <2>1, <2>2
<1>3. ASSUME NEW d \in Callers, NEW r \in Requests, Call(d, r)
      PROVE  phase[c] = "idle" \/ (phase'[c] = phase[c] /\ attempt'[c] = attempt[c])
  BY <1>3 DEF Call, Begin, Numbered
<1>4. CASE \/ \E d \in Callers : GrantCut(d)
           \/ Expire \/ UNCHANGED vars
  BY <1>4, StepOfNobody DEF Sent, Served, Asleep
<1> QED
  BY <1>1, <1>2, <1>3, <1>4 DEF Next, Sent, Served, Asleep

(* In a fair behaviour an attempt leads to the next one, or to the end.    *)
FairAndFree == FairSpec /\ []StepsNotHeldBack
LeadsOn(c, k, next) == Attempting(c, k) ~> Attempting(c, next) \/ Over(c)

LEMMA AttemptLeadsOn ==
  ASSUME NEW c \in Callers, NEW k \in Nat, NEW next \in Nat, next = k + 1
  PROVE  FairAndFree => LeadsOn(c, k, next)
<1>1. FairSpec => Spec /\ Fairness(c)
  BY DEF FairSpec
<1>2. Spec => []Numbered
  BY InitNumbered, NumberedKeeps, PTL DEF Spec
<1>3. Numbered /\ [Next]_vars =>
        /\ Sent(c, k) => Sent(c, k)' \/ Served(c, k)' \/ Asleep(c, k)' \/ Over(c)'
        /\ Served(c, k) => Served(c, k)' \/ Asleep(c, k)' \/ Over(c)'
        /\ Asleep(c, k) => Asleep(c, k)' \/ Sent(c, next)'
  BY AttemptStays
<1>4. Numbered /\ <<Step(c)>>_vars =>
        /\ Sent(c, k) => Served(c, k)' \/ Asleep(c, k)' \/ Over(c)'
        /\ Served(c, k) => Asleep(c, k)' \/ Over(c)'
        /\ Asleep(c, k) => Sent(c, next)'
  BY AttemptGoesOn
<1>5. StepsNotHeldBack /\ Attempting(c, k) => ENABLED <<Step(c)>>_vars
  BY DEF StepsNotHeldBack, Attempting, Sent, Served, Asleep, Underway
<1> QED
  BY <1>1, <1>2, <1>3, <1>4, <1>5, PTL DEF FairAndFree, Spec, Fairness, LeadsOn, Attempting

(* Every export returns or panics, of any callers, however their requests  *)
(* and answers are lost and copies of them served late: with the four      *)
(* attempts of sidecar.rs, and provided the steps of StepsNotHeldBack can  *)
(* be taken.                                                               *)
THEOREM LockCallsEnd ==
  ASSUME MaxAttempts = 4
  PROVE  FairSpec /\ []StepsNotHeldBack => CallsEnd
<1> SUFFICES ASSUME NEW c \in Callers PROVE FairAndFree => EndOfCalls(c)
  BY DEF FairAndFree, CallsEnd
<1>1. FairAndFree => /\ LeadsOn(c, 1, 2) /\ LeadsOn(c, 2, 3)
                     /\ LeadsOn(c, 3, 4) /\ LeadsOn(c, 4, 5)
  BY AttemptLeadsOn
<1>2. FairAndFree => []Numbered
  <2>1. FairSpec => Spec
    BY DEF FairSpec
  <2> QED
    BY <2>1, InitNumbered, NumberedKeeps, PTL DEF FairAndFree, Spec
<1>3. Numbered => ~Attempting(c, 5)
  BY DEF Numbered, Attempting, Sent, Served, Asleep, Underway, Attempts
<1>4. Numbered /\ phase[c] \in {"sent", "served", "backoff"} =>
        Attempting(c, 1) \/ Attempting(c, 2) \/ Attempting(c, 3) \/ Attempting(c, 4)
  <2> SUFFICES ASSUME Numbered, Underway(c)
               PROVE  Attempting(c, 1) \/ Attempting(c, 2) \/ Attempting(c, 3) \/ Attempting(c, 4)
    BY DEF Underway
  <2>1. attempt[c] \in 1..4
    BY DEF Numbered, Attempts
  <2>2. attempt[c] = 1 \/ attempt[c] = 2 \/ attempt[c] = 3 \/ attempt[c] = 4
    BY <2>1
  <2> QED
    BY <2>2 DEF Underway, Attempting, Sent, Served, Asleep
<1>5. Over(c) <=> phase[c] \in {"idle", "dead"}
  BY DEF Over
<1> QED
  BY <1>1, <1>2, <1>3, <1>4, <1>5, PTL DEF LeadsOn, EndOfCalls
=============================================================================
