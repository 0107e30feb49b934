-------------------------------- MODULE Lock --------------------------------
(***************************************************************************)
(* The distributed lock over the sidecar: try_lock and unlock of the       *)
(* providers (lock.rs), on one resource, with the instance as lock owner.  *)
(*                                                                         *)
(* The lock store is Dapr's.  It grants a free resource, refuses a held    *)
(* one, also to the holder, and lets the holder alone release it; the lock *)
(* expires.                                                                *)
(***************************************************************************)
EXTENDS Sidecar

ASSUME LockAssumption ==
  /\ Requests = {"try-lock", "unlock"}
  /\ Answers = {"success", "held", "does-not-exist", "belongs-to-others",
                "internal", "4xx", "5xx"}

VARIABLES
  holder,   \* the lock store: the owner of the lock, or None
  outcome,  \* what the instance's latest export returned
  holds,    \* history: the app has the lock, as far as it was told
  lapsed,   \* history: it has expired since the latest export began
  had       \* history: its owner had it when the latest export began

vars == <<net, holder, outcome, holds, lapsed, had>>

Init ==
  /\ NetInit
  /\ holder = None
  /\ outcome = [c \in Callers |-> "none"]
  /\ holds = [c \in Callers |-> FALSE]
  /\ lapsed = [c \in Callers |-> FALSE]
  /\ had = [c \in Callers |-> FALSE]

(* From the call of unlock on the app does not rely on the lock any more.  *)
(* It counts the expiry of a lock from its call of try-lock.               *)
Call(c, r) ==
  /\ Begin(c, r)
  /\ outcome' = [outcome EXCEPT ![c] = "none"]
  /\ holds' = [holds EXCEPT ![c] = @ /\ r # "unlock"]
  /\ lapsed' = [lapsed EXCEPT ![c] = FALSE]
  /\ had' = [had EXCEPT ![c] = holder = c]
  /\ UNCHANGED holder

-----------------------------------------------------------------------------
(* The lock store.                                                         *)

Reply(c, r) ==
  CASE r = "try-lock" -> IF holder = None THEN "success" ELSE "held"
    [] r = "unlock" -> IF holder = c THEN "success"
                       ELSE IF holder = None THEN "does-not-exist"
                       ELSE "belongs-to-others"

Effect(c, r) ==
  holder' = CASE r = "try-lock" /\ holder = None -> c
              [] r = "unlock" /\ holder = c -> None
              [] OTHER -> holder

Grant(c) ==
  /\ Serve(c, Reply(c, request[c]))
  /\ Effect(c, request[c])
  /\ UNCHANGED <<outcome, holds, lapsed, had>>

(* No such store, no permission, or an error of the store's own.           *)
Refuse(c) ==
  /\ \/ \E a \in {"4xx", "5xx"} : Serve(c, a)
     \/ request[c] = "unlock" /\ Serve(c, "internal")
  /\ UNCHANGED <<holder, outcome, holds, lapsed, had>>

GrantCut(c) ==
  /\ \E copy \in cut[c] : ServeCut(c, copy) /\ Effect(c, copy.request)
  /\ UNCHANGED <<outcome, holds, lapsed, had>>

Expire ==
  /\ holder # None
  /\ holder' = None
  /\ holds' = [holds EXCEPT ![holder] = FALSE]
  /\ lapsed' = [lapsed EXCEPT ![holder] = TRUE]
  /\ UNCHANGED <<net, outcome, had>>

-----------------------------------------------------------------------------
(* The exports return.                                                     *)

(* Mutant of TryLockReturns: a refused repetition is taken for the lock    *)
(* that the first attempt got.                                             *)
TryLockTrustsRetry(c) ==
  /\ request[c] = "try-lock"
  /\ Return(c, answer[c] = "5xx")
  /\ LET got == answer[c] = "success" \/ (answer[c] = "held" /\ attempt[c] > 1)
     IN /\ holds' = [holds EXCEPT ![c] = @ \/ (got /\ ~lapsed[c])]
        /\ outcome' = [outcome EXCEPT ![c] =
             CASE got -> "ok"
               [] answer[c] = "held" /\ ~got -> "not-acquired"
               [] answer[c] = "4xx" -> "lock-error"
               [] OTHER -> "panic"]
  /\ UNCHANGED <<holder, lapsed, had>>

TryLockReturns(c) ==
  /\ request[c] = "try-lock"
  /\ Return(c, answer[c] = "5xx")
  /\ holds' = [holds EXCEPT ![c] = @ \/ (answer[c] = "success" /\ ~lapsed[c])]
  /\ outcome' = [outcome EXCEPT ![c] =
       CASE answer[c] = "success" -> "ok"
         [] answer[c] = "held" -> "not-acquired"
         [] answer[c] = "4xx" -> "lock-error"
         [] OTHER -> "panic"]
  /\ UNCHANGED <<holder, lapsed, had>>

(* Mutants of UnlockReturns: any other status is returned as released; a   *)
(* lock of another owner as no lock.                                       *)
UnlockAnyStatus(c) ==
  /\ request[c] = "unlock"
  /\ Return(c, answer[c] = "5xx")
  /\ outcome' = [outcome EXCEPT ![c] =
       CASE answer[c] = "does-not-exist" -> "lock-does-not-exist"
         [] answer[c] = "belongs-to-others" -> "lock-belongs-to-others"
         [] answer[c] = "4xx" -> "lock-error"
         [] answer[c] = "5xx" -> "panic"
         [] OTHER -> "released"]
  /\ UNCHANGED <<holder, holds, lapsed, had>>

UnlockReturns(c) ==
  /\ request[c] = "unlock"
  /\ Return(c, answer[c] \in {"5xx", "internal"})
  /\ outcome' = [outcome EXCEPT ![c] =
       CASE answer[c] = "success" -> "released"
         [] answer[c] = "does-not-exist" -> "lock-does-not-exist"
         [] answer[c] = "belongs-to-others" -> "lock-belongs-to-others"
         [] answer[c] = "4xx" -> "lock-error"
         [] OTHER -> "panic"]
  /\ UNCHANGED <<holder, holds, lapsed, had>>

-----------------------------------------------------------------------------
Retry(c) == NetStep(c) /\ UNCHANGED <<holder, outcome, holds, lapsed, had>>

Step(c) == Retry(c) \/ Grant(c) \/ Refuse(c) \/ TryLockReturns(c) \/ UnlockReturns(c)

Next ==
  \/ \E c \in Callers : Step(c) \/ GrantCut(c) \/ \E r \in Requests : Call(c, r)
  \/ Expire

Spec == Init /\ [][Next]_vars

(* wstd's block_on polls the request until it is answered or fails, which  *)
(* the host and the sidecar see to; the sleep ends.                        *)
Fairness(c) == WF_vars(Step(c))

FairSpec == Spec /\ \A c \in Callers : Fairness(c)

-----------------------------------------------------------------------------
TypeOK ==
  /\ NetTypeOK
  /\ holder \in Callers \cup {None}
  /\ outcome \in [Callers -> {"none", "ok", "not-acquired", "released",
                              "lock-does-not-exist", "lock-belongs-to-others",
                              "lock-error", "panic"}]
  /\ holds \in [Callers -> BOOLEAN]
  /\ lapsed \in [Callers -> BOOLEAN]
  /\ had \in [Callers -> BOOLEAN]

(* Whoever was told that it has the lock has it, until it unlocks or the   *)
(* lock expires, however often its requests and its answers were lost and  *)
(* repeated: no two apps have it at once.                                  *)
MutualExclusion == \A c \in Callers : holds[c] => holder = c

(* unlock returns well, or returns that there is no lock or that it is     *)
(* another's, only when the caller's lock is gone.                         *)
UnlockMeansUnlocked ==
  \A c \in Callers :
    outcome[c] \in {"released", "lock-does-not-exist", "lock-belongs-to-others"}
      => holder # c

(* lock.wit: "not-acquired: The lock is currently held by someone else".   *)
(* After a single attempt the caller does not have it, unless it had it    *)
(* before it asked.  After more it may: an attempt whose answer was lost   *)
(* has got it.                                                             *)
NotAcquiredIsOthers ==
  \A c \in Callers :
    outcome[c] = "not-acquired" /\ attempt[c] = 1 /\ ~had[c] => holder # c

(* Every export returns or panics: the attempts run out.                   *)
EndOfCalls(c) == phase[c] \in {"sent", "served", "backoff"} ~> phase[c] \in {"idle", "dead"}

CallsEnd == \A c \in Callers : EndOfCalls(c)

-----------------------------------------------------------------------------
(* What the proofs need beside these.  Who sends a request again has no    *)
(* copy of it served behind its back.                                      *)
NoLateCopies == \A c \in Http : MaxCut[c] = 0

Underway(c) == phase[c] \in {"sent", "served", "backoff"}

Counted(c) ==
  Underway(c) => /\ request[c] \in Requests
                 /\ attempt[c] \in 1..Attempts(c)
                 /\ calls[c] \in 1..MaxCalls
                 /\ phase[c] = "backoff" => attempt[c] < Attempts(c)

(* A copy that is still out is the last request of an instance that is     *)
(* gone, which did not hold the lock if that request was to release it.    *)
CopyOfTheDead(c) ==
  cut[c] # {} => /\ phase[c] = "dead"
                 /\ \A copy \in cut[c] : copy.request = "unlock" => ~holds[c]

(* An answer on its way back is still true.                                *)
AnswerStands(c) ==
  /\ phase[c] = "served" /\ request[c] = "try-lock" /\ answer[c] = "success" /\ ~lapsed[c]
       => holder = c
  /\ phase[c] = "served" /\ request[c] = "unlock"
     /\ answer[c] \in {"success", "does-not-exist", "belongs-to-others"}
       => holder # c

OutcomeOfTheIdle(c) ==
  /\ Underway(c) => outcome[c] = "none"
  /\ phase[c] = "dead" => outcome[c] \in {"none", "panic"}

(* A try-lock sent once, under way or refused, finds its caller without    *)
(* the lock if it began without.                                           *)
StillWithout(c) ==
  attempt[c] = 1 /\ ~had[c] =>
    /\ phase[c] = "sent" => holder # c
    /\ phase[c] = "served" /\ answer[c] = "held" => holder # c

Strength ==
  \A c \in Callers :
    /\ holds[c] => request[c] = "try-lock"
    /\ Counted(c)
    /\ CopyOfTheDead(c)
    /\ AnswerStands(c)
    /\ OutcomeOfTheIdle(c)
    /\ StillWithout(c)

(* The inductive invariant, if NoLateCopies.                               *)
IInv ==
  /\ TypeOK /\ MutualExclusion /\ UnlockMeansUnlocked /\ NotAcquiredIsOthers
  /\ Strength

(* An export never waits for another caller: however its request fares,    *)
(* the next step is its own, the sidecar's or the network's.               *)
StepsNotHeldBack == \A c \in Callers : Underway(c) => ENABLED <<Step(c)>>_vars

StateInv == IInv /\ StepsNotHeldBack
=============================================================================
