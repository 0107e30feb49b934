---------------------------- MODULE UploadProofs ----------------------------
(***************************************************************************)
(* Proofs about Upload, for any length of the input and any buffer.        *)
(***************************************************************************)
EXTENDS Upload, TLAPS

USE UploadAssumption DEF UploadAssumption

(* The smaller of two numbers, as Puts takes it.                           *)
LEMMA MinOfTwo == ASSUME NEW a \in Nat, NEW b \in Nat
                  PROVE  Min({a, b}) \in Nat /\ Min({a, b}) <= a /\ Min({a, b}) <= b
<1>1. \E x \in {a, b} : \A y \in {a, b} : x <= y
  <2>1. CASE a <= b
    BY <2>1
  <2>2. CASE b <= a
    BY <2>2
  <2> QED
    BY <2>1, <2>2
<1>2. Min({a, b}) \in {a, b} /\ \A y \in {a, b} : Min({a, b}) <= y
  BY <1>1 DEF Min
<1> QED
  BY <1>2

-----------------------------------------------------------------------------
(* The inductive invariant holds at first, and every action keeps it.      *)

LEMMA InitInv == Init => IInv
<1> SUFFICES ASSUME Init PROVE IInv
  OBVIOUS
<1>1. TypeOK
  <2>1. ended \in BOOLEAN /\ broken \in BOOLEAN /\ taken \in BOOLEAN /\ failed \in BOOLEAN
    BY Zenon DEF Init
  <2>2. 0 \in 0..MaxBytes /\ 0 \in 0..Buffer
    OBVIOUS
  <2> QED
    BY <2>1, <2>2 DEF Init, TypeOK
<1>2. WholeBody /\ OutcomeIsTheSidecars
  BY DEF Init, WholeBody, OutcomeIsTheSidecars
<1>3. Stages /\ Answers /\ Balance
  BY DEF Init, Stages, Answers, Balance
<1> QED
  BY <1>1, <1>2, <1>3 DEF IInv

LEMMA StartKeeps == ASSUME IInv, Start PROVE IInv'
<1> USE DEF Start, Idle, host
<1>1. TypeOK'
  BY DEF IInv, TypeOK, Stages, Balance
<1>2. WholeBody'
  BY DEF IInv, TypeOK, WholeBody, Stages, Answers, Balance
<1>3. OutcomeIsTheSidecars'
  BY DEF IInv, TypeOK, OutcomeIsTheSidecars, Stages, Answers
<1>4. Stages'
  BY DEF IInv, TypeOK, Stages, Answers, OutcomeIsTheSidecars
<1>5. Answers'
  BY DEF IInv, TypeOK, Stages, Answers, OutcomeIsTheSidecars, WholeBody
<1>6. Balance'
  BY DEF IInv, TypeOK, Stages, Answers, Balance
<1> QED
  BY <1>1, <1>2, <1>3, <1>4, <1>5, <1>6 DEF IInv

LEMMA WriteKeeps == ASSUME IInv, NEW n \in 0..MaxBytes, Write(n) PROVE IInv'
<1> USE DEF Write, Idle, host
<1>1. TypeOK'
  BY DEF IInv, TypeOK, Stages, Balance
<1>2. WholeBody'
  BY DEF IInv, TypeOK, WholeBody, Stages, Answers, Balance
<1>3. OutcomeIsTheSidecars'
  BY DEF IInv, TypeOK, OutcomeIsTheSidecars, Stages, Answers
<1>4. Stages'
  BY DEF IInv, TypeOK, Stages, Answers, OutcomeIsTheSidecars
<1>5. Answers'
  BY DEF IInv, TypeOK, Stages, Answers, OutcomeIsTheSidecars, WholeBody
<1>6. Balance'
  BY DEF IInv, TypeOK, Stages, Answers, Balance
<1> QED
  BY <1>1, <1>2, <1>3, <1>4, <1>5, <1>6 DEF IInv

LEMMA LooksForAnswerKeeps == ASSUME IInv, LooksForAnswer PROVE IInv'
<1> USE DEF LooksForAnswer, host
<1>1. TypeOK'
  BY DEF IInv, TypeOK, Stages, Balance
<1>2. WholeBody'
  BY DEF IInv, TypeOK, WholeBody, Stages, Answers, Balance
<1>3. OutcomeIsTheSidecars'
  BY DEF IInv, TypeOK, OutcomeIsTheSidecars, Stages, Answers
<1>4. Stages'
  BY DEF IInv, TypeOK, Stages, Answers, OutcomeIsTheSidecars
<1>5. Answers'
  BY DEF IInv, TypeOK, Stages, Answers, OutcomeIsTheSidecars, WholeBody
<1>6. Balance'
  BY DEF IInv, TypeOK, Stages, Answers, Balance
<1> QED
  BY <1>1, <1>2, <1>3, <1>4, <1>5, <1>6 DEF IInv

LEMMA PermittedKeeps == ASSUME IInv, Permitted PROVE IInv'
<1> USE DEF Permitted, host
<1>1. TypeOK'
  BY DEF IInv, TypeOK, Stages, Balance
<1>2. WholeBody'
  BY DEF IInv, TypeOK, WholeBody, Stages, Answers, Balance
<1>3. OutcomeIsTheSidecars'
  BY DEF IInv, TypeOK, OutcomeIsTheSidecars, Stages, Answers
<1>4. Stages'
  BY DEF IInv, TypeOK, Stages, Answers, OutcomeIsTheSidecars
<1>5. Answers'
  BY DEF IInv, TypeOK, Stages, Answers, OutcomeIsTheSidecars, WholeBody
<1>6. Balance'
  BY DEF IInv, TypeOK, Stages, Answers, Balance
<1> QED
  BY <1>1, <1>2, <1>3, <1>4, <1>5, <1>6 DEF IInv

LEMMA UnblocksKeeps == ASSUME IInv, Unblocks PROVE IInv'
<1> USE DEF Unblocks, host
<1>1. TypeOK'
  BY DEF IInv, TypeOK, Stages, Balance
<1>2. WholeBody'
  BY DEF IInv, TypeOK, WholeBody, Stages, Answers, Balance
<1>3. OutcomeIsTheSidecars'
  BY DEF IInv, TypeOK, OutcomeIsTheSidecars, Stages, Answers
<1>4. Stages'
  BY DEF IInv, TypeOK, Stages, Answers, OutcomeIsTheSidecars
<1>5. Answers'
  BY DEF IInv, TypeOK, Stages, Answers, OutcomeIsTheSidecars, WholeBody
<1>6. Balance'
  BY DEF IInv, TypeOK, Stages, Answers, Balance
<1> QED
  BY <1>1, <1>2, <1>3, <1>4, <1>5, <1>6 DEF IInv

LEMMA PutsKeeps == ASSUME IInv, Puts PROVE IInv'
<1>1. CASE broken
  <2>1. TypeOK'
    BY <1>1 DEF Puts, IInv, TypeOK
  <2>2. WholeBody'
    BY <1>1 DEF Puts, IInv, TypeOK, WholeBody, Stages, Answers, Balance
  <2>3. OutcomeIsTheSidecars'
    BY <1>1 DEF Puts, IInv, TypeOK, OutcomeIsTheSidecars, Stages, Answers
  <2>4. Stages'
    BY <1>1 DEF Puts, IInv, TypeOK, Stages, Answers, OutcomeIsTheSidecars
  <2>5. Answers'
    BY <1>1 DEF Puts, IInv, TypeOK, Stages, Answers, OutcomeIsTheSidecars, WholeBody
  <2>6. Balance'
    BY <1>1 DEF Puts, IInv, TypeOK, Stages, Answers, Balance
  <2> QED
    BY <2>1, <2>2, <2>3, <2>4, <2>5, <2>6 DEF IInv
<1>2. CASE ~broken
  <2>a. PICK k \in 1..Min({left, Buffer - buffered}) :
          /\ buffered' = buffered + k
          /\ left' = left - k
          /\ op' = IF left = k THEN "none" ELSE "ready"
          /\ outcome' = IF left = k THEN "ok" ELSE outcome
    BY <1>2 DEF Puts
  <2>b. /\ op = "put"
        /\ UNCHANGED <<upload, written, read, ended, broken, reply, taken, failed>>
    BY DEF Puts
  <2>c. k \in Nat \ {0} /\ k <= left /\ buffered + k <= Buffer
    <3>1. Buffer - buffered \in Nat /\ left \in Nat /\ buffered \in Nat
      BY DEF IInv, TypeOK
    <3> QED
      BY <3>1, MinOfTwo
  <2>1. TypeOK'
    BY <1>2, <2>a, <2>b, <2>c DEF IInv, TypeOK
  <2>2. WholeBody'
    BY <1>2, <2>a, <2>b, <2>c DEF IInv, TypeOK, WholeBody, Stages, Answers, Balance
  <2>3. OutcomeIsTheSidecars'
    BY <1>2, <2>a, <2>b, <2>c DEF IInv, TypeOK, OutcomeIsTheSidecars, Stages, Answers
  <2>4. Stages'
    BY <1>2, <2>a, <2>b, <2>c DEF IInv, TypeOK, Stages, Answers, OutcomeIsTheSidecars
  <2>5. Answers'
    BY <1>2, <2>a, <2>b, <2>c DEF IInv, TypeOK, Stages, Answers, OutcomeIsTheSidecars, WholeBody
  <2>6. Balance'
    BY <1>2, <2>a, <2>b, <2>c DEF IInv, TypeOK, Stages, Answers, Balance
  <2> QED
    BY <2>1, <2>2, <2>3, <2>4, <2>5, <2>6 DEF IInv
<1> QED
  BY <1>1, <1>2

LEMMA EarlyAnswerKeeps == ASSUME IInv, EarlyAnswer PROVE IInv'
<1> USE DEF EarlyAnswer, host
<1>1. TypeOK'
  BY DEF IInv, TypeOK, Stages, Balance
<1>2. WholeBody'
  BY DEF IInv, TypeOK, WholeBody, Stages, Answers, Balance
<1>3. OutcomeIsTheSidecars'
  BY DEF IInv, TypeOK, OutcomeIsTheSidecars, Stages, Answers
<1>4. Stages'
  BY DEF IInv, TypeOK, Stages, Answers, OutcomeIsTheSidecars
<1>5. Answers'
  BY DEF IInv, TypeOK, Stages, Answers, OutcomeIsTheSidecars, WholeBody
<1>6. Balance'
  BY DEF IInv, TypeOK, Stages, Answers, Balance
<1> QED
  BY <1>1, <1>2, <1>3, <1>4, <1>5, <1>6 DEF IInv

LEMMA FinishKeeps == ASSUME IInv, Finish PROVE IInv'
<1> USE DEF Finish, Idle, host
<1>1. TypeOK'
  BY DEF IInv, TypeOK, Stages, Balance
<1>2. WholeBody'
  BY DEF IInv, TypeOK, WholeBody, Stages, Answers, Balance
<1>3. OutcomeIsTheSidecars'
  BY DEF IInv, TypeOK, OutcomeIsTheSidecars, Stages, Answers
<1>4. Stages'
  BY DEF IInv, TypeOK, Stages, Answers, OutcomeIsTheSidecars
<1>5. Answers'
  BY DEF IInv, TypeOK, Stages, Answers, OutcomeIsTheSidecars, WholeBody
<1>6. Balance'
  BY DEF IInv, TypeOK, Stages, Answers, Balance
<1> QED
  BY <1>1, <1>2, <1>3, <1>4, <1>5, <1>6 DEF IInv

LEMMA FlushKeeps == ASSUME IInv, Flush PROVE IInv'
<1> USE DEF Flush, host
<1>1. TypeOK'
  BY DEF IInv, TypeOK, Stages, Balance
<1>2. WholeBody'
  BY DEF IInv, TypeOK, WholeBody, Stages, Answers, Balance
<1>3. OutcomeIsTheSidecars'
  BY DEF IInv, TypeOK, OutcomeIsTheSidecars, Stages, Answers
<1>4. Stages'
  BY DEF IInv, TypeOK, Stages, Answers, OutcomeIsTheSidecars
<1>5. Answers'
  BY DEF IInv, TypeOK, Stages, Answers, OutcomeIsTheSidecars, WholeBody
<1>6. Balance'
  BY DEF IInv, TypeOK, Stages, Answers, Balance
<1> QED
  BY <1>1, <1>2, <1>3, <1>4, <1>5, <1>6 DEF IInv

LEMMA EndKeeps == ASSUME IInv, End PROVE IInv'
<1> USE DEF End
<1>1. TypeOK'
  BY DEF IInv, TypeOK, Stages, Balance
<1>2. WholeBody'
  BY DEF IInv, TypeOK, WholeBody, Stages, Answers, Balance
<1>3. OutcomeIsTheSidecars'
  BY DEF IInv, TypeOK, OutcomeIsTheSidecars, Stages, Answers
<1>4. Stages'
  BY DEF IInv, TypeOK, Stages, Answers, OutcomeIsTheSidecars
<1>5. Answers'
  BY DEF IInv, TypeOK, Stages, Answers, OutcomeIsTheSidecars, WholeBody
<1>6. Balance'
  BY DEF IInv, TypeOK, Stages, Answers, Balance
<1> QED
  BY <1>1, <1>2, <1>3, <1>4, <1>5, <1>6 DEF IInv

LEMMA AwaitKeeps == ASSUME IInv, Await PROVE IInv'
<1> USE DEF Await, host
<1>1. TypeOK'
  BY DEF IInv, TypeOK, Stages, Balance
<1>2. WholeBody'
  BY DEF IInv, TypeOK, WholeBody, Stages, Answers, Balance
<1>3. OutcomeIsTheSidecars'
  BY DEF IInv, TypeOK, OutcomeIsTheSidecars, Stages, Answers
<1>4. Stages'
  BY DEF IInv, TypeOK, Stages, Answers, OutcomeIsTheSidecars
<1>5. Answers'
  BY DEF IInv, TypeOK, Stages, Answers, OutcomeIsTheSidecars, WholeBody
<1>6. Balance'
  BY DEF IInv, TypeOK, Stages, Answers, Balance
<1> QED
  BY <1>1, <1>2, <1>3, <1>4, <1>5, <1>6 DEF IInv

LEMMA ReadsKeeps == ASSUME IInv, Reads PROVE IInv'
<1> USE DEF Reads
<1>1. TypeOK'
  BY DEF IInv, TypeOK, Stages, Balance
<1>2. WholeBody'
  BY DEF IInv, TypeOK, WholeBody, Stages, Answers, Balance
<1>3. OutcomeIsTheSidecars'
  BY DEF IInv, TypeOK, OutcomeIsTheSidecars, Stages, Answers
<1>4. Stages'
  BY DEF IInv, TypeOK, Stages, Answers, OutcomeIsTheSidecars
<1>5. Answers'
  BY DEF IInv, TypeOK, Stages, Answers, OutcomeIsTheSidecars, WholeBody
<1>6. Balance'
  BY DEF IInv, TypeOK, Stages, Answers, Balance
<1> QED
  BY <1>1, <1>2, <1>3, <1>4, <1>5, <1>6 DEF IInv

LEMMA RepliesKeeps == ASSUME IInv, Replies PROVE IInv'
<1> USE DEF Replies
<1>1. TypeOK'
  BY DEF IInv, TypeOK, Stages, Balance
<1>2. WholeBody'
  BY DEF IInv, TypeOK, WholeBody, Stages, Answers, Balance
<1>3. OutcomeIsTheSidecars'
  BY DEF IInv, TypeOK, OutcomeIsTheSidecars, Stages, Answers
<1>4. Stages'
  BY DEF IInv, TypeOK, Stages, Answers, OutcomeIsTheSidecars
<1>5. Answers'
  BY DEF IInv, TypeOK, Stages, Answers, OutcomeIsTheSidecars, WholeBody
<1>6. Balance'
  BY DEF IInv, TypeOK, Stages, Answers, Balance
<1> QED
  BY <1>1, <1>2, <1>3, <1>4, <1>5, <1>6 DEF IInv

LEMMA BreaksKeeps == ASSUME IInv, Breaks PROVE IInv'
<1> USE DEF Breaks
<1>1. TypeOK'
  BY DEF IInv, TypeOK, Stages, Balance
<1>2. WholeBody'
  BY DEF IInv, TypeOK, WholeBody, Stages, Answers, Balance
<1>3. OutcomeIsTheSidecars'
  BY DEF IInv, TypeOK, OutcomeIsTheSidecars, Stages, Answers
<1>4. Stages'
  BY DEF IInv, TypeOK, Stages, Answers, OutcomeIsTheSidecars
<1>5. Answers'
  BY DEF IInv, TypeOK, Stages, Answers, OutcomeIsTheSidecars, WholeBody
<1>6. Balance'
  BY DEF IInv, TypeOK, Stages, Answers, Balance
<1> QED
  BY <1>1, <1>2, <1>3, <1>4, <1>5, <1>6 DEF IInv

LEMMA StutterKeeps == ASSUME IInv, UNCHANGED vars PROVE IInv'
<1> USE DEF vars, host
<1>1. TypeOK'
  BY DEF IInv, TypeOK, Stages, Balance
<1>2. WholeBody'
  BY DEF IInv, TypeOK, WholeBody, Stages, Answers, Balance
<1>3. OutcomeIsTheSidecars'
  BY DEF IInv, TypeOK, OutcomeIsTheSidecars, Stages, Answers
<1>4. Stages'
  BY DEF IInv, TypeOK, Stages, Answers, OutcomeIsTheSidecars
<1>5. Answers'
  BY DEF IInv, TypeOK, Stages, Answers, OutcomeIsTheSidecars, WholeBody
<1>6. Balance'
  BY DEF IInv, TypeOK, Stages, Answers, Balance
<1> QED
  BY <1>1, <1>2, <1>3, <1>4, <1>5, <1>6 DEF IInv

LEMMA NextKeeps == IInv /\ [Next]_vars => IInv'
<1> SUFFICES ASSUME IInv, [Next]_vars PROVE IInv'
  OBVIOUS
<1>1. CASE Start
  BY <1>1, StartKeeps
<1>2. ASSUME NEW n \in 0..MaxBytes, Write(n) PROVE IInv'
  BY <1>2, WriteKeeps
<1>3. CASE Finish
  BY <1>3, FinishKeeps
<1>4. CASE ExportStep
  BY <1>4, LooksForAnswerKeeps, PermittedKeeps, UnblocksKeeps, PutsKeeps, EarlyAnswerKeeps,
     FlushKeeps, EndKeeps, AwaitKeeps DEF ExportStep
<1>5. CASE Reads \/ Replies \/ Breaks
  BY <1>5, ReadsKeeps, RepliesKeeps, BreaksKeeps
<1>6. CASE UNCHANGED vars
  BY <1>6, StutterKeeps
<1> QED
  BY <1>1, <1>2, <1>3, <1>4, <1>5, <1>6 DEF Next

-----------------------------------------------------------------------------
(* IInv holds whatever the sidecar answers and whenever it does.           *)
THEOREM Inductive == Spec => []IInv
BY InitInv, NextKeeps, PTL DEF Spec

(* finish returns an output only of a body that the sidecar has read to    *)
(* its end and answered with success (streaming.rs, finish).               *)
THEOREM OutputOfWholeBody == Spec => []WholeBody
<1>1. IInv => WholeBody
  BY DEF IInv
<1> QED
  BY <1>1, Inductive, PTL

(* The app hears of a refusal only what the sidecar said, the component    *)
(* traps only on its errors, and the response is taken out of its future   *)
(* once (streaming.rs, early_answer and answer_or_panic).                  *)
THEOREM OutcomesAreTheSidecars == Spec => []OutcomeIsTheSidecars
<1>1. IInv => OutcomeIsTheSidecars
  BY DEF IInv
<1> QED
  BY <1>1, Inductive, PTL

-----------------------------------------------------------------------------
(* The upload keeps the promise of Transfer.                               *)

LEMMA InitPromise == Init => Promise!Init
BY DEF Init, Promise!Init, Verdict, Told

(* What the mapping makes of the host's part, and of the export's.         *)
LEMMA SameVerdict == UNCHANGED reply => UNCHANGED Verdict
BY DEF Verdict

(* An operation still going on has told the app nothing that counts.       *)
LEMMA UnderWay == IInv /\ op # "none" => Told = "nothing"
BY DEF IInv, Stages, Told

LEMMA StartRefines ==
  ASSUME IInv, Start
  PROVE  Promise!Reject \/ UNCHANGED Promise!vars
<1>1. UNCHANGED <<written, read, ended, reply, taken>> /\ upload = "none"
  BY DEF Start, host
<1>2. outcome \notin {"panic", "output", "consumed"} /\ ~taken /\ written = 0 /\ reply = "none"
  BY DEF Start, Idle, IInv, Answers, Stages, Balance, TypeOK, OutcomeIsTheSidecars
<1>3. Told = "nothing" /\ Verdict = "none"
  BY <1>1, <1>2 DEF Told, Verdict
<1>4. CASE upload' = "open" /\ UNCHANGED outcome
  <2>1. Told' = "nothing"
    BY <1>1, <1>2, <1>4 DEF Told
  <2> QED
    BY <1>1, <1>3, <2>1, SameVerdict DEF Promise!vars
<1>5. CASE (upload' = "rejected" /\ UNCHANGED outcome) \/ outcome' = "panic"
  <2>1. Told' = "failure"
    BY <1>1, <1>2, <1>5 DEF Told
  <2> QED
    BY <1>1, <1>2, <1>3, <2>1, SameVerdict DEF Promise!Reject
<1> QED
  BY <1>4, <1>5 DEF Start

LEMMA WriteRefines ==
  ASSUME IInv, NEW n \in 0..MaxBytes, Write(n)
  PROVE  Promise!Write \/ UNCHANGED Promise!vars
<1>1. UNCHANGED <<upload, read, ended, reply, taken>>
  BY DEF Write, host
<1>2. outcome \notin {"output", "panic"}
  BY DEF Write, Idle, IInv, Answers
<1>3. Told' = Told
  BY <1>1, <1>2 DEF Told, Write
<1>4. CASE UNCHANGED written
  BY <1>1, <1>3, <1>4, SameVerdict DEF Promise!vars
<1>5. CASE ~UNCHANGED written
  <2>1. upload = "open" /\ ~failed /\ written' = written + n /\ n # 0
    BY <1>5 DEF Write
  <2>2. ~taken /\ ~ended
    BY <1>2, <2>1 DEF IInv, Answers, Stages
  <2>3. Told = "nothing"
    BY <1>2, <2>1, <2>2 DEF Told
  <2>4. written \in Nat /\ written' \in Nat /\ written' > written
    BY <2>1 DEF IInv, TypeOK
  <2> QED
    BY <1>1, <1>3, <2>2, <2>3, <2>4, SameVerdict DEF Promise!Write
<1> QED
  BY <1>4, <1>5

LEMMA FinishRefines ==
  ASSUME IInv, Finish
  PROVE  UNCHANGED Promise!vars
<1>1. UNCHANGED <<written, read, ended, reply, taken, failed>>
  BY DEF Finish, host
<1>2. outcome \notin {"output", "panic"}
  BY DEF Finish, Idle, IInv, Answers
<1>3. failed => taken
  BY DEF IInv, Answers
<1>4. Told' = Told
  BY <1>1, <1>2, <1>3 DEF Told, Finish
<1> QED
  BY <1>1, <1>4, SameVerdict DEF Promise!vars

(* A write or a finish goes on: nothing is to be seen in Transfer.         *)
LEMMA QuietRefines ==
  ASSUME IInv, IInv',
         \/ LooksForAnswer \/ Permitted \/ Unblocks \/ Puts \/ Flush \/ Breaks
         \/ UNCHANGED vars
  PROVE  UNCHANGED Promise!vars
<1>1. UNCHANGED <<upload, written, read, ended, reply, taken>>
  BY DEF LooksForAnswer, Permitted, Unblocks, Puts, Flush, Breaks, vars, host
<1>2. Told' = Told
  <2>1. CASE UNCHANGED outcome
    BY <1>1, <2>1 DEF Told
  <2>2. CASE ~UNCHANGED outcome
    <3>1. outcome \in {"none", "ok"} /\ outcome' = "ok"
      BY <2>2 DEF LooksForAnswer, Permitted, Unblocks, Puts, Flush, Breaks, vars, IInv, Stages
    <3> QED
      BY <1>1, <3>1 DEF Told
  <2> QED
    BY <2>1, <2>2
<1> QED
  BY <1>1, <1>2, SameVerdict DEF Promise!vars

LEMMA EarlyAnswerRefines ==
  ASSUME IInv, EarlyAnswer
  PROVE  Promise!Fail
<1>1. UNCHANGED <<upload, written, read, ended, reply>> /\ reply # "none" /\ op = "answer" /\ taken'
  BY DEF EarlyAnswer, host
<1>2. Told = "nothing" /\ ~ended
  BY <1>1, UnderWay DEF IInv, Stages
<1>3. outcome' # "output"
  BY DEF EarlyAnswer
<1>4. Told' = "failure"
  BY <1>1, <1>3 DEF Told
<1>5. Verdict \in {"accepted", "refused"}
  BY <1>1 DEF Verdict, IInv, TypeOK
<1> QED
  BY <1>1, <1>2, <1>4, <1>5, SameVerdict DEF Promise!Fail

LEMMA EndRefines ==
  ASSUME IInv, End
  PROVE  Promise!Close \/ UNCHANGED Promise!vars
<1>1. UNCHANGED <<upload, written, read, reply, taken, outcome>> /\ op = "end"
  BY DEF End
<1>2. Told = "nothing" /\ Told' = Told /\ ~ended
  <2>1. Told' = Told
    BY <1>1 DEF Told
  <2> QED
    BY <1>1, <2>1, UnderWay DEF IInv, Stages
<1>3. read = written
  BY <1>1 DEF IInv, Stages, Balance, TypeOK
<1>4. CASE broken
  BY <1>1, <1>2, <1>4, SameVerdict DEF End, Promise!vars
<1>5. CASE ~broken
  BY <1>1, <1>2, <1>3, <1>5, SameVerdict DEF End, Promise!Close
<1> QED
  BY <1>4, <1>5

LEMMA AwaitRefines ==
  ASSUME IInv, Await
  PROVE  Promise!Succeed \/ Promise!Fail
<1>1. UNCHANGED <<upload, written, read, ended, reply>> /\ reply # "none" /\ op = "await" /\ taken'
  BY DEF Await, host
<1>2. Told = "nothing" /\ ended /\ ~taken
  BY <1>1, UnderWay DEF IInv, Stages
<1>3. CASE reply = "2xx"
  <2>1. Told' = "output" /\ Verdict = "accepted"
    BY <1>2, <1>3 DEF Await, Told, Verdict
  <2> QED
    BY <1>1, <1>2, <2>1, SameVerdict DEF Promise!Succeed
<1>4. CASE reply # "2xx"
  <2>1. outcome' # "output"
    BY <1>2, <1>4 DEF Await
  <2>2. Told' = "failure" /\ Verdict = "refused"
    BY <1>1, <1>4, <2>1 DEF Told, Verdict, IInv, TypeOK
  <2> QED
    BY <1>1, <1>2, <2>2, SameVerdict DEF Promise!Fail
<1> QED
  BY <1>3, <1>4

LEMMA ReadsRefines ==
  ASSUME IInv, Reads
  PROVE  Promise!Take
<1>1. UNCHANGED <<upload, written, ended, reply, taken, outcome>>
  BY DEF Reads
<1>2. read < written /\ read' = read + 1
  BY DEF Reads, IInv, Balance, TypeOK
<1>3. Told' = Told
  BY <1>1 DEF Told
<1> QED
  BY <1>1, <1>2, <1>3, SameVerdict DEF Promise!Take

LEMMA RepliesRefines ==
  ASSUME IInv, Replies
  PROVE  Promise!Judge("accepted") \/ Promise!Judge("refused")
<1>1. UNCHANGED <<upload, written, read, ended, taken, outcome>>
  BY DEF Replies
<1>2. Verdict = "none" /\ Verdict' \in {"accepted", "refused"}
  BY DEF Replies, Verdict
<1>3. Told' = Told
  BY <1>1 DEF Told
<1> QED
  BY <1>1, <1>2, <1>3 DEF Promise!Judge

LEMMA StepRefines == IInv /\ IInv' /\ [Next]_vars => [Promise!Next]_(Promise!vars)
<1> SUFFICES ASSUME IInv, IInv', [Next]_vars PROVE Promise!Next \/ UNCHANGED Promise!vars
  OBVIOUS
<1>1. ASSUME NEW n \in 0..MaxBytes, Write(n) PROVE Promise!Next \/ UNCHANGED Promise!vars
  BY <1>1, WriteRefines DEF Promise!Next
<1>2. CASE Start \/ Finish
  BY <1>2, StartRefines, FinishRefines DEF Promise!Next
<1>3. CASE ExportStep
  BY <1>3, QuietRefines, EarlyAnswerRefines, EndRefines, AwaitRefines DEF ExportStep, Promise!Next
<1>4. CASE Reads \/ Replies
  BY <1>4, ReadsRefines, RepliesRefines DEF Promise!Next
<1>5. CASE Breaks \/ UNCHANGED vars
  BY <1>5, QuietRefines
<1> QED
  BY <1>1, <1>2, <1>3, <1>4, <1>5 DEF Next

(* An upload is one of the behaviours of Transfer, whatever the sidecar    *)
(* answers and whenever the connection breaks (streaming.rs).              *)
THEOREM UploadImplementsTransfer == Spec => ImplementsTransfer
BY InitPromise, StepRefines, Inductive, PTL DEF Spec, ImplementsTransfer, Promise!Spec

(* What the app was told of an upload, output or failure, stays, and no    *)
(* byte is written after it.                                               *)
THEOREM UploadOutcomeIsFinal == Spec => Promise!Final
<1>1. IInv /\ IInv' /\ [Next]_vars =>
        [Told # "nothing" => Told' = Told /\ written' = written]_(Promise!vars)
  <2> SUFFICES ASSUME IInv, IInv', [Next]_vars,
                      Told # "nothing", ~UNCHANGED Promise!vars
               PROVE  Told' = Told /\ written' = written
    OBVIOUS
  <2> QED
    BY StepRefines DEF Promise!Next, Promise!Reject, Promise!Write, Promise!Take, Promise!Close,
       Promise!Judge, Promise!Succeed, Promise!Fail
<1> QED
  BY <1>1, Inductive, PTL DEF Spec, Promise!Final

-----------------------------------------------------------------------------
(* An export goes on.                                                      *)

(* What the host and the sidecar do meanwhile.                             *)
HostMoves ==
  /\ UNCHANGED <<op, left, ended>>
  /\ buffered' \in Nat /\ buffered' <= buffered
  /\ broken => broken'
  /\ reply # "none" => reply' # "none"

LEMMA OnTheStack ==
  ASSUME IInv, op # "none", [Next]_vars
  PROVE  ExportStep \/ HostMoves
<1>1. buffered \in Nat
  BY DEF IInv, TypeOK
<1>2. ~Start /\ ~Finish /\ \A n \in 0..MaxBytes : ~Write(n)
  BY DEF Start, Finish, Write, Idle
<1>3. CASE Reads \/ Replies \/ Breaks \/ UNCHANGED vars
  BY <1>1, <1>3 DEF Reads, Replies, Breaks, vars, host, HostMoves
<1> QED
  BY <1>2, <1>3 DEF Next

(* One turn of write's loop, with n bytes left; once the buffer has room   *)
(* it keeps it until the write fills it.                                   *)
Ready(n) == op = "ready" /\ left = n
Permit(n) == op = "permit" /\ left = n
Full(n) == op = "block" /\ left = n /\ ~Room
Unblocked(n) == op = "block" /\ left = n /\ Room
ReadyWithRoom(n) == Ready(n) /\ Room
PermitWithRoom(n) == Permit(n) /\ Room
Putting(n) == op = "put" /\ left = n
WriteTurn(n) == op \in {"ready", "permit", "block", "put"} /\ left = n
Less(n) == op \in {"none", "answer"} \/ left < n

LEMMA PutsLess ==
  ASSUME IInv, NEW n \in Nat \ {0}, Putting(n), Puts
  PROVE  Less(n)'
<1>1. CASE broken
  BY <1>1 DEF Puts, Less
<1>2. CASE ~broken
  <2>1. left \in Nat /\ Buffer - buffered \in Nat
    BY DEF IInv, TypeOK
  <2>2. Min({left, Buffer - buffered}) \in Nat
    BY <2>1, MinOfTwo
  <2>3. PICK k \in 1..Min({left, Buffer - buffered}) : left' = left - k
    BY <1>2 DEF Puts
  <2> QED
    BY <2>1, <2>2, <2>3 DEF Putting, Less
<1> QED
  BY <1>1, <1>2

(* What a step of the write does in each stage.                            *)
LEMMA WriteMoves ==
  ASSUME IInv, ExportStep, NEW n \in Nat \ {0}
  PROVE  /\ Ready(n) => Permit(n)' \/ Less(n)'
         /\ ReadyWithRoom(n) => PermitWithRoom(n)' \/ Less(n)'
         /\ Permit(n) => Full(n)' \/ Unblocked(n)' \/ Putting(n)' \/ Less(n)'
         /\ PermitWithRoom(n) => Putting(n)' \/ Less(n)'
         /\ ~Full(n)
         /\ Unblocked(n) => ReadyWithRoom(n)'
         /\ Putting(n) => Less(n)'
<1> USE DEF ExportStep, LooksForAnswer, Permitted, Unblocks, EarlyAnswer, Flush, End, Await
<1>1. buffered \in 0..Buffer
  BY DEF IInv, TypeOK
<1>2. ASSUME Ready(n)
      PROVE  /\ Permit(n)' \/ Less(n)'
             /\ Room => PermitWithRoom(n)' \/ Less(n)'
  BY <1>2 DEF Ready, Permit, PermitWithRoom, Less, Puts, Room, host
<1>3. ASSUME Permit(n)
      PROVE  /\ Full(n)' \/ Unblocked(n)' \/ Putting(n)' \/ Less(n)'
             /\ Room => Putting(n)' \/ Less(n)'
  <2>1. Permitted
    BY <1>3 DEF Permit, Puts
  <2> QED
    BY <1>1, <1>3, <2>1 DEF Permit, Full, Unblocked, Putting, Less, Room, host
<1>4. ASSUME op = "block", left = n PROVE Room /\ ReadyWithRoom(n)'
  <2>1. Unblocks
    BY <1>4 DEF Puts
  <2> QED
    BY <1>4, <2>1 DEF Ready, ReadyWithRoom, Room, host
<1>5. ASSUME Putting(n) PROVE Less(n)'
  <2>1. Puts
    BY <1>5 DEF Putting
  <2> QED
    BY <1>5, <2>1, PutsLess
<1> QED
  BY <1>2, <1>3, <1>4, <1>5 DEF ReadyWithRoom, PermitWithRoom, Full, Unblocked

(* Meanwhile no stage falls back.                                          *)
LEMMA WriteWaits ==
  ASSUME IInv, HostMoves, NEW n \in Nat \ {0}
  PROVE  /\ Ready(n) => Ready(n)'
         /\ ReadyWithRoom(n) => ReadyWithRoom(n)'
         /\ Permit(n) => Permit(n)'
         /\ PermitWithRoom(n) => PermitWithRoom(n)'
         /\ Full(n) => Full(n)' \/ Unblocked(n)'
         /\ Unblocked(n) => Unblocked(n)'
         /\ Putting(n) => Putting(n)'
<1>1. buffered \in Nat
  BY DEF IInv, TypeOK
<1>2. Room => Room'
  BY <1>1 DEF HostMoves, Room
<1> QED
  BY <1>2 DEF HostMoves, Ready, ReadyWithRoom, Permit, PermitWithRoom, Full, Unblocked, Putting

LEMMA WriteStep ==
  ASSUME IInv, [Next]_vars, NEW n \in Nat \ {0}
  PROVE  /\ Ready(n) => Ready(n)' \/ Permit(n)' \/ Less(n)'
         /\ ReadyWithRoom(n) => ReadyWithRoom(n)' \/ PermitWithRoom(n)' \/ Less(n)'
         /\ Permit(n) => Permit(n)' \/ Full(n)' \/ Unblocked(n)' \/ Putting(n)' \/ Less(n)'
         /\ PermitWithRoom(n) => PermitWithRoom(n)' \/ Putting(n)' \/ Less(n)'
         /\ Full(n) => Full(n)' \/ Unblocked(n)'
         /\ Unblocked(n) => Unblocked(n)' \/ ReadyWithRoom(n)'
         /\ Putting(n) => Putting(n)' \/ Less(n)'
<1>1. op # "none" => ExportStep \/ HostMoves
  BY OnTheStack
<1>2. CASE op = "none"
  BY <1>2 DEF Ready, ReadyWithRoom, Permit, PermitWithRoom, Full, Unblocked, Putting
<1>3. CASE ExportStep
  BY <1>3, WriteMoves
<1>4. CASE HostMoves
  BY <1>4, WriteWaits
<1> QED
  BY <1>1, <1>2, <1>3, <1>4

(* Reading makes room in a full buffer, and so does a broken connection.   *)
LEMMA RoomComes ==
  ASSUME IInv, [Next]_vars, NEW n \in Nat \ {0}, Full(n), ReadsOrBreaks
  PROVE  Unblocked(n)'
<1>1. UNCHANGED <<op, left>>
  BY DEF ReadsOrBreaks, Reads, Breaks
<1>2. Room'
  BY DEF ReadsOrBreaks, Reads, Breaks, Room, IInv, TypeOK
<1> QED
  BY <1>1, <1>2 DEF Full, Unblocked

LEMMA WriteReady ==
  ASSUME IInv, StepsNotHeldBack, NEW n \in Nat \ {0}
  PROVE  /\ Ready(n) \/ ReadyWithRoom(n) \/ Permit(n) \/ PermitWithRoom(n) \/ Unblocked(n) \/ Putting(n)
              => ENABLED <<ExportStep>>_vars
         /\ Full(n) => ENABLED <<ReadsOrBreaks>>_vars
<1>1. Full(n) => buffered > 0 /\ ~broken
  BY DEF Full, Room, IInv, TypeOK
<1> QED
  BY <1>1 DEF StepsNotHeldBack, Ready, ReadyWithRoom, Permit, PermitWithRoom, Unblocked, Putting

(* The write hands bytes over, or it ends or is about to hear the answer.  *)
WriteGoesOn(n) == WriteTurn(n) ~> Less(n)

LEMMA OneTurn ==
  ASSUME NEW n \in Nat \ {0}
  PROVE  FairSpec /\ []StepsNotHeldBack => WriteGoesOn(n)
<1>1. FairSpec => []IInv
  BY Inductive, PTL DEF FairSpec
<1>2. WriteTurn(n) => Ready(n) \/ Permit(n) \/ Full(n) \/ Unblocked(n) \/ Putting(n)
  BY DEF WriteTurn, Ready, Permit, Full, Unblocked, Putting
<1>3. IInv /\ [Next]_vars =>
        /\ Ready(n) => Ready(n)' \/ Permit(n)' \/ Less(n)'
        /\ ReadyWithRoom(n) => ReadyWithRoom(n)' \/ PermitWithRoom(n)' \/ Less(n)'
        /\ Permit(n) => Permit(n)' \/ Full(n)' \/ Unblocked(n)' \/ Putting(n)' \/ Less(n)'
        /\ PermitWithRoom(n) => PermitWithRoom(n)' \/ Putting(n)' \/ Less(n)'
        /\ Full(n) => Full(n)' \/ Unblocked(n)'
        /\ Unblocked(n) => Unblocked(n)' \/ ReadyWithRoom(n)'
        /\ Putting(n) => Putting(n)' \/ Less(n)'
  BY WriteStep
<1>4. IInv /\ <<ExportStep>>_vars =>
        /\ Ready(n) => Permit(n)' \/ Less(n)'
        /\ ReadyWithRoom(n) => PermitWithRoom(n)' \/ Less(n)'
        /\ Permit(n) => Full(n)' \/ Unblocked(n)' \/ Putting(n)' \/ Less(n)'
        /\ PermitWithRoom(n) => Putting(n)' \/ Less(n)'
        /\ Unblocked(n) => ReadyWithRoom(n)'
        /\ Putting(n) => Less(n)'
  BY WriteMoves
<1>5. IInv /\ [Next]_vars /\ Full(n) /\ <<ReadsOrBreaks>>_vars => Unblocked(n)'
  BY RoomComes
<1>6. IInv /\ StepsNotHeldBack =>
        /\ Ready(n) \/ ReadyWithRoom(n) \/ Permit(n) \/ PermitWithRoom(n) \/ Unblocked(n) \/ Putting(n)
             => ENABLED <<ExportStep>>_vars
        /\ Full(n) => ENABLED <<ReadsOrBreaks>>_vars
  BY WriteReady
<1>7. FairSpec /\ []StepsNotHeldBack => (Putting(n) ~> Less(n))
  BY <1>1, <1>3, <1>4, <1>6, PTL DEF FairSpec, Spec
<1>8. FairSpec /\ []StepsNotHeldBack => (PermitWithRoom(n) ~> (Putting(n) \/ Less(n)))
  BY <1>1, <1>3, <1>4, <1>6, PTL DEF FairSpec, Spec
<1>9. FairSpec /\ []StepsNotHeldBack => (ReadyWithRoom(n) ~> (PermitWithRoom(n) \/ Less(n)))
  BY <1>1, <1>3, <1>4, <1>6, PTL DEF FairSpec, Spec
<1>10. FairSpec /\ []StepsNotHeldBack => (Unblocked(n) ~> ReadyWithRoom(n))
  BY <1>1, <1>3, <1>4, <1>6, PTL DEF FairSpec, Spec
<1>11. FairSpec /\ []StepsNotHeldBack => (Full(n) ~> Unblocked(n))
  BY <1>1, <1>3, <1>5, <1>6, PTL DEF FairSpec, Spec
<1>12. FairSpec /\ []StepsNotHeldBack =>
         (Permit(n) ~> (Full(n) \/ Unblocked(n) \/ Putting(n) \/ Less(n)))
  BY <1>1, <1>3, <1>4, <1>6, PTL DEF FairSpec, Spec
<1>13. FairSpec /\ []StepsNotHeldBack => (Ready(n) ~> (Permit(n) \/ Less(n)))
  BY <1>1, <1>3, <1>4, <1>6, PTL DEF FairSpec, Spec
<1> QED
  BY <1>2, <1>7, <1>8, <1>9, <1>10, <1>11, <1>12, <1>13, PTL DEF WriteGoesOn

(* The flush of finish, with n bytes in the buffer.                        *)
Flushing(n) == op = "flush" /\ ~broken /\ buffered = n
FlushedMore(n) == op = "flush" /\ (broken \/ buffered < n)

FlushGoesOn(n) == Flushing(n) ~> FlushedMore(n)

LEMMA OneByte ==
  ASSUME NEW n \in Nat \ {0}
  PROVE  FairSpec /\ []StepsNotHeldBack => FlushGoesOn(n)
<1>1. FairSpec => []IInv
  BY Inductive, PTL DEF FairSpec
<1>2. IInv /\ [Next]_vars => (Flushing(n) => Flushing(n)' \/ FlushedMore(n)')
  <2> SUFFICES ASSUME IInv, Flushing(n), [Next]_vars
               PROVE  Flushing(n)' \/ FlushedMore(n)'
    OBVIOUS
  <2>1. ~ExportStep
    BY DEF Flushing, ExportStep, LooksForAnswer, Permitted, Unblocks, Puts, EarlyAnswer, Flush,
       End, Await
  <2>2. HostMoves
    BY <2>1, OnTheStack DEF Flushing
  <2> QED
    BY <2>2 DEF Flushing, FlushedMore, HostMoves
<1>3. IInv => (Flushing(n) /\ <<ReadsOrBreaks>>_vars => FlushedMore(n)')
  BY DEF Flushing, FlushedMore, ReadsOrBreaks, Reads, Breaks
<1>4. StepsNotHeldBack => (Flushing(n) => ENABLED <<ReadsOrBreaks>>_vars)
  BY DEF StepsNotHeldBack, Flushing
<1> QED
  BY <1>1, <1>2, <1>3, <1>4, PTL DEF FairSpec, Spec, FlushGoesOn

(* What is left when nothing is to be handed over any more: the end of the *)
(* body, and the sidecar's answer, which the export waits for only when it *)
(* will come.                                                              *)
Flushed == op = "flush" /\ (broken \/ buffered = 0)
Ending == op = "end"
Unanswered == op \in {"answer", "await"} /\ reply = "none"
Answerable == op \in {"answer", "await"} /\ reply # "none"
Finishing == Flushed \/ Ending \/ Unanswered \/ Answerable
Over == op = "none"

LEMMA FinishMoves ==
  ASSUME IInv, ExportStep
  PROVE  /\ Flushed => Ending' \/ Unanswered' \/ Answerable'
         /\ Ending => Unanswered' \/ Answerable'
         /\ ~Unanswered
         /\ Answerable => Over'
<1> USE DEF ExportStep, LooksForAnswer, Permitted, Unblocks, Puts, EarlyAnswer, Flush, End, Await
<1>1. Flushed => Ending' \/ Unanswered' \/ Answerable'
  BY DEF Flushed, Ending, Unanswered, Answerable
<1>2. Ending => Unanswered' \/ Answerable'
  BY DEF Ending, Unanswered, Answerable
<1>3. ~Unanswered
  BY DEF Unanswered
<1>4. Answerable => Over'
  BY DEF Answerable, Over
<1> QED
  BY <1>1, <1>2, <1>3, <1>4

LEMMA FinishWaits ==
  ASSUME IInv, HostMoves
  PROVE  /\ Flushed => Flushed'
         /\ Ending => Ending'
         /\ Unanswered => Unanswered' \/ Answerable'
         /\ Answerable => Answerable'
<1>1. buffered = 0 => buffered' = 0
  BY DEF HostMoves
<1> QED
  BY <1>1 DEF HostMoves, Flushed, Ending, Unanswered, Answerable

LEMMA FinishStep ==
  ASSUME IInv, [Next]_vars
  PROVE  /\ Flushed => Flushed' \/ Ending' \/ Unanswered' \/ Answerable'
         /\ Ending => Ending' \/ Unanswered' \/ Answerable'
         /\ Unanswered => Unanswered' \/ Answerable'
         /\ Answerable => Answerable' \/ Over'
<1>1. op # "none" => ExportStep \/ HostMoves
  BY OnTheStack
<1>2. CASE op = "none"
  BY <1>2 DEF Flushed, Ending, Unanswered, Answerable
<1>3. CASE ExportStep
  BY <1>3, FinishMoves
<1>4. CASE HostMoves
  BY <1>4, FinishWaits
<1> QED
  BY <1>1, <1>2, <1>3, <1>4

LEMMA FinishReady ==
  ASSUME IInv, StepsNotHeldBack
  PROVE  /\ Flushed \/ Ending \/ Answerable => ENABLED <<ExportStep>>_vars
         /\ Unanswered => ENABLED <<LateReply>>_vars
<1>1. Unanswered => op # "none" /\ (ended \/ broken) /\ reply = "none"
  BY DEF Unanswered, IInv, Stages
<1> QED
  BY <1>1 DEF StepsNotHeldBack, Flushed, Ending, Answerable

FinishEnds == Finishing ~> Over

LEMMA FinishReturns == FairSpec /\ []StepsNotHeldBack => FinishEnds
<1>1. FairSpec => []IInv
  BY Inductive, PTL DEF FairSpec
<1>2. Unanswered /\ <<LateReply>>_vars => Answerable'
  BY DEF LateReply, Replies, Unanswered, Answerable
<1>3. FairSpec /\ []StepsNotHeldBack => (Answerable ~> Over)
  BY <1>1, FinishStep, FinishMoves, FinishReady, PTL DEF FairSpec, Spec
<1>4. FairSpec /\ []StepsNotHeldBack => (Unanswered ~> Answerable)
  BY <1>1, <1>2, FinishStep, FinishReady, PTL DEF FairSpec, Spec
<1>5. FairSpec /\ []StepsNotHeldBack => (Ending ~> (Unanswered \/ Answerable))
  BY <1>1, FinishStep, FinishMoves, FinishReady, PTL DEF FairSpec, Spec
<1>6. FairSpec /\ []StepsNotHeldBack => (Flushed ~> (Ending \/ Unanswered \/ Answerable))
  BY <1>1, FinishStep, FinishMoves, FinishReady, PTL DEF FairSpec, Spec
<1> QED
  BY <1>3, <1>4, <1>5, <1>6, PTL DEF FinishEnds, Finishing

(* An export goes on: a write hands bytes over, or ends or turns to the    *)
(* sidecar's answer; a flush has less in the buffer, or finds the          *)
(* connection broken; and then the export ends, with the answer it waits   *)
(* for: provided the steps of StepsNotHeldBack can be taken.  So no export *)
(* hangs, however many bytes it has (streaming.rs, write and finish).      *)
THEOREM UploadExportsGoOn ==
  FairSpec /\ []StepsNotHeldBack =>
    (\A n \in Nat \ {0} : WriteGoesOn(n) /\ FlushGoesOn(n)) /\ FinishEnds
<1>1. FairSpec /\ []StepsNotHeldBack => FinishEnds
  BY FinishReturns
<1>2. ASSUME NEW n \in Nat \ {0}
      PROVE  FairSpec /\ []StepsNotHeldBack => WriteGoesOn(n) /\ FlushGoesOn(n)
  BY <1>2, OneTurn, OneByte
<1> QED
  BY <1>1, <1>2
=============================================================================
