---------------------------- MODULE BlocksProofs ----------------------------
(***************************************************************************)
(* Proofs about Blocks, for any instances, attempts, exports and late      *)
(* copies: what is asked on a condition is done on it alone, and what the  *)
(* app is told is true.                                                    *)
(***************************************************************************)
EXTENDS Blocks, FiniteSetTheorems, TLAPS

USE SidecarAssumption, BlocksAssumption

-----------------------------------------------------------------------------
(* The log.                                                                *)

Entries == [by : Callers \cup {None}, call : 0..MaxCalls, ends : BOOLEAN]

LEMMA Appended ==
  ASSUME log \in Seq(Entries), NEW e \in Entries, log' = Append(log, e)
  PROVE  /\ Len(log') = Len(log) + 1 /\ Len(log) \in Nat
         /\ log'[Len(log')] = e
         /\ \A i \in 1..Len(log) : log'[i] = log[i]
         /\ log' \in Seq(Entries)
OBVIOUS

LEMMA WrittenFinite ==
  ASSUME log \in Seq(Entries), NEW c
  PROVE  /\ IsFiniteSet(WrittenBy(c)) /\ Cardinality(WrittenBy(c)) \in Nat
         /\ WrittenBy(c) = {} <=> Cardinality(WrittenBy(c)) = 0
<1>1. IsFiniteSet(1..Len(log))
  BY FS_Interval
<1>2. IsFiniteSet(WrittenBy(c))
  BY <1>1, FS_Subset DEF WrittenBy
<1> QED
  BY <1>2, FS_CardinalityType, FS_EmptySet

(* A new entry is a write of the caller and the call it names.             *)
LEMMA WrittenGrows ==
  ASSUME log \in Seq(Entries), NEW e \in Entries, log' = Append(log, e),
         NEW c, calls'[c] = calls[c]
  PROVE  WrittenBy(c)' = WrittenBy(c) \cup
           (IF e.by = c /\ e.call = calls[c] THEN {Len(log) + 1} ELSE {})
BY Appended DEF WrittenBy

LEMMA CardinalityGrows ==
  ASSUME log \in Seq(Entries), NEW e \in Entries, log' = Append(log, e),
         NEW c, calls'[c] = calls[c]
  PROVE  /\ Cardinality(WrittenBy(c)') =
              Cardinality(WrittenBy(c)) + (IF e.by = c /\ e.call = calls[c] THEN 1 ELSE 0)
         /\ (e.by = c /\ e.call = calls[c] => WrittenBy(c)' # {})
         /\ ~(e.by = c /\ e.call = calls[c]) => WrittenBy(c)' = WrittenBy(c)
         /\ \A i \in WrittenBy(c) : i \in WrittenBy(c)' /\ log'[i] = log[i]
<1>0. \A i \in WrittenBy(c) : i \in 1..Len(log) /\ log'[i] = log[i]
  BY Appended DEF WrittenBy
<1>1. Len(log) + 1 \notin WrittenBy(c)
  BY <1>0, Appended
<1>2. CASE e.by = c /\ e.call = calls[c]
  <2>1. WrittenBy(c)' = WrittenBy(c) \cup {Len(log) + 1}
    BY <1>2, WrittenGrows
  <2>2. Cardinality(WrittenBy(c)') = Cardinality(WrittenBy(c)) + 1
    BY <1>1, <2>1, WrittenFinite, FS_AddElement
  <2> QED
    BY <1>0, <1>2, <2>1, <2>2
<1>3. CASE ~(e.by = c /\ e.call = calls[c])
  <2>1. WrittenBy(c)' = WrittenBy(c)
    BY <1>3, WrittenGrows
  <2> QED
    BY <1>0, <1>3, <2>1, WrittenFinite
<1> QED
  BY <1>2, <1>3

-----------------------------------------------------------------------------
(* What an export returns.                                                 *)

ReturnsWell(c) ==
  /\ phase[c] = "served"
  /\ UNCHANGED <<block, thing, log, request, attempt, calls, cut, given>>
  /\ answer' = [answer EXCEPT ![c] = None]
  /\ known' \in {known, [known EXCEPT ![c] = answer[c].etag]}
  /\ \E o \in Errors \cup {"ok", "panic", "partial", "response"} :
       /\ outcome' = [outcome EXCEPT ![c] = o]
       /\ phase' = [phase EXCEPT ![c] = IF o = "panic" THEN "dead" ELSE "idle"]
       /\ o = "ok" => answer[c].status \in {"200", "204"}
       /\ o \in Errors =>
            answer[c].status \notin {"200", "204"} \/ request[c].op \in Reads
       /\ o = "etag-mismatch" =>
            answer[c].status = "409" /\ block \in {"state", "bulkState"}

LEMMA EndsWell ==
  ASSUME NEW c \in Callers
  PROVE  \A ops, result :
           /\ Ends(c, ops, result)
           /\ known' \in {known, [known EXCEPT ![c] = answer[c].etag]}
           /\ result \in Errors \cup {"ok", "partial"}
           /\ result = "ok" => answer[c].status \in {"200", "204"}
           /\ result \in Errors =>
                answer[c].status \notin {"200", "204"} \/ request[c].op \in Reads
           /\ result = "etag-mismatch" =>
                answer[c].status = "409" /\ block \in {"state", "bulkState"}
           => ReturnsWell(c)
<1> SUFFICES ASSUME NEW ops, NEW result, Ends(c, ops, result),
                    known' \in {known, [known EXCEPT ![c] = answer[c].etag]},
                    result \in Errors \cup {"ok", "partial"},
                    result = "ok" => answer[c].status \in {"200", "204"},
                    result \in Errors =>
                      answer[c].status \notin {"200", "204"} \/ request[c].op \in Reads,
                    result = "etag-mismatch" =>
                      answer[c].status = "409" /\ block \in {"state", "bulkState"}
             PROVE  ReturnsWell(c)
  OBVIOUS
<1> DEFINE panics == answer[c].status \in Traps(c)
           o == IF panics THEN "panic" ELSE result
<1>1. "panic" \notin Errors \cup {"ok", "partial"}
  BY DEF Errors
<1>2. outcome' = [outcome EXCEPT ![c] = o]
  BY DEF Ends
<1>3. phase' = [phase EXCEPT ![c] = IF o = "panic" THEN "dead" ELSE "idle"]
  BY <1>1 DEF Ends, Return
<1>4. /\ phase[c] = "served"
      /\ UNCHANGED <<block, thing, log, request, attempt, calls, cut, given>>
      /\ answer' = [answer EXCEPT ![c] = None]
  BY DEF Ends, Return, kept
<1>5. /\ o = "ok" => answer[c].status \in {"200", "204"}
      /\ o \in Errors => answer[c].status \notin {"200", "204"} \/ request[c].op \in Reads
      /\ o = "etag-mismatch" =>
           answer[c].status = "409" /\ block \in {"state", "bulkState"}
      /\ o \in Errors \cup {"ok", "panic", "partial", "response"}
  BY <1>1
<1> HIDE DEF o, panics
<1> QED
  BY <1>2, <1>3, <1>4, <1>5 DEF ReturnsWell

LEMMA EndsAsWell ==
  ASSUME NEW c \in Callers
  PROVE  \A ops, refusal :
           /\ EndsAs(c, ops, refusal)
           /\ refusal \in Errors \cup {"partial"}
           /\ refusal = "etag-mismatch" =>
                answer[c].status = "409" /\ block \in {"state", "bulkState"}
           => ReturnsWell(c)
<1>1. "ok" \notin Errors /\ "partial" \notin Errors
  BY DEF Errors
<1> QED
  BY <1>1, EndsWell DEF EndsAs, Errors

LEMMA EndsUnlessWell ==
  ASSUME NEW c \in Callers
  PROVE  \A ops, absent, nothing, refusal :
           /\ EndsUnless(c, ops, absent, nothing, refusal)
           /\ ops \subseteq Reads
           /\ nothing \in Errors \ {"etag-mismatch"}
           /\ refusal \in Errors \ {"etag-mismatch"}
           => ReturnsWell(c)
<1> SUFFICES ASSUME NEW ops, NEW absent, NEW nothing, NEW refusal,
                    EndsUnless(c, ops, absent, nothing, refusal),
                    ops \subseteq Reads,
                    nothing \in Errors \ {"etag-mismatch"},
                    refusal \in Errors \ {"etag-mismatch"}
             PROVE  ReturnsWell(c)
  OBVIOUS
<1> DEFINE result == CASE absent -> nothing
                       [] ~absent /\ answer[c].status \in {"200", "204"} -> "ok"
                       [] OTHER -> refusal
<1>1. "ok" \notin Errors
  BY DEF Errors
<1>2. Ends(c, ops, result) /\ known' = known
  BY DEF EndsUnless
<1>3. request[c].op \in Reads
  BY <1>2 DEF Ends
<1>4. /\ result \in Errors \cup {"ok"} /\ result # "etag-mismatch"
      /\ result = "ok" => answer[c].status \in {"200", "204"}
  BY <1>1
<1> HIDE DEF result
<1> QED
  BY <1>2, <1>3, <1>4, EndsWell

LEMMA TransactionsAreOfStates ==
  \A b \in DOMAIN Exports : "transaction" \in Exports[b] => b = "bulkState"
BY DEF Exports

LEMMA ReturnsAreWell ==
  ASSUME NEW c \in Callers, Returns(c),
         request[c].op \in Exports[block], block \in DOMAIN Exports
  PROVE  ReturnsWell(c)
<1>1. CASE GetReturns(c)
  <2> DEFINE result == CASE answer[c].status = "200" -> "ok"
                         [] answer[c].status = "204" -> "key-not-found"
                         [] OTHER -> StateError(answer[c].status)
  <2>1. Ends(c, {"get"}, result) /\ known' = [known EXCEPT ![c] = answer[c].etag]
    BY <1>1 DEF GetReturns
  <2>2. request[c].op \in Reads
    BY <2>1 DEF Ends, Reads, Gets
  <2>3. /\ result \in Errors \cup {"ok"} /\ result # "etag-mismatch"
        /\ result = "ok" => answer[c].status \in {"200", "204"}
    BY DEF StateError, Errors
  <2> HIDE DEF result
  <2> QED
    BY <2>1, <2>2, <2>3, EndsWell
<1>2. CASE GetReturnsOverGrpc(c)
  <2> DEFINE result == IF answer[c].status = "200" THEN "ok" ELSE StateError(answer[c].status)
  <2>1. Ends(c, {"get"}, result) /\ known' = [known EXCEPT ![c] = answer[c].etag]
    BY <1>2 DEF GetReturnsOverGrpc
  <2>2. request[c].op \in Reads
    BY <2>1 DEF Ends, Reads, Gets
  <2>3. /\ result \in Errors \cup {"ok"} /\ result # "etag-mismatch"
        /\ result = "ok" => answer[c].status \in {"200", "204"}
    BY DEF StateError, Errors
  <2> HIDE DEF result
  <2> QED
    BY <2>1, <2>2, <2>3, EndsWell
<1>3. CASE BulkReturns(c)
  <2> DEFINE result == IF answer[c].status = "200" THEN "ok"
                       ELSE QueryError(request[c].op, answer[c].status)
  <2>1. Ends(c, {"getBulk", "query"}, result) /\ known' = [known EXCEPT ![c] = answer[c].etag]
    BY <1>3 DEF BulkReturns
  <2>2. request[c].op \in Reads
    BY <2>1 DEF Ends, Reads
  <2>3. /\ result \in Errors \cup {"ok"} /\ result # "etag-mismatch"
        /\ result = "ok" => answer[c].status \in {"200", "204"}
    BY DEF QueryError, StateError, Errors
  <2> HIDE DEF result
  <2> QED
    BY <2>1, <2>2, <2>3, EndsWell
<1>4. CASE WriteReturns(c)
  BY <1>4, EndsAsWell DEF WriteReturns, WriteError, StateError, Errors
<1>5. CASE TransactionReturns(c)
  <2>1. block = "bulkState"
    BY <1>5, TransactionsAreOfStates DEF TransactionReturns, EndsAs, Ends
  <2> QED
    BY <1>5, <2>1, EndsAsWell DEF TransactionReturns, TransactionError, StateError, Errors
<1>6. CASE \/ ScheduleReturns(c) \/ GetJobReturns(c) \/ DeleteJobReturns(c)
  BY <1>6, EndsAsWell DEF ScheduleReturns, ScheduleError, GetJobReturns, DeleteJobReturns, Errors
<1>7. CASE StartReturns(c) \/ InstanceReturns(c) \/ GetInstanceReturns(c)
  BY <1>7, EndsAsWell DEF StartReturns, StartError, InstanceReturns, InstanceError,
     GetInstanceReturns, WorkflowError, Errors
<1>8. CASE ReminderReturns(c) \/ PublishReturns(c) \/ PublishBulkReturns(c)
  BY <1>8, EndsAsWell DEF ReminderReturns, PublishReturns, PublishBulkReturns, PubsubError, Errors
<1>9. CASE InvokeBindingReturns(c) \/ InvokeReturnsOverGrpc(c) \/ InvokeActorReturns(c)
  BY <1>9, EndsAsWell DEF InvokeBindingReturns, BindingsError, InvokeReturnsOverGrpc,
     InvokeActorReturns, Errors
<1>10. CASE ActorsReturn(c) \/ RegisterTimerReturns(c) \/ ReadsReturn(c)
  BY <1>10, EndsAsWell DEF ActorsReturn, RegisterTimerReturns, ReadsReturn, StateError, Errors
<1>11. CASE GetActorStateReturns(c)
  BY <1>11, EndsUnlessWell DEF GetActorStateReturns, Reads, Gets, Errors
<1>12. CASE GetSecretReturns(c)
  BY <1>12, EndsUnlessWell DEF GetSecretReturns, StateError, Reads, Gets, Errors
<1>13. CASE InvokeReturns(c)
  <2> DEFINE o == IF answer[c].status = "200" THEN "ok" ELSE "response"
  <2>1. o \notin Errors /\ o \in {"ok", "response"}
    BY DEF Errors
  <2>2. /\ outcome' = [outcome EXCEPT ![c] = o]
        /\ phase' = [phase EXCEPT ![c] = "idle"]
        /\ phase[c] = "served" /\ answer' = [answer EXCEPT ![c] = None] /\ known' = known
        /\ UNCHANGED <<block, thing, log, request, attempt, calls, cut, given>>
    BY <1>13 DEF InvokeReturns, Return, kept
  <2>3. o = "ok" => answer[c].status \in {"200", "204"}
    OBVIOUS
  <2> HIDE DEF o
  <2> QED
    BY <2>1, <2>2, <2>3 DEF ReturnsWell
<1> QED
  BY <1>1, <1>2, <1>3, <1>4, <1>5, <1>6, <1>7, <1>8, <1>9, <1>10, <1>11, <1>12, <1>13 DEF Returns

-----------------------------------------------------------------------------
(* What the sidecar does with a request.                                   *)

Entry(c, copy) ==
  [by |-> c, call |-> copy.call, ends |-> To(copy.request.op) \in {"absent", "ended"}]

LEMMA ToThings == \A op : thing \in Things => To(op) \in Things
BY DEF To, Things

LEMMA Applied ==
  ASSUME IInv, NEW c \in Callers, NEW copy, copy.call \in 0..MaxCalls, Apply(c, copy)
  PROVE  /\ block' = block
         /\ \/ Writes(copy.request) /\ Entry(c, copy) \in Entries
               /\ log' = Append(log, Entry(c, copy)) /\ Len(log) < MaxWrites
               /\ thing' = To(copy.request.op)
            \/ ~Writes(copy.request) /\ log' = log /\ thing' = thing
         /\ thing' \in Things
         /\ log' \in Seq(Entries) /\ Len(log') <= MaxWrites
         /\ Len(log') \in Nat /\ Len(log) \in Nat /\ Len(log') >= Len(log)
         /\ Len(log') > 0 => log'[Len(log')].ends = (thing' # "there")
<1>1. /\ thing \in Things /\ log \in Seq(Entries) /\ Len(log) <= MaxWrites
      /\ Len(log) > 0 => log[Len(log)].ends = (thing # "there")
  BY DEF IInv, TypeOK, Strength, LogIsCurrent, Entries
<1>2. Entry(c, copy) \in Entries
  BY DEF Entry, Entries
<1>3. CASE Writes(copy.request)
  <2>1. /\ log' = Append(log, Entry(c, copy)) /\ thing' = To(copy.request.op)
        /\ Len(log) < MaxWrites /\ block' = block
    BY <1>3 DEF Apply, Entry
  <2>2. To(copy.request.op) \in Things
    BY <1>1, ToThings
  <2>3. log'[Len(log')] = Entry(c, copy)
    BY <1>1, <1>2, <2>1, Appended
  <2>4. log'[Len(log')].ends = (thing' # "there")
    <3>1. Entry(c, copy).ends = (To(copy.request.op) \in {"absent", "ended"})
      BY DEF Entry
    <3>2. (thing' \in {"absent", "ended"}) = (thing' # "there")
      BY <2>1, <2>2 DEF Things
    <3> QED
      BY <2>1, <2>3, <3>1, <3>2, Zenon
  <2> QED
    BY <1>1, <1>2, <1>3, <2>1, <2>2, <2>4, Appended
<1>4. CASE ~Writes(copy.request)
  BY <1>1, <1>4 DEF Apply
<1> QED
  BY <1>3, <1>4

LEMMA CallInRange ==
  ASSUME IInv, NEW c \in Callers, NEW copy \in cut[c]
  PROVE  copy.call \in 0..MaxCalls
BY DEF IInv, TypeOK, NetTypeOK, Copies

-----------------------------------------------------------------------------
(* Whom a step is not about.                                               *)

Own(c) == AsAsked(c) /\ WritesAsAsked(c) /\ Accounted(c) /\ AnswerIsTrue(c) /\ OutcomeOfTheIdle(c)

(* Strength of every call, and OutcomeIsTrue.                              *)
Told(c) ==
  /\ outcome[c] = "ok" /\ given[c].op \notin Reads \cup Removals => WrittenBy(c) # {}
  /\ outcome[c] \in Errors /\ attempt[c] = 1 /\ given[c].op \notin PassedOn =>
       WrittenBy(c) = {}
  /\ outcome[c] = "etag-mismatch" => Overtaken(c)

LEMMA WrittenSame ==
  ASSUME log' = log, NEW c, calls'[c] = calls[c]
  PROVE  WrittenBy(c)' = WrittenBy(c)
BY DEF WrittenBy

LEMMA CallsBegun ==
  ASSUME IInv, NEW c \in Callers
  PROVE  /\ calls[c] = 0 \/ calls[c] > 0
         /\ calls[c] \in Nat /\ attempt[c] \in Nat
         /\ Underway(c) => calls[c] > 0
         /\ given[c] # None <=> calls[c] > 0
         /\ calls[c] > 0 => /\ given[c] \in Asks /\ request[c] = given[c]
                            /\ given[c].etag \in Nat /\ given[c].etag <= Len(log)
         /\ log \in Seq(Entries) /\ Len(log) \in Nat
<1>1. AsAsked(c) /\ TypeOK
  BY DEF IInv, Strength
<1>2. None \notin Asks
  OBVIOUS
<1>3. log \in Seq(Entries)
  BY <1>1 DEF TypeOK, Entries
<1>4. \A a \in Asks : a.etag \in Nat
  BY DEF Asks, Etags
<1> QED
  BY <1>1, <1>2, <1>3, <1>4 DEF AsAsked, TypeOK, NetTypeOK, Underway

(* Nothing of c changes; the log is as it was, or has a write of another.  *)
Untouched(c) ==
  /\ phase'[c] = phase[c] /\ request'[c] = request[c] /\ attempt'[c] = attempt[c]
  /\ calls'[c] = calls[c] /\ answer'[c] = answer[c] /\ cut'[c] = cut[c]
  /\ known'[c] = known[c] /\ given'[c] = given[c] /\ outcome'[c] = outcome[c]
  /\ block' = block
  /\ \/ log' = log /\ thing' = thing
     \/ \E e \in Entries : /\ log' = Append(log, e)
                           /\ ~(e.by = c /\ e.call = calls[c])

LEMMA UntouchedWritten ==
  ASSUME IInv, NEW c \in Callers, Untouched(c)
  PROVE  /\ WrittenBy(c)' = WrittenBy(c)
         /\ Len(log') \in Nat /\ Len(log) <= Len(log')
         /\ \A i \in WrittenBy(c) : log'[i] = log[i]
         /\ calls[c] > 0 /\ Overtaken(c) => Overtaken(c)'
<1>1. /\ log \in Seq(Entries) /\ Len(log) \in Nat
      /\ calls[c] > 0 => given[c].etag \in Nat /\ given[c].etag <= Len(log)
  BY CallsBegun
<1>2. CASE log' = log /\ thing' = thing
  BY <1>1, <1>2, WrittenSame DEF Untouched, Overtaken
<1>3. ASSUME NEW e \in Entries, log' = Append(log, e), ~(e.by = c /\ e.call = calls[c])
      PROVE  /\ WrittenBy(c)' = WrittenBy(c)
             /\ Len(log') = Len(log) + 1
             /\ \A i \in WrittenBy(c) : log'[i] = log[i]
  BY <1>1, <1>3, CardinalityGrows, Appended, ZenonT(30) DEF Untouched
<1>4. CASE ~(log' = log /\ thing' = thing)
  <2>1. /\ WrittenBy(c)' = WrittenBy(c)
        /\ Len(log') = Len(log) + 1
        /\ \A i \in WrittenBy(c) : log'[i] = log[i]
    BY <1>3, <1>4 DEF Untouched
  <2>2. calls[c] > 0 /\ Overtaken(c) => Overtaken(c)'
    BY <1>1, <2>1 DEF Untouched, Overtaken
  <2> QED
    BY <1>1, <2>1, <2>2
<1> QED
  BY <1>2, <1>4

LEMMA UntouchedKeeps ==
  ASSUME IInv, NEW c \in Callers, Untouched(c) PROVE Own(c)'
<1>0. /\ WrittenBy(c)' = WrittenBy(c)
      /\ Len(log') \in Nat /\ Len(log) <= Len(log') /\ Len(log) \in Nat
      /\ \A i \in WrittenBy(c) : log'[i] = log[i]
      /\ calls[c] > 0 /\ Overtaken(c) => Overtaken(c)'
      /\ calls[c] = 0 \/ calls[c] > 0
      /\ Underway(c) => calls[c] > 0
      /\ calls[c] > 0 => given[c].etag \in Nat
  BY UntouchedWritten, CallsBegun
<1>1. Own(c) /\ known[c] \in Nat /\ answer[c] \in Answers \cup {None}
  BY DEF IInv, Strength, Own, TypeOK, NetTypeOK, Etags
<1>2. Out(c)' = Out(c)
  BY DEF Untouched, Out
<1>3. AsAsked(c)'
  BY <1>0, <1>1, <1>2 DEF Own, AsAsked, Untouched, Attempts
<1>4. WritesAsAsked(c)'
  BY <1>0, <1>1 DEF Own, WritesAsAsked, Untouched
<1>5. Accounted(c)'
  BY <1>0, <1>1, <1>2 DEF Own, Accounted, Untouched
<1>6. AnswerIsTrue(c)'
  <2>1. answer[c] \in Answers => answer[c].etag \in Nat
    BY DEF Etags
  <2> QED
    BY <1>0, <1>1, <2>1 DEF Own, AnswerIsTrue, Untouched, Underway
<1> QED
  BY <1>1, <1>3, <1>4, <1>5, <1>6 DEF Own, OutcomeOfTheIdle, Untouched, Underway

-----------------------------------------------------------------------------
(* Types.                                                                  *)

LEMMA AttemptsInRange == \A c \in Callers : Attempts(c) \in 1..MaxAttempts
BY DEF Attempts

LEMMA AskedIsAsk ==
  ASSUME NEW op, NEW etag \in Etags, block \in DOMAIN Exports, op \in Exports[block]
  PROVE  [op |-> op, etag |-> etag] \in Asks
<1>1. op \in Ops
  BY DEF Ops
<1> QED
  BY <1>1 DEF Asks

(* Every export asks for what it is to do, of an etag its app has read.    *)
LEMMA CallAsks ==
  ASSUME TypeOK, NEW c \in Callers, Call(c)
  PROVE  \E r \in Asks : /\ Begin(c, r) /\ r.op \in Exports[block]
                         /\ r.etag \in {0, known[c]}
                         /\ given' = [given EXCEPT ![c] = r]
                         /\ outcome' = [outcome EXCEPT ![c] = "none"]
                         /\ UNCHANGED <<kept, known>>
<1>0. 0 \in Etags /\ block \in DOMAIN Exports
  BY DEF Etags, TypeOK
<1>1. ASSUME NEW op, NEW etag \in Etags, etag \in {0, known[c]},
             Ask(c, [op |-> op, etag |-> etag], [op |-> op, etag |-> etag])
      PROVE  \E r \in Asks : /\ Begin(c, r) /\ r.op \in Exports[block]
                             /\ r.etag \in {0, known[c]}
                             /\ given' = [given EXCEPT ![c] = r]
                             /\ outcome' = [outcome EXCEPT ![c] = "none"]
                             /\ UNCHANGED <<kept, known>>
  <2>1. [op |-> op, etag |-> etag] \in Asks
    BY <1>0, <1>1, AskedIsAsk DEF Ask
  <2> QED
    BY <1>1, <2>1 DEF Ask
<1>2. CASE \E op \in {"save", "delete", "transaction"}, etag \in Etags : CallWrite(c, op, etag)
  BY <1>1, <1>2 DEF CallWrite, WriteRequest
<1>3. CASE \E overwrite \in BOOLEAN : CallSchedule(c, overwrite)
  BY <1>0, <1>1, <1>3 DEF CallSchedule, ScheduleRequest, Plain
<1>4. CASE \E hasId \in BOOLEAN : CallStart(c, hasId)
  BY <1>0, <1>1, <1>4 DEF CallStart, StartRequest, Plain
<1>5. CASE \E op \in Ops : CallPlain(c, op)
  BY <1>0, <1>1, <1>5 DEF CallPlain, Plain
<1> QED
  BY <1>2, <1>3, <1>4, <1>5 DEF Call

LEMMA NewCopy ==
  ASSUME IInv, NEW c \in Callers, phase[c] \in {"sent", "served"}
  PROVE  Copy(c) \in Copies /\ Copy(c).call = calls[c] /\ Copy(c).request = given[c]
<1>1. /\ calls[c] > 0 /\ request[c] = given[c] /\ given[c] \in Asks
      /\ attempt[c] \in 1..Attempts(c)
  BY CallsBegun DEF Underway, IInv, Strength, AsAsked
<1>2. calls[c] \in 0..MaxCalls
  BY DEF IInv, TypeOK, NetTypeOK
<1> QED
  BY <1>1, <1>2, AttemptsInRange DEF Copy, Copies

LEMMA ReplyTyped ==
  ASSUME TypeOK, NEW c \in Callers, NEW r
  PROVE  /\ Reply(c, r) \in Answers
         /\ Reply(c, r).etag <= Len(log) /\ Reply(c, r).status = Status(c, r)
         /\ Reply(c, r).status \in {"200", "204", "404", "409"}
<1>1. Len(log) \in Etags /\ Len(log) \in Nat
  BY DEF TypeOK, Etags
<1>2. Status(c, r) \in {"200", "204", "404", "409"}
  BY DEF Status, Absence
<1> QED
  BY <1>1, <1>2 DEF Reply, Statuses, Etags

LEMMA RefusalsTyped ==
  ASSUME NEW r, NEW status \in Refusals(r)
  PROVE  /\ [status |-> status, etag |-> 0] \in Answers
         /\ status \notin {"200", "204", "409"}
BY DEF Refusals, Statuses, Etags

LEMMA TypesOf ==
  TypeOK <=> /\ NetTypeOK
             /\ block \in DOMAIN Exports /\ thing \in Things
             /\ log \in Seq(Entries) /\ Len(log) <= MaxWrites
             /\ known \in [Callers -> Etags] /\ given \in [Callers -> Asks \cup {None}]
             /\ outcome \in [Callers -> Errors \cup {"none", "ok", "panic", "partial", "response"}]
BY DEF TypeOK, Entries

LEMMA ReturnsServed ==
  ASSUME IInv, NEW c \in Callers, Returns(c)
  PROVE  phase[c] = "served" /\ calls[c] > 0 /\ ReturnsWell(c)
<1>1. phase[c] = "served"
  BY DEF Returns, GetReturns, GetReturnsOverGrpc, WriteReturns,
     ScheduleReturns, GetJobReturns, DeleteJobReturns, StartReturns, InstanceReturns,
     GetInstanceReturns, ReminderReturns, PublishReturns, BulkReturns, TransactionReturns,
     PublishBulkReturns, InvokeBindingReturns, InvokeReturns, InvokeReturnsOverGrpc,
     InvokeActorReturns, GetActorStateReturns, ActorsReturn, RegisterTimerReturns,
     GetSecretReturns, ReadsReturn, EndsAs, EndsUnless, Ends
<1>2. calls[c] > 0
  BY <1>1, CallsBegun DEF Underway
<1> QED
  BY <1>1, <1>2, ReturnsAreWell DEF IInv, Strength, AsAsked, TypeOK

LEMMA NetStepTyped ==
  ASSUME IInv, NEW c \in Callers, NetStep(c)
  PROVE  NetTypeOK'
<1>0. NetTypeOK
  BY DEF IInv, TypeOK
<1>1. CASE SendFails(c)
  <2>1. Copy(c) \in Copies
    BY <1>1, NewCopy DEF SendFails
  <2>2. cut' \in [Callers -> SUBSET Copies]
    <3>1. cut \in [Callers -> SUBSET Copies]
      BY <1>0 DEF NetTypeOK
    <3>2. cut' = cut \/ cut' = [cut EXCEPT ![c] = @ \cup {Copy(c)}]
      BY <1>1 DEF SendFails
    <3> QED
      BY <2>1, <3>1, <3>2
  <2> QED
    BY <1>0, <1>1, <2>2 DEF NetTypeOK, SendFails
<1>2. CASE Resend(c)
  <2>1. calls[c] > 0
    BY <1>2, CallsBegun DEF Underway, Resend
  <2>2. attempt[c] + 1 \in 0..MaxAttempts
    BY <1>2, <2>1, AttemptsInRange DEF Resend, IInv, Strength, AsAsked
  <2> QED
    BY <1>0, <1>2, <2>2 DEF NetTypeOK, Resend
<1>3. CASE BodyFails(c)
  BY <1>0, <1>3 DEF NetTypeOK, BodyFails
<1> QED
  BY <1>1, <1>2, <1>3 DEF NetStep

LEMMA ServeTyped ==
  ASSUME IInv, NEW c \in Callers, NEW a \in Answers, Serve(c, a)
  PROVE  NetTypeOK'
BY DEF IInv, TypeOK, NetTypeOK, Serve

LEMMA StepTypeOK == ASSUME IInv, [Next]_vars PROVE TypeOK'
<1>0. /\ NetTypeOK /\ TypeOK
      /\ block \in DOMAIN Exports /\ thing \in Things
      /\ log \in Seq(Entries) /\ Len(log) <= MaxWrites
      /\ known \in [Callers -> Etags] /\ given \in [Callers -> Asks \cup {None}]
      /\ outcome \in [Callers -> Errors \cup {"none", "ok", "panic", "partial", "response"}]
  BY TypesOf DEF IInv
<1>a. ASSUME NetTypeOK', UNCHANGED app,
             /\ block' = block /\ thing' \in Things
             /\ log' \in Seq(Entries) /\ Len(log') <= MaxWrites
      PROVE  TypeOK'
  BY <1>0, <1>a DEF TypeOK, Entries, app
<1>1. ASSUME NEW c \in Callers, Call(c) PROVE TypeOK'
  <2>1. PICK r \in Asks : /\ Begin(c, r)
                          /\ given' = [given EXCEPT ![c] = r]
                          /\ outcome' = [outcome EXCEPT ![c] = "none"]
                          /\ UNCHANGED <<kept, known>>
    BY <1>0, <1>1, CallAsks
  <2>2. NetTypeOK'
    BY <1>0, <2>1 DEF NetTypeOK, Begin
  <2> QED
    BY <1>0, <2>1, <2>2 DEF TypeOK, Entries, kept
<1>2. ASSUME NEW c \in Callers, Retry(c) PROVE TypeOK'
  BY <1>0, <1>2, <1>a, NetStepTyped DEF Retry, kept
<1>3. ASSUME NEW c \in Callers, Returns(c) PROVE TypeOK'
  <2>1. ReturnsWell(c) /\ answer[c] \in Answers
    BY <1>3, ReturnsServed DEF IInv, Strength, AnswerIsTrue
  <2>2. answer[c].etag \in Etags
    BY <2>1
  <2>3. NetTypeOK'
    BY <1>0, <2>1 DEF NetTypeOK, ReturnsWell
  <2>4. known' \in [Callers -> Etags]
    BY <1>0, <2>1, <2>2 DEF ReturnsWell
  <2>5. outcome' \in [Callers -> Errors \cup {"none", "ok", "panic", "partial", "response"}]
    BY <1>0, <2>1 DEF ReturnsWell
  <2> QED
    BY <1>0, <2>1, <2>3, <2>4, <2>5 DEF TypeOK, Entries, ReturnsWell
<1>4. ASSUME NEW c \in Callers, Grant(c) \/ FailHalfWay(c) PROVE TypeOK'
  <2>1. PICK a \in Answers : Serve(c, a)
    BY <1>0, <1>4, ReplyTyped, RefusalsTyped DEF Grant, FailHalfWay
  <2>2. Apply(c, Copy(c)) /\ UNCHANGED app
    BY <1>4 DEF Grant, FailHalfWay
  <2>3. Copy(c).call \in 0..MaxCalls
    BY <1>0, <2>1, NewCopy DEF Serve, NetTypeOK
  <2> QED
    BY <1>a, <2>1, <2>2, <2>3, ServeTyped, Applied
<1>5. ASSUME NEW c \in Callers, Refuse(c) PROVE TypeOK'
  <2>1. PICK a \in Answers : Serve(c, a)
    BY <1>5, RefusalsTyped DEF Refuse
  <2> QED
    BY <1>0, <1>a, <1>5, <2>1, ServeTyped DEF Refuse, kept
<1>6. ASSUME NEW c \in Callers, GrantCut(c) PROVE TypeOK'
  <2>1. PICK copy \in cut[c] : ServeCut(c, copy) /\ Apply(c, copy) /\ UNCHANGED app
    BY <1>6 DEF GrantCut
  <2>2. NetTypeOK'
    BY <1>0, <2>1 DEF NetTypeOK, ServeCut
  <2> QED
    BY <1>a, <2>1, <2>2, CallInRange, Applied
<1>7. CASE Lapse
  <2>1. NetTypeOK' /\ UNCHANGED app /\ block' = block /\ thing' \in Things
    BY <1>0, <1>7 DEF Lapse, net, NetTypeOK, Things
  <2>2. [by |-> None, call |-> 0, ends |-> TRUE] \in Entries
    BY DEF Entries
  <2> QED
    BY <1>0, <1>a, <1>7, <2>1, <2>2, Appended DEF Lapse
<1>8. CASE UNCHANGED vars
  BY <1>0, <1>8 DEF vars, net, kept, app, TypeOK, NetTypeOK
<1> QED
  BY <1>1, <1>2, <1>3, <1>4, <1>5, <1>6, <1>7, <1>8 DEF Next

-----------------------------------------------------------------------------
(* What a step means for the instance it is a step of: Own still holds of  *)
(* it, what it has been told is true, and what it asked on a condition was *)
(* done on it.                                                             *)

(* Conditional, of one instance.                                           *)
Met(c) ==
  given[c] # None =>
    /\ given[c].etag # 0 => \A i \in WrittenBy(c) : i = given[c].etag + 1
    /\ given[c].op \in {"schedule", "start"} =>
         \A i, j \in WrittenBy(c) : i < j => \E k \in (i + 1)..(j - 1) : log[k].ends

Keeps(c) == Own(c)' /\ (Told(c) => Told(c)') /\ (Met(c) => Met(c)')

LEMMA MetSame ==
  ASSUME NEW c, Met(c), WrittenBy(c)' = WrittenBy(c), given'[c] = given[c],
         \A i \in WrittenBy(c) : i \in Nat \ {0},
         \A i \in WrittenBy(c), k \in Nat \ {0} : k < i => log'[k].ends = log[k].ends
  PROVE  Met(c)'
<1> SUFFICES ASSUME given[c] # None, given[c].op \in {"schedule", "start"},
                    NEW i \in WrittenBy(c), NEW j \in WrittenBy(c), i < j
             PROVE  \E k \in (i + 1)..(j - 1) : log'[k].ends
  BY DEF Met
<1>1. PICK k \in (i + 1)..(j - 1) : log[k].ends
  BY DEF Met
<1>2. k \in Nat \ {0} /\ k < j
  BY <1>1
<1> QED
  BY <1>1, <1>2

LEMMA UntouchedKeepsAll ==
  ASSUME IInv, NEW c \in Callers, Untouched(c) PROVE Keeps(c)
<1>0. /\ WrittenBy(c)' = WrittenBy(c) /\ given'[c] = given[c]
      /\ \A i \in WrittenBy(c) : log'[i] = log[i]
      /\ calls[c] > 0 /\ Overtaken(c) => Overtaken(c)'
      /\ calls[c] = 0 \/ calls[c] > 0
      /\ outcome'[c] = outcome[c] /\ attempt'[c] = attempt[c]
  BY UntouchedWritten, CallsBegun DEF Untouched
<1>1. calls[c] = 0 => outcome[c] = "none"
  BY DEF IInv, Strength, OutcomeOfTheIdle
<1>2. Told(c) => Told(c)'
  BY <1>0, <1>1 DEF Told
<1>3. \A i \in WrittenBy(c) : i \in 1..Len(log)
  BY DEF WrittenBy
<1>4. \A i \in WrittenBy(c), k \in Nat \ {0} : k < i => log'[k].ends = log[k].ends
  <2>1. log \in Seq(Entries) /\ Len(log) \in Nat
    BY CallsBegun
  <2>2. \A k \in 1..Len(log) : log'[k] = log[k]
    BY <2>1, Appended DEF Untouched
  <2> QED
    BY <1>3, <2>1, <2>2
<1>5. Met(c) => Met(c)'
  BY <1>0, <1>3, <1>4, MetSame
<1> QED
  BY <1>2, <1>5, UntouchedKeeps DEF Keeps

LEMMA BeginKeeps ==
  ASSUME IInv, NEW c \in Callers, NEW r \in Asks, Begin(c, r), r.op \in Exports[block],
         r.etag \in {0, known[c]}, given' = [given EXCEPT ![c] = r],
         outcome' = [outcome EXCEPT ![c] = "none"], UNCHANGED <<kept, known>>
  PROVE  Keeps(c)
<1>0. /\ NetTypeOK /\ log \in Seq(Entries) /\ Len(log) \in Nat
      /\ given \in [Callers -> Asks \cup {None}] /\ calls[c] \in Nat
      /\ outcome \in [Callers -> Errors \cup {"none", "ok", "panic", "partial", "response"}]
      /\ AsAsked(c) /\ Accounted(c) /\ LogIsCurrent
  BY TypesOf, CallsBegun DEF IInv, Strength
<1>1. /\ phase'[c] = "sent" /\ request'[c] = r /\ attempt'[c] = 1 /\ calls'[c] = calls[c] + 1
      /\ cut' = cut /\ given'[c] = r /\ outcome'[c] = "none" /\ known' = known /\ log' = log
      /\ block' = block
  BY <1>0 DEF NetTypeOK, Begin, kept
<1>2. WrittenBy(c)' = {}
  <2>1. \A i \in 1..Len(log) : log[i].by = c => log[i].call <= calls[c] /\ log[i].call \in Nat
    <3>1. \A i \in 1..Len(log) : log[i] \in Entries
      BY <1>0
    <3>2. \A e \in Entries : e.call \in Nat
      BY DEF Entries
    <3> QED
      BY <1>0, <3>1, <3>2 DEF LogIsCurrent
  <2> QED
    BY <1>0, <1>1, <2>1 DEF WrittenBy
<1>3. Out(c)' = {}
  <2>1. \A copy \in cut[c] : copy.call <= calls[c] /\ copy.call \in Nat
    BY <1>0 DEF AsAsked, NetTypeOK, Copies
  <2> QED
    BY <1>0, <1>1, <2>1 DEF Out
<1>4. AsAsked(c)'
  <2>1. 1 \in 1..Attempts(c)
    BY AttemptsInRange
  <2>2. \A copy \in cut'[c] : copy.call <= calls'[c]
    BY <1>0, <1>1 DEF AsAsked, NetTypeOK, Copies
  <2>3. r.etag <= Len(log)
    BY <1>0 DEF AsAsked
  <2> QED
    BY <1>0, <1>1, <1>3, <2>1, <2>2, <2>3 DEF AsAsked, Attempts
<1>5. WritesAsAsked(c)'
  BY <1>2 DEF WritesAsAsked
<1>6. Accounted(c)'
  BY <1>0, <1>1, <1>2, <1>3, FS_EmptySet DEF Accounted
<1>7. AnswerIsTrue(c)' /\ OutcomeOfTheIdle(c)'
  BY <1>1 DEF AnswerIsTrue, OutcomeOfTheIdle
<1>8. Told(c)' /\ Met(c)'
  BY <1>1, <1>2 DEF Told, Met, Errors
<1> QED
  BY <1>4, <1>5, <1>6, <1>7, <1>8 DEF Keeps, Own

LEMMA OutFinite ==
  ASSUME NEW c \in Callers, Accounted(c)
  PROVE  /\ IsFiniteSet(Out(c)) /\ Cardinality(Out(c)) \in Nat
         /\ Out(c) = {} <=> Cardinality(Out(c)) = 0
<1>1. IsFiniteSet(Out(c))
  BY FS_Subset DEF Accounted, Out
<1> QED
  BY <1>1, FS_CardinalityType, FS_EmptySet

LEMMA NetStepKeeps ==
  ASSUME IInv, NEW c \in Callers, NetStep(c), UNCHANGED <<kept, app>>
  PROVE  Keeps(c)
<1>0. /\ NetTypeOK /\ log \in Seq(Entries) /\ Own(c)
      /\ phase[c] \in {"sent", "served", "backoff"} /\ calls[c] > 0 /\ outcome[c] = "none"
      /\ attempt[c] \in Nat /\ given[c] \in Asks /\ request[c] = given[c]
  <2>1. phase[c] \in {"sent", "served", "backoff"}
    BY DEF NetStep, SendFails, Resend, BodyFails
  <2> QED
    BY <2>1, TypesOf, CallsBegun DEF IInv, Strength, Own, Underway, OutcomeOfTheIdle
<1>1. /\ log' = log /\ thing' = thing /\ block' = block /\ known' = known
      /\ given' = given /\ outcome' = outcome /\ request' = request /\ calls' = calls
  BY DEF kept, app, NetStep, SendFails, Resend, BodyFails
<1>2. WrittenBy(c)' = WrittenBy(c)
  BY <1>1, WrittenSame
<1>3. Cardinality(WrittenBy(c)) \in Nat /\ IsFiniteSet(Out(c)) /\ Cardinality(Out(c)) \in Nat
  BY <1>0, WrittenFinite, OutFinite DEF Own
<1>4. WritesAsAsked(c)' /\ OutcomeOfTheIdle(c)' /\ Told(c)' /\ (Met(c) => Met(c)')
  BY <1>0, <1>1, <1>2 DEF Own, WritesAsAsked, OutcomeOfTheIdle, Told, Met, Errors
<1>5. CASE SendFails(c)
  <2>1. /\ phase'[c] \in {"backoff", "dead"} /\ attempt' = attempt
        /\ phase'[c] = "backoff" => attempt[c] < Attempts(c)
    BY <1>0, <1>5 DEF SendFails, NetTypeOK
  <2>2. \/ cut' = cut
        \/ phase[c] = "sent" /\ cut'[c] = cut[c] \cup {Copy(c)}
    BY <1>0, <1>5 DEF SendFails, NetTypeOK
  <2>3. phase[c] = "sent" => Copy(c).call = calls[c] /\ Copy(c).request = given[c]
    BY NewCopy
  <2>4. \/ Out(c)' = Out(c)
        \/ phase[c] = "sent" /\ Out(c)' = Out(c) \cup {Copy(c)}
    BY <1>1, <2>2, <2>3 DEF Out
  <2>5. AsAsked(c)'
    <3>1. \A copy \in cut'[c] : copy.call <= calls[c]
      BY <1>0, <2>2, <2>3, CallsBegun DEF Own, AsAsked
    <3>2. \A copy \in Out(c)' : copy.request = given[c]
      BY <1>0, <2>3, <2>4 DEF Own, AsAsked
    <3> QED
      BY <1>0, <1>1, <2>1, <3>1, <3>2 DEF Own, AsAsked, Attempts
  <2>6. Accounted(c)'
    <3>1. IsFiniteSet(cut'[c])
      <4>1. IsFiniteSet(cut[c])
        BY <1>0 DEF Own, Accounted
      <4>2. IsFiniteSet(cut[c] \cup {Copy(c)})
        BY <4>1, FS_AddElement
      <4> QED
        BY <2>2, <4>1, <4>2
    <3>2. Cardinality(Out(c)') <= Cardinality(Out(c)) + (IF phase[c] = "sent" THEN 1 ELSE 0)
          /\ Cardinality(Out(c)') \in Nat
      <4>1. CASE Out(c)' = Out(c)
        BY <1>3, <4>1
      <4>2. CASE phase[c] = "sent" /\ Out(c)' = Out(c) \cup {Copy(c)}
        <5>1. Cardinality(Out(c)') = Cardinality(Out(c) \cup {Copy(c)})
          BY <4>2, Zenon
        <5>2. Cardinality(Out(c)') \in {Cardinality(Out(c)), Cardinality(Out(c)) + 1}
          BY <1>3, <5>1, FS_AddElement
        <5> QED
          BY <1>3, <4>2, <5>2
      <4> QED
        BY <2>4, <4>1, <4>2
    <3>3. Cardinality(WrittenBy(c)) + Cardinality(Out(c))
           + (IF phase[c] = "sent" THEN 1 ELSE 0) <= attempt[c]
      BY <1>0 DEF Own, Accounted
    <3>4. Cardinality(WrittenBy(c)) + Cardinality(Out(c)') <= attempt[c]
      BY <1>0, <1>3, <3>2, <3>3
    <3> QED
      BY <1>0, <1>2, <1>3, <2>1, <3>1, <3>2, <3>4 DEF Accounted
  <2> QED
    BY <1>4, <2>1, <2>5, <2>6 DEF Keeps, Own, AnswerIsTrue
<1>6. CASE Resend(c)
  <2>1. phase[c] = "backoff" /\ phase'[c] = "sent" /\ attempt'[c] = attempt[c] + 1 /\ cut' = cut
    BY <1>0, <1>6 DEF Resend, NetTypeOK
  <2>2. Out(c)' = Out(c)
    BY <1>1, <2>1 DEF Out
  <2>3. AsAsked(c)'
    BY <1>0, <1>1, <2>1, <2>2, AttemptsInRange DEF Own, AsAsked, Attempts
  <2>4. Accounted(c)'
    BY <1>0, <1>2, <1>3, <2>1, <2>2 DEF Own, Accounted
  <2> QED
    BY <1>4, <2>1, <2>3, <2>4 DEF Keeps, Own, AnswerIsTrue
<1>7. CASE BodyFails(c)
  <2>1. phase[c] = "served" /\ phase'[c] = "dead" /\ attempt' = attempt /\ cut' = cut
    BY <1>0, <1>7 DEF BodyFails, NetTypeOK
  <2>2. Out(c)' = Out(c)
    BY <1>1, <2>1 DEF Out
  <2>3. AsAsked(c)'
    BY <1>0, <1>1, <2>1, <2>2 DEF Own, AsAsked, Attempts
  <2>4. Accounted(c)'
    BY <1>0, <1>2, <1>3, <2>1, <2>2 DEF Own, Accounted
  <2> QED
    BY <1>4, <2>1, <2>3, <2>4 DEF Keeps, Own, AnswerIsTrue
<1> QED
  BY <1>5, <1>6, <1>7 DEF NetStep

LEMMA ReturnsKeeps ==
  ASSUME IInv, NEW c \in Callers, Returns(c) PROVE Keeps(c)
<1>0. /\ NetTypeOK /\ Own(c) /\ phase[c] = "served" /\ calls[c] > 0 /\ ReturnsWell(c)
      /\ request[c] = given[c] /\ given[c] # None
      /\ known \in [Callers -> Etags]
      /\ outcome \in [Callers -> Errors \cup {"none", "ok", "panic", "partial", "response"}]
  BY ReturnsServed, TypesOf, CallsBegun DEF IInv, Strength, Own
<1>1. /\ log' = log /\ thing' = thing /\ block' = block /\ request' = request
      /\ attempt' = attempt /\ calls' = calls /\ cut' = cut /\ given' = given
  BY <1>0 DEF ReturnsWell
<1>2. WrittenBy(c)' = WrittenBy(c) /\ Out(c)' = Out(c)
  BY <1>1, WrittenSame DEF Out
<1>3. PICK o \in Errors \cup {"ok", "panic", "partial", "response"} :
        /\ outcome' = [outcome EXCEPT ![c] = o]
        /\ phase' = [phase EXCEPT ![c] = IF o = "panic" THEN "dead" ELSE "idle"]
        /\ o = "ok" => answer[c].status \in {"200", "204"}
        /\ o \in Errors =>
             answer[c].status \notin {"200", "204"} \/ request[c].op \in Reads
        /\ o = "etag-mismatch" =>
             answer[c].status = "409" /\ block \in {"state", "bulkState"}
  BY <1>0 DEF ReturnsWell
<1>4. outcome'[c] = o /\ phase'[c] \in {"idle", "dead"} /\ (phase'[c] = "dead" => o = "panic")
  BY <1>0, <1>3 DEF NetTypeOK
<1>5. known'[c] <= Len(log)
  BY <1>0 DEF ReturnsWell, Own, AsAsked, AnswerIsTrue
<1>6. AsAsked(c)'
  BY <1>0, <1>1, <1>2, <1>4, <1>5 DEF Own, AsAsked, Attempts
<1>7. WritesAsAsked(c)' /\ Accounted(c)'
  BY <1>0, <1>1, <1>2, <1>4 DEF Own, WritesAsAsked, Accounted
<1>8. AnswerIsTrue(c)' /\ OutcomeOfTheIdle(c)'
  BY <1>0, <1>1, <1>4 DEF AnswerIsTrue, OutcomeOfTheIdle, Underway
<1>9. Told(c)'
  <2>1. o = "ok" /\ given[c].op \notin Reads \cup Removals => WrittenBy(c) # {}
    BY <1>0, <1>3 DEF Own, AnswerIsTrue
  <2>2. o \in Errors /\ attempt[c] = 1 /\ given[c].op \notin PassedOn => WrittenBy(c) = {}
    BY <1>0, <1>3 DEF Own, AnswerIsTrue, WritesAsAsked
  <2>3. o = "etag-mismatch" => Overtaken(c)
    BY <1>0, <1>3 DEF Own, AnswerIsTrue
  <2> QED
    BY <1>1, <1>2, <1>4, <2>1, <2>2, <2>3 DEF Told, Overtaken
<1>10. Met(c) => Met(c)'
  BY <1>1, <1>2 DEF Met
<1> QED
  BY <1>6, <1>7, <1>8, <1>9, <1>10 DEF Keeps, Own

(* A write of the latest call, whether of its request or of a late copy.   *)
LEMMA WriteKeeps ==
  ASSUME IInv, NEW c \in Callers, calls[c] > 0, Writes(given[c]),
         NEW e \in Entries, e.by = c, e.call = calls[c],
         e.ends = (To(given[c].op) \in {"absent", "ended"}),
         log' = Append(log, e), calls'[c] = calls[c], given'[c] = given[c]
  PROVE  /\ Cardinality(WrittenBy(c)') = Cardinality(WrittenBy(c)) + 1
         /\ WrittenBy(c)' # {}
         /\ given[c].op \notin Reads
         /\ WritesAsAsked(c)'
         /\ Met(c) => Met(c)'
<1>0. /\ log \in Seq(Entries) /\ Len(log) \in Nat /\ given[c] # None
      /\ given[c].etag \in Nat
      /\ WritesAsAsked(c) /\ LogIsCurrent
  BY CallsBegun DEF IInv, Strength
<1>1. /\ Cardinality(WrittenBy(c)') = Cardinality(WrittenBy(c)) + 1
      /\ WrittenBy(c)' # {}
      /\ \A i \in WrittenBy(c) : log'[i] = log[i]
  BY <1>0, CardinalityGrows
<1>2. WrittenBy(c)' = WrittenBy(c) \cup {Len(log) + 1}
  <2>1. Len(log') = Len(log) + 1 /\ log'[Len(log) + 1] = e
        /\ \A i \in 1..Len(log) : log'[i] = log[i]
    BY <1>0, Appended
  <2> QED
    BY <1>0, <2>1 DEF WrittenBy
<1>3. \A k \in 1..Len(log) : log'[k] = log[k]
  BY <1>0, Appended
<1>4. log'[Len(log) + 1] = e
  BY <1>0, Appended
<1>5. /\ given[c].op \notin Reads /\ thing \in From(given[c].op)
      /\ given[c].etag # 0 => given[c].etag = Len(log)
  BY DEF Writes, Passes
<1>6. given[c].op \in {"schedule", "start"} => ~e.ends /\ thing # "there"
  <2>1. To("schedule") = "there" /\ To("start") = "there"
    BY DEF To, Removals
  <2>2. From("schedule") = {"absent"} /\ From("start") = {"absent", "ended"}
    BY DEF From
  <2> QED
    BY <1>5, <2>1, <2>2
<1>7. \A i \in WrittenBy(c) : i \in 1..Len(log)
  BY DEF WrittenBy
<1>8. WritesAsAsked(c)'
  BY <1>0, <1>1, <1>2, <1>4, <1>5, <1>6 DEF WritesAsAsked
<1>9. ASSUME Met(c) PROVE Met(c)'
  <2>1. given[c].etag # 0 => \A i \in WrittenBy(c)' : i = given[c].etag + 1
    BY <1>0, <1>2, <1>5, <1>9 DEF Met
  <2>2. ASSUME given[c].op \in {"schedule", "start"},
               NEW i \in WrittenBy(c)', NEW j \in WrittenBy(c)', i < j
        PROVE  \E k \in (i + 1)..(j - 1) : log'[k].ends
    <3>1. i \in WrittenBy(c)
      BY <1>0, <1>2, <1>7, <2>2
    <3>2. CASE j \in WrittenBy(c)
      <4>1. PICK k \in (i + 1)..(j - 1) : log[k].ends
        BY <1>0, <1>9, <2>2, <3>1, <3>2 DEF Met
      <4>2. k \in 1..Len(log)
        BY <1>0, <1>7, <3>1, <3>2, <4>1
      <4> QED
        BY <1>3, <4>1, <4>2
    <3>3. CASE j = Len(log) + 1
      <4>1. i \in 1..Len(log) /\ ~log[i].ends
        BY <1>0, <1>7, <2>2, <3>1 DEF WritesAsAsked
      <4>2. Len(log) > 0 /\ log[Len(log)].ends = (thing # "there")
        BY <1>0, <4>1 DEF LogIsCurrent
      <4>3. log[Len(log)].ends
        BY <1>6, <2>2, <4>2
      <4>4. i # Len(log)
        BY <4>1, <4>3, Zenon
      <4>5. Len(log) \in (i + 1)..(j - 1) /\ log'[Len(log)] = log[Len(log)]
        BY <1>0, <1>3, <3>3, <4>1, <4>4
      <4> QED
        BY <4>3, <4>5
    <3> QED
      BY <1>2, <3>2, <3>3
  <2> QED
    BY <2>1, <2>2 DEF Met
<1> QED
  BY <1>1, <1>5, <1>8, <1>9

LEMMA OvertakenStays ==
  ASSUME IInv, NEW c \in Callers, calls[c] > 0, Overtaken(c), given'[c] = given[c],
         Len(log') \in Nat, Len(log) <= Len(log'), thing' = thing \/ Len(log) < Len(log')
  PROVE  Overtaken(c)'
BY CallsBegun DEF Overtaken

(* The request of c is served, and written if `wrote`.                     *)
LEMMA ServedKeeps ==
  ASSUME IInv, NEW c \in Callers, NEW a \in Answers, Serve(c, a), UNCHANGED app,
         block' = block, NEW wrote \in BOOLEAN,
         wrote => /\ Writes(given[c]) /\ Entry(c, Copy(c)) \in Entries
                  /\ log' = Append(log, Entry(c, Copy(c))),
         ~wrote => log' = log /\ thing' = thing,
         a.etag <= Len(log'),
         a.status \in {"200", "204"} /\ given[c].op \notin Reads \cup Removals => wrote,
         a.status \notin {"200", "204"} /\ given[c].op \notin PassedOn => ~wrote,
         a.status = "409" /\ block \in {"state", "bulkState"} => Overtaken(c)'
  PROVE  Keeps(c)
<1>0. /\ NetTypeOK /\ Own(c) /\ phase[c] = "sent" /\ calls[c] > 0
      /\ request[c] = given[c] /\ given[c] # None /\ outcome[c] = "none"
      /\ attempt[c] \in Nat /\ log \in Seq(Entries) /\ Len(log) \in Nat
  <2>1. phase[c] = "sent"
    BY DEF Serve
  <2> QED
    BY <2>1, TypesOf, CallsBegun DEF IInv, Strength, Own, Underway, OutcomeOfTheIdle
<1>1. /\ request' = request /\ attempt' = attempt /\ calls' = calls /\ cut' = cut
      /\ given' = given /\ known' = known /\ outcome' = outcome
      /\ phase'[c] = "served" /\ answer'[c] = a
  BY <1>0 DEF Serve, app, NetTypeOK
<1>2. Out(c)' = Out(c) /\ IsFiniteSet(Out(c)) /\ Cardinality(Out(c)) \in Nat
      /\ (Out(c) = {} <=> Cardinality(Out(c)) = 0)
  BY <1>0, <1>1, OutFinite DEF Out, Own
<1>3. /\ Cardinality(WrittenBy(c)) \in Nat
      /\ WrittenBy(c) = {} <=> Cardinality(WrittenBy(c)) = 0
  BY <1>0, WrittenFinite
<1>4. Cardinality(WrittenBy(c)) + Cardinality(Out(c)) + 1 <= attempt[c]
  BY <1>0 DEF Own, Accounted
<1>5. attempt[c] = 1 => WrittenBy(c) = {} /\ Out(c) = {}
  BY <1>2, <1>3, <1>4
<1>6. /\ Copy(c).call = calls[c] /\ Copy(c).request = given[c]
  BY <1>0, NewCopy
<1>7. ASSUME wrote
      PROVE  /\ Cardinality(WrittenBy(c)') = Cardinality(WrittenBy(c)) + 1
             /\ WrittenBy(c)' # {} /\ given[c].op \notin Reads
             /\ WritesAsAsked(c)' /\ (Met(c) => Met(c)')
             /\ Len(log') = Len(log) + 1
  <2>1. /\ Entry(c, Copy(c)).by = c /\ Entry(c, Copy(c)).call = calls[c]
        /\ Entry(c, Copy(c)).ends = (To(given[c].op) \in {"absent", "ended"})
    BY <1>6 DEF Entry
  <2> HIDE DEF Entry
  <2> QED
    BY <1>0, <1>1, <1>7, <2>1, WriteKeeps, Appended
<1>8. ASSUME ~wrote
      PROVE  /\ WrittenBy(c)' = WrittenBy(c) /\ log' = log
             /\ WritesAsAsked(c)' /\ (Met(c) => Met(c)')
  <2>1. WrittenBy(c)' = WrittenBy(c) /\ log' = log
    BY <1>1, <1>8, WrittenSame
  <2> QED
    BY <1>0, <1>1, <2>1 DEF Own, WritesAsAsked, Met
<1>9. /\ WritesAsAsked(c)' /\ (Met(c) => Met(c)') /\ Len(log) <= Len(log') /\ Len(log') \in Nat
      /\ Cardinality(WrittenBy(c)') \in Nat
      /\ Cardinality(WrittenBy(c)') <= Cardinality(WrittenBy(c)) + 1
  BY <1>0, <1>3, <1>7, <1>8
<1>10. AsAsked(c)'
  <2>1. known[c] <= Len(log) /\ known[c] \in Nat /\ given[c].etag <= Len(log) /\ given[c].etag \in Nat
    BY <1>0, CallsBegun, TypesOf DEF IInv, Own, AsAsked, Etags
  <2> QED
    BY <1>0, <1>1, <1>2, <1>9, <2>1 DEF Own, AsAsked, Attempts
<1>11. Accounted(c)'
  <2>1. Cardinality(WrittenBy(c)') + Cardinality(Out(c)) <= attempt[c]
    BY <1>0, <1>2, <1>3, <1>4, <1>9
  <2> QED
    BY <1>0, <1>1, <1>2, <1>5, <1>9, <2>1 DEF Own, Accounted
<1>12. AnswerIsTrue(c)'
  <2>1. a.status \in {"200", "204"} /\ given[c].op \notin Reads \cup Removals =>
          WrittenBy(c)' # {}
    BY <1>7
  <2>2. a.status \notin {"200", "204"} /\ attempt[c] = 1 /\ given[c].op \notin PassedOn =>
          WrittenBy(c)' = {}
    BY <1>5, <1>8
  <2> QED
    BY <1>1, <2>1, <2>2 DEF AnswerIsTrue
<1>13. OutcomeOfTheIdle(c)' /\ Told(c)'
  BY <1>0, <1>1 DEF OutcomeOfTheIdle, Told, Errors
<1> QED
  BY <1>9, <1>10, <1>11, <1>12, <1>13 DEF Keeps, Own

LEMMA CutKeeps ==
  ASSUME IInv, NEW c \in Callers, NEW copy \in cut[c], ServeCut(c, copy), Apply(c, copy),
         UNCHANGED app
  PROVE  Keeps(c)
<1>0. /\ NetTypeOK /\ Own(c) /\ attempt[c] \in Nat /\ calls[c] \in Nat
      /\ log \in Seq(Entries) /\ Len(log) \in Nat
      /\ copy.call \in 0..MaxCalls
  BY CallsBegun, CallInRange DEF IInv, Strength, Own, TypeOK
<1>1. /\ phase' = phase /\ request' = request /\ attempt' = attempt /\ calls' = calls
      /\ answer' = answer /\ given' = given /\ known' = known /\ outcome' = outcome
      /\ cut'[c] = cut[c] \ {copy}
  BY <1>0 DEF ServeCut, app, NetTypeOK
<1>2. /\ block' = block /\ Len(log') \in Nat /\ Len(log) <= Len(log')
      /\ \/ Writes(copy.request) /\ Entry(c, copy) \in Entries
            /\ log' = Append(log, Entry(c, copy)) /\ Len(log') = Len(log) + 1
         \/ ~Writes(copy.request) /\ log' = log /\ thing' = thing
  BY <1>0, Applied, Appended
<1>3. /\ calls[c] = 0 \/ calls[c] > 0
      /\ calls[c] > 0 => given[c].etag \in Nat /\ given[c].etag <= Len(log)
      /\ given[c] # None <=> calls[c] > 0
      /\ known[c] <= Len(log) /\ known[c] \in Nat
      /\ Underway(c) => calls[c] > 0
      /\ phase[c] \in {"idle", "sent", "served", "backoff", "dead"}
  BY <1>0, CallsBegun, TypesOf DEF IInv, Own, AsAsked, Etags, NetTypeOK
<1>4. Overtaken(c) /\ calls[c] > 0 => Overtaken(c)'
  BY <1>1, <1>2, OvertakenStays
<1>5. IsFiniteSet(cut'[c])
  BY <1>0, <1>1, FS_RemoveElement DEF Own, Accounted
<1>6. /\ Cardinality(WrittenBy(c)) \in Nat /\ IsFiniteSet(Out(c)) /\ Cardinality(Out(c)) \in Nat
      /\ WrittenBy(c) = {} <=> Cardinality(WrittenBy(c)) = 0
  BY <1>0, WrittenFinite, OutFinite DEF Own
<1>7. Entry(c, copy).by = c /\ Entry(c, copy).call = copy.call
      /\ Entry(c, copy).ends = (To(copy.request.op) \in {"absent", "ended"})
  BY DEF Entry
(* What follows of the writes and the copies of the latest call.           *)
<1>8. ASSUME /\ WritesAsAsked(c)' /\ (Met(c) => Met(c)')
             /\ Out(c)' \subseteq Out(c)
             /\ WrittenBy(c) # {} => WrittenBy(c)' # {}
             /\ Cardinality(WrittenBy(c)') + Cardinality(Out(c)')
                  + (IF phase[c] = "sent" THEN 1 ELSE 0) <= attempt[c]
             /\ attempt[c] = 1 /\ phase[c] \in {"served", "idle"} =>
                  WrittenBy(c)' = WrittenBy(c)
      PROVE  Keeps(c)
  <2>1. AsAsked(c)'
    BY <1>0, <1>1, <1>2, <1>3, <1>8 DEF Own, AsAsked, Attempts
  <2>2. Accounted(c)'
    BY <1>0, <1>1, <1>5, <1>8 DEF Own, Accounted
  <2>3. AnswerIsTrue(c)'
    <3>1. ASSUME phase[c] = "served"
          PROVE  answer[c] \in Answers /\ answer[c].etag <= Len(log') /\ calls[c] > 0
      <4>1. answer[c] \in Answers /\ answer[c].etag <= Len(log)
        BY <1>0, <3>1 DEF Own, AnswerIsTrue
      <4>2. answer[c].etag \in Nat
        BY <4>1 DEF Etags
      <4> QED
        BY <1>0, <1>2, <1>3, <3>1, <4>1, <4>2 DEF Underway
    <3> QED
      BY <1>0, <1>1, <1>2, <1>4, <1>8, <3>1 DEF Own, AnswerIsTrue
  <2>4. OutcomeOfTheIdle(c)'
    BY <1>0, <1>1 DEF Own, OutcomeOfTheIdle, Underway
  <2>5. ASSUME Told(c) PROVE Told(c)'
    <3>1. outcome[c] \in Errors => phase[c] = "idle" /\ calls[c] > 0
      BY <1>0, <1>3 DEF Own, OutcomeOfTheIdle, Underway, Errors
    <3>2. outcome[c] = "etag-mismatch" => Overtaken(c)'
      BY <1>4, <2>5, <3>1 DEF Told, Errors
    <3> QED
      BY <1>1, <1>8, <2>5, <3>1, <3>2 DEF Told
  <2> QED
    BY <1>8, <2>1, <2>2, <2>3, <2>4, <2>5 DEF Keeps, Own
<1>9. CASE copy.call = calls[c]
  <2>1. /\ copy \in Out(c) /\ copy.request = given[c] /\ Out(c)' = Out(c) \ {copy}
    BY <1>0, <1>1, <1>9 DEF Out, Own, AsAsked
  <2>2. Cardinality(Out(c)') = Cardinality(Out(c)) - 1
    <3>1. Cardinality(Out(c)') = Cardinality(Out(c) \ {copy})
      BY <2>1, Zenon
    <3> QED
      BY <1>6, <2>1, <3>1, FS_RemoveElement
  <2>3. ~(attempt[c] = 1 /\ phase[c] \in {"served", "idle"})
    BY <1>0, <2>1 DEF Own, Accounted
  <2>4. calls[c] > 0
    <3>1. copy.call \in 1..MaxCalls
      BY <1>0 DEF NetTypeOK, Copies
    <3> QED
      BY <1>9, <3>1
  <2>5. Cardinality(WrittenBy(c)) + Cardinality(Out(c))
          + (IF phase[c] = "sent" THEN 1 ELSE 0) <= attempt[c]
    BY <1>0 DEF Own, Accounted
  <2>6. CASE Writes(copy.request)
    <3>1. /\ Cardinality(WrittenBy(c)') = Cardinality(WrittenBy(c)) + 1
          /\ WrittenBy(c)' # {} /\ WritesAsAsked(c)' /\ (Met(c) => Met(c)')
      <4> HIDE DEF Entry
      <4> QED
        BY <1>1, <1>2, <1>7, <1>9, <2>1, <2>4, <2>6, WriteKeeps
    <3>2. Cardinality(WrittenBy(c)') + Cardinality(Out(c)')
            + (IF phase[c] = "sent" THEN 1 ELSE 0) <= attempt[c]
      BY <1>0, <1>6, <2>2, <2>5, <3>1
    <3> QED
      BY <1>8, <2>1, <2>3, <3>1, <3>2
  <2>7. CASE ~Writes(copy.request)
    <3>1. WrittenBy(c)' = WrittenBy(c) /\ log' = log
      BY <1>1, <1>2, <2>7, WrittenSame
    <3>2. WritesAsAsked(c)' /\ (Met(c) => Met(c)')
      BY <1>0, <1>1, <3>1 DEF Own, WritesAsAsked, Met
    <3>3. Cardinality(WrittenBy(c)') + Cardinality(Out(c)')
            + (IF phase[c] = "sent" THEN 1 ELSE 0) <= attempt[c]
      BY <1>0, <1>6, <2>2, <2>5, <3>1
    <3> QED
      BY <1>8, <2>1, <3>1, <3>2, <3>3
  <2> QED
    BY <2>6, <2>7
<1>10. CASE copy.call # calls[c]
  <2>1. Out(c)' = Out(c)
    BY <1>1, <1>10 DEF Out
  <2>2. /\ WrittenBy(c)' = WrittenBy(c)
        /\ \A k \in 1..Len(log) : log'[k] = log[k]
    <3> HIDE DEF Entry
    <3> QED
      BY <1>0, <1>1, <1>2, <1>7, <1>10, CardinalityGrows, Appended, WrittenSame
  <2>3. \A i \in WrittenBy(c) : i \in 1..Len(log)
    BY DEF WrittenBy
  <2>4. WritesAsAsked(c)'
    BY <1>0, <1>1, <2>2, <2>3 DEF Own, WritesAsAsked
  <2>5. Met(c) => Met(c)'
    <3>1. \A i \in WrittenBy(c), k \in Nat \ {0} : k < i => log'[k].ends = log[k].ends
      BY <1>0, <2>2, <2>3
    <3>2. \A i \in WrittenBy(c) : i \in Nat \ {0}
      BY <1>0, <2>3
    <3> QED
      BY <1>1, <2>2, <3>1, <3>2, MetSame
  <2>6. Cardinality(WrittenBy(c)') + Cardinality(Out(c)')
          + (IF phase[c] = "sent" THEN 1 ELSE 0) <= attempt[c]
    BY <1>0, <2>1, <2>2 DEF Own, Accounted
  <2> QED
    BY <1>8, <2>1, <2>2, <2>4, <2>5, <2>6
<1> QED
  BY <1>9, <1>10

-----------------------------------------------------------------------------
(* Every step.                                                             *)

LEMMA EntryOfCall ==
  ASSUME IInv, NEW c \in Callers, NEW copy, copy.call \in 0..MaxCalls,
         copy.call <= calls[c], Apply(c, copy), calls' = calls
  PROVE  LogIsCurrent'
<1>0. /\ log \in Seq(Entries) /\ Len(log) \in Nat /\ LogIsCurrent
  BY CallsBegun DEF IInv, Strength
<1>1. Len(log') > 0 => log'[Len(log')].ends = (thing' # "there")
  BY Applied
<1>2. CASE Writes(copy.request)
  <2>1. /\ Entry(c, copy) \in Entries /\ log' = Append(log, Entry(c, copy))
    BY <1>2, Applied
  <2>2. Entry(c, copy).by = c /\ Entry(c, copy).call = copy.call
    BY DEF Entry
  <2> HIDE DEF Entry
  <2>3. /\ Len(log') = Len(log) + 1 /\ log'[Len(log) + 1] = Entry(c, copy)
        /\ \A i \in 1..Len(log) : log'[i] = log[i]
    BY <1>0, <2>1, Appended
  <2>4. ASSUME NEW i \in 1..Len(log'), NEW d \in Callers, log'[i].by = d
        PROVE  log'[i].call <= calls[d]
    <3>1. CASE i \in 1..Len(log)
      BY <1>0, <2>3, <2>4, <3>1 DEF LogIsCurrent
    <3>2. CASE i = Len(log) + 1
      BY <2>2, <2>3, <2>4, <3>2
    <3> QED
      BY <1>0, <2>3, <3>1, <3>2
  <2> QED
    BY <1>1, <2>4 DEF LogIsCurrent
<1>3. CASE ~Writes(copy.request)
  <2>1. log' = log
    BY <1>3, Applied
  <2> QED
    BY <1>0, <1>1, <2>1 DEF LogIsCurrent
<1> QED
  BY <1>2, <1>3

(* A step of another instance that writes nothing, or writes as its own.   *)
LEMMA AppliedByOthers ==
  ASSUME IInv, NEW c \in Callers, NEW d \in Callers, d # c,
         NEW copy, copy.call \in 0..MaxCalls, Apply(c, copy), UNCHANGED app,
         phase'[d] = phase[d], request'[d] = request[d], attempt'[d] = attempt[d],
         calls'[d] = calls[d], answer'[d] = answer[d], cut'[d] = cut[d]
  PROVE  Untouched(d)
<1>1. Entry(c, copy).by = c
  BY DEF Entry
<1>2. /\ block' = block
      /\ \/ Entry(c, copy) \in Entries /\ log' = Append(log, Entry(c, copy))
         \/ log' = log /\ thing' = thing
  BY Applied
<1> HIDE DEF Entry
<1> QED
  BY <1>1, <1>2 DEF Untouched, app

LEMMA LogStays ==
  ASSUME IInv, log' = log, thing' = thing,
         \A d \in Callers : calls'[d] \in Nat /\ calls[d] <= calls'[d]
  PROVE  LogIsCurrent'
<1>1. \A i \in 1..Len(log) : log[i].call \in Nat
  <2>1. \A i \in 1..Len(log) : log[i] \in Entries
    BY TypesOf DEF IInv
  <2> QED
    BY <2>1 DEF Entries
<1>2. \A d \in Callers : calls[d] \in Nat
  BY CallsBegun
<1> QED
  BY <1>1, <1>2 DEF IInv, Strength, LogIsCurrent

(* The etag alone decides about the requests to a state store.             *)
LEMMA StatesTakeAll ==
  ASSUME NEW op \in Exports[block], block \in {"state", "bulkState"}
  PROVE  From(op) = Things
BY DEF Exports, From

LEMMA ReplyIsTrue ==
  ASSUME IInv, NEW c \in Callers, calls[c] > 0
  PROVE  LET a == Reply(c, given[c]) IN
         /\ a.status \in {"200", "204"} /\ given[c].op \notin Reads \cup Removals =>
              Writes(given[c])
         /\ a.status \notin {"200", "204"} => ~Writes(given[c])
         /\ a.status = "409" /\ block \in {"state", "bulkState"} => Overtaken(c)
<1>0. /\ TypeOK /\ thing \in Things /\ given[c].op \in Exports[block]
      /\ Reply(c, given[c]).status = Status(c, given[c])
  BY ReplyTyped, TypesOf DEF IInv, Strength, AsAsked
<1>1. CASE given[c].op \in Gets
  <2>1. given[c].op \in Reads
    BY <1>1 DEF Reads
  <2>2. Status(c, given[c]) # "409"
    BY <1>1 DEF Status, Absence
  <2> QED
    BY <1>0, <2>1, <2>2 DEF Writes
<1>2. CASE given[c].op \notin Gets
  <2>1. CASE Passes(given[c])
    <3>1. Status(c, given[c]) = "200"
      BY <1>2, <2>1 DEF Status
    <3> QED
      BY <1>0, <2>1, <3>1 DEF Writes
  <2>2. CASE ~Passes(given[c])
    <3>1. Status(c, given[c]) \in {"404", "409"}
      BY <1>2, <2>2 DEF Status
    <3>2. block \in {"state", "bulkState"} => Overtaken(c)
      <4>1. block \in {"state", "bulkState"} => thing \in From(given[c].op)
        BY <1>0, StatesTakeAll
      <4> QED
        BY <2>2, <4>1 DEF Passes, Overtaken
    <3> QED
      BY <1>0, <2>2, <3>1, <3>2 DEF Writes
  <2> QED
    BY <2>1, <2>2
<1> QED
  BY <1>1, <1>2

LEMMA NextKeeps ==
  ASSUME IInv, [Next]_vars
  PROVE  LogIsCurrent' /\ \A c \in Callers : Keeps(c)
<1>0. /\ NetTypeOK /\ TypeOK /\ \A d \in Callers : calls[d] \in Nat
      /\ log \in Seq(Entries) /\ Len(log) \in Nat /\ Len(log) <= MaxWrites
      /\ thing \in Things /\ known \in [Callers -> Etags]
      /\ given \in [Callers -> Asks \cup {None}]
      /\ outcome \in [Callers -> Errors \cup {"none", "ok", "panic", "partial", "response"}]
  BY TypesOf, CallsBegun DEF IInv
<1>1. ASSUME NEW c \in Callers, Call(c) PROVE LogIsCurrent' /\ \A d \in Callers : Keeps(d)
  <2>1. PICK r \in Asks : /\ Begin(c, r) /\ r.op \in Exports[block]
                          /\ r.etag \in {0, known[c]}
                          /\ given' = [given EXCEPT ![c] = r]
                          /\ outcome' = [outcome EXCEPT ![c] = "none"]
                          /\ UNCHANGED <<kept, known>>
    BY <1>0, <1>1, CallAsks
  <2>2. LogIsCurrent'
    <3>1. \A d \in Callers : calls'[d] \in Nat /\ calls[d] <= calls'[d]
      BY <1>0, <2>1 DEF Begin, NetTypeOK
    <3> QED
      BY <2>1, <3>1, LogStays DEF kept
  <2>3. ASSUME NEW d \in Callers, d # c PROVE Untouched(d)
    BY <1>0, <2>1, <2>3 DEF Untouched, Begin, kept, NetTypeOK
  <2> QED
    BY <2>1, <2>2, <2>3, BeginKeeps, UntouchedKeepsAll
<1>2. ASSUME NEW c \in Callers, Retry(c) PROVE LogIsCurrent' /\ \A d \in Callers : Keeps(d)
  <2>1. NetStep(c) /\ UNCHANGED <<kept, app>>
    BY <1>2 DEF Retry
  <2>2. calls' = calls
    BY <2>1 DEF NetStep, SendFails, Resend, BodyFails
  <2>3. LogIsCurrent'
    BY <1>0, <2>1, <2>2, LogStays DEF kept
  <2>4. ASSUME NEW d \in Callers, d # c PROVE Untouched(d)
    BY <1>0, <2>1, <2>4 DEF Untouched, NetStep, SendFails, Resend, BodyFails, kept, app, NetTypeOK
  <2> QED
    BY <2>1, <2>3, <2>4, NetStepKeeps, UntouchedKeepsAll
<1>3. ASSUME NEW c \in Callers, Returns(c) PROVE LogIsCurrent' /\ \A d \in Callers : Keeps(d)
  <2>1. ReturnsWell(c)
    BY <1>3, ReturnsServed
  <2>2. LogIsCurrent'
    BY <1>0, <2>1, LogStays DEF ReturnsWell
  <2>3. ASSUME NEW d \in Callers, d # c PROVE Untouched(d)
    BY <1>0, <2>1, <2>3 DEF Untouched, ReturnsWell, NetTypeOK
  <2> QED
    BY <1>3, <2>2, <2>3, ReturnsKeeps, UntouchedKeepsAll
(* A request is served, and applied.                                       *)
<1>4. ASSUME NEW c \in Callers, NEW a \in Answers, Serve(c, a), Apply(c, Copy(c)),
             UNCHANGED app, a.etag <= Len(log),
             a.status \in {"200", "204"} /\ given[c].op \notin Reads \cup Removals =>
               Writes(given[c]),
             a.status \notin {"200", "204"} /\ given[c].op \notin PassedOn =>
               ~Writes(given[c]),
             a.status = "409" /\ block \in {"state", "bulkState"} => Overtaken(c)
      PROVE  LogIsCurrent' /\ \A d \in Callers : Keeps(d)
  <2>1. /\ Copy(c).call = calls[c] /\ Copy(c).request = given[c]
        /\ Copy(c).call \in 0..MaxCalls /\ Copy(c).call <= calls[c] /\ calls[c] > 0
    BY <1>0, <1>4, NewCopy, CallsBegun DEF Serve, NetTypeOK, Underway
  <2>2. calls' = calls
    BY <1>4 DEF Serve
  <2>3. LogIsCurrent'
    BY <1>4, <2>1, <2>2, EntryOfCall
  <2>4. /\ block' = block /\ Len(log') \in Nat /\ Len(log) <= Len(log')
        /\ Writes(given[c]) => /\ Entry(c, Copy(c)) \in Entries
                               /\ log' = Append(log, Entry(c, Copy(c)))
                               /\ Len(log') = Len(log) + 1
        /\ ~Writes(given[c]) => log' = log /\ thing' = thing
    BY <1>0, <1>4, <2>1, Applied, Appended
  <2>5. a.status = "409" /\ block \in {"state", "bulkState"} => Overtaken(c)'
    <3>1. given'[c] = given[c]
      BY <1>4 DEF app
    <3>2. thing' = thing \/ Len(log) < Len(log')
      BY <1>0, <2>4
    <3> QED
      BY <1>4, <2>1, <2>4, <3>1, <3>2, OvertakenStays
  <2>6. a.etag <= Len(log') /\ a.etag \in Nat
    BY <1>0, <1>4, <2>4 DEF Etags
  <2>7. Writes(given[c]) \in BOOLEAN
    BY DEF Writes
  <2>8. Keeps(c)
    <3> DEFINE wrote == Writes(given[c])
    <3>1. /\ wrote \in BOOLEAN
          /\ wrote => /\ Writes(given[c]) /\ Entry(c, Copy(c)) \in Entries
                      /\ log' = Append(log, Entry(c, Copy(c)))
          /\ ~wrote => log' = log /\ thing' = thing
          /\ a.status \in {"200", "204"} /\ given[c].op \notin Reads \cup Removals => wrote
          /\ a.status \notin {"200", "204"} /\ given[c].op \notin PassedOn => ~wrote
      BY <1>4, <2>4, <2>7
    <3> HIDE DEF wrote
    <3> QED
      BY <1>4, <2>4, <2>5, <2>6, <3>1, ServedKeeps
  <2>9. ASSUME NEW d \in Callers, d # c PROVE Untouched(d)
    <3>1. /\ phase'[d] = phase[d] /\ request'[d] = request[d] /\ attempt'[d] = attempt[d]
          /\ calls'[d] = calls[d] /\ answer'[d] = answer[d] /\ cut'[d] = cut[d]
      BY <1>0, <1>4, <2>9 DEF Serve, NetTypeOK
    <3> QED
      BY <1>4, <2>1, <2>9, <3>1, AppliedByOthers
  <2> QED
    BY <2>3, <2>8, <2>9, UntouchedKeepsAll
<1>5. ASSUME NEW c \in Callers, Grant(c) PROVE LogIsCurrent' /\ \A d \in Callers : Keeps(d)
  <2>1. Serve(c, Reply(c, request[c])) /\ Apply(c, Copy(c)) /\ UNCHANGED app
    BY <1>5 DEF Grant
  <2>2. calls[c] > 0 /\ request[c] = given[c]
    BY <2>1, CallsBegun DEF Serve, Underway
  <2>3. Reply(c, given[c]) \in Answers /\ Reply(c, given[c]).etag <= Len(log)
    BY <1>0, ReplyTyped
  <2> HIDE DEF Reply
  <2> QED
    BY <1>4, <2>1, <2>2, <2>3, ReplyIsTrue
<1>6. ASSUME NEW c \in Callers, FailHalfWay(c) PROVE LogIsCurrent' /\ \A d \in Callers : Keeps(d)
  <2>1. PICK status \in Refusals(request[c]) : Serve(c, [status |-> status, etag |-> 0])
    BY <1>6 DEF FailHalfWay
  <2>2. Apply(c, Copy(c)) /\ UNCHANGED app /\ given[c].op \in PassedOn
    BY <1>6, CallsBegun DEF FailHalfWay, Underway
  <2>3. [status |-> status, etag |-> 0] \in Answers /\ status \notin {"200", "204", "409"}
    BY RefusalsTyped
  <2> DEFINE a == [status |-> status, etag |-> 0]
  <2>4. a \in Answers /\ Serve(c, a) /\ a.etag <= Len(log) /\ a.status \notin {"200", "204", "409"}
    BY <1>0, <2>1, <2>3
  <2> HIDE DEF a
  <2> QED
    BY <1>4, <2>2, <2>4
<1>7. ASSUME NEW c \in Callers, Refuse(c) PROVE LogIsCurrent' /\ \A d \in Callers : Keeps(d)
  <2>1. PICK status \in Refusals(request[c]) : Serve(c, [status |-> status, etag |-> 0])
    BY <1>7 DEF Refuse
  <2>2. [status |-> status, etag |-> 0] \in Answers /\ status \notin {"200", "204", "409"}
    BY RefusalsTyped
  <2>3. UNCHANGED <<kept, app>>
    BY <1>7 DEF Refuse
  <2>4. LogIsCurrent'
    BY <1>0, <2>1, <2>3, LogStays DEF kept, Serve
  <2>5. Keeps(c)
    <3> DEFINE a == [status |-> status, etag |-> 0]
               wrote == FALSE
    <3>1. a \in Answers /\ Serve(c, a) /\ a.etag <= Len(log) /\ a.status \notin {"200", "204", "409"}
      BY <1>0, <2>1, <2>2
    <3>2. wrote \in BOOLEAN /\ ~wrote
      OBVIOUS
    <3>3. block' = block /\ log' = log /\ thing' = thing /\ UNCHANGED app
      BY <2>3 DEF kept
    <3> HIDE DEF a, wrote
    <3> QED
      BY <3>1, <3>2, <3>3, ServedKeeps
  <2>6. ASSUME NEW d \in Callers, d # c PROVE Untouched(d)
    BY <1>0, <2>1, <2>3, <2>6 DEF Untouched, Serve, kept, app, NetTypeOK
  <2> QED
    BY <2>4, <2>5, <2>6, UntouchedKeepsAll
<1>8. ASSUME NEW c \in Callers, GrantCut(c) PROVE LogIsCurrent' /\ \A d \in Callers : Keeps(d)
  <2>1. PICK copy \in cut[c] : ServeCut(c, copy) /\ Apply(c, copy) /\ UNCHANGED app
    BY <1>8 DEF GrantCut
  <2>2. copy.call \in 0..MaxCalls /\ copy.call <= calls[c] /\ calls' = calls
    BY <2>1, CallInRange DEF IInv, Strength, AsAsked, ServeCut
  <2>3. LogIsCurrent'
    BY <2>1, <2>2, EntryOfCall
  <2>4. ASSUME NEW d \in Callers, d # c PROVE Untouched(d)
    <3>1. /\ phase'[d] = phase[d] /\ request'[d] = request[d] /\ attempt'[d] = attempt[d]
          /\ calls'[d] = calls[d] /\ answer'[d] = answer[d] /\ cut'[d] = cut[d]
      BY <1>0, <2>1, <2>4 DEF ServeCut, NetTypeOK
    <3> QED
      BY <2>1, <2>2, <2>4, <3>1, AppliedByOthers
  <2> QED
    BY <2>1, <2>3, <2>4, CutKeeps, UntouchedKeepsAll
<1>9. CASE Lapse
  <2> DEFINE e == [by |-> None, call |-> 0, ends |-> TRUE]
  <2>1. /\ log' = Append(log, e) /\ UNCHANGED <<net, block, app>>
        /\ thing' \in {"ended", "absent"}
    BY <1>9 DEF Lapse
  <2>2. e \in Entries /\ e.by = None /\ e.ends = TRUE
    BY DEF Entries
  <2> HIDE DEF e
  <2>3. /\ Len(log') = Len(log) + 1 /\ log'[Len(log) + 1] = e
        /\ \A i \in 1..Len(log) : log'[i] = log[i]
    BY <1>0, <2>1, <2>2, Appended
  <2>4. LogIsCurrent'
    <3>1. ASSUME NEW i \in 1..Len(log'), NEW d \in Callers, log'[i].by = d
          PROVE  log'[i].call <= calls'[d]
      <4>1. i # Len(log) + 1
        BY <2>2, <2>3, <3>1
      <4>2. i \in 1..Len(log)
        BY <1>0, <2>3, <4>1
      <4> QED
        BY <2>1, <2>3, <3>1, <4>2 DEF IInv, Strength, LogIsCurrent, net
    <3>2. log'[Len(log')].ends = (thing' # "there")
      <4>1. log'[Len(log')].ends = TRUE
        BY <2>2, <2>3
      <4>2. (thing' # "there") = TRUE
        BY <2>1
      <4> QED
        BY <4>1, <4>2, Zenon
    <3> QED
      BY <3>1, <3>2 DEF LogIsCurrent
  <2>5. \A d \in Callers : Untouched(d)
    BY <2>1, <2>2 DEF Untouched, net, app
  <2> QED
    BY <2>4, <2>5, UntouchedKeepsAll
<1>10. CASE UNCHANGED vars
  <2>1. LogIsCurrent'
    BY <1>0, <1>10, LogStays DEF vars, net, kept
  <2>2. \A d \in Callers : Untouched(d)
    BY <1>10 DEF vars, net, kept, app, Untouched
  <2> QED
    BY <2>1, <2>2, UntouchedKeepsAll
<1> QED
  BY <1>1, <1>2, <1>3, <1>5, <1>6, <1>7, <1>8, <1>9, <1>10 DEF Next

-----------------------------------------------------------------------------
(* The theorems.                                                           *)

LEMMA InitInv == Init => IInv /\ \A c \in Callers : Told(c) /\ Met(c)
<1> SUFFICES ASSUME Init PROVE IInv /\ \A c \in Callers : Told(c) /\ Met(c)
  OBVIOUS
<1>1. TypeOK
  BY DEF Init, NetInit, TypeOK, NetTypeOK, Things, Etags
<1>2. LogIsCurrent
  BY DEF Init, LogIsCurrent
<1>3. ASSUME NEW c \in Callers PROVE Own(c) /\ Told(c) /\ Met(c)
  <2>1. WrittenBy(c) = {} /\ Out(c) = {} /\ cut[c] = {}
    BY DEF Init, NetInit, WrittenBy, Out
  <2> QED
    BY <2>1, FS_EmptySet DEF Init, NetInit, Own, AsAsked, WritesAsAsked, Accounted,
       AnswerIsTrue, OutcomeOfTheIdle, Told, Met, Errors
<1> QED
  BY <1>1, <1>2, <1>3 DEF IInv, Strength, Own

LEMMA StepInv == IInv /\ [Next]_vars => IInv'
BY StepTypeOK, NextKeeps DEF Keeps, Own, IInv, Strength

(* IInv holds of the building blocks for any instances, attempts and late  *)
(* copies of requests: what is on the wire was asked for, what is logged   *)
(* was written by a call that asked for it, and no more often than sent.   *)
THEOREM Inductive == Spec => []IInv
BY InitInv, StepInv, PTL DEF Spec

(* No conditional write is lost or done twice, and nothing is created      *)
(* again by one call while it exists (save, delete, transaction, schedule  *)
(* and start), however often sidecar.rs sends a request and however late   *)
(* a copy of it is served.                                                 *)
THEOREM DoneOnItsCondition == Spec => []Conditional
<1> DEFINE AllMet == \A c \in Callers : Met(c)
<1>1. Init => IInv /\ AllMet
  BY InitInv
<1>2. IInv /\ AllMet /\ [Next]_vars => IInv' /\ AllMet'
  BY StepInv, NextKeeps DEF Keeps
<1>3. AllMet => Conditional
  BY DEF Met, Conditional, NoLostUpdate, CreatedOnce
<1> HIDE DEF AllMet
<1> QED
  BY <1>1, <1>2, <1>3, PTL DEF Spec

(* What the exports return of what they did is true (the `*_error`         *)
(* functions of the providers), and a request is carried out no more often *)
(* than it was sent, over gRPC and in go at most once.                     *)
THEOREM AppsAreToldTheTruth == Spec => []OutcomeIsTrue
<1> DEFINE AllTold == \A c \in Callers : Told(c)
<1>1. Init => IInv /\ AllTold
  BY InitInv
<1>2. IInv /\ AllTold /\ [Next]_vars => IInv' /\ AllTold'
  BY StepInv, NextKeeps DEF Keeps
<1>3. IInv /\ AllTold => OutcomeIsTrue
  <2> SUFFICES ASSUME IInv, AllTold, NEW c \in Callers
               PROVE  /\ Told(c)
                      /\ Cardinality(WrittenBy(c)) <= attempt[c]
                      /\ c \notin Http => Cardinality(WrittenBy(c)) <= 1
    BY DEF OutcomeIsTrue, Told, Overtaken
  <2>1. /\ Cardinality(WrittenBy(c)) \in Nat /\ Cardinality(Out(c)) \in Nat
        /\ attempt[c] \in Nat /\ (calls[c] = 0 \/ calls[c] > 0)
    BY CallsBegun, WrittenFinite, OutFinite DEF IInv, Strength
  <2>2. Cardinality(WrittenBy(c)) <= attempt[c]
    BY <2>1 DEF IInv, Strength, Accounted
  <2>3. c \notin Http => attempt[c] <= 1
    BY <2>1 DEF IInv, Strength, AsAsked, Attempts
  <2> QED
    BY <2>1, <2>2, <2>3
<1> HIDE DEF AllTold
<1> QED
  BY <1>1, <1>2, <1>3, PTL DEF Spec
=============================================================================
