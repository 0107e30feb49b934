---------------------------- MODULE SocketProofs ----------------------------
(***************************************************************************)
(* Proofs about Socket, for any goroutines, any writes and any buffer.     *)
(***************************************************************************)
EXTENDS Socket, TLAPS

USE SocketAssumption DEF SocketAssumption

(* The smaller of two numbers, as Write takes it.                          *)
LEMMA MinOfTwo == ASSUME NEW a \in Nat, NEW b \in Nat
                  PROVE  Min({a, b}) \in Nat /\ Min({a, b}) <= a /\ Min({a, b}) <= b
<1>1. \E x \in {a, b} : \A y \in {a, b} : x <= y
  <2>1. CASE a <= b
    BY <2>1
  <2>2. CASE b <= a
    BY <2>2
  <2> QED
    BY <2>1, <2>2
<1>2. Min({a, b}) \in {a, b} /\ \A y \in {a, b} : Min({a, b}) <= y
  BY <1>1 DEF Min
<1> QED
  BY <1>2

(* A flush of something is under way, and one under way stays.             *)
LEMMA FlushStarts == ASSUME NEW pieces, Flush(pieces), pieces > 0 \/ flushing PROVE flushing'
BY Zenon DEF Flush

-----------------------------------------------------------------------------
(* What is sent of the writes: it holds at first, and every action keeps   *)
(* it.                                                                     *)

LEMMA InitTail == Init => Tail
BY DEF Init, Tail, Counts, Flushed

LEMMA CallKeeps == ASSUME Tail, NEW g \in Goroutines, NEW o \in Ops, NEW n \in Sizes, Call(g, o, n) PROVE Tail'
BY DEF Tail, Counts, Flushed, Call, conn, host, history

LEMMA ReadKeeps == ASSUME Tail, NEW g \in Goroutines, Read(g) PROVE Tail'
BY DEF Tail, Counts, Flushed, Read, Returns, history

LEMMA WriteKeeps == ASSUME Tail, NEW g \in Goroutines, Write(g) PROVE Tail'
<1>1. UNCHANGED <<calls, closed, eof, sent, broken, input, how, shut>>
  BY DEF Write
<1>2. CASE UNCHANGED <<left, buffered, flushing, promised>>
  BY <1>1, <1>2 DEF Tail, Counts, Flushed
<1>3. CASE left[g] > 0 /\ ~closed /\ ~broken /\ CanWrite /\ ~UNCHANGED <<left, buffered, flushing, promised>>
  <2> DEFINE k == Min({left[g], Capacity - buffered})
  <2>1. buffered \in Nat /\ sent \in Nat /\ left[g] \in Nat /\ Capacity - buffered \in Nat
    BY <1>3 DEF Tail, Counts, CanWrite
  <2>2. k \in Nat /\ k <= left[g]
    BY <2>1, MinOfTwo
  <2>3. /\ buffered' = buffered + k
        /\ left' = [left EXCEPT ![g] = @ - k]
        /\ \/ left[g] = k /\ Flush(buffered + k) /\ promised' = sent + (buffered + k)
           \/ left[g] # k /\ UNCHANGED <<flushing, promised>>
    BY <1>3 DEF Write
  <2> HIDE DEF k
  <2>4. left' \in [Goroutines -> Nat]
    BY <2>1, <2>2, <2>3 DEF Tail, Counts
  <2>5. Counts'
    BY <1>1, <2>1, <2>2, <2>3, <2>4 DEF Tail, Counts
  <2>6. CASE left[g] = k
    <3>1. flushing'
      <4>1. buffered + k > 0 /\ Flush(buffered + k)
        BY <1>3, <2>1, <2>2, <2>3, <2>6
      <4> QED
        BY <4>1, FlushStarts
    <3> QED
      BY <1>1, <1>3, <2>1, <2>2, <2>3, <2>5, <2>6, <3>1 DEF Tail, Counts, Flushed
  <2>7. CASE left[g] # k
    BY <1>1, <1>3, <2>1, <2>2, <2>3, <2>5, <2>7 DEF Tail, Counts, Flushed
  <2> QED
    BY <2>6, <2>7
<1>4. CASE left[g] = 0 /\ UNCHANGED <<left, buffered, promised>>
  <2>1. Flush(buffered) \/ UNCHANGED flushing
    BY <1>4 DEF Write
  <2>2. flushing => flushing'
    BY <2>1, FlushStarts, Zenon
  <2> QED
    BY <1>1, <1>4, <2>2 DEF Tail, Counts, Flushed
<1> QED
  BY <1>2, <1>3, <1>4 DEF Write

LEMMA CloseKeeps == ASSUME Tail, NEW g \in Goroutines, Close(g) PROVE Tail'
<1> USE DEF Close
<1>1. Counts'
  BY DEF Tail, Counts
<1>2. CASE closed \/ broken
  BY <1>1, <1>2 DEF Tail, Flushed, DropAll
<1>3. CASE ~closed /\ ~broken /\ buffered = 0
  BY <1>1, <1>3 DEF Tail, Counts, Flushed, DropAll
<1>4. CASE ~closed /\ ~broken /\ buffered # 0
  <2>1. buffered > 0 /\ Flush(buffered)
    BY <1>4 DEF Tail, Counts
  <2>2. flushing'
    BY <2>1, FlushStarts
  <2> QED
    BY <1>1, <1>4, <2>2 DEF Tail, Flushed
<1> QED
  BY <1>2, <1>3, <1>4

LEMMA DrainedKeeps == ASSUME Tail, NEW g \in Goroutines, Drained(g) PROVE Tail'
BY DEF Tail, Counts, Flushed, Drained, DropAll, CanWrite, Returns

LEMMA CloseWriteKeeps == ASSUME Tail, NEW g \in Goroutines, CloseWrite(g) PROVE Tail'
<1> USE DEF CloseWrite
<1>1. Counts'
  BY DEF Tail, Counts
<1>2. CASE closed \/ broken
  BY <1>1, <1>2 DEF Tail, Flushed, Shutdown
<1>3. CASE ~closed /\ ~broken /\ buffered = 0
  <2>1. promised <= sent
    BY <1>3 DEF Tail, Counts, Flushed
  <2>2. UNCHANGED <<closed, buffered, flushing, sent, promised, how>>
    BY <1>3 DEF Shutdown
  <2>3. broken'
    BY <1>3, Zenon DEF Shutdown
  <2> QED
    BY <1>1, <1>3, <2>1, <2>2, <2>3 DEF Tail, Flushed
<1>4. CASE ~closed /\ ~broken /\ buffered # 0
  <2>1. buffered > 0 /\ Flush(buffered)
    BY <1>4 DEF Tail, Counts
  <2>2. flushing'
    BY <2>1, FlushStarts
  <2> QED
    BY <1>1, <1>4, <2>2 DEF Tail, Flushed
<1> QED
  BY <1>2, <1>3, <1>4

LEMMA WriteDrainedKeeps == ASSUME Tail, NEW g \in Goroutines, WriteDrained(g) PROVE Tail'
BY DEF Tail, Counts, Flushed, WriteDrained, Shutdown, CanWrite, Returns

LEMMA SendsKeeps == ASSUME Tail, Sends PROVE Tail'
<1> USE DEF Sends, conn, history
<1>1. buffered \in Nat /\ sent \in Nat /\ promised \in Nat /\ buffered > 0
  BY DEF Tail, Counts
<1>2. buffered' = buffered - 1 /\ sent' = sent + 1 /\ promised' = promised
  OBVIOUS
<1>3. Counts'
  BY <1>1, <1>2 DEF Tail, Counts
<1>4. (promised <= sent + buffered)'
  <2>1. sent + buffered = (sent + 1) + (buffered - 1)
    BY <1>1
  <2> QED
    BY <1>2, <2>1 DEF Tail, Flushed
<1>5. ~flushing' => promised <= sent + 1
  <2>1. ~flushing' => ~flushing \/ ~(buffered > 1)
    BY Zenon
  <2>2. ~(buffered > 1) => buffered = 1
    BY <1>1
  <2> QED
    BY <1>1, <2>1, <2>2 DEF Tail, Flushed
<1>6. promised <= sent => promised <= sent + 1
  BY <1>1
<1> QED
  BY <1>2, <1>3, <1>4, <1>5, <1>6 DEF Tail, Flushed

LEMMA ArrivesKeeps == ASSUME Tail, Arrives PROVE Tail'
BY DEF Tail, Counts, Flushed, Arrives, conn, history

LEMMA BreaksKeeps == ASSUME Tail, Breaks PROVE Tail'
BY DEF Tail, Counts, Flushed, Breaks, conn, history

LEMMA StutterKeeps == ASSUME Tail, UNCHANGED vars PROVE Tail'
BY DEF Tail, Counts, Flushed, vars, conn, host, history

LEMMA TailKeeps == Tail /\ [Next]_vars => Tail'
<1> SUFFICES ASSUME Tail, [Next]_vars PROVE Tail'
  OBVIOUS
<1>1. ASSUME NEW g \in Goroutines, NEW o \in Ops, NEW n \in Sizes, Call(g, o, n) PROVE Tail'
  BY <1>1, CallKeeps
<1>2. ASSUME NEW g \in Goroutines, Read(g) \/ Write(g) \/ Closes(g) PROVE Tail'
  BY <1>2, ReadKeeps, WriteKeeps, CloseKeeps, DrainedKeeps, CloseWriteKeeps, WriteDrainedKeeps
     DEF Closes
<1>3. CASE Sends \/ Arrives \/ Breaks
  BY <1>3, SendsKeeps, ArrivesKeeps, BreaksKeeps
<1>4. CASE UNCHANGED vars
  BY <1>4, StutterKeeps
<1> QED
  BY <1>1, <1>2, <1>3, <1>4 DEF Next

-----------------------------------------------------------------------------
(* Types.  What a turn of Write takes fits into the buffer.                *)

LEMMA InitTypes == Init => TypeOK /\ NeverUsesDropped
<1> SUFFICES ASSUME Init PROVE TypeOK /\ NeverUsesDropped
  OBVIOUS
<1>1. closed \in BOOLEAN /\ eof \in BOOLEAN /\ flushing \in BOOLEAN /\ broken \in BOOLEAN
  BY Zenon DEF Init
<1>2. left \in [Goroutines -> {0} \cup UNION {0..n : n \in Sizes}]
  BY Zenon DEF Init
<1>3. 0 \in 0..MaxCalls /\ 0 \in 0..Capacity
  OBVIOUS
<1> QED
  BY <1>1, <1>2, <1>3 DEF Init, TypeOK, NeverUsesDropped

LEMMA WriteKeepsTypes == ASSUME TypeOK, NEW g \in Goroutines, Write(g) PROVE TypeOK'
<1> DEFINE Lengths == {0} \cup UNION {0..n : n \in Sizes}
           k == Min({left[g], Capacity - buffered})
<1>1. /\ Lengths \subseteq Nat
      /\ \A l \in Lengths : 0..l \subseteq Lengths
  OBVIOUS
<1>2. left[g] \in Lengths /\ left[g] \in Nat /\ Capacity - buffered \in Nat
  <2>1. left[g] \in Lengths
    BY Zenon DEF TypeOK
  <2>2. buffered \in 0..Capacity /\ Capacity \in Nat
    BY DEF TypeOK
  <2> QED
    BY <1>1, <2>1, <2>2
<1>3. k \in Nat /\ k <= left[g] /\ k <= Capacity - buffered
  BY <1>2, MinOfTwo
<1>4. UNCHANGED <<calls, closed, eof, sent, broken, input, how, shut>>
  BY DEF Write
<1>5. pc' \in [Goroutines -> {"idle", "read", "write", "close", "close-write",
                             "draining", "draining-write"}]
  BY DEF Write, Returns, TypeOK
<1>6. result' \in [Goroutines -> {"none", "ok", "eof", "closed", "deadline", "reset", "broken"}]
  BY DEF Write, Returns, TypeOK
<1>7. panicked' \in {"none", "write", "empty write", "close-write"}
  BY DEF Write, Flush, TypeOK
<1>8. flushing' \in BOOLEAN
  BY Zenon DEF Write, Flush, TypeOK
<1>9. \/ UNCHANGED <<left, buffered, promised>>
      \/ /\ buffered' = buffered + k
         /\ left' = [left EXCEPT ![g] = @ - k]
         /\ promised' \in {promised, sent + buffered'}
  BY DEF Write
<1>10. left' \in [Goroutines -> Lengths] /\ buffered' \in 0..Capacity /\ promised' \in Nat
  <2>1. left[g] - k \in Lengths
    <3>1. left[g] - k \in 0..left[g]
      BY <1>2, <1>3
    <3> QED
      BY <1>1, <1>2, <3>1
  <2>2. buffered + k \in 0..Capacity /\ sent + (buffered + k) \in Nat
    <3>1. buffered \in 0..Capacity /\ sent \in Nat
      BY DEF TypeOK
    <3> HIDE DEF k
    <3> QED
      BY <1>2, <1>3, <3>1
  <2> HIDE DEF k, Lengths
  <2>3. left \in [Goroutines -> Lengths] /\ buffered \in 0..Capacity /\ promised \in Nat
    BY DEF TypeOK, Lengths
  <2> QED
    BY <1>9, <2>1, <2>2, <2>3
<1> QED
  BY <1>4, <1>5, <1>6, <1>7, <1>8, <1>10 DEF TypeOK

LEMMA CallKeepsTypes ==
  ASSUME TypeOK, NEW g \in Goroutines, NEW o \in Ops, NEW n \in Sizes, Call(g, o, n)
  PROVE  TypeOK'
<1>1. UNCHANGED <<conn, host, history>>
  BY DEF Call
<1>2. calls' \in 0..MaxCalls
  BY DEF Call, TypeOK
<1>3. /\ pc' \in [Goroutines -> {"idle", "read", "write", "close", "close-write",
                                "draining", "draining-write"}]
      /\ result' \in [Goroutines -> {"none", "ok", "eof", "closed", "deadline", "reset", "broken"}]
  BY DEF Call, TypeOK
<1>4. left' \in [Goroutines -> {0} \cup UNION {0..m : m \in Sizes}]
  BY DEF Call, TypeOK
<1> QED
  BY <1>1, <1>2, <1>3, <1>4, ZenonT(30) DEF TypeOK, conn, host, history

LEMMA ReadKeepsTypes == ASSUME TypeOK, NEW g \in Goroutines, Read(g) PROVE TypeOK'
<1>1. eof' \in BOOLEAN
  BY Zenon DEF Read, TypeOK
<1> QED
  BY <1>1 DEF Read, Returns, TypeOK, history

LEMMA ClosesKeepsTypes == ASSUME TypeOK, NEW g \in Goroutines, Closes(g) PROVE TypeOK'
<1>1. closed' \in BOOLEAN /\ flushing' \in BOOLEAN /\ broken' \in BOOLEAN
  BY Zenon DEF Closes, Close, Drained, CloseWrite, WriteDrained, Shutdown, DropAll, Flush, TypeOK
<1>2. UNCHANGED <<left, calls, eof, buffered, sent, input, promised>>
  BY DEF Closes, Close, Drained, CloseWrite, WriteDrained, Shutdown, DropAll
<1>3. /\ pc' \in [Goroutines -> {"idle", "read", "write", "close", "close-write",
                                "draining", "draining-write"}]
      /\ result' \in [Goroutines -> {"none", "ok", "eof", "closed", "deadline", "reset", "broken"}]
  BY DEF Closes, Close, Drained, CloseWrite, WriteDrained, Shutdown, DropAll, Returns, TypeOK
<1>4. /\ how' \in {"open", "drained", "late", "broken"}
      /\ shut' \in {"open", "drained", "late", "broken"}
      /\ panicked' \in {"none", "write", "empty write", "close-write"}
  BY DEF Closes, Close, Drained, CloseWrite, WriteDrained, Shutdown, DropAll, Flush, TypeOK
<1> QED
  BY <1>1, <1>2, <1>3, <1>4 DEF TypeOK

LEMMA HostKeepsTypes == ASSUME TypeOK, Sends \/ Arrives \/ Breaks PROVE TypeOK'
<1>1. CASE Sends
  <2>1. buffered' \in 0..Capacity /\ sent' \in Nat
    <3>1. buffered \in 0..Capacity /\ sent \in Nat
      BY DEF TypeOK
    <3> QED
      BY <1>1, <3>1 DEF Sends
  <2>2. flushing' \in BOOLEAN
    BY <1>1, Zenon DEF Sends, TypeOK
  <2> QED
    BY <1>1, <2>1, <2>2 DEF Sends, TypeOK, conn, history
<1>2. CASE Arrives
  BY <1>2 DEF Arrives, TypeOK, conn, history
<1>3. CASE Breaks
  BY <1>3 DEF Breaks, TypeOK, conn, history
<1> QED
  BY <1>1, <1>2, <1>3

LEMMA NextKeepsTypes == TypeOK /\ [Next]_vars => TypeOK'
<1> SUFFICES ASSUME TypeOK, [Next]_vars PROVE TypeOK'
  OBVIOUS
<1>1. ASSUME NEW g \in Goroutines, NEW o \in Ops, NEW n \in Sizes, Call(g, o, n) PROVE TypeOK'
  BY <1>1, CallKeepsTypes
<1>2. ASSUME NEW g \in Goroutines, Read(g) \/ Write(g) \/ Closes(g) PROVE TypeOK'
  BY <1>2, ReadKeepsTypes, WriteKeepsTypes, ClosesKeepsTypes
<1>3. CASE Sends \/ Arrives \/ Breaks
  BY <1>3, HostKeepsTypes
<1>4. CASE UNCHANGED vars
  BY <1>4, ZenonT(30) DEF TypeOK, vars, conn, host, history
<1> QED
  BY <1>1, <1>2, <1>3, <1>4 DEF Next

(* Only an empty write and CloseWrite use a dropped handle.                *)
LEMMA NextUsesNoDropped == NeverUsesDropped /\ [Next]_vars => NeverUsesDropped'
BY DEF NeverUsesDropped, Next, Call, Read, Write, Closes, Close, Drained, CloseWrite,
       WriteDrained, Shutdown, DropAll, Flush, Sends, Arrives, Breaks, vars, conn, host, history

-----------------------------------------------------------------------------
(* IInv holds of any goroutines that read, write and close one connection, *)
(* whatever they write and whatever the host's buffer takes.               *)
THEOREM Inductive == Spec => []IInv
<1>1. Init => IInv
  BY InitTypes, InitTail DEF IInv
<1>2. IInv /\ [Next]_vars => IInv'
  BY NextKeepsTypes, NextUsesNoDropped, TailKeeps DEF IInv
<1> QED
  BY <1>1, <1>2, PTL DEF Spec

(* "Close may have dropped the handles while this goroutine slept"         *)
(* (wasisock.go): no read, no close and no write of at least one piece     *)
(* uses them then.                                                         *)
THEOREM NoUseAfterClose == Spec => []NeverUsesDropped
<1>1. IInv => NeverUsesDropped
  BY DEF IInv
<1> QED
  BY <1>1, Inductive, PTL

(* "closing does not lose the tail of a write" (wasisock.go, drain): what  *)
(* a returned write has written is sent before the handles are dropped or  *)
(* the output is shut down, unless the stream breaks or the second is over.*)
THEOREM ClosingSendsTheTail == Spec => []TailIsSent
<1>1. IInv => TailIsSent
  BY DEF IInv, Tail, Counts, Flushed, TailIsSent
<1> QED
  BY <1>1, Inductive, PTL
-----------------------------------------------------------------------------
(* Calls end.                                                              *)

Over(g) == pc[g] = "idle" \/ ~NoPanic
InClose(g) == pc[g] = "close"
InDrain(g) == pc[g] = "draining"
InsideRead(g) == closed /\ pc[g] = "read"
InsideWrite(g) == closed /\ pc[g] = "write"
InsideClose(g) == closed /\ pc[g] \in Closing

(* A closed connection stays closed, and what a step does to a call that   *)
(* is not ended by it.                                                     *)
LEMMA InsideStep ==
  ASSUME TypeOK, [Next]_vars, NEW g \in Goroutines
  PROVE  /\ closed => closed'
         /\ \/ pc'[g] = pc[g]
            \/ Read(g) \/ Write(g) \/ Closes(g)
            \/ pc[g] = "idle"
<1> USE DEF TypeOK, conn, host, history
<1>1. ASSUME NEW h \in Goroutines, NEW op \in Ops, NEW n \in Sizes, Call(h, op, n)
      PROVE  closed' = closed /\ (pc'[g] = pc[g] \/ pc[g] = "idle")
  BY <1>1 DEF Call
<1>2. ASSUME NEW h \in Goroutines, Read(h)
      PROVE  closed' = closed /\ (pc'[g] = pc[g] \/ h = g)
  BY <1>2 DEF Read, Returns
<1>3. ASSUME NEW h \in Goroutines, Write(h)
      PROVE  closed' = closed /\ (pc'[g] = pc[g] \/ h = g)
  BY <1>3 DEF Write, Returns
<1>4. ASSUME NEW h \in Goroutines, Closes(h)
      PROVE  (closed => closed') /\ (pc'[g] = pc[g] \/ h = g)
  BY <1>4 DEF Closes, Close, Drained, CloseWrite, WriteDrained, DropAll, Shutdown, Returns
<1>5. CASE Sends \/ Arrives \/ Breaks \/ UNCHANGED vars
  BY <1>5 DEF Sends, Arrives, Breaks, vars
<1> QED
  BY <1>1, <1>2, <1>3, <1>4, <1>5 DEF Next

(* What the goroutine's own steps make of its call.                        *)
LEMMA OwnStep ==
  ASSUME TypeOK, NEW g \in Goroutines
  PROVE  /\ Read(g) => pc[g] = "read" /\ pc'[g] = "idle"
         /\ Write(g) => pc[g] = "write" /\ (closed => pc'[g] = "idle")
         /\ Closes(g) => /\ pc[g] \in Closing
                         /\ closed => pc'[g] = "idle"
                         /\ pc[g] = "close" => pc'[g] \in {"idle", "draining"}
                         /\ pc[g] = "draining" => pc'[g] = "idle"
<1> USE DEF TypeOK, Returns
<1>1. Read(g) => pc[g] = "read" /\ pc'[g] = "idle"
  BY DEF Read
<1>2. Write(g) => pc[g] = "write" /\ (closed => pc'[g] = "idle")
  BY DEF Write
<1>3. Closes(g) => pc[g] \in Closing /\ (closed => pc'[g] = "idle")
  BY DEF Closes, Close, Drained, CloseWrite, WriteDrained, DropAll, Shutdown, Closing
<1>4. Closes(g) => /\ pc[g] = "close" => pc'[g] \in {"idle", "draining"}
                   /\ pc[g] = "draining" => pc'[g] = "idle"
  BY DEF Closes, Close, Drained, CloseWrite, WriteDrained, DropAll
<1> QED
  BY <1>1, <1>2, <1>3, <1>4

(* Nobody waits for ever on a connection that another goroutine has        *)
(* closed, nor inside Close, whatever the others do meanwhile: provided    *)
(* the steps of EndNotHeldBack can be taken.                               *)
THEOREM SocketClosedEnds == FairSpec /\ []EndNotHeldBack => ClosedEnds
<1> SUFFICES ASSUME NEW g \in Goroutines
             PROVE  FairSpec /\ []EndNotHeldBack => EndOfCalls(g)
  BY DEF ClosedEnds
<1>1. FairSpec => Spec /\ Fairness(g)
  BY DEF FairSpec
<1>2. FairSpec => []TypeOK
  <2>1. IInv => TypeOK
    BY DEF IInv
  <2> QED
    BY <1>1, <2>1, Inductive, PTL
<1>3. TypeOK => (closed /\ ~Over(g) => InsideRead(g) \/ InsideWrite(g) \/ InsideClose(g))
  BY DEF TypeOK, Over, InsideRead, InsideWrite, InsideClose, Closing
<1>4. TypeOK /\ [Next]_vars =>
        /\ InsideRead(g) => InsideRead(g)' \/ Over(g)'
        /\ InsideWrite(g) => InsideWrite(g)' \/ Over(g)'
        /\ InsideClose(g) => InsideClose(g)' \/ Over(g)'
        /\ InClose(g) => InClose(g)' \/ InDrain(g)' \/ Over(g)'
        /\ InDrain(g) => InDrain(g)' \/ Over(g)'
  BY InsideStep, OwnStep DEF InsideRead, InsideWrite, InsideClose, InClose, InDrain, Over, Closing
<1>5. TypeOK =>
        /\ InsideRead(g) /\ <<Read(g)>>_vars => Over(g)'
        /\ InsideWrite(g) /\ <<Write(g)>>_vars => Over(g)'
        /\ InsideClose(g) /\ <<Closes(g)>>_vars => Over(g)'
        /\ InClose(g) /\ <<Closes(g)>>_vars => InDrain(g)' \/ Over(g)'
        /\ InDrain(g) /\ <<Closes(g)>>_vars => Over(g)'
  BY OwnStep DEF InsideRead, InsideWrite, InsideClose, InClose, InDrain, Over
<1>6. EndNotHeldBack /\ ~Over(g) =>
        /\ InsideRead(g) => ENABLED <<Read(g)>>_vars
        /\ InsideWrite(g) => ENABLED <<Write(g)>>_vars
        /\ InsideClose(g) => ENABLED <<Closes(g)>>_vars
        /\ InClose(g) => ENABLED <<Closes(g)>>_vars
        /\ InDrain(g) => ENABLED <<Closes(g)>>_vars
  BY DEF EndNotHeldBack, InsideRead, InsideWrite, InsideClose, InClose, InDrain, Over, Closing
<1>7. Over(g) <=> pc[g] = "idle" \/ ~NoPanic
  BY DEF Over
<1>8. InClose(g) <=> pc[g] = "close"
  BY DEF InClose
<1> QED
  BY <1>1, <1>2, <1>3, <1>4, <1>5, <1>6, <1>7, <1>8, PTL DEF Spec, Fairness, EndOfCalls
=============================================================================
