------------------------- MODULE CryptoSessionProofs -------------------------
(***************************************************************************)
(* Proofs about CryptoSession over Bidi, for any errors, any number of     *)
(* chunks and any length of the output.                                    *)
(***************************************************************************)
EXTENDS CryptoSession, SequenceTheorems, TLAPS

(* The assumptions, without the record type of a request.                 *)
LEMMA ConstantsType ==
  /\ MaxRequests \in Nat /\ MaxResponses \in Nat
  /\ \A e \in Errors : e \notin {"none", "nil", "ok", "handlerDone", "contextCanceled"}
  /\ Nothing \notin Requests
  /\ MaxChunks \in Nat \ {0} /\ OutputLen \in Nat
  /\ Recoverable \subseteq Errors
<1>1. SessionAssumption =>
        MaxChunks \in Nat \ {0} /\ OutputLen \in Nat /\ Recoverable \subseteq Errors
  BY Zenon DEF SessionAssumption
<1>2. BidiAssumption =>
        \A e \in Errors : e \notin {"none", "nil", "ok", "handlerDone", "contextCanceled"}
  BY Zenon DEF BidiAssumption
<1>3. BidiAssumption => MaxRequests \in Nat /\ MaxResponses \in Nat /\ Nothing \notin Requests
  BY Zenon DEF BidiAssumption
<1> QED
  BY <1>1, <1>2, <1>3, BidiAssumption, SessionAssumption

(* Every message write builds is a request.                                *)
LEMMA ChunkType == \A n \in 0..MaxChunks : Chunk(n) \in Requests
<1>1. Requests = [seq : 0..MaxChunks, options : BOOLEAN]
  BY SessionAssumption, Zenon DEF SessionAssumption
<1> SUFFICES ASSUME NEW n \in 0..MaxChunks PROVE Chunk(n) \in Requests
  OBVIOUS
<1>2. (n = 0) \in BOOLEAN
  BY Zenon
<1> QED
  BY <1>1, <1>2, Zenon DEF Chunk

USE ConstantsType

(* Once done is closed, the handler's result is an error or ErrHandlerDone. *)
LEMMA ResultType == TypeOK /\ StreamState /\ done => Result \in Errors \cup {"handlerDone"}
BY DEF TypeOK, StreamTypeOK, StreamState, Result, done

-----------------------------------------------------------------------------
(* The inductive invariant holds at first, and every action keeps it.      *)

LEMMA InitInv == Init => IInv
<1> SUFFICES ASSUME Init PROVE IInv
  OBVIOUS
<1>1. TypeOK
  BY DEF Init, StreamInit, TypeOK, StreamTypeOK
<1>2. CancelledByClient /\ ResultIsTheHandlers /\ WholeInput /\ FailedPushesNothing
  BY DEF Init, StreamInit, CancelledByClient, ResultIsTheHandlers, WholeInput, FailedPushesNothing
<1>3. InputInOrder
  BY DEF Init, StreamInit, InputInOrder
<1>4. StreamState /\ Stages /\ Counts
  BY DEF Init, StreamInit, StreamState, Stages, Counts, done
<1> QED
  BY <1>1, <1>2, <1>3, <1>4 DEF IInv

LEMMA WriteKeeps == ASSUME IInv, NEW n \in 0..MaxChunks, Write(n) PROVE IInv'
<1> USE DEF Running, Write, StartWrite, Start, streamVars, server, Classify
<1>1. TypeOK'
  BY DEF IInv, TypeOK, StreamTypeOK, Stages, Counts
<1>2. (CancelledByClient /\ ResultIsTheHandlers /\ WholeInput /\ FailedPushesNothing)'
  BY DEF IInv, TypeOK, StreamTypeOK, CancelledByClient, ResultIsTheHandlers, WholeInput,
         FailedPushesNothing, StreamState, Stages, Counts, done
<1>3. InputInOrder'
  BY DEF IInv, InputInOrder
<1>4. StreamState'
  BY DEF IInv, TypeOK, StreamTypeOK, StreamState, done
<1>5. Stages'
  BY DEF IInv, TypeOK, StreamTypeOK, StreamState, Stages
<1>6. Counts'
  BY DEF IInv, TypeOK, StreamTypeOK, StreamState, Stages, Counts, done
<1> QED
  BY <1>1, <1>2, <1>3, <1>4, <1>5, <1>6 DEF IInv

LEMMA FinishKeeps == ASSUME IInv, Finish PROVE IInv'
<1> USE DEF Running, Finish, StartWrite, Start, streamVars, server, Classify
<1>1. TypeOK'
  BY DEF IInv, TypeOK, StreamTypeOK, StreamState, Stages, Counts, done
<1>2. (CancelledByClient /\ ResultIsTheHandlers /\ WholeInput /\ FailedPushesNothing)'
  BY DEF IInv, TypeOK, StreamTypeOK, CancelledByClient, ResultIsTheHandlers, WholeInput,
         FailedPushesNothing, StreamState, Stages, Counts, done
<1>3. InputInOrder'
  BY DEF IInv, InputInOrder
<1>4. StreamState'
  BY DEF IInv, TypeOK, StreamTypeOK, StreamState, done
<1>5. Stages'
  BY DEF IInv, TypeOK, StreamTypeOK, StreamState, Stages, Counts, FailedPushesNothing, CancelledByClient
<1>6. Counts'
  BY DEF IInv, TypeOK, StreamTypeOK, StreamState, Stages, Counts, ResultIsTheHandlers, done
<1> QED
  BY <1>1, <1>2, <1>3, <1>4, <1>5, <1>6 DEF IInv

LEMMA PushChunkKeeps == ASSUME IInv, PushChunk PROVE IInv'
<1> USE DEF PushChunk, Push, server, sessionVars
<1>1. TypeOK'
  BY ChunkType DEF IInv, TypeOK, StreamTypeOK, StreamState, Stages, Counts, done
<1>2. (CancelledByClient /\ ResultIsTheHandlers /\ WholeInput /\ FailedPushesNothing)'
  BY DEF IInv, TypeOK, StreamTypeOK, CancelledByClient, ResultIsTheHandlers, WholeInput,
         FailedPushesNothing, StreamState, Stages, Counts, done
<1>3. InputInOrder'
  BY DEF IInv, InputInOrder
<1>4. StreamState'
  BY DEF IInv, TypeOK, StreamTypeOK, StreamState, done
<1>5. Stages'
  BY DEF IInv, TypeOK, StreamTypeOK, StreamState, Stages, FailedPushesNothing, CancelledByClient
<1>6. Counts'
  BY DEF IInv, TypeOK, StreamTypeOK, StreamState, Stages, Counts, ResultIsTheHandlers, done
<1> QED
  BY <1>1, <1>2, <1>3, <1>4, <1>5, <1>6 DEF IInv

LEMMA ChunkPushedKeeps == ASSUME IInv, ChunkPushed PROVE IInv'
<1> USE DEF ChunkPushed, server, Classify
<1>1. TypeOK'
  BY DEF IInv, TypeOK, StreamTypeOK, StreamState, Stages, Counts, done
<1>2. (CancelledByClient /\ ResultIsTheHandlers /\ WholeInput /\ FailedPushesNothing)'
  BY DEF IInv, TypeOK, StreamTypeOK, CancelledByClient, ResultIsTheHandlers, WholeInput,
         FailedPushesNothing, StreamState, Stages, Counts, done
<1>3. InputInOrder'
  BY DEF IInv, InputInOrder
<1>4. StreamState'
  BY DEF IInv, TypeOK, StreamTypeOK, StreamState, done
<1>5. Stages'
  BY DEF IInv, TypeOK, StreamTypeOK, StreamState, Stages, FailedPushesNothing, CancelledByClient
<1>6. Counts'
  BY DEF IInv, TypeOK, StreamTypeOK, StreamState, Stages, Counts, ResultIsTheHandlers, done
<1> QED
  BY <1>1, <1>2, <1>3, <1>4, <1>5, <1>6 DEF IInv

LEMMA FinishClosesKeeps == ASSUME IInv, FinishCloses PROVE IInv'
<1> USE DEF FinishCloses, CloseSend, sessionVars
<1>1. TypeOK'
  BY DEF IInv, TypeOK, StreamTypeOK, StreamState, Stages, Counts, done
<1>2. (CancelledByClient /\ ResultIsTheHandlers /\ WholeInput /\ FailedPushesNothing)'
  BY DEF IInv, TypeOK, StreamTypeOK, CancelledByClient, ResultIsTheHandlers, WholeInput,
         FailedPushesNothing, StreamState, Stages, Counts, done
<1>3. InputInOrder'
  BY DEF IInv, InputInOrder
<1>4. StreamState'
  BY DEF IInv, TypeOK, StreamTypeOK, StreamState, done
<1>5. Stages'
  BY DEF IInv, TypeOK, StreamTypeOK, StreamState, Stages, FailedPushesNothing, CancelledByClient
<1>6. Counts'
  BY DEF IInv, TypeOK, StreamTypeOK, StreamState, Stages, Counts, ResultIsTheHandlers, done
<1> QED
  BY <1>1, <1>2, <1>3, <1>4, <1>5, <1>6 DEF IInv

LEMMA FinishWaitsKeeps == ASSUME IInv, FinishWaits PROVE IInv'
<1> USE DEF FinishWaits, Wait, server, sessionVars
<1>1. TypeOK'
  BY DEF IInv, TypeOK, StreamTypeOK, StreamState, Stages, Counts, done
<1>2. (CancelledByClient /\ ResultIsTheHandlers /\ WholeInput /\ FailedPushesNothing)'
  BY DEF IInv, TypeOK, StreamTypeOK, CancelledByClient, ResultIsTheHandlers, WholeInput,
         FailedPushesNothing, StreamState, Stages, Counts, done
<1>3. InputInOrder'
  BY DEF IInv, InputInOrder
<1>4. StreamState'
  BY DEF IInv, TypeOK, StreamTypeOK, StreamState, done
<1>5. Stages'
  BY DEF IInv, TypeOK, StreamTypeOK, StreamState, Stages, FailedPushesNothing, CancelledByClient
<1>6. Counts'
  BY DEF IInv, TypeOK, StreamTypeOK, StreamState, Stages, Counts, ResultIsTheHandlers, done
<1> QED
  BY <1>1, <1>2, <1>3, <1>4, <1>5, <1>6 DEF IInv

LEMMA FinishReturnsKeeps == ASSUME IInv, FinishReturns PROVE IInv'
<1> USE DEF FinishReturns, streamVars, server, Classify
<1>1. TypeOK'
  BY DEF IInv, TypeOK, StreamTypeOK, StreamState, Stages, Counts, done
<1>2. (CancelledByClient /\ ResultIsTheHandlers /\ WholeInput /\ FailedPushesNothing)'
  BY DEF IInv, TypeOK, StreamTypeOK, CancelledByClient, ResultIsTheHandlers, WholeInput,
         FailedPushesNothing, StreamState, Stages, Counts, done
<1>3. InputInOrder'
  BY DEF IInv, InputInOrder
<1>4. StreamState'
  BY DEF IInv, TypeOK, StreamTypeOK, StreamState, done
<1>5. Stages'
  BY DEF IInv, TypeOK, StreamTypeOK, StreamState, Stages, FailedPushesNothing, CancelledByClient
<1>6. Counts'
  BY DEF IInv, TypeOK, StreamTypeOK, StreamState, Stages, Counts, ResultIsTheHandlers, done
<1> QED
  BY <1>1, <1>2, <1>3, <1>4, <1>5, <1>6 DEF IInv

LEMMA PushHandsKeeps == ASSUME IInv, PushHands, UNCHANGED sessionVars PROVE IInv'
<1> USE DEF PushHands, sessionVars
<1>a. received \in Seq(Requests) /\ req \in Requests
  BY ChunkType DEF IInv, TypeOK, StreamTypeOK, Stages
<1>b. received' \in Seq(Requests) /\ Len(received') = Len(received) + 1
  BY <1>a
<1>1. TypeOK'
  BY <1>a, <1>b DEF IInv, TypeOK, StreamTypeOK, StreamState, Stages, Counts, done
<1>2. (CancelledByClient /\ ResultIsTheHandlers /\ WholeInput /\ FailedPushesNothing)'
  BY DEF IInv, TypeOK, StreamTypeOK, CancelledByClient, ResultIsTheHandlers, WholeInput,
         FailedPushesNothing, StreamState, Stages, Counts, done
<1>3. InputInOrder'
  <2>1. Len(received') = Len(received) + 1 /\ received'[Len(received) + 1] = req
    BY <1>a
  <2>2. \A n \in 1..Len(received) : received'[n] = received[n]
    BY <1>a
  <2>3. Len(received) = seq /\ req = Chunk(seq)
    BY DEF IInv, TypeOK, StreamTypeOK, Stages, Counts
  <2>4. (Len(received) + 1) - 1 = seq
    BY <1>a, <2>3
  <2> QED
    BY <1>a, <2>1, <2>2, <2>3, <2>4 DEF IInv, InputInOrder
<1>4. StreamState'
  BY DEF IInv, TypeOK, StreamTypeOK, StreamState, Stages, done
<1>5. Stages'
  BY DEF IInv, TypeOK, StreamTypeOK, StreamState, Stages, FailedPushesNothing, CancelledByClient
<1>6. Counts'
  BY DEF IInv, TypeOK, StreamTypeOK, StreamState, Stages, Counts, ResultIsTheHandlers, done
<1> QED
  BY <1>1, <1>2, <1>3, <1>4, <1>5, <1>6 DEF IInv

LEMMA PushEndsKeeps == ASSUME IInv, PushEnds, UNCHANGED sessionVars PROVE IInv'
<1> USE DEF PushEnds, server, sessionVars
<1>1. TypeOK'
  BY ResultType DEF IInv, TypeOK, StreamTypeOK, StreamState, Stages, Counts, done
<1>2. (CancelledByClient /\ ResultIsTheHandlers /\ WholeInput /\ FailedPushesNothing)'
  BY ResultType DEF IInv, TypeOK, StreamTypeOK, CancelledByClient, ResultIsTheHandlers, WholeInput,
         FailedPushesNothing, StreamState, Stages, Counts, done, Result
<1>3. InputInOrder'
  BY DEF IInv, InputInOrder
<1>4. StreamState'
  BY DEF IInv, TypeOK, StreamTypeOK, StreamState, done
<1>5. Stages'
  BY DEF IInv, TypeOK, StreamTypeOK, StreamState, Stages, FailedPushesNothing, CancelledByClient
<1>6. Counts'
  BY ResultType DEF IInv, TypeOK, StreamTypeOK, StreamState, Stages, Counts, ResultIsTheHandlers, done
<1> QED
  BY <1>1, <1>2, <1>3, <1>4, <1>5, <1>6 DEF IInv

LEMMA WaitReturnsKeeps == ASSUME IInv, WaitReturns, UNCHANGED sessionVars PROVE IInv'
<1> USE DEF WaitReturns, server, sessionVars
<1>1. TypeOK'
  BY DEF IInv, TypeOK, StreamTypeOK, StreamState, Stages, Counts, done
<1>2. (CancelledByClient /\ ResultIsTheHandlers /\ WholeInput /\ FailedPushesNothing)'
  BY DEF IInv, TypeOK, StreamTypeOK, CancelledByClient, ResultIsTheHandlers, WholeInput,
         FailedPushesNothing, StreamState, Stages, Counts, done
<1>3. InputInOrder'
  BY DEF IInv, InputInOrder
<1>4. StreamState'
  BY DEF IInv, TypeOK, StreamTypeOK, StreamState, done
<1>5. Stages'
  BY DEF IInv, TypeOK, StreamTypeOK, StreamState, Stages, FailedPushesNothing, CancelledByClient
<1>6. Counts'
  BY DEF IInv, TypeOK, StreamTypeOK, StreamState, Stages, Counts, ResultIsTheHandlers, done
<1> QED
  BY <1>1, <1>2, <1>3, <1>4, <1>5, <1>6 DEF IInv

LEMMA HandlerKeeps == ASSUME IInv, HandlerStep, UNCHANGED sessionVars PROVE IInv'
<1> USE DEF HandlerStep, Recv, RecvEnds, Send, HandlerReturns, HandlerCancels, sessionVars
<1>1. TypeOK'
  BY DEF IInv, TypeOK, StreamTypeOK, StreamState, Stages, Counts, done
<1>2. (CancelledByClient /\ ResultIsTheHandlers /\ WholeInput /\ FailedPushesNothing)'
  BY DEF IInv, TypeOK, StreamTypeOK, CancelledByClient, ResultIsTheHandlers, WholeInput,
         FailedPushesNothing, StreamState, Stages, Counts, done
<1>3. InputInOrder'
  BY DEF IInv, InputInOrder
<1>4. StreamState'
  BY DEF IInv, TypeOK, StreamTypeOK, StreamState, done
<1>5. Stages'
  BY DEF IInv, TypeOK, StreamTypeOK, StreamState, Stages, FailedPushesNothing, CancelledByClient
<1>6. Counts'
  BY DEF IInv, TypeOK, StreamTypeOK, StreamState, Stages, Counts, ResultIsTheHandlers, done
<1> QED
  BY <1>1, <1>2, <1>3, <1>4, <1>5, <1>6 DEF IInv

LEMMA DropKeeps == ASSUME IInv, Drop PROVE IInv'
<1> USE DEF Drop, Cancel, streamVars, server
<1>1. TypeOK'
  BY DEF IInv, TypeOK, StreamTypeOK, StreamState, Stages, Counts, done
<1>2. (CancelledByClient /\ ResultIsTheHandlers /\ WholeInput /\ FailedPushesNothing)'
  BY DEF IInv, TypeOK, StreamTypeOK, CancelledByClient, ResultIsTheHandlers, WholeInput,
         FailedPushesNothing, StreamState, Stages, Counts, done
<1>3. InputInOrder'
  BY DEF IInv, InputInOrder
<1>4. StreamState'
  BY DEF IInv, TypeOK, StreamTypeOK, StreamState, done
<1>5. Stages'
  BY DEF IInv, TypeOK, StreamTypeOK, StreamState, Stages, FailedPushesNothing, CancelledByClient
<1>6. Counts'
  BY DEF IInv, TypeOK, StreamTypeOK, StreamState, Stages, Counts, ResultIsTheHandlers, done
<1> QED
  BY <1>1, <1>2, <1>3, <1>4, <1>5, <1>6 DEF IInv

LEMMA ReadKeeps == ASSUME IInv, NEW maxLen \in 0..OutputLen, Read(maxLen) PROVE IInv'
<1> USE DEF Read, streamVars, server
<1>1. TypeOK'
  BY DEF IInv, TypeOK, StreamTypeOK, StreamState, Stages, Counts, done
<1>2. (CancelledByClient /\ ResultIsTheHandlers /\ WholeInput /\ FailedPushesNothing)'
  BY DEF IInv, TypeOK, StreamTypeOK, CancelledByClient, ResultIsTheHandlers, WholeInput,
         FailedPushesNothing, StreamState, Stages, Counts, done
<1>3. InputInOrder'
  BY DEF IInv, InputInOrder
<1>4. StreamState'
  BY DEF IInv, TypeOK, StreamTypeOK, StreamState, done
<1>5. Stages'
  BY DEF IInv, TypeOK, StreamTypeOK, StreamState, Stages, FailedPushesNothing, CancelledByClient
<1>6. Counts'
  BY DEF IInv, TypeOK, StreamTypeOK, StreamState, Stages, Counts, ResultIsTheHandlers, done
<1> QED
  BY <1>1, <1>2, <1>3, <1>4, <1>5, <1>6 DEF IInv

LEMMA StutterKeeps == ASSUME IInv, UNCHANGED vars PROVE IInv'
<1> USE DEF vars, streamVars, server, sessionVars
<1>1. TypeOK'
  BY DEF IInv, TypeOK, StreamTypeOK, StreamState, Stages, Counts, done
<1>2. (CancelledByClient /\ ResultIsTheHandlers /\ WholeInput /\ FailedPushesNothing)'
  BY DEF IInv, TypeOK, StreamTypeOK, CancelledByClient, ResultIsTheHandlers, WholeInput,
         FailedPushesNothing, StreamState, Stages, Counts, done
<1>3. InputInOrder'
  BY DEF IInv, InputInOrder
<1>4. StreamState'
  BY DEF IInv, TypeOK, StreamTypeOK, StreamState, done
<1>5. Stages'
  BY DEF IInv, TypeOK, StreamTypeOK, StreamState, Stages, FailedPushesNothing, CancelledByClient
<1>6. Counts'
  BY DEF IInv, TypeOK, StreamTypeOK, StreamState, Stages, Counts, ResultIsTheHandlers, done
<1> QED
  BY <1>1, <1>2, <1>3, <1>4, <1>5, <1>6 DEF IInv

LEMMA NextKeeps == IInv /\ [Next]_vars => IInv'
<1> SUFFICES ASSUME IInv, [Next]_vars PROVE IInv'
  OBVIOUS
<1>1. ASSUME NEW n \in 0..MaxChunks, Write(n) PROVE IInv'
  BY <1>1, WriteKeeps
<1>2. CASE Finish
  BY <1>2, FinishKeeps
<1>3. CASE ExportStep
  BY <1>3, PushChunkKeeps, ChunkPushedKeeps, FinishClosesKeeps, FinishWaitsKeeps,
     FinishReturnsKeeps DEF ExportStep
<1>4. CASE StreamStep
  BY <1>4, PushHandsKeeps, PushEndsKeeps, WaitReturnsKeeps, HandlerKeeps
     DEF StreamStep, ClientEnds
<1>5. CASE Drop
  BY <1>5, DropKeeps
<1>6. ASSUME NEW maxLen \in 0..OutputLen, Read(maxLen) PROVE IInv'
  BY <1>6, ReadKeeps
<1>7. CASE UNCHANGED vars
  BY <1>7, StutterKeeps
<1> QED
  BY <1>1, <1>2, <1>3, <1>4, <1>5, <1>6, <1>7 DEF Next

-----------------------------------------------------------------------------
(* IInv holds of every session, whatever the handler does and whenever it  *)
(* does it.                                                                *)
THEOREM Inductive == Spec => []IInv
BY InitInv, NextKeeps, PTL DEF Spec

(* Output exists only of a whole call, whose handler received every chunk  *)
(* of every write before it succeeded (CryptoOutput of export.go).         *)
THEOREM OutputOfWholeInput == Spec => []WholeInput
<1>1. IInv => WholeInput
  BY DEF IInv
<1> QED
  BY <1>1, Inductive, PTL

(* The handler receives the chunks in the order of their seq, none twice,  *)
(* and the options with the first only (write of export.go).               *)
THEOREM HandlerSeesChunksInOrder == Spec => []InputInOrder
<1>1. IInv => InputInOrder
  BY DEF IInv
<1> QED
  BY <1>1, Inductive, PTL

(* A session never fails of a cancelled stream, which Classify would panic *)
(* on, and a failed one has nothing on the stream.                         *)
THEOREM FailureIsTheLast == Spec => []FailedPushesNothing
<1>1. IInv => FailedPushesNothing
  BY DEF IInv
<1> QED
  BY <1>1, Inductive, PTL

(* The client of a stream hears of a cancelled context only when a client  *)
(* cancelled it (the order of close(done) and cancel in streams.go).       *)
THEOREM CancelIsTheClients == Spec => []CancelledByClient
<1>1. IInv => CancelledByClient
  BY DEF IInv
<1> QED
  BY <1>1, Inductive, PTL

(* What else Push and Wait return is what the handler returned.            *)
THEOREM ResultsAreTheHandlers == Spec => []ResultIsTheHandlers
<1>1. IInv => ResultIsTheHandlers
  BY DEF IInv
<1> QED
  BY <1>1, Inductive, PTL

(* So whatever Push and Wait return is true (streams.go, Push and Wait):   *)
(* the handler's result, or a cancellation of the client's own.            *)
THEOREM ResultsAreTrue == Spec => []ResultIsTrue
BY CancelIsTheClients, ResultsAreTheHandlers, PTL DEF ResultIsTrue

-----------------------------------------------------------------------------
(* The session keeps the promise of Transfer.                              *)

(* What the mapping makes of the stream, and of the session.               *)
LEMMA Unmoved ==
  ASSUME UNCHANGED <<written, received, input, err, position, sticky>>
  PROVE  UNCHANGED Promise!vars
BY DEF Promise!vars, Verdict, Told

LEMMA InitPromise == Init => Promise!Init
<1> SUFFICES ASSUME Init PROVE Promise!Init
  OBVIOUS
<1>1. Len(received) = 0 /\ written = 0 /\ input = "open"
  BY DEF Init, StreamInit
<1>2. Verdict = "none" /\ Told = "nothing"
  BY DEF Init, StreamInit, Verdict, Told
<1> QED
  BY <1>1, <1>2 DEF Promise!Init

LEMMA BeginsRefine ==
  ASSUME IInv, NEW n \in Nat \ {0}, session = "held", op = "none", sticky = "none", StartWrite(n),
         UNCHANGED <<position, sticky>>
  PROVE  Promise!Write
<1>1. UNCHANGED <<input, received, err>>
  BY DEF StartWrite, Start, streamVars, server
<1>2. written \in Nat /\ written' = written + n
  BY DEF StartWrite, IInv, TypeOK
<1>3. Told = "nothing" /\ input = "open"
  BY DEF Told, IInv, Stages, TypeOK, StreamTypeOK
<1>4. Told' = Told /\ Verdict' = Verdict
  BY <1>1 DEF Told, Verdict
<1> QED
  BY <1>1, <1>2, <1>3, <1>4 DEF Promise!Write

LEMMA WriteRefines ==
  ASSUME IInv, NEW n \in 0..MaxChunks, Write(n)
  PROVE  Promise!Write \/ UNCHANGED Promise!vars
<1>1. CASE sticky # "none" \/ n = 0
  <2>1. UNCHANGED <<written, received, input, err, position, sticky>>
    BY <1>1 DEF Write, streamVars, server
  <2> QED
    BY <2>1, Unmoved
<1>2. CASE sticky = "none" /\ n # 0
  BY <1>2, BeginsRefine DEF Write
<1> QED
  BY <1>1, <1>2

LEMMA FinishRefines ==
  ASSUME IInv, Finish
  PROVE  Promise!Write \/ UNCHANGED Promise!vars
<1>1. CASE sticky # "none" \/ seq # 0
  <2>1. UNCHANGED <<written, received, input, err, position, sticky>>
    BY <1>1 DEF Finish, streamVars, server
  <2> QED
    BY <2>1, Unmoved
<1>2. CASE sticky = "none" /\ seq = 0
  BY <1>2, BeginsRefine DEF Finish
<1> QED
  BY <1>1, <1>2

(* A failed push is a failure for the handler's reason: the input is open. *)
LEMMA ChunkPushedRefines ==
  ASSUME IInv, IInv', ChunkPushed
  PROVE  Promise!Fail \/ UNCHANGED Promise!vars
<1>1. UNCHANGED <<written, received, input, err, position>>
  BY DEF ChunkPushed, server
<1>2. CASE result = "ok"
  <2>1. UNCHANGED sticky
    BY <1>2 DEF ChunkPushed
  <2> QED
    BY <1>1, <2>1, Unmoved
<1>3. CASE result # "ok"
  <2>1. sticky' = result /\ result # "none" /\ left > 0 /\ op # "none"
    BY <1>3 DEF ChunkPushed
  <2>2. result \in Errors \cup {"handlerDone"}
    BY <1>3, <2>1 DEF IInv, TypeOK, StreamTypeOK, CancelledByClient, Stages
  <2>3. Verdict \in {"accepted", "refused"} /\ input = "open"
    BY <2>1, <2>2 DEF Verdict, IInv, ResultIsTheHandlers, Stages, TypeOK, StreamTypeOK
  <2>4. position > OutputLen /\ sticky = "none"
    BY <2>1 DEF IInv, Stages, TypeOK
  <2>5. Told = "nothing" /\ Told' = "failure"
    BY <1>1, <2>1, <2>2, <2>4 DEF Told, IInv, TypeOK
  <2>6. Verdict' = Verdict
    BY <1>1 DEF Verdict
  <2> QED
    BY <1>1, <2>3, <2>5, <2>6 DEF Promise!Fail
<1> QED
  BY <1>2, <1>3

LEMMA FinishClosesRefines ==
  ASSUME IInv, FinishCloses
  PROVE  Promise!Close
<1>1. UNCHANGED <<written, received, err, position, sticky>> /\ input = "open" /\ input' = "closed"
  BY DEF FinishCloses, CloseSend, sessionVars
<1>2. Len(received) = written
  BY DEF FinishCloses, IInv, Stages, Counts, TypeOK
<1>3. Told = "nothing"
  BY DEF Told, FinishCloses, IInv, Stages, TypeOK
<1>4. Told' = Told /\ Verdict' = Verdict
  BY <1>1 DEF Told, Verdict
<1> QED
  BY <1>1, <1>2, <1>3, <1>4 DEF Promise!Close

LEMMA FinishReturnsRefines ==
  ASSUME IInv, FinishReturns
  PROVE  Promise!Succeed \/ Promise!Fail
<1>1. UNCHANGED <<written, received, input, err>> /\ input = "closed"
  BY DEF FinishReturns, streamVars, server, IInv, Stages
<1>2. Told = "nothing" /\ position > OutputLen
  BY DEF Told, FinishReturns, IInv, Stages, TypeOK
<1>3. Verdict' = Verdict
  BY <1>1 DEF Verdict
<1>4. CASE result = "ok"
  <2>1. Verdict = "accepted"
    BY <1>4 DEF Verdict, FinishReturns, IInv, Counts
  <2>2. Told' = "output"
    BY <1>4 DEF Told, FinishReturns
  <2> QED
    BY <1>1, <1>2, <1>3, <2>1, <2>2 DEF Promise!Succeed
<1>5. CASE result # "ok"
  <2>1. result \in Errors
    BY <1>5 DEF FinishReturns, IInv, TypeOK, StreamTypeOK, CancelledByClient, Stages
  <2>2. Verdict = "refused"
    BY <2>1 DEF Verdict, IInv, ResultIsTheHandlers
  <2>3. Told' = "failure"
    BY <1>2, <1>5, <2>1 DEF Told, FinishReturns, IInv, TypeOK
  <2> QED
    BY <1>1, <1>2, <1>3, <2>2, <2>3 DEF Promise!Fail
<1> QED
  BY <1>4, <1>5

LEMMA PushHandsRefines ==
  ASSUME IInv, PushHands, UNCHANGED sessionVars
  PROVE  Promise!Take
<1>1. UNCHANGED <<written, input, err, position, sticky>>
  BY DEF PushHands, sessionVars
<1>2. received \in Seq(Requests) /\ req \in Requests
  BY ChunkType DEF PushHands, IInv, TypeOK, StreamTypeOK, Stages
<1>3. Len(received') = Len(received) + 1
  BY <1>2 DEF PushHands
<1>4. Len(received) < written
  BY <1>2 DEF PushHands, IInv, TypeOK, Stages, Counts
<1>5. Told' = Told /\ Verdict' = Verdict
  BY <1>1 DEF Told, Verdict
<1> QED
  BY <1>1, <1>3, <1>4, <1>5 DEF Promise!Take

LEMMA HandlerReturnsRefines ==
  ASSUME IInv, HandlerReturns, UNCHANGED sessionVars
  PROVE  Promise!Judge("accepted") \/ Promise!Judge("refused")
<1>1. UNCHANGED <<written, received, input, position, sticky>>
  BY DEF HandlerReturns, sessionVars
<1>2. Verdict = "none"
  BY DEF Verdict, HandlerReturns, IInv, StreamState, done
<1>3. Verdict' \in {"accepted", "refused"}
  BY DEF Verdict, HandlerReturns
<1>4. Told' = Told
  BY <1>1 DEF Told
<1> QED
  BY <1>1, <1>2, <1>3, <1>4 DEF Promise!Judge

(* The other steps are not to be seen in Transfer.                         *)
LEMMA QuietRefines ==
  ASSUME \/ PushChunk \/ FinishWaits \/ Drop \/ UNCHANGED vars
         \/ (PushEnds \/ WaitReturns \/ Recv \/ RecvEnds \/ Send \/ HandlerCancels)
              /\ UNCHANGED sessionVars
  PROVE  UNCHANGED Promise!vars
<1>1. UNCHANGED <<written, received, input, err, position, sticky>>
  BY DEF PushChunk, Push, FinishWaits, Wait, Drop, Cancel, vars, sessionVars, streamVars, server,
         PushEnds, WaitReturns, Recv, RecvEnds, Send, HandlerCancels
<1> QED
  BY <1>1, Unmoved

LEMMA ReadRefines ==
  ASSUME IInv, NEW maxLen \in 0..OutputLen, Read(maxLen)
  PROVE  UNCHANGED Promise!vars
<1>1. UNCHANGED <<written, received, input, err, sticky>>
  BY DEF Read, streamVars, server
<1>2. position <= OutputLen /\ position' <= OutputLen
  <2>1. position \in Nat /\ position < OutputLen /\ maxLen \in Nat
    BY DEF Read, IInv, TypeOK
  <2>2. CASE maxLen < OutputLen - position
    <3>1. position' \in {position + maxLen, position + 1}
      BY <2>2 DEF Read
    <3> QED
      BY <2>1, <2>2, <3>1
  <2>3. CASE ~(maxLen < OutputLen - position)
    BY <2>1, <2>3 DEF Read
  <2> QED
    BY <2>1, <2>2, <2>3
<1>3. Told = "output" /\ Told' = "output"
  BY <1>2 DEF Told
<1>4. Verdict' = Verdict
  BY <1>1 DEF Verdict
<1> QED
  BY <1>1, <1>3, <1>4 DEF Promise!vars

LEMMA StepRefines == IInv /\ IInv' /\ [Next]_vars => [Promise!Next]_(Promise!vars)
<1> SUFFICES ASSUME IInv, IInv', [Next]_vars PROVE Promise!Next \/ UNCHANGED Promise!vars
  OBVIOUS
<1>1. ASSUME NEW n \in 0..MaxChunks, Write(n) PROVE Promise!Next \/ UNCHANGED Promise!vars
  BY <1>1, WriteRefines DEF Promise!Next
<1>2. CASE Finish
  BY <1>2, FinishRefines DEF Promise!Next
<1>3. CASE ExportStep
  BY <1>3, QuietRefines, ChunkPushedRefines, FinishClosesRefines, FinishReturnsRefines
     DEF ExportStep, Promise!Next
<1>4. CASE StreamStep
  <2>1. CASE HandlerReturns /\ UNCHANGED sessionVars
    BY <2>1, HandlerReturnsRefines DEF Promise!Next
  <2>2. CASE PushHands /\ UNCHANGED sessionVars
    BY <2>2, PushHandsRefines DEF Promise!Next
  <2> QED
    BY <1>4, <2>1, <2>2, QuietRefines DEF StreamStep, ClientEnds, HandlerStep
<1>5. CASE Drop \/ UNCHANGED vars
  BY <1>5, QuietRefines
<1>6. ASSUME NEW maxLen \in 0..OutputLen, Read(maxLen) PROVE UNCHANGED Promise!vars
  BY <1>6, ReadRefines
<1> QED
  BY <1>1, <1>2, <1>3, <1>4, <1>5, <1>6 DEF Next

(* A session is one of the behaviours of Transfer, whatever its handler    *)
(* does and whenever it does it (session of export.go over streams.go).    *)
THEOREM SessionImplementsTransfer == Spec => ImplementsTransfer
BY InitPromise, StepRefines, Inductive, PTL DEF Spec, ImplementsTransfer, Promise!Spec

(* What the app was told of a session, output or failure, stays, and       *)
(* nothing is written after it.                                            *)
THEOREM SessionOutcomeIsFinal == Spec => Promise!Final
<1>1. IInv /\ IInv' /\ [Next]_vars =>
        [Told # "nothing" => Told' = Told /\ written' = written]_(Promise!vars)
  <2> SUFFICES ASSUME IInv, IInv', [Next]_vars,
                      Told # "nothing", ~UNCHANGED Promise!vars
               PROVE  Told' = Told /\ written' = written
    OBVIOUS
  <2> QED
    BY StepRefines DEF Promise!Next, Promise!Reject, Promise!Write, Promise!Take, Promise!Close,
       Promise!Judge, Promise!Succeed, Promise!Fail
<1> QED
  BY <1>1, Inductive, PTL DEF Spec, Promise!Final

-----------------------------------------------------------------------------
(* A dropped session ends.                                                 *)

Dropped == session = "nil" /\ handler # "off"
Ended == handler = "gone" /\ receiver # "receiving"

(* The stages of the handler on its way there.                             *)
Idling == Dropped /\ handler = "running" /\ receiver = "idle"
Receiving == Dropped /\ handler = "running" /\ receiver = "receiving"
Leaving == Dropped /\ handler = "running" /\ receiver = "ended"
Returned == Dropped /\ handler = "returned"
LeftBehind == Dropped /\ handler = "gone" /\ receiver = "receiving"

(* It stays dropped, its context cancelled or over, and its stream is the  *)
(* handler's alone, which goes on to the end of both its goroutines.       *)
LEMMA DroppedStep ==
  ASSUME IInv, Dropped, [Next]_vars
  PROVE  /\ Dropped'
         /\ HandlerStep \/ UNCHANGED <<handler, receiver, err>>
<1>1. op = "none" /\ client = "idle"
  BY DEF Dropped, IInv, Stages, TypeOK
<1>2. ASSUME NEW n \in 0..MaxChunks, Write(n) PROVE FALSE
  BY <1>2 DEF Dropped, Write
<1>3. ASSUME Finish PROVE FALSE
  BY <1>3 DEF Dropped, Finish
<1>4. ASSUME ExportStep PROVE FALSE
  BY <1>1, <1>4 DEF ExportStep, PushChunk, ChunkPushed, FinishCloses, FinishWaits, FinishReturns
<1>5. CASE StreamStep
  <2>1. HandlerStep /\ UNCHANGED sessionVars
    BY <1>1, <1>5 DEF StreamStep, ClientEnds, PushHands, PushEnds, WaitReturns
  <2> QED
    BY <2>1 DEF Dropped, HandlerStep, Recv, RecvEnds, Send, HandlerReturns, HandlerCancels,
       sessionVars
<1>6. CASE Drop
  BY <1>6 DEF Dropped, Drop, streamVars, server
<1>7. ASSUME NEW maxLen \in 0..OutputLen, Read(maxLen)
      PROVE  Dropped' /\ UNCHANGED <<handler, receiver, err>>
  BY <1>7 DEF Dropped, Read, streamVars, server
<1>8. CASE UNCHANGED vars
  BY <1>8 DEF Dropped, vars, sessionVars, streamVars, server
<1> QED
  BY <1>2, <1>3, <1>4, <1>5, <1>6, <1>7, <1>8 DEF Next

(* No step leads it back to an earlier stage.                              *)
LEMMA StagesStep ==
  ASSUME IInv, [Next]_vars
  PROVE  /\ Idling => Idling' \/ Receiving' \/ Returned'
         /\ Receiving => Receiving' \/ Leaving' \/ Returned'
         /\ Leaving => Leaving' \/ Returned'
         /\ Returned => Returned' \/ LeftBehind' \/ Ended'
         /\ LeftBehind => LeftBehind' \/ Ended'
<1> SUFFICES ASSUME Dropped
             PROVE  /\ Idling => Idling' \/ Receiving' \/ Returned'
                    /\ Receiving => Receiving' \/ Leaving' \/ Returned'
                    /\ Leaving => Leaving' \/ Returned'
                    /\ Returned => Returned' \/ LeftBehind' \/ Ended'
                    /\ LeftBehind => LeftBehind' \/ Ended'
  BY DEF Idling, Receiving, Leaving, Returned, LeftBehind
<1>1. /\ Dropped'
      /\ HandlerStep \/ UNCHANGED <<handler, receiver, err>>
  BY DroppedStep
<1>2. CASE UNCHANGED <<handler, receiver, err>>
  BY <1>1, <1>2 DEF Idling, Receiving, Leaving, Returned, LeftBehind
<1>3. CASE HandlerStep
  BY <1>1, <1>3 DEF Idling, Receiving, Leaving, Returned, LeftBehind, Ended,
     HandlerStep, Recv, RecvEnds, Send, HandlerReturns, HandlerCancels
<1> QED
  BY <1>1, <1>2, <1>3

(* The step that is fair in each stage leads to the next.                  *)
LEMMA FairSteps ==
  ASSUME IInv, [Next]_vars
  PROVE  /\ Idling /\ <<Recv>>_streamVars => Receiving'
         /\ Receiving /\ <<RecvEnds>>_streamVars => Leaving'
         /\ Leaving /\ <<LastReturn>>_streamVars => Returned'
         /\ Returned /\ <<HandlerCancels>>_streamVars => LeftBehind' \/ Ended'
         /\ LeftBehind /\ <<RecvEnds>>_streamVars => Ended'
<1> SUFFICES ASSUME Dropped
             PROVE  /\ Idling /\ <<Recv>>_streamVars => Receiving'
                    /\ Receiving /\ <<RecvEnds>>_streamVars => Leaving'
                    /\ Leaving /\ <<LastReturn>>_streamVars => Returned'
                    /\ Returned /\ <<HandlerCancels>>_streamVars => LeftBehind' \/ Ended'
                    /\ LeftBehind /\ <<RecvEnds>>_streamVars => Ended'
  BY DEF Idling, Receiving, Leaving, Returned, LeftBehind
<1>1. Dropped'
  BY DroppedStep
<1> QED
  BY <1>1 DEF Idling, Receiving, Leaving, Returned, LeftBehind, Ended,
     Recv, RecvEnds, LastReturn, HandlerReturns, HandlerCancels

(* In its stage each of these steps can be taken.                          *)
LEMMA FairStepsReady ==
  ASSUME IInv, StepsNotHeldBack
  PROVE  /\ Idling => ENABLED <<Recv>>_streamVars
         /\ Receiving => ENABLED <<RecvEnds>>_streamVars
         /\ Leaving => ENABLED <<LastReturn>>_streamVars
         /\ Returned => ENABLED <<HandlerCancels>>_streamVars
         /\ LeftBehind => ENABLED <<RecvEnds>>_streamVars
<1>1. Dropped => ctx # "live"
  BY DEF IInv, Stages, Dropped
<1> QED
  BY <1>1 DEF StepsNotHeldBack, Idling, Receiving, Leaving, Returned, LeftBehind

(* A session that is dropped while its handler runs, the app's or the      *)
(* host's trap included, leaves no goroutine behind, whatever the handler  *)
(* was doing: provided the steps of StepsNotHeldBack can be taken.         *)
THEOREM SessionDroppedEnds == FairSpec /\ []StepsNotHeldBack => DroppedEnds
<1>1. FairSpec => []IInv
  BY Inductive, PTL DEF FairSpec
<1>2. IInv /\ Dropped => Idling \/ Receiving \/ Leaving \/ Returned \/ LeftBehind \/ Ended
  BY DEF IInv, TypeOK, StreamTypeOK, Dropped, Idling, Receiving, Leaving, Returned,
     LeftBehind, Ended
<1> QED
  BY <1>1, <1>2, StagesStep, FairSteps, FairStepsReady, PTL
     DEF FairSpec, Spec, StreamFairness, DroppedEnds, Dropped, Ended

-----------------------------------------------------------------------------
(* An export goes on.                                                      *)

(* What a step does while an export is on the stack: the stream's, where   *)
(* a handler that is done stays done and a receiver that has something to  *)
(* take does not turn away, or the export's own.                           *)
HandlerMoves ==
  /\ UNCHANGED <<op, left, client, result, input>>
  /\ done => done'
  /\ handler = "running" => handler' \in {"running", "returned"}
  /\ receiver' # receiver => \/ receiver = "idle" /\ receiver' = "receiving"
                             \/ receiver = "receiving" /\ receiver' = "ended"

ClientMoves ==
  /\ UNCHANGED <<op, left, input>>
  /\ client # "idle" /\ client' = "idle" /\ result' # "none"

ExportMoves ==
  \/ /\ UNCHANGED <<op, left, input, handler, receiver>>
     /\ left > 0 /\ client = "idle" /\ result = "none" /\ client' = "pushing"
  \/ /\ left > 0 /\ client = "idle" /\ result # "none"
     /\ op' = "none" \/ left' = left - 1
  \/ /\ UNCHANGED <<op, left, client, result, handler, receiver>>
     /\ left = 0 /\ input = "open" /\ input' = "closed"
  \/ /\ UNCHANGED <<op, left, input, handler, receiver>>
     /\ left = 0 /\ input = "closed" /\ client = "idle" /\ result = "none" /\ client' = "waiting"
  \/ left = 0 /\ client = "idle" /\ result # "none" /\ op' = "none"

LEMMA ClientEndsMoves ==
  ASSUME IInv, ClientEnds, UNCHANGED sessionVars PROVE ClientMoves
<1>1. done => err # "none" /\ Result # "none"
  BY DEF IInv, StreamState, Result
<1> QED
  BY <1>1 DEF ClientEnds, PushHands, PushEnds, WaitReturns, ClientMoves, sessionVars, server

LEMMA ExportStepMoves ==
  ASSUME IInv, ExportStep PROVE ExportMoves
<1> USE DEF IInv, TypeOK, Stages, ExportMoves
<1>1. CASE PushChunk
  BY <1>1 DEF PushChunk, Push, sessionVars, server
<1>2. CASE ChunkPushed
  BY <1>2 DEF ChunkPushed, server
<1>3. CASE FinishCloses
  BY <1>3 DEF FinishCloses, CloseSend, sessionVars
<1>4. CASE FinishWaits
  BY <1>4 DEF FinishWaits, Wait, sessionVars, server
<1>5. CASE FinishReturns
  BY <1>5 DEF FinishReturns
<1> QED
  BY <1>1, <1>2, <1>3, <1>4, <1>5 DEF ExportStep

LEMMA OnTheStack ==
  ASSUME IInv, op # "none", [Next]_vars
  PROVE  HandlerMoves \/ ClientMoves \/ ExportMoves
<1>1. ASSUME NEW n \in 0..MaxChunks, Write(n) PROVE FALSE
  BY <1>1 DEF Write
<1>2. ASSUME Finish PROVE FALSE
  BY <1>2 DEF Finish
<1>3. CASE ExportStep
  BY <1>3, ExportStepMoves
<1>4. CASE StreamStep
  <2>1. CASE ClientEnds /\ UNCHANGED sessionVars
    BY <2>1, ClientEndsMoves
  <2>2. CASE HandlerStep /\ UNCHANGED sessionVars
    BY <2>2 DEF HandlerMoves, HandlerStep, Recv, RecvEnds, Send, HandlerReturns, HandlerCancels,
       sessionVars, done
  <2> QED
    BY <1>4, <2>1, <2>2 DEF StreamStep
<1>5. CASE Drop
  <2>1. session # "held"
    BY <1>5 DEF Drop, IInv, TypeOK, Stages
  <2> QED
    BY <1>5, <2>1 DEF Drop, HandlerMoves, streamVars, server, done
<1>6. ASSUME NEW maxLen \in 0..OutputLen, Read(maxLen) PROVE HandlerMoves
  BY <1>6 DEF Read, HandlerMoves, streamVars, server, done
<1>7. CASE UNCHANGED vars
  BY <1>7 DEF HandlerMoves, vars, streamVars, server, sessionVars, done
<1> QED
  BY <1>1, <1>2, <1>3, <1>4, <1>5, <1>6, <1>7 DEF Next

(* One turn of write's loop, with n chunks left.                           *)
Turn(n) == op # "none" /\ left = n
ToPush(n) == Turn(n) /\ client = "idle" /\ result = "none"
Unheard(n) == Turn(n) /\ client = "pushing" /\ handler = "running" /\ receiver = "idle"
Heard(n) == Turn(n) /\ client = "pushing" /\ (receiver = "receiving" \/ done)
Pushed(n) == Turn(n) /\ client = "idle" /\ result # "none"
Less(n) == op = "none" \/ left < n

(* Whatever is pushed has a handler: one that will receive, that does, or  *)
(* that is done.                                                           *)
LEMMA TurnStages ==
  ASSUME IInv, NEW n \in Nat \ {0}, Turn(n)
  PROVE  ToPush(n) \/ Unheard(n) \/ Heard(n) \/ Pushed(n)
<1> USE DEF IInv, TypeOK, StreamTypeOK, Stages, Turn
<1>1. CASE client = "idle"
  BY <1>1 DEF ToPush, Pushed
<1>2. CASE client = "pushing"
  <2>1. handler = "running" \/ done
    BY DEF done
  <2>2. receiver = "ended" => done
    BY DEF StreamState, done
  <2> QED
    BY <1>2, <2>1, <2>2 DEF Unheard, Heard
<1> QED
  BY <1>1, <1>2

LEMMA TurnStep ==
  ASSUME IInv, IInv', [Next]_vars, NEW n \in Nat \ {0}
  PROVE  /\ ToPush(n) => ToPush(n)' \/ Unheard(n)' \/ Heard(n)'
         /\ Unheard(n) => Unheard(n)' \/ Heard(n)' \/ Pushed(n)'
         /\ Heard(n) => Heard(n)' \/ Pushed(n)'
         /\ Pushed(n) => Pushed(n)' \/ Less(n)'
<1> SUFFICES ASSUME Turn(n)
             PROVE  /\ ToPush(n) => ToPush(n)' \/ Unheard(n)' \/ Heard(n)'
                    /\ Unheard(n) => Unheard(n)' \/ Heard(n)' \/ Pushed(n)'
                    /\ Heard(n) => Heard(n)' \/ Pushed(n)'
                    /\ Pushed(n) => Pushed(n)' \/ Less(n)'
  BY DEF ToPush, Unheard, Heard, Pushed
<1>1. HandlerMoves \/ ClientMoves \/ ExportMoves
  BY OnTheStack DEF Turn
<1>2. Turn(n)' => ToPush(n)' \/ Unheard(n)' \/ Heard(n)' \/ Pushed(n)'
  BY TurnStages, PTL
<1>3. CASE HandlerMoves
  <2>1. Turn(n)' /\ client' = client /\ result' = result
    BY <1>3 DEF HandlerMoves, Turn
  <2>2. Heard(n) => Heard(n)'
    <3> SUFFICES ASSUME Heard(n), ~done' PROVE receiver' = "receiving"
      BY <2>1 DEF Heard
    <3>1. receiver = "receiving" /\ ~done
      BY <1>3 DEF Heard, HandlerMoves
    <3>2. receiver' # "idle"
      BY <1>3, <3>1 DEF HandlerMoves
    <3> QED
      BY <1>2, <2>1, <3>2 DEF ToPush, Unheard, Heard, Pushed
  <2> QED
    BY <1>2, <2>1, <2>2 DEF ToPush, Unheard, Heard, Pushed
<1>4. CASE ClientMoves
  BY <1>4 DEF ClientMoves, Turn, ToPush, Unheard, Heard, Pushed
<1>5. CASE ExportMoves
  <2>1. client = "idle" /\ left > 0
    BY <1>5 DEF ExportMoves, Turn
  <2>2. ToPush(n) => Turn(n)' /\ client' = "pushing"
    BY <1>5 DEF ExportMoves, Turn, ToPush
  <2>3. Pushed(n) => Less(n)'
    BY <1>5 DEF ExportMoves, Turn, Pushed, Less
  <2> QED
    BY <1>2, <2>1, <2>2, <2>3 DEF ToPush, Unheard, Heard, Pushed
<1> QED
  BY <1>1, <1>3, <1>4, <1>5

(* The step that is fair at each of these stages leads to the next.        *)
LEMMA TurnFairSteps ==
  ASSUME IInv, IInv', [Next]_vars, NEW n \in Nat \ {0}
  PROVE  /\ ToPush(n) /\ <<ExportStep>>_vars => Unheard(n)' \/ Heard(n)'
         /\ Unheard(n) /\ <<Recv>>_streamVars => Heard(n)'
         /\ Heard(n) /\ <<ClientEnds>>_streamVars => Pushed(n)'
         /\ Pushed(n) /\ <<ExportStep>>_vars => Less(n)'
<1>1. Turn(n)' => ToPush(n)' \/ Unheard(n)' \/ Heard(n)' \/ Pushed(n)'
  BY TurnStages, PTL
<1>2. ExportStep => ExportMoves
  BY ExportStepMoves
<1>3. Turn(n) => HandlerMoves \/ ClientMoves \/ ExportMoves
  BY OnTheStack DEF Turn
<1>4. ASSUME ToPush(n), ExportStep PROVE Unheard(n)' \/ Heard(n)'
  <2>1. Turn(n)' /\ client' = "pushing"
    BY <1>2, <1>4 DEF ExportMoves, ToPush, Turn
  <2> QED
    BY <1>1, <2>1 DEF ToPush, Pushed
<1>5. ASSUME Unheard(n), Recv PROVE Heard(n)'
  <2>1. client' = client /\ receiver' = "receiving"
    BY <1>5 DEF Recv
  <2>2. Turn(n)'
    BY <1>3, <1>5, <2>1 DEF Unheard, Turn, HandlerMoves, ClientMoves, ExportMoves
  <2> QED
    BY <1>5, <2>1, <2>2 DEF Unheard, Heard
<1>6. ASSUME Heard(n), ClientEnds PROVE Pushed(n)'
  <2>1. client' = "idle"
    BY <1>6 DEF ClientEnds, PushHands, PushEnds, WaitReturns
  <2>2. ClientMoves
    BY <1>3, <1>6, <2>1 DEF Heard, Turn, HandlerMoves, ExportMoves
  <2> QED
    BY <1>6, <2>2 DEF Heard, Pushed, Turn, ClientMoves
<1>7. ASSUME Pushed(n), ExportStep PROVE Less(n)'
  BY <1>2, <1>7 DEF ExportMoves, Pushed, Turn, Less
<1> QED
  BY <1>4, <1>5, <1>6, <1>7

LEMMA TurnReady ==
  ASSUME IInv, StepsNotHeldBack, NEW n \in Nat \ {0}
  PROVE  /\ ToPush(n) \/ Pushed(n) => ENABLED <<ExportStep>>_vars
         /\ Unheard(n) => ENABLED <<Recv>>_streamVars
         /\ Heard(n) => ENABLED <<ClientEnds>>_streamVars
BY DEF StepsNotHeldBack, ToPush, Unheard, Heard, Pushed, Turn

(* The export ends, or one chunk less is left.                             *)
TurnEnds(n) == Turn(n) ~> Less(n)

LEMMA OneTurn ==
  ASSUME NEW n \in Nat \ {0}
  PROVE  FairSpec /\ []StepsNotHeldBack => TurnEnds(n)
<1>1. FairSpec => []IInv
  BY Inductive, PTL DEF FairSpec
<1>2. IInv => (Turn(n) => ToPush(n) \/ Unheard(n) \/ Heard(n) \/ Pushed(n))
  BY TurnStages
<1>3. IInv /\ IInv' /\ [Next]_vars =>
        /\ ToPush(n) => ToPush(n)' \/ Unheard(n)' \/ Heard(n)'
        /\ Unheard(n) => Unheard(n)' \/ Heard(n)' \/ Pushed(n)'
        /\ Heard(n) => Heard(n)' \/ Pushed(n)'
        /\ Pushed(n) => Pushed(n)' \/ Less(n)'
  BY TurnStep
<1>4. IInv /\ IInv' /\ [Next]_vars =>
        /\ ToPush(n) /\ <<ExportStep>>_vars => Unheard(n)' \/ Heard(n)'
        /\ Unheard(n) /\ <<Recv>>_streamVars => Heard(n)'
        /\ Heard(n) /\ <<ClientEnds>>_streamVars => Pushed(n)'
        /\ Pushed(n) /\ <<ExportStep>>_vars => Less(n)'
  BY TurnFairSteps
<1>5. IInv /\ StepsNotHeldBack =>
        /\ ToPush(n) \/ Pushed(n) => ENABLED <<ExportStep>>_vars
        /\ Unheard(n) => ENABLED <<Recv>>_streamVars
        /\ Heard(n) => ENABLED <<ClientEnds>>_streamVars
  BY TurnReady
<1> QED
  BY <1>1, <1>2, <1>3, <1>4, <1>5, PTL DEF FairSpec, Spec, StreamFairness, TurnEnds

(* finish with nothing left to push: the half-close, the wait for the      *)
(* handler to the end of its goroutines, the answer.                       *)
AtEnd == op # "none" /\ left = 0
ToClose == AtEnd /\ client = "idle" /\ input = "open"
ToWait == AtEnd /\ client = "idle" /\ input = "closed" /\ result = "none"
Waiting == AtEnd /\ client = "waiting" /\ input = "closed"
ToReceive == Waiting /\ handler = "running" /\ receiver = "idle"
ToHearEOF == Waiting /\ handler = "running" /\ receiver = "receiving"
ToReturn == Waiting /\ handler = "running" /\ receiver = "ended"
ToTell == Waiting /\ done
Answered == AtEnd /\ client = "idle" /\ input = "closed" /\ result # "none"
Over == op = "none"

LEMMA EndStages ==
  ASSUME IInv, AtEnd
  PROVE  ToClose \/ ToWait \/ ToReceive \/ ToHearEOF \/ ToReturn \/ ToTell \/ Answered
<1> USE DEF IInv, TypeOK, StreamTypeOK, Stages, AtEnd
<1>1. CASE client = "idle"
  BY <1>1 DEF ToClose, ToWait, Answered
<1>2. CASE client = "waiting"
  BY <1>2 DEF Waiting, ToReceive, ToHearEOF, ToReturn, ToTell, done
<1> QED
  BY <1>1, <1>2

LEMMA EndExportMoves ==
  ASSUME IInv, AtEnd, ExportMoves
  PROVE  /\ ToClose => ToWait' \/ Answered'
         /\ ToWait => Waiting'
         /\ Answered => Over'
         /\ ~Waiting
<1>1. \/ /\ UNCHANGED <<op, left, client, result>>
         /\ input = "open" /\ input' = "closed"
      \/ /\ UNCHANGED <<op, left, input>>
         /\ input = "closed" /\ client = "idle" /\ result = "none" /\ client' = "waiting"
      \/ client = "idle" /\ result # "none" /\ op' = "none"
  BY DEF ExportMoves, AtEnd
<1>2. input = "open" => result = "none"
  BY DEF IInv, TypeOK, Stages, AtEnd
<1>3. ToClose => ToWait' \/ Answered'
  BY <1>1, <1>2 DEF ToClose, ToWait, Answered, AtEnd
<1>4. ToWait => Waiting'
  BY <1>1 DEF ToWait, Waiting, AtEnd
<1>5. Answered => Over'
  BY <1>1 DEF Answered, Over
<1>6. ~Waiting
  BY <1>1, <1>2 DEF Waiting
<1> QED
  BY <1>3, <1>4, <1>5, <1>6

(* Only the wait can last for more than one step, and no step leads it     *)
(* back to an earlier stage.                                               *)
LEMMA EndStep ==
  ASSUME IInv, IInv', [Next]_vars
  PROVE  /\ ToClose => ToClose' \/ ToWait' \/ Answered'
         /\ ToWait => ToWait' \/ Waiting'
         /\ ToReceive => ToReceive' \/ ToHearEOF' \/ ToTell' \/ Answered'
         /\ ToHearEOF => ToHearEOF' \/ ToReturn' \/ ToTell' \/ Answered'
         /\ ToReturn => ToReturn' \/ ToTell' \/ Answered'
         /\ ToTell => ToTell' \/ Answered'
         /\ Answered => Answered' \/ Over'
<1> SUFFICES ASSUME AtEnd
             PROVE  /\ ToClose => ToClose' \/ ToWait' \/ Answered'
                    /\ ToWait => ToWait' \/ Waiting'
                    /\ ToReceive => ToReceive' \/ ToHearEOF' \/ ToTell' \/ Answered'
                    /\ ToHearEOF => ToHearEOF' \/ ToReturn' \/ ToTell' \/ Answered'
                    /\ ToReturn => ToReturn' \/ ToTell' \/ Answered'
                    /\ ToTell => ToTell' \/ Answered'
                    /\ Answered => Answered' \/ Over'
  BY DEF ToClose, ToWait, Waiting, ToReceive, ToHearEOF, ToReturn, ToTell, Answered
<1>1. HandlerMoves \/ ClientMoves \/ ExportMoves
  BY OnTheStack DEF AtEnd
<1>2. CASE HandlerMoves
  <2>1. AtEnd' /\ client' = client /\ result' = result /\ input' = input
    BY <1>2 DEF HandlerMoves, AtEnd
  <2>2. (Waiting => Waiting') /\ (ToTell => ToTell')
    BY <1>2, <2>1 DEF Waiting, ToTell, HandlerMoves
  <2>3. handler = "running" => handler' = "running" \/ done'
    BY <1>2 DEF HandlerMoves, done
  <2>4. /\ ToReceive => ToReceive' \/ ToHearEOF' \/ ToTell'
        /\ ToHearEOF => ToHearEOF' \/ ToReturn' \/ ToTell'
        /\ ToReturn => ToReturn' \/ ToTell'
    BY <1>2, <2>2, <2>3 DEF HandlerMoves, ToReceive, ToHearEOF, ToReturn, ToTell
  <2> QED
    BY <2>1, <2>2, <2>4 DEF ToClose, ToWait, Answered
<1>3. CASE ClientMoves
  <2>1. client # "idle" /\ (Waiting => Answered')
    BY <1>3 DEF ClientMoves, AtEnd, Waiting, Answered
  <2> QED
    BY <2>1 DEF ToClose, ToWait, ToReceive, ToHearEOF, ToReturn, ToTell, Answered
<1>4. CASE ExportMoves
  BY <1>4, EndExportMoves DEF ToReceive, ToHearEOF, ToReturn, ToTell
<1> QED
  BY <1>1, <1>2, <1>3, <1>4

LEMMA EndFairSteps ==
  ASSUME IInv, IInv', [Next]_vars
  PROVE  /\ ToClose /\ <<ExportStep>>_vars => ToWait' \/ Answered'
         /\ ToWait /\ <<ExportStep>>_vars => Waiting'
         /\ ToReceive /\ <<Recv>>_streamVars => ToHearEOF'
         /\ ToHearEOF /\ <<RecvEnds>>_streamVars => ToReturn'
         /\ ToReturn /\ <<LastReturn>>_streamVars => ToTell'
         /\ ToTell /\ <<ClientEnds>>_streamVars => Answered'
         /\ Answered /\ <<ExportStep>>_vars => Over'
<1>1. ExportStep => ExportMoves
  BY ExportStepMoves
<1>2. AtEnd => HandlerMoves \/ ClientMoves \/ ExportMoves
  BY OnTheStack DEF AtEnd
<1>3. ASSUME AtEnd, ExportStep
      PROVE  /\ ToClose => ToWait' \/ Answered'
             /\ ToWait => Waiting'
             /\ Answered => Over'
  BY <1>1, <1>3, EndExportMoves
<1>4. ASSUME ToReceive, Recv PROVE ToHearEOF'
  <2>1. UNCHANGED <<client, handler, input>> /\ receiver' = "receiving"
    BY <1>4 DEF Recv
  <2>2. UNCHANGED <<op, left>>
    BY <1>2, <1>4, <2>1 DEF ToReceive, Waiting, AtEnd, HandlerMoves, ClientMoves, ExportMoves
  <2> QED
    BY <1>4, <2>1, <2>2 DEF ToReceive, ToHearEOF, Waiting, AtEnd
<1>5. ASSUME ToHearEOF, RecvEnds PROVE ToReturn'
  <2>1. UNCHANGED <<client, handler, input>> /\ receiver' = "ended"
    BY <1>5 DEF RecvEnds
  <2>2. UNCHANGED <<op, left>>
    BY <1>2, <1>5, <2>1 DEF ToHearEOF, Waiting, AtEnd, HandlerMoves, ClientMoves, ExportMoves
  <2> QED
    BY <1>5, <2>1, <2>2 DEF ToHearEOF, ToReturn, Waiting, AtEnd
<1>6. ASSUME ToReturn, LastReturn PROVE ToTell'
  <2>1. UNCHANGED <<client, input>> /\ done'
    BY <1>6 DEF LastReturn, HandlerReturns, done
  <2>2. UNCHANGED <<op, left>>
    BY <1>2, <1>6, <2>1 DEF ToReturn, Waiting, AtEnd, HandlerMoves, ClientMoves, ExportMoves
  <2> QED
    BY <1>6, <2>1, <2>2 DEF ToReturn, ToTell, Waiting, AtEnd
<1>7. ASSUME ToTell, ClientEnds PROVE Answered'
  <2>1. client' = "idle"
    BY <1>7 DEF ClientEnds, PushHands, PushEnds, WaitReturns
  <2>2. ClientMoves
    BY <1>2, <1>7, <2>1 DEF ToTell, Waiting, AtEnd, HandlerMoves, ExportMoves
  <2> QED
    BY <1>7, <2>2 DEF ToTell, Waiting, Answered, AtEnd, ClientMoves
<1> QED
  BY <1>3, <1>4, <1>5, <1>6, <1>7 DEF ToClose, ToWait, Answered

LEMMA EndReady ==
  ASSUME IInv, StepsNotHeldBack
  PROVE  /\ ToClose \/ ToWait \/ Answered => ENABLED <<ExportStep>>_vars
         /\ ToReceive => ENABLED <<Recv>>_streamVars
         /\ ToHearEOF => ENABLED <<RecvEnds>>_streamVars
         /\ ToReturn => ENABLED <<LastReturn>>_streamVars
         /\ ToTell => ENABLED <<ClientEnds>>_streamVars
BY DEF StepsNotHeldBack, ToClose, ToWait, Waiting, ToReceive, ToHearEOF, ToReturn, ToTell,
   Answered, AtEnd

LEMMA Waits == IInv /\ Waiting => ToReceive \/ ToHearEOF \/ ToReturn \/ ToTell
BY EndStages DEF Waiting, ToClose, ToWait, Answered

FinishEnds == AtEnd ~> Over

LEMMA FinishComesBack == FairSpec /\ []StepsNotHeldBack => FinishEnds
<1>1. FairSpec => []IInv
  BY Inductive, PTL DEF FairSpec
<1>2. IInv /\ AtEnd => ToClose \/ ToWait \/ ToReceive \/ ToHearEOF \/ ToReturn \/ ToTell \/ Answered
  BY EndStages
<1>3. FairSpec /\ []StepsNotHeldBack => (ToReceive ~> (ToHearEOF \/ ToTell \/ Answered))
  BY <1>1, EndStep, EndFairSteps, EndReady, PTL DEF FairSpec, Spec, StreamFairness
<1>4. FairSpec /\ []StepsNotHeldBack => (ToHearEOF ~> (ToReturn \/ ToTell \/ Answered))
  BY <1>1, EndStep, EndFairSteps, EndReady, PTL DEF FairSpec, Spec, StreamFairness
<1>5. FairSpec /\ []StepsNotHeldBack => (ToReturn ~> (ToTell \/ Answered))
  BY <1>1, EndStep, EndFairSteps, EndReady, PTL DEF FairSpec, Spec, StreamFairness
<1>6. FairSpec /\ []StepsNotHeldBack => (ToTell ~> Answered)
  BY <1>1, EndStep, EndFairSteps, EndReady, PTL DEF FairSpec, Spec, StreamFairness
<1>7. FairSpec /\ []StepsNotHeldBack => (Waiting ~> Answered)
  BY <1>1, <1>3, <1>4, <1>5, <1>6, Waits, PTL
<1>8. FairSpec /\ []StepsNotHeldBack => (Answered ~> Over)
  BY <1>1, EndStep, EndFairSteps, EndReady, PTL DEF FairSpec, Spec, StreamFairness
<1>9. FairSpec /\ []StepsNotHeldBack => (ToWait ~> Waiting)
  BY <1>1, EndStep, EndFairSteps, EndReady, PTL DEF FairSpec, Spec, StreamFairness
<1>10. FairSpec /\ []StepsNotHeldBack => (ToClose ~> (ToWait \/ Answered))
  BY <1>1, EndStep, EndFairSteps, EndReady, PTL DEF FairSpec, Spec, StreamFairness
<1>11. ToReceive \/ ToHearEOF \/ ToReturn \/ ToTell => Waiting
  BY DEF ToReceive, ToHearEOF, ToReturn, ToTell
<1> QED
  BY <1>1, <1>2, <1>7, <1>8, <1>9, <1>10, <1>11, PTL DEF FinishEnds

(* An export goes on: a write, or the write of finish, pushes one chunk    *)
(* more or ends, and finish that has none to push ends, whatever the       *)
(* handler does meanwhile: provided the steps of StepsNotHeldBack can be   *)
(* taken.  So every export returns or traps after as many turns as it has  *)
(* chunks (session.write and finish of export.go over streams.go).         *)
THEOREM SessionExportsGoOn ==
  FairSpec /\ []StepsNotHeldBack => (\A n \in Nat \ {0} : TurnEnds(n)) /\ FinishEnds
<1>1. FairSpec /\ []StepsNotHeldBack => FinishEnds
  BY FinishComesBack
<1>2. ASSUME NEW n \in Nat \ {0} PROVE FairSpec /\ []StepsNotHeldBack => TurnEnds(n)
  BY <1>2, OneTurn
<1> QED
  BY <1>1, <1>2
=============================================================================
