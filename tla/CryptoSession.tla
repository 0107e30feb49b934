--------------------------- MODULE CryptoSession ---------------------------
(***************************************************************************)
(* One streaming encryption or decryption of go-outbound (crypto           *)
(* export.go): an Encryptor or Decryptor resource whose session starts a   *)
(* Bidi stream lazily, writes chunks, finishes or is dropped, and whose    *)
(* output is then read in pieces.  The component model lets nobody use a   *)
(* resource while another call borrows it, nor after it is consumed.       *)
(***************************************************************************)
EXTENDS Bidi

CONSTANTS
  MaxChunks,      \* bound on the chunks written, for model checking
  OutputLen,      \* length of the output, for model checking
  Recoverable     \* errors that Classify returns; it panics on all others

ASSUME SessionAssumption ==
  /\ MaxChunks \in Nat \ {0} /\ OutputLen \in Nat
  /\ Recoverable \subseteq Errors
  /\ Requests = [seq : 0..MaxChunks, options : BOOLEAN]

VARIABLES
  session,   \* the resource's session: "held", "taken" by finish, "nil"
  op,        \* the export on the stack: "none", "write", "finish"
  left,      \* chunks the write still has to push
  seq,       \* session.seq
  sticky,    \* session.err
  written,   \* history: chunks the app asked to write
  outcome,   \* what the latest export returned: "ok", an error, or "trap"
  position   \* CryptoOutput.position, OutputLen + 1 before there is one

sessionVars == <<session, op, left, seq, sticky, written, outcome, position>>
vars == <<streamVars, sessionVars>>

Init ==
  /\ StreamInit
  /\ session = "held"
  /\ op = "none"
  /\ left = 0
  /\ seq = 0
  /\ sticky = "none"
  /\ written = 0
  /\ outcome = "none"
  /\ position = OutputLen + 1

Running == outcome # "trap"

Classify(e) == IF e \in Recoverable THEN e ELSE "trap"

(* Encryptor.Write of n chunks, none when the argument is empty; finish    *)
(* writes one empty chunk if there was none.  A failed session fails again *)
StartWrite(n) ==
  /\ left' = n
  /\ written' = written + n
  /\ IF handler = "off" THEN Start ELSE UNCHANGED streamVars

(* Mutant of Write: the sticky error is not looked at.                     *)
WriteAgain(n) ==
  /\ Running /\ session = "held" /\ op = "none"
  /\ written + n <= MaxChunks
  /\ IF n = 0 THEN outcome' = "ok" /\ UNCHANGED <<op, left, written, streamVars>>
     ELSE op' = "write" /\ StartWrite(n) /\ UNCHANGED outcome
  /\ UNCHANGED <<session, seq, sticky, position>>

Write(n) ==
  /\ Running /\ session = "held" /\ op = "none"
  /\ written + n <= MaxChunks
  /\ IF sticky # "none" /\ n > 0
     THEN /\ outcome' = Classify(sticky)
          /\ UNCHANGED <<op, left, written, streamVars>>
     ELSE IF n = 0 THEN outcome' = "ok" /\ UNCHANGED <<op, left, written, streamVars>>
     ELSE op' = "write" /\ StartWrite(n) /\ UNCHANGED outcome
  /\ UNCHANGED <<session, seq, sticky, position>>

(* EncryptorFinish takes the session out before it drops the handle.       *)
Finish ==
  /\ Running /\ session = "held" /\ op = "none"
  /\ session' = "taken"
  /\ IF sticky # "none"
     THEN /\ outcome' = Classify(sticky)
          /\ UNCHANGED <<op, left, written, streamVars>>
     ELSE /\ op' = "finish"
          /\ UNCHANGED outcome
          /\ IF seq = 0 THEN StartWrite(1) ELSE UNCHANGED <<left, written, streamVars>>
  /\ UNCHANGED <<seq, sticky, position>>

(* The n-th message: the options go with the first only.                   *)
Chunk(n) == [seq |-> n, options |-> n = 0]

(* One turn of write's loop: the push, and what came of it.                *)
PushChunk ==
  /\ Running /\ op # "none" /\ left > 0 /\ result = "none"
  /\ Push(Chunk(seq))
  /\ UNCHANGED sessionVars

(* Mutants of ChunkPushed: seq stays at zero; a failed push is passed over *)
ChunkPushedUncounted ==
  /\ Running /\ op # "none" /\ left > 0 /\ client = "idle" /\ result # "none"
  /\ result' = "none"
  /\ left' = left - 1
  /\ IF op = "write" /\ left = 1 THEN op' = "none" /\ outcome' = "ok"
                               ELSE UNCHANGED <<op, outcome>>
  /\ UNCHANGED <<server, client, req, session, written, position, seq, sticky>>

ChunkPushedAnyway ==
  /\ Running /\ op # "none" /\ left > 0 /\ client = "idle" /\ result # "none"
  /\ result' = "none"
  /\ seq' = seq + 1
  /\ left' = left - 1
  /\ IF op = "write" /\ left = 1 THEN op' = "none" /\ outcome' = "ok"
                               ELSE UNCHANGED <<op, outcome>>
  /\ UNCHANGED <<server, client, req, session, written, position, sticky>>

ChunkPushed ==
  /\ Running /\ op # "none" /\ left > 0 /\ client = "idle" /\ result # "none"
  /\ result' = "none"
  /\ IF result = "ok"
     THEN /\ seq' = seq + 1
          /\ left' = left - 1
          /\ op' = IF op = "write" /\ left = 1 THEN "none" ELSE op
          /\ outcome' = IF op' = "none" THEN "ok" ELSE outcome
          /\ UNCHANGED sticky
     ELSE /\ sticky' = result
          /\ outcome' = Classify(result)
          /\ op' = "none"
          /\ left' = 0
          /\ UNCHANGED seq
  /\ UNCHANGED <<server, client, req, session, written, position>>

FinishCloses ==
  /\ Running /\ op = "finish" /\ left = 0 /\ input = "open"
  /\ CloseSend
  /\ UNCHANGED sessionVars

(* Mutant of FinishWaits: the stream is not half-closed first.             *)
FinishWaitsOpen ==
  /\ Running /\ op = "finish" /\ left = 0 /\ result = "none"
  /\ Wait
  /\ UNCHANGED sessionVars

FinishWaits ==
  /\ Running /\ op = "finish" /\ left = 0 /\ input = "closed" /\ result = "none"
  /\ Wait
  /\ UNCHANGED sessionVars

FinishReturns ==
  /\ Running /\ op = "finish" /\ left = 0 /\ client = "idle" /\ result # "none"
  /\ IF result = "ok"
     THEN outcome' = "ok" /\ position' = 0 /\ UNCHANGED sticky
     ELSE outcome' = Classify(result) /\ sticky' = result /\ UNCHANGED position
  /\ op' = "none"
  /\ UNCHANGED <<streamVars, session, left, seq, written>>

(* Mutant of Drop: the stream is left alone.                               *)
DropSilently ==
  /\ Running /\ op # "write"
  /\ session' = IF session = "held" THEN "nil" ELSE session
  /\ UNCHANGED <<streamVars, op, left, seq, sticky, written, outcome, position>>

(* OnDrop, which may run twice.                                            *)
Drop ==
  /\ Running /\ op # "write"
  /\ IF session = "held"
     THEN /\ session' = "nil"
          /\ IF handler # "off" THEN Cancel ELSE UNCHANGED streamVars
     ELSE UNCHANGED <<session, streamVars>>
  /\ UNCHANGED <<op, left, seq, sticky, written, outcome, position>>

(* CryptoOutput.Read(maxLen): at least one byte, none at the end.          *)
Read(maxLen) ==
  /\ Running
  /\ position < OutputLen
  /\ position' = IF maxLen < OutputLen - position
                 THEN position + (IF maxLen > 1 THEN maxLen ELSE 1)
                 ELSE OutputLen
  /\ UNCHANGED <<streamVars, session, op, left, seq, sticky, written, outcome>>

-----------------------------------------------------------------------------
StreamStep == (ClientEnds \/ HandlerStep) /\ UNCHANGED sessionVars
ExportStep == PushChunk \/ ChunkPushed \/ FinishCloses \/ FinishWaits \/ FinishReturns

Next ==
  \/ \E n \in 0..MaxChunks : Write(n)
  \/ Finish \/ ExportStep \/ StreamStep \/ Drop
  \/ \E maxLen \in 0..OutputLen : Read(maxLen)

Spec == Init /\ [][Next]_vars

(* The export on the stack runs on, and the stream is fair; the app need   *)
(* never write, finish, drop or read.                                      *)
FairSpec == Spec /\ WF_vars(ExportStep) /\ StreamFairness

-----------------------------------------------------------------------------
TypeOK ==
  /\ StreamTypeOK
  /\ session \in {"held", "taken", "nil"}
  /\ op \in {"none", "write", "finish"}
  /\ left \in 0..MaxChunks /\ seq \in 0..MaxChunks /\ written \in 0..MaxChunks
  /\ sticky \in Errors \cup {"none", "handlerDone", "contextCanceled"}
  /\ outcome \in Recoverable \cup {"none", "ok", "trap"}
  /\ position \in 0..OutputLen + 1

(* Output exists only of a whole call: the handler succeeded after io.EOF  *)
(* was offered to it, and had received every chunk of every write, the     *)
(* empty one of an empty input included.                                   *)
WholeInput ==
  position <= OutputLen =>
    /\ err = "nil" /\ input = "closed" /\ sticky = "none"
    /\ Len(received) = written /\ written > 0

(* The handler sees the chunks in the order of their seq, none twice, and  *)
(* the options on the first only, even when writes fail in between.        *)
InputInOrder ==
  \A n \in 1..Len(received) : received[n] = Chunk(n - 1)

(* A session fails of what its handler returned, never of a stream that    *)
(* was cancelled under an export: finish drops the handle it consumes, and *)
(* OnDrop may run twice, but Classify would panic on the context's error.  *)
(* A failed session pushes nothing more, not even to a goroutine that the  *)
(* handler left in Recv.                                                   *)
FailedPushesNothing ==
  /\ sticky # "contextCanceled"
  /\ sticky # "none" => client = "idle" /\ op = "none"

(* Every export returns or traps.                                          *)
ExportsReturn == op # "none" ~> op = "none"

(* A dropped session leaves no goroutine: its handler ends.                *)
DroppedEnds ==
  (session = "nil" /\ handler # "off") ~> (handler = "gone" /\ receiver # "receiving")

(* The steps that are fair can be taken as soon as they have something to  *)
(* do: nothing else that the stream or the session is in keeps one back.   *)
StepsNotHeldBack ==
  /\ handler = "running" /\ receiver = "idle" => ENABLED <<Recv>>_streamVars
  /\ receiver = "receiving" /\ (input = "closed" \/ ctx # "live") =>
       ENABLED <<RecvEnds>>_streamVars
  /\ handler = "running" /\ receiver = "ended" => ENABLED <<LastReturn>>_streamVars
  /\ handler = "returned" => ENABLED <<HandlerCancels>>_streamVars
  /\ client = "pushing" /\ (receiver = "receiving" \/ done) => ENABLED <<ClientEnds>>_streamVars
  /\ client = "waiting" /\ done => ENABLED <<ClientEnds>>_streamVars
  /\ op # "none" /\ client = "idle" => ENABLED <<ExportStep>>_vars

-----------------------------------------------------------------------------
(* What makes these invariants inductive.                                  *)

(* The stream: done is closed with the handler's result, and its context   *)
(* ends with the handler or by the client.                                 *)
StreamState ==
  /\ done <=> err # "none"
  /\ ctx = "over" => handler = "gone"
  /\ handler = "off" => received = <<>>
  /\ receiver = "ended" => input = "closed" \/ ctx # "live"

(* Where the client is in its export: an export that has the session owns  *)
(* the stream, which nobody cancels under it.                              *)
Stages ==
  /\ op = "none" => left = 0 /\ client = "idle"
  /\ op = "write" => session = "held" /\ left > 0
  /\ op = "finish" => session = "taken" /\ written > 0
  /\ op # "none" => sticky = "none" /\ handler # "off" /\ outcome # "trap"
  /\ op = "none" /\ session = "held" => result = "none"
  /\ client = "pushing" => left > 0 /\ result = "none" /\ req = Chunk(seq)
  /\ client = "waiting" => op = "finish" /\ left = 0 /\ input = "closed" /\ result = "none"
  /\ op = "finish" /\ left = 0 /\ result # "none" =>
       input = "closed" /\ result # "handlerDone"
  /\ input = "closed" => session = "taken" /\ left = 0
  /\ ctx = "cancelled" => session = "nil"
  /\ session = "nil" /\ handler # "off" => ctx # "live"
  /\ position <= OutputLen => op = "none" /\ session = "taken"

(* Every chunk is with the handler, about to be counted, or still to push. *)
Counts ==
  /\ Len(received) = seq + (IF left > 0 /\ result = "ok" THEN 1 ELSE 0)
  /\ seq + left <= written
  /\ sticky = "none" => seq + left = written
  /\ left = 0 /\ result = "ok" => done /\ err = "nil"

IInv ==
  /\ TypeOK
  /\ CancelledByClient /\ ResultIsTheHandlers
  /\ WholeInput /\ InputInOrder /\ FailedPushesNothing
  /\ StreamState /\ Stages /\ Counts

StateInv == IInv /\ StepsNotHeldBack

-----------------------------------------------------------------------------
(* The session keeps the promise of Transfer: its pieces are chunks, and   *)
(* what the handler returns is the verdict.                                *)
Verdict == CASE err = "none" -> "none"
             [] err = "nil" -> "accepted"
             [] OTHER -> "refused"

Told == CASE position <= OutputLen -> "output"
          [] ~(position <= OutputLen) /\ sticky # "none" -> "failure"
          [] OTHER -> "nothing"

Promise == INSTANCE Transfer WITH
  sent    <- written,
  got     <- Len(received),
  verdict <- Verdict,
  told    <- Told

(* Output is of every chunk of every write, the empty one of an empty      *)
(* input included, and exists once the stream is half-closed and the       *)
(* handler has succeeded; a session fails for what its handler returned,   *)
(* a success before the half-close included; and neither is taken back.    *)
ImplementsTransfer == Promise!Spec
=============================================================================
