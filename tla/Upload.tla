------------------------------- MODULE Upload -------------------------------
(***************************************************************************)
(* A streaming encryption or decryption of wasi-http-outbound              *)
(* (streaming.rs, crypto.rs): one PUT whose body the app writes over       *)
(* several exports and whose response is awaited when the body has ended,  *)
(* or as soon as the sidecar answers early.                                *)
(*                                                                         *)
(* The host buffers the body; the sidecar reads it, answers when it likes, *)
(* with whatever status, and may break the connection.                     *)
(***************************************************************************)
EXTENDS Naturals, FiniteSetsExt

CONSTANTS
  MaxBytes,  \* bound on the bytes the app writes, for model checking
  Buffer     \* the host's buffer for the body

ASSUME UploadAssumption == MaxBytes \in Nat /\ Buffer \in Nat \ {0}

VARIABLES
  upload,    \* "none", "rejected", "open"; by finish "consumed", or "gone" if
             \* it was rejected
  op,        \* what the export on the stack is about to do, or "none"
  left,      \* bytes the write still has to hand over
  written,   \* history: bytes the app asked to write
  buffered,  \* bytes in the host's buffer
  read,      \* history: bytes the sidecar has read
  ended,     \* the body is finished
  broken,    \* the body stream fails
  reply,     \* the sidecar's: "none", "2xx", "4xx", "5xx", or "error"
  taken,     \* the response has been taken out of its future
  failed,    \* an early failure is recorded
  outcome    \* of the latest export: "ok", "output", "failure", "panic",
             \* or "consumed", the panic of a response taken twice

host == <<buffered, read, ended, broken, reply>>
vars == <<upload, op, left, written, host, taken, failed, outcome>>

Init ==
  /\ upload = "none"
  /\ op = "none"
  /\ left = 0
  /\ written = 0
  /\ buffered = 0
  /\ read = 0
  /\ ended = FALSE
  /\ broken = FALSE
  /\ reply = "none"
  /\ taken = FALSE
  /\ failed = FALSE
  /\ outcome = "none"

Idle == op = "none" /\ outcome \notin {"panic", "consumed"}

(* The constructor asks the sidecar's metadata for the component first.    *)
Start ==
  /\ Idle /\ upload = "none"
  /\ \/ upload' \in {"rejected", "open"} /\ UNCHANGED outcome
     \/ outcome' = "panic" /\ UNCHANGED upload
  /\ UNCHANGED <<op, left, written, host, taken, failed>>

-----------------------------------------------------------------------------
(* write(data): the failure of before, or the loop.                        *)

Write(n) ==
  /\ Idle /\ upload \in {"rejected", "open"}
  /\ written + n <= MaxBytes
  /\ IF upload = "rejected" \/ failed
     THEN outcome' = "failure" /\ UNCHANGED <<op, left, written>>
     ELSE IF n = 0 THEN outcome' = "ok" /\ UNCHANGED <<op, left, written>>
     ELSE op' = "ready" /\ left' = n /\ written' = written + n /\ UNCHANGED outcome
  /\ UNCHANGED <<upload, host, taken, failed>>

(* Has the sidecar answered?                                               *)
LooksForAnswer ==
  /\ op = "ready"
  /\ op' = IF reply # "none" THEN "answer" ELSE "permit"
  /\ UNCHANGED <<upload, left, written, host, taken, failed, outcome>>

(* check_write: an error, or how much may be written.                      *)
Permitted ==
  /\ op = "permit"
  /\ op' = IF broken THEN "answer" ELSE IF buffered = Buffer THEN "block" ELSE "put"
  /\ UNCHANGED <<upload, left, written, host, taken, failed, outcome>>

Unblocks ==
  /\ op = "block"
  /\ broken \/ buffered < Buffer
  /\ op' = "ready"
  /\ UNCHANGED <<upload, left, written, host, taken, failed, outcome>>

Puts ==
  /\ op = "put"
  /\ IF broken
     THEN op' = "answer" /\ UNCHANGED <<left, buffered, outcome>>
     ELSE \E k \in 1..Min({left, Buffer - buffered}) :
            /\ buffered' = buffered + k
            /\ left' = left - k
            /\ op' = IF left = k THEN "none" ELSE "ready"
            /\ outcome' = IF left = k THEN "ok" ELSE outcome
  /\ UNCHANGED <<upload, written, read, ended, broken, reply, taken, failed>>

(* Mutant of EarlyAnswer: a server error is taken for a refusal.           *)
EarlyAnswerLenient ==
  /\ op = "answer"
  /\ reply # "none"
  /\ taken' = TRUE
  /\ failed' = (reply \in {"4xx", "5xx"} /\ ~taken)
  /\ outcome' = IF taken THEN "consumed"
                ELSE IF reply \in {"4xx", "5xx"} THEN "failure" ELSE "panic"
  /\ op' = "none"
  /\ left' = 0
  /\ UNCHANGED <<upload, written, host>>

(* early_answer, answer_or_panic: wait for the response and classify it.   *)
(* An answer of success before the body has ended is no answer.            *)
EarlyAnswer ==
  /\ op = "answer"
  /\ reply # "none"
  /\ taken' = TRUE
  /\ failed' = (reply = "4xx" /\ ~taken)
  /\ outcome' = IF taken THEN "consumed"
                ELSE IF reply = "4xx" THEN "failure" ELSE "panic"
  /\ op' = "none"
  /\ left' = 0
  /\ UNCHANGED <<upload, written, host>>

-----------------------------------------------------------------------------
(* finish: flush, end the body, await the response.                        *)

Finish ==
  /\ Idle /\ upload \in {"rejected", "open"}
  /\ upload' = IF upload = "rejected" THEN "gone" ELSE "consumed"
  /\ IF upload = "rejected" \/ failed
     THEN outcome' = "failure" /\ UNCHANGED op
     ELSE op' = "flush" /\ UNCHANGED outcome
  /\ UNCHANGED <<left, written, host, taken, failed>>

(* Mutant of Flush: it does not wait.                                      *)
FlushAsks ==
  /\ op = "flush"
  /\ op' = IF broken THEN "answer" ELSE "end"
  /\ UNCHANGED <<upload, left, written, host, taken, failed, outcome>>

Flush ==
  /\ op = "flush"
  /\ broken \/ buffered = 0
  /\ op' = IF broken THEN "answer" ELSE "end"
  /\ UNCHANGED <<upload, left, written, host, taken, failed, outcome>>

(* Mutant of End: the body is left open.                                   *)
EndForgotten ==
  /\ op = "end"
  /\ op' = "await"
  /\ UNCHANGED <<upload, left, written, host, taken, failed, outcome>>

End ==
  /\ op = "end"
  /\ op' = IF broken THEN "answer" ELSE "await"
  /\ ended' = ~broken
  /\ UNCHANGED <<upload, left, written, buffered, read, broken, reply, taken,
                 failed, outcome>>

Await ==
  /\ op = "await"
  /\ reply # "none"
  /\ taken' = TRUE
  /\ outcome' = CASE taken -> "consumed"
                  [] ~taken /\ reply = "2xx" -> "output"
                  [] ~taken /\ reply = "4xx" -> "failure"
                  [] OTHER -> "panic"
  /\ op' = "none"
  /\ UNCHANGED <<upload, left, written, host, failed>>

-----------------------------------------------------------------------------
(* The host and the sidecar.                                               *)

Reads ==
  /\ buffered > 0 /\ ~broken
  /\ buffered' = buffered - 1
  /\ read' = read + 1
  /\ UNCHANGED <<upload, op, left, written, ended, broken, reply, taken,
                 failed, outcome>>

Replies ==
  /\ upload \in {"open", "consumed"} /\ reply = "none"
  /\ reply' \in {"2xx", "4xx", "5xx", "error"}
  /\ UNCHANGED <<upload, op, left, written, buffered, read, ended, broken,
                 taken, failed, outcome>>

Breaks ==
  /\ upload \in {"open", "consumed"} /\ ~broken
  /\ broken' = TRUE
  /\ UNCHANGED <<upload, op, left, written, buffered, read, ended, reply,
                 taken, failed, outcome>>

-----------------------------------------------------------------------------
ExportStep ==
  LooksForAnswer \/ Permitted \/ Unblocks \/ Puts \/ EarlyAnswer \/ Flush \/ End \/ Await

Next ==
  \/ Start \/ (\E n \in 0..MaxBytes : Write(n)) \/ Finish
  \/ ExportStep
  \/ Reads \/ Replies \/ Breaks

Spec == Init /\ [][Next]_vars

(* The sidecar reads the body, or breaks the connection; it answers once   *)
(* the body has ended or the connection is broken (the host then answers   *)
(* with the connection's error).                                           *)
ReadsOrBreaks == buffered > 0 /\ (Reads \/ Breaks)
LateReply == (ended \/ broken) /\ Replies

FairSpec ==
  Spec /\ WF_vars(ExportStep) /\ WF_vars(ReadsOrBreaks) /\ WF_vars(LateReply)

-----------------------------------------------------------------------------
TypeOK ==
  /\ upload \in {"none", "rejected", "open", "consumed", "gone"}
  /\ op \in {"none", "ready", "permit", "block", "put", "answer", "flush",
             "end", "await"}
  /\ left \in 0..MaxBytes /\ written \in 0..MaxBytes /\ read \in 0..MaxBytes
  /\ buffered \in 0..Buffer
  /\ ended \in BOOLEAN /\ broken \in BOOLEAN /\ taken \in BOOLEAN /\ failed \in BOOLEAN
  /\ reply \in {"none", "2xx", "4xx", "5xx", "error"}
  /\ outcome \in {"none", "ok", "output", "failure", "panic", "consumed"}

(* There is an output only when the sidecar has read every byte of every   *)
(* write and the end of the body, and answered with success.               *)
WholeBody ==
  outcome = "output" => read = written /\ ended /\ reply = "2xx"

(* What the app hears is what the sidecar said: a failure is a refusal of  *)
(* its own, and the component traps only on a server error, a transport    *)
(* error, or a success that comes before the end of the body.  It says it  *)
(* again to the next exports: the response is taken out of its future      *)
(* once, whether write, flush or finish found it.                          *)
OutcomeIsTheSidecars ==
  /\ outcome # "consumed"
  /\ outcome = "failure" /\ taken => reply = "4xx"
  /\ outcome = "panic" /\ upload # "none" =>
       reply \in {"5xx", "error"} \/ (reply = "2xx" /\ ~ended)

(* The steps that are fair can be taken as soon as they have something to  *)
(* do: nothing else that the upload or its host is in keeps one back.      *)
Room == broken \/ buffered < Buffer

StepsNotHeldBack ==
  /\ \/ op \in {"ready", "permit", "put", "end"}
     \/ op = "block" /\ Room
     \/ op = "flush" /\ (broken \/ buffered = 0)
     \/ op \in {"answer", "await"} /\ reply # "none"
     => ENABLED <<ExportStep>>_vars
  /\ buffered > 0 /\ ~broken => ENABLED <<ReadsOrBreaks>>_vars
  /\ op # "none" /\ (ended \/ broken) /\ reply = "none" => ENABLED <<LateReply>>_vars

(* No export hangs: not a write on a full buffer whose sidecar answered    *)
(* early and reads no more, nor a finish.                                  *)
ExportsReturn == []StepsNotHeldBack /\ (op # "none" ~> op = "none")
-----------------------------------------------------------------------------
(* What makes WholeBody and OutcomeIsTheSidecars inductive.                *)

(* Which export is on the stack, and what it has found out.                *)
Stages ==
  /\ op # "none" => /\ ~taken /\ ~failed
                    /\ upload \in {"open", "consumed"} /\ outcome \in {"none", "ok"}
  /\ op \in {"ready", "permit", "block", "put"} => upload = "open" /\ left > 0
  /\ op \in {"none", "flush", "end", "await"} => left = 0
  /\ op \in {"flush", "end", "await"} => upload = "consumed"
  /\ op \in {"end", "await"} => buffered = 0
  /\ op = "await" => ended
  /\ op = "answer" => broken \/ reply # "none"
  /\ ended => op \in {"await", "none"} /\ upload = "consumed"

(* The response is taken by the last export, or its failure is recorded.   *)
Answers ==
  /\ upload \in {"none", "rejected", "gone"} =>
       written = 0 /\ reply = "none" /\ ~taken /\ ~failed
  /\ taken => reply # "none" /\ (failed \/ outcome = "panic" \/ upload = "consumed")
  /\ failed => reply = "4xx" /\ taken
  /\ outcome = "failure" =>
       failed \/ upload \in {"rejected", "gone"} \/ (upload = "consumed" /\ taken)
  /\ outcome = "output" => upload = "consumed" /\ buffered = 0

(* Every byte is with the sidecar, in the buffer, or still to hand over.   *)
Balance ==
  /\ ~taken => read + buffered + left = written
  /\ read + buffered <= written

IInv == TypeOK /\ WholeBody /\ OutcomeIsTheSidecars /\ Stages /\ Answers /\ Balance

-----------------------------------------------------------------------------
(* The upload keeps the promise of Transfer: its pieces are bytes, and the *)
(* sidecar's answer is the verdict.                                        *)
Verdict == CASE reply = "none" -> "none"
             [] reply = "2xx" -> "accepted"
             [] OTHER -> "refused"

Told == CASE outcome = "output" -> "output"
          [] outcome # "output" /\ (taken \/ outcome = "panic" \/ upload \in {"rejected", "gone"})
               -> "failure"
          [] OTHER -> "nothing"

Promise == INSTANCE Transfer WITH
  sent    <- written,
  got     <- read,
  input   <- IF ended THEN "closed" ELSE "open",
  verdict <- Verdict,
  told    <- Told

(* An output is of every byte of every write, once the body has ended and  *)
(* the sidecar has accepted it; a failure has a reason of the sidecar's,   *)
(* before which nothing counts as accepted; and neither is taken back.     *)
ImplementsTransfer == Promise!Spec
=============================================================================
