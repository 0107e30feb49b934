------------------------------- MODULE Socket -------------------------------
(***************************************************************************)
(* A TCP connection of wasisock (wasisock.go): a net.Conn over             *)
(* wasi:sockets that several goroutines read, write and close.             *)
(*                                                                         *)
(* Goroutines run on one thread and switch only where they sleep, so an    *)
(* action is all that a goroutine does from one sleep to the next: a turn  *)
(* of a waiting loop that changes nothing is a stuttering step.  Close     *)
(* drops the stream and socket handles; the use of a dropped one panics.   *)
(***************************************************************************)
EXTENDS Naturals, FiniteSetsExt

CONSTANTS
  Goroutines,
  Ops,       \* what they call: of "read", "write", "close", "close-write"
  Sizes,     \* the lengths of the writes, in pieces
  Capacity,  \* pieces the host buffers
  MaxCalls   \* bound on the calls, for model checking

ASSUME SocketAssumption ==
  /\ Ops \subseteq {"read", "write", "close", "close-write"}
  /\ Sizes \subseteq Nat /\ Capacity \in Nat \ {0} /\ MaxCalls \in Nat

VARIABLES
  pc,        \* "idle", the call begun, "draining" or "draining-write"
  left,      \* pieces the write still has to write
  result,    \* of the latest call
  calls,     \* calls so far
  closed,    \* c.closed; the handles are dropped
  eof,       \* c.readEOF
  panicked,  \* the call that has used a dropped handle, "none" if none has
  buffered,  \* pieces in the host's output buffer
  flushing,  \* a flush is under way: check-write reports 0
  sent,      \* history: pieces the host has sent
  broken,    \* the output stream fails
  input,     \* what the input stream has: "nothing", "data" or "end"
  promised,  \* history: pieces up to the end of the last write that returned
  how,       \* history: how the handles were dropped: "open", "drained",
             \* "late", after the deadline of drain, or "broken"
  shut       \* history: likewise, how the output was shut down

host == <<buffered, flushing, sent, broken, input>>
conn == <<closed, eof, panicked>>
history == <<promised, how, shut>>
vars == <<pc, left, result, calls, conn, host, history>>

Init ==
  /\ pc = [g \in Goroutines |-> "idle"]
  /\ left = [g \in Goroutines |-> 0]
  /\ result = [g \in Goroutines |-> "none"]
  /\ calls = 0
  /\ closed = FALSE
  /\ eof = FALSE
  /\ panicked = "none"
  /\ buffered = 0
  /\ flushing = FALSE
  /\ sent = 0
  /\ broken = FALSE
  /\ input = "nothing"
  /\ promised = 0
  /\ how = "open"
  /\ shut = "open"

CanWrite == ~flushing /\ buffered < Capacity

Returns(g, r) ==
  /\ pc' = [pc EXCEPT ![g] = "idle"]
  /\ result' = [result EXCEPT ![g] = r]

Call(g, op, n) ==
  /\ pc[g] = "idle" /\ panicked = "none"
  /\ calls < MaxCalls
  /\ calls' = calls + 1
  /\ pc' = [pc EXCEPT ![g] = op]
  /\ left' = [left EXCEPT ![g] = IF op = "write" THEN n ELSE 0]
  /\ result' = [result EXCEPT ![g] = "none"]
  /\ UNCHANGED <<conn, host, history>>

-----------------------------------------------------------------------------
(* Mutant of Read: closed is looked at on entry only.                      *)
ReadAnyway(g) ==
  /\ pc[g] = "read" /\ panicked = "none"
  /\ input # "nothing" \/ eof
  /\ Returns(g, IF eof \/ input = "end" THEN "eof" ELSE "ok")
  /\ eof' = (eof \/ input = "end")
  /\ input' = IF input = "data" THEN "nothing" ELSE input
  /\ UNCHANGED <<left, calls, closed, panicked, buffered, flushing, sent, broken, history>>

(* Read: the checks before the call of the input stream, then the call.    *)
Read(g) ==
  /\ pc[g] = "read" /\ panicked = "none"
  /\ \/ closed /\ Returns(g, "closed") /\ UNCHANGED <<eof, input>>
     \/ ~closed /\ Returns(g, "deadline") /\ UNCHANGED <<eof, input>>
     \/ /\ ~closed
        /\ input # "nothing" \/ eof
        /\ Returns(g, IF eof \/ input = "end" THEN "eof" ELSE "ok")
        /\ eof' = (eof \/ input = "end")
        /\ input' = IF input = "data" THEN "nothing" ELSE input
     \/ ~closed /\ broken /\ Returns(g, "reset") /\ UNCHANGED <<eof, input>>
  /\ UNCHANGED <<left, calls, closed, panicked, buffered, flushing, sent, broken, history>>

(* c.out.Flush().                                                          *)
Flush(pieces) ==
  /\ flushing' = (flushing \/ pieces > 0)
  /\ UNCHANGED panicked

(* Mutant of Write: closed is not looked at.                               *)
WriteAnyway(g) ==
  /\ pc[g] = "write" /\ panicked = "none"
  /\ CanWrite
  /\ LET k == Min({left[g], Capacity - buffered})
     IN /\ buffered' = buffered + k
        /\ left' = [left EXCEPT ![g] = @ - k]
        /\ IF left[g] = k
           THEN Returns(g, "ok") /\ flushing' = TRUE /\ promised' = sent + buffered'
           ELSE UNCHANGED <<pc, result, flushing, promised>>
        /\ panicked' = IF closed THEN "write" ELSE "none"
  /\ UNCHANGED <<calls, closed, eof, sent, broken, input, how, shut>>

(* Mutant of Write: it does not ask check-write.                           *)
WritesAll(g) ==
  /\ pc[g] = "write" /\ panicked = "none"
  /\ \/ closed /\ Returns(g, "closed") /\ UNCHANGED <<left, buffered, flushing, panicked, promised>>
     \/ /\ ~closed /\ ~broken
        /\ buffered' = buffered + left[g]
        /\ left' = [left EXCEPT ![g] = 0]
        /\ Returns(g, "ok") /\ Flush(buffered') /\ promised' = sent + buffered'
  /\ UNCHANGED <<calls, closed, eof, sent, broken, input, how, shut>>

(* Write: as many pieces as check-write permits.  With the last one it     *)
(* starts a flush and returns.                                             *)
Write(g) ==
  /\ pc[g] = "write" /\ panicked = "none"
  /\ \/ /\ left[g] > 0 /\ closed
        /\ Returns(g, "closed")
        /\ UNCHANGED <<left, buffered, flushing, panicked, promised>>
     \/ /\ left[g] > 0 /\ ~closed
        /\ \/ Returns(g, "deadline")
           \/ broken /\ Returns(g, "broken")
        /\ UNCHANGED <<left, buffered, flushing, panicked, promised>>
     \/ /\ left[g] > 0 /\ ~closed /\ ~broken /\ CanWrite
        /\ LET k == Min({left[g], Capacity - buffered})
           IN /\ buffered' = buffered + k
              /\ left' = [left EXCEPT ![g] = @ - k]
              /\ IF left[g] = k
                 THEN Returns(g, "ok") /\ Flush(buffered') /\ promised' = sent + buffered'
                 ELSE UNCHANGED <<pc, result, flushing, panicked, promised>>
     \/ /\ left[g] = 0
        /\ Returns(g, "ok")
        /\ IF closed THEN panicked' = "empty write" /\ UNCHANGED flushing
                     ELSE Flush(buffered)
        /\ UNCHANGED <<left, buffered, promised>>
  /\ UNCHANGED <<calls, closed, eof, sent, broken, input, how, shut>>

-----------------------------------------------------------------------------
(* What is left of Close when drain has ended, for the reason why.         *)
DropAll(g, why) ==
  /\ Returns(g, "ok")
  /\ closed' = TRUE
  /\ how' = IF closed THEN how ELSE why
  /\ UNCHANGED <<flushing, panicked>>

(* Mutant of Close: nothing is drained.                                    *)
CloseAtOnce(g) ==
  /\ pc[g] = "close" /\ panicked = "none"
  /\ DropAll(g, "drained")
  /\ UNCHANGED <<left, calls, eof, buffered, sent, broken, input, promised, shut>>

(* Close: nothing when closed, or a flush and the first turn of drain.     *)
Close(g) ==
  /\ pc[g] = "close" /\ panicked = "none"
  /\ IF closed
     THEN Returns(g, "ok") /\ UNCHANGED <<closed, how, flushing, panicked>>
     ELSE IF broken THEN DropAll(g, "broken")
     ELSE IF buffered = 0 THEN DropAll(g, "drained")
     ELSE /\ pc' = [pc EXCEPT ![g] = "draining"]
          /\ Flush(buffered)
          /\ UNCHANGED <<result, closed, how>>
  /\ UNCHANGED <<left, calls, eof, buffered, sent, broken, input, promised, shut>>

(* The loop of drain ends: closed by another Close, broken, flushed, or at *)
(* its deadline.                                                           *)
Drained(g) ==
  /\ pc[g] = "draining" /\ panicked = "none"
  /\ \/ closed /\ DropAll(g, how)
     \/ ~closed /\ broken /\ DropAll(g, "broken")
     \/ ~closed /\ ~broken /\ CanWrite /\ DropAll(g, "drained")
     \/ ~closed /\ DropAll(g, "late")
  /\ UNCHANGED <<left, calls, eof, buffered, sent, broken, input, promised, shut>>

(* c.sock.Shutdown(send): the output stream takes nothing more.            *)
Shutdown(g, why) ==
  /\ panicked' = IF closed THEN "close-write" ELSE "none"
  /\ broken' = (broken \/ ~closed)
  /\ shut' = IF closed \/ shut # "open" THEN shut ELSE why
  /\ Returns(g, IF closed THEN "none" ELSE "ok")
  /\ UNCHANGED flushing

(* CloseWrite: a flush and the first turn of drain.                        *)
CloseWrite(g) ==
  /\ pc[g] = "close-write" /\ panicked = "none"
  /\ IF closed \/ broken THEN Shutdown(g, "broken")
     ELSE IF buffered = 0 THEN Shutdown(g, "drained")
     ELSE /\ pc' = [pc EXCEPT ![g] = "draining-write"]
          /\ Flush(buffered)
          /\ UNCHANGED <<result, broken, shut>>
  /\ UNCHANGED <<left, calls, closed, eof, buffered, sent, input, promised, how>>

(* The loop of drain ends, as in Drained; the shutdown follows.            *)
WriteDrained(g) ==
  /\ pc[g] = "draining-write" /\ panicked = "none"
  /\ \/ (closed \/ broken) /\ Shutdown(g, "broken")
     \/ ~closed /\ ~broken /\ CanWrite /\ Shutdown(g, "drained")
     \/ ~closed /\ Shutdown(g, "late")
  /\ UNCHANGED <<left, calls, closed, eof, buffered, sent, input, promised, how>>

-----------------------------------------------------------------------------
(* The host.                                                               *)

Sends ==
  /\ buffered > 0 /\ ~closed /\ ~broken
  /\ buffered' = buffered - 1
  /\ sent' = sent + 1
  /\ flushing' = (flushing /\ buffered > 1)
  /\ UNCHANGED <<pc, left, result, calls, conn, broken, input, history>>

Arrives ==
  /\ input = "nothing"
  /\ input' \in {"data", "end"}
  /\ UNCHANGED <<pc, left, result, calls, conn, buffered, flushing, sent, broken, history>>

Breaks ==
  /\ ~broken
  /\ broken' = TRUE
  /\ UNCHANGED <<pc, left, result, calls, conn, buffered, flushing, sent, input, history>>

-----------------------------------------------------------------------------
Closes(g) == Close(g) \/ Drained(g) \/ CloseWrite(g) \/ WriteDrained(g)

Next ==
  \/ \E g \in Goroutines :
       \/ \E op \in Ops, n \in Sizes : Call(g, op, n)
       \/ Read(g) \/ Write(g) \/ Closes(g)
  \/ Sends \/ Arrives \/ Breaks

Spec == Init /\ [][Next]_vars

(* The Go scheduler wakes every sleeper; the deadline of drain comes.      *)
Fairness(g) == WF_vars(Read(g)) /\ WF_vars(Write(g)) /\ WF_vars(Closes(g))

FairSpec == Spec /\ \A g \in Goroutines : Fairness(g)

-----------------------------------------------------------------------------
TypeOK ==
  /\ pc \in [Goroutines -> {"idle", "read", "write", "close", "close-write",
                            "draining", "draining-write"}]
  /\ left \in [Goroutines -> {0} \cup UNION {0..n : n \in Sizes}]
  /\ result \in [Goroutines -> {"none", "ok", "eof", "closed", "deadline",
                                "reset", "broken"}]
  /\ calls \in 0..MaxCalls
  /\ closed \in BOOLEAN /\ eof \in BOOLEAN
  /\ panicked \in {"none", "write", "empty write", "close-write"}
  /\ buffered \in 0..Capacity /\ flushing \in BOOLEAN
  /\ sent \in Nat /\ promised \in Nat /\ broken \in BOOLEAN
  /\ input \in {"nothing", "data", "end"}
  /\ how \in {"open", "drained", "late", "broken"}
  /\ shut \in {"open", "drained", "late", "broken"}

(* wasisock.go, before the stream calls: "Close may have dropped the       *)
(* handles while this goroutine slept".  No read, close or write of at     *)
(* least one piece uses them then.                                         *)
NeverUsesDropped == panicked \in {"none", "empty write", "close-write"}

(* Nor does any other call.                                                *)
NoPanic == panicked = "none"

(* "closing does not lose the tail of a write": what a write that returned *)
(* has written is sent before Close drops the handles, or CloseWrite shuts *)
(* the output down, other writes and other closes under way or not, unless *)
(* the stream breaks or the second that drain waits is over.               *)
TailIsSent == "drained" \in {how, shut} => sent >= promised

(* Nobody waits on a connection that another goroutine has closed, and no  *)
(* Close waits for ever, unless a panic ends everything.                   *)
EndOfCalls(g) ==
  /\ (closed /\ pc[g] # "idle") ~> (pc[g] = "idle" \/ ~NoPanic)
  /\ pc[g] = "close" ~> (pc[g] = "idle" \/ ~NoPanic)

ClosedEnds == \A g \in Goroutines : EndOfCalls(g)

-----------------------------------------------------------------------------
(* What makes TailIsSent inductive: a flush that a returning write starts  *)
(* ends only when all that was buffered is sent, and no other write adds   *)
(* to the buffer meanwhile.                                                *)
Counts ==
  /\ left \in [Goroutines -> Nat]
  /\ buffered \in Nat /\ sent \in Nat /\ promised \in Nat

Flushed ==
  /\ promised <= sent + buffered
  /\ ~flushing => promised <= sent
  /\ how = "drained" => closed /\ promised <= sent
  /\ shut = "drained" => broken /\ promised <= sent

Tail == Counts /\ Flushed

IInv == TypeOK /\ NeverUsesDropped /\ Tail

(* No step that ends a call on a closed connection, and none of Close, is  *)
(* held back by what the host or the other goroutines do.                  *)
Closing == {"close", "draining", "close-write", "draining-write"}

EndNotHeldBack ==
  \A g \in Goroutines : NoPanic =>
    /\ pc[g] = "read" /\ closed => ENABLED <<Read(g)>>_vars
    /\ pc[g] = "write" /\ closed => ENABLED <<Write(g)>>_vars
    /\ pc[g] \in Closing => ENABLED <<Closes(g)>>_vars

StateInv == IInv /\ EndNotHeldBack
=============================================================================
