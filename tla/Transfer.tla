------------------------------ MODULE Transfer ------------------------------
(***************************************************************************)
(* What a streaming operation promises the app that writes its input over  *)
(* several calls: all of the input gets to the other side before the input *)
(* ends, the operation succeeds if the other side accepts the whole of it, *)
(* and fails only for a reason of the other side's; and what the app was   *)
(* told once, stays.                                                       *)
(*                                                                         *)
(* The other side is the handler of an embedded runtime (CryptoSession) or *)
(* a sidecar (Upload).  It may take up what is under way after a failure,  *)
(* and may give its verdict at any time.                                   *)
(***************************************************************************)
EXTENDS Naturals

VARIABLES
  sent,     \* pieces of input the app has written
  got,      \* pieces the other side has
  input,    \* "open" or "closed"
  verdict,  \* of the other side: "none", "accepted" or "refused"
  told      \* what the app was told: "nothing", "output" or "failure"

vars == <<sent, got, input, verdict, told>>

Init ==
  /\ sent = 0
  /\ got = 0
  /\ input = "open"
  /\ verdict = "none"
  /\ told = "nothing"

(* Nobody is asked: the component the app names does not exist.            *)
Reject ==
  /\ told = "nothing" /\ sent = 0 /\ verdict = "none"
  /\ told' = "failure"
  /\ UNCHANGED <<sent, got, input, verdict>>

Write ==
  /\ told = "nothing" /\ input = "open"
  /\ sent' \in Nat /\ sent' > sent
  /\ UNCHANGED <<got, input, verdict, told>>

Take ==
  /\ got < sent
  /\ got' = got + 1
  /\ UNCHANGED <<sent, input, verdict, told>>

Close ==
  /\ told = "nothing" /\ input = "open" /\ got = sent
  /\ input' = "closed"
  /\ UNCHANGED <<sent, got, verdict, told>>

Judge(v) ==
  /\ verdict = "none"
  /\ verdict' = v
  /\ UNCHANGED <<sent, got, input, told>>

Succeed ==
  /\ told = "nothing" /\ input = "closed" /\ verdict = "accepted"
  /\ told' = "output"
  /\ UNCHANGED <<sent, got, input, verdict>>

(* Acceptance of an input that has not ended is no acceptance.             *)
Fail ==
  /\ told = "nothing"
  /\ verdict = "refused" \/ (verdict = "accepted" /\ input = "open")
  /\ told' = "failure"
  /\ UNCHANGED <<sent, got, input, verdict>>

Next ==
  \/ Reject \/ Write \/ Take \/ Close
  \/ (\E v \in {"accepted", "refused"} : Judge(v))
  \/ Succeed \/ Fail

Spec == Init /\ [][Next]_vars

(* Success is of the whole input, which the other side accepted.           *)
Whole == told = "output" => got = sent /\ input = "closed" /\ verdict = "accepted"

(* Nothing is written, and nothing else told, after the app was told.      *)
Final == [][told # "nothing" => told' = told /\ sent' = sent]_vars
=============================================================================
