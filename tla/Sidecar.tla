------------------------------ MODULE Sidecar ------------------------------
(***************************************************************************)
(* Requests of provider components to the Dapr sidecar: try_request of     *)
(* wasi-http-outbound (sidecar.rs), which sends a request again when no    *)
(* response came, and unary of wasi-grpc-outbound, which does not.         *)
(*                                                                         *)
(* Every caller is an instance of the component, which runs one export at  *)
(* a time.  What the sidecar does with a request that reached it, and what *)
(* an export makes of the answer, is in the modules that extend this one.  *)
(***************************************************************************)
EXTENDS Naturals, FiniteSets

CONSTANTS
  Callers,      \* instances of the provider components
  Http,         \* those of wasi-http-outbound
  Requests,     \* what an export may ask of the sidecar
  Answers,      \* what the sidecar may answer
  MaxAttempts,  \* MAX_ATTEMPTS
  MaxCalls,     \* bound on the exports an instance runs, for model checking
  MaxCut,       \* bound on each instance's requests cut off
  None          \* no request, no answer, nobody

ASSUME SidecarAssumption ==
  /\ MaxAttempts \in Nat \ {0} /\ MaxCalls \in Nat
  /\ Http \subseteq Callers /\ MaxCut \in [Callers -> Nat]
  /\ None \notin Callers /\ None \notin Requests /\ None \notin Answers

VARIABLES
  phase,    \* "idle", "sent", "served", "backoff", or "dead" after a panic
  request,  \* the request of the export on the stack
  attempt,  \* try_request's attempt
  calls,    \* how many exports the instance has begun
  answer,   \* the response on its way back
  cut       \* requests the sidecar has, whose connections are gone

net == <<phase, request, attempt, calls, answer, cut>>

NetInit ==
  /\ phase = [c \in Callers |-> "idle"]
  /\ request = [c \in Callers |-> None]
  /\ attempt = [c \in Callers |-> 0]
  /\ calls = [c \in Callers |-> 0]
  /\ answer = [c \in Callers |-> None]
  /\ cut = [c \in Callers |-> {}]

Attempts(c) == IF c \in Http THEN MaxAttempts ELSE 1

(* The copy of the request that the present attempt puts on the wire.      *)
Copy(c) == [call |-> calls[c], attempt |-> attempt[c], request |-> request[c]]

Copies == [call : 1..MaxCalls, attempt : 1..MaxAttempts, request : Requests]

(* An export calls request(...): the first attempt is sent.                *)
Begin(c, r) ==
  /\ phase[c] = "idle"
  /\ calls[c] < MaxCalls
  /\ phase' = [phase EXCEPT ![c] = "sent"]
  /\ request' = [request EXCEPT ![c] = r]
  /\ attempt' = [attempt EXCEPT ![c] = 1]
  /\ calls' = [calls EXCEPT ![c] = @ + 1]
  /\ UNCHANGED <<answer, cut>>

(* The sidecar gets the request and answers a.                             *)
Serve(c, a) ==
  /\ phase[c] = "sent"
  /\ phase' = [phase EXCEPT ![c] = "served"]
  /\ answer' = [answer EXCEPT ![c] = a]
  /\ UNCHANGED <<request, attempt, calls, cut>>

(* A request whose connection is gone may still be served.                 *)
ServeCut(c, copy) ==
  /\ copy \in cut[c]
  /\ cut' = [cut EXCEPT ![c] = @ \ {copy}]
  /\ UNCHANGED <<phase, request, attempt, calls, answer>>

(* Mutant of SendFails: one attempt too many.                              *)
SendFailsOnceMore(c) ==
  /\ phase[c] \in {"sent", "served"}
  /\ phase' = [phase EXCEPT ![c] = IF attempt[c] <= Attempts(c) THEN "backoff"
                                                               ELSE "dead"]
  /\ answer' = [answer EXCEPT ![c] = None]
  /\ UNCHANGED <<request, attempt, calls, cut>>

(* send fails: the request never arrived, or arrived and is cut off from   *)
(* its connection, or was served and its response is lost.                 *)
SendFails(c) ==
  /\ phase[c] \in {"sent", "served"}
  /\ phase' = [phase EXCEPT ![c] = IF attempt[c] < Attempts(c) THEN "backoff"
                                                              ELSE "dead"]
  /\ answer' = [answer EXCEPT ![c] = None]
  /\ \/ UNCHANGED cut
     \/ /\ phase[c] = "sent" /\ Cardinality(cut[c]) < MaxCut[c]
        /\ cut' = [cut EXCEPT ![c] = @ \cup {Copy(c)}]
  /\ UNCHANGED <<request, attempt, calls>>

(* Mutant of Resend: the attempt is not counted.                           *)
ResendUncounted(c) ==
  /\ phase[c] = "backoff"
  /\ phase' = [phase EXCEPT ![c] = "sent"]
  /\ UNCHANGED <<request, attempt, calls, answer, cut>>

(* The sleep is over.                                                      *)
Resend(c) ==
  /\ phase[c] = "backoff"
  /\ phase' = [phase EXCEPT ![c] = "sent"]
  /\ attempt' = [attempt EXCEPT ![c] = @ + 1]
  /\ UNCHANGED <<request, calls, answer, cut>>

(* Only the head of the response arrives: no further attempt.              *)
BodyFails(c) ==
  /\ phase[c] = "served"
  /\ phase' = [phase EXCEPT ![c] = "dead"]
  /\ answer' = [answer EXCEPT ![c] = None]
  /\ UNCHANGED <<request, attempt, calls, cut>>

(* The response is there: the export returns, or panics.                   *)
Return(c, panics) ==
  /\ phase[c] = "served"
  /\ phase' = [phase EXCEPT ![c] = IF panics THEN "dead" ELSE "idle"]
  /\ answer' = [answer EXCEPT ![c] = None]
  /\ UNCHANGED <<request, attempt, calls, cut>>

NetStep(c) == SendFails(c) \/ Resend(c) \/ BodyFails(c)

NetTypeOK ==
  /\ phase \in [Callers -> {"idle", "sent", "served", "backoff", "dead"}]
  /\ request \in [Callers -> Requests \cup {None}]
  /\ attempt \in [Callers -> 0..MaxAttempts]
  /\ calls \in [Callers -> 0..MaxCalls]
  /\ answer \in [Callers -> Answers \cup {None}]
  /\ cut \in [Callers -> SUBSET Copies]
=============================================================================
