-------------------------------- MODULE Bidi --------------------------------
(***************************************************************************)
(* A bidirectional-streaming handler of the embedded Dapr runtime run in   *)
(* process (go-outbound, internal/streams): Bidi is its gRPC server        *)
(* stream, whose client side is Push, CloseSend, Wait and Cancel.          *)
(*                                                                         *)
(* The handler is Dapr's: it receives, sends and returns as it likes, and  *)
(* may leave a goroutine inside Recv behind when it returns an error.  A   *)
(* select with several ready cases takes any of them.                      *)
(***************************************************************************)
EXTENDS Naturals, Sequences

CONSTANTS
  Requests,      \* request messages
  Errors,        \* errors a handler returns
  MaxRequests,   \* bound on the requests received, for model checking
  MaxResponses,  \* bound on the responses of a handler, for model checking
  Nothing        \* no request, no result

ASSUME BidiAssumption ==
  /\ MaxRequests \in Nat /\ MaxResponses \in Nat
  /\ Errors \cap {"none", "nil", "ok", "handlerDone", "contextCanceled"} = {}
  /\ Nothing \notin Requests

VARIABLES
  handler,    \* "off", "running", "returned" (done is closed), "gone"
  receiver,   \* a goroutine of the handler: "idle", "receiving", "ended"
  ctx,        \* the context: "live", "cancelled" by the client, "over" after the handler
  input,      \* the channel closed: "open" or "closed"
  err,        \* the handler's result, "none" before it returned
  responses,  \* how many responses are buffered
  received,   \* history: the requests handed to the handler, in order
  client,     \* "idle", "pushing" or "waiting"
  req,        \* the request being pushed
  result      \* what the latest Push or Wait returned

server == <<handler, receiver, ctx, input, err, responses, received>>
streamVars == <<server, client, req, result>>

StreamInit ==
  /\ handler = "off"
  /\ receiver = "idle"
  /\ ctx = "live"
  /\ input = "open"
  /\ err = "none"
  /\ responses = 0
  /\ received = <<>>
  /\ client = "idle"
  /\ req = Nothing
  /\ result = "none"

-----------------------------------------------------------------------------
(* The client side.                                                        *)

(* The channel done is closed with the handler's result.                   *)
done == handler \in {"returned", "gone"}

Start ==
  /\ handler = "off"
  /\ handler' = "running"
  /\ UNCHANGED <<receiver, ctx, input, err, responses, received,
                 client, req, result>>

Push(r) ==
  /\ handler # "off"
  /\ client = "idle"
  /\ Len(received) < MaxRequests
  /\ client' = "pushing"
  /\ req' = r
  /\ result' = "none"
  /\ UNCHANGED server

(* b.requests <- req meets a Recv: the channel is unbuffered.              *)
PushHands ==
  /\ client = "pushing"
  /\ receiver = "receiving"
  /\ received' = Append(received, req)
  /\ receiver' = "idle"
  /\ client' = "idle"
  /\ result' = "ok"
  /\ req' = Nothing
  /\ UNCHANGED <<handler, ctx, input, err, responses>>

(* Mutant of Result: the handler's error is not passed on.                 *)
ResultHidden == "handlerDone"

Result == IF err = "nil" THEN "handlerDone" ELSE err

(* Mutant of Push's select: the context's error is reported without        *)
(* another look at done.                                                   *)
PushReportsCancel ==
  /\ client = "pushing"
  /\ done \/ ctx # "live"
  /\ client' = "idle"
  /\ result' = IF ctx # "live" THEN "contextCanceled" ELSE Result
  /\ UNCHANGED <<server, req>>

(* <-b.done, or <-b.ctx.Done() and then another look at b.done.            *)
PushEnds ==
  /\ client = "pushing"
  /\ done \/ ctx # "live"
  /\ client' = "idle"
  /\ result' = IF done THEN Result ELSE "contextCanceled"
  /\ UNCHANGED <<server, req>>

CloseSend ==
  /\ client = "idle"
  /\ input' = "closed"
  /\ UNCHANGED <<handler, receiver, ctx, err, responses, received,
                 client, req, result>>

Wait ==
  /\ handler # "off"
  /\ client = "idle"
  /\ client' = "waiting"
  /\ result' = "none"
  /\ UNCHANGED <<server, req>>

WaitReturns ==
  /\ client = "waiting"
  /\ done
  /\ client' = "idle"
  /\ result' = IF err = "nil" THEN "ok" ELSE err
  /\ UNCHANGED <<server, req>>

(* From any goroutine, at any time.                                        *)
Cancel ==
  /\ ctx' = IF ctx = "live" THEN "cancelled" ELSE ctx
  /\ UNCHANGED <<handler, receiver, input, err, responses, received,
                 client, req, result>>

-----------------------------------------------------------------------------
(* The handler.                                                            *)

Recv ==
  /\ handler # "off"
  /\ receiver = "idle"
  /\ done => err # "nil"
  /\ receiver' = "receiving"
  /\ UNCHANGED <<handler, ctx, input, err, responses, received,
                 client, req, result>>

(* Mutant of RecvEnds: a cancelled context is not seen.                    *)
RecvEndsOnClose ==
  /\ receiver = "receiving"
  /\ input = "closed"
  /\ receiver' = "ended"
  /\ UNCHANGED <<handler, ctx, input, err, responses, received,
                 client, req, result>>

(* Recv gets io.EOF or the context's error: no goroutine receives again.   *)
RecvEnds ==
  /\ receiver = "receiving"
  /\ input = "closed" \/ ctx # "live"
  /\ receiver' = "ended"
  /\ UNCHANGED <<handler, ctx, input, err, responses, received,
                 client, req, result>>

(* The check of the context, then the append under mu.                     *)
Send ==
  /\ handler = "running"
  /\ ctx = "live"
  /\ responses < MaxResponses
  /\ responses' = responses + 1
  /\ UNCHANGED <<handler, receiver, ctx, input, err, received,
                 client, req, result>>

(* b.err = handler(b); close(b.done).  A handler that succeeds has no      *)
(* goroutine left in Recv.                                                 *)
HandlerReturns ==
  /\ handler = "running"
  /\ err' \in Errors \cup {"nil"}
  /\ err' = "nil" => receiver # "receiving"
  /\ handler' = "returned"
  /\ UNCHANGED <<receiver, ctx, input, responses, received, client, req,
                 result>>

(* The deferred cancel().                                                  *)
HandlerCancels ==
  /\ handler = "returned"
  /\ ctx' = IF ctx = "live" THEN "over" ELSE ctx
  /\ handler' = "gone"
  /\ UNCHANGED <<receiver, input, err, responses, received, client,
                 req, result>>

-----------------------------------------------------------------------------
ClientEnds == PushHands \/ PushEnds \/ WaitReturns
HandlerStep == Recv \/ RecvEnds \/ Send \/ HandlerReturns \/ HandlerCancels

(* The Go scheduler runs both sides again and again.  Dapr's handler goes  *)
(* on receiving, and returns once it got io.EOF or a cancelled context.    *)
LastReturn == receiver = "ended" /\ HandlerReturns

StreamFairness ==
  /\ WF_streamVars(ClientEnds)
  /\ WF_streamVars(Recv) /\ WF_streamVars(RecvEnds)
  /\ WF_streamVars(LastReturn) /\ WF_streamVars(HandlerCancels)

-----------------------------------------------------------------------------
StreamTypeOK ==
  /\ handler \in {"off", "running", "returned", "gone"}
  /\ receiver \in {"idle", "receiving", "ended"}
  /\ ctx \in {"live", "cancelled", "over"}
  /\ input \in {"open", "closed"}
  /\ err \in Errors \cup {"none", "nil"}
  /\ responses \in Nat
  /\ received \in Seq(Requests)
  /\ client \in {"idle", "pushing", "waiting"}
  /\ req \in Requests \cup {Nothing}
  /\ result \in Errors \cup {"none", "ok", "handlerDone", "contextCanceled"}

(* streams.go: "done closes before the context is cancelled, so whoever    *)
(* sees the cancellation can also see the handler's result": the client    *)
(* hears of a cancelled context only when a client cancelled it.           *)
CancelledByClient == result = "contextCanceled" => ctx = "cancelled"

(* What else it hears is what the handler returned: its own error, or      *)
(* ErrHandlerDone when it succeeded without the request.                   *)
ResultIsTheHandlers ==
  /\ result \in Errors => done /\ result = err
  /\ result = "handlerDone" => done /\ err = "nil"

(* Both together: whatever the client hears is true.                       *)
ResultIsTrue == CancelledByClient /\ ResultIsTheHandlers
=============================================================================
