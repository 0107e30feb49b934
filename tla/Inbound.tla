------------------------------ MODULE Inbound ------------------------------
(***************************************************************************)
(* The app channel of the three inbound providers: how a delivery of Dapr  *)
(* becomes a call of one of the app's callbacks, and the app's answer the  *)
(* outcome that Dapr sees.                                                 *)
(*                                                                         *)
(*   "http"  wasi-http-inbound: the delivery is an HTTP request, which the *)
(*           router tells apart by its method and path;                    *)
(*   "grpc"  wasi-grpc-inbound: a call of the AppCallback service;         *)
(*   "go"    appcallback's Conn and Channel, called by the runtime itself. *)
(*                                                                         *)
(* A name is the sequence of its segments, as "/" separates them.  A       *)
(* delivery and the callback that should come of it are the same record.   *)
(***************************************************************************)
EXTENDS Naturals, Sequences

CONSTANTS
  Families,       \* of the three above
  Segments,       \* what stands between the slashes of names and paths
  Encoded,        \* how the sidecar's HTTP client writes each of them
  Subscriptions,  \* a sequence of what the app declares: [bulk, routes], where
                  \* routes are the paths of the rules, {None} without rules
  Bindings,       \* the input bindings that Dapr has
  Declared,       \* those the app declares
  Deliveries,     \* what Dapr delivers beside topic events and binding events
  Attributes,     \* `path` attributes of events; None for an event without
  MaxDeliveries,  \* bound on the deliveries, for model checking
  None

Entries == {1, 2}  \* of a bulk delivery
ActorKinds == {"actor-invoke", "actor-timer", "actor-reminder", "actor-deactivate"}

\* The segment of an empty name, and between two slashes.
Blank == ""

\* What the paths of the app channel are built with; "key" is any key.
Words == {Blank, "healthz", "dapr", "subscribe", "config", "pubsub", "pubsub-bulk", "job",
          "configuration", "key", "actors", "method", "timer", "remind"}

Name == Seq(Segments) \ {<<>>}

\* A path of a rule, with its leading slashes apart.
RulePath == [slashes : Nat, name : {n \in Name : n = <<Blank>> \/ n[1] # Blank}]

Of(kind, verb, names) == [kind |-> kind, verb |-> verb, names |-> names, path |-> None]

\* The deliveries by kind.
IsDelivery(d) ==
  LET n == d.names
      named == \A i \in DOMAIN n : n[i] \in Name
  IN /\ d = Of(d.kind, d.verb, n)
     /\ d.kind # "invoke" => d.verb = None
     /\ \/ d.kind \in {"health", "actor-config"} /\ n = <<>>
        \/ d.kind \in {"job", "configuration", "invoke"} /\ n = <<n[1]>> /\ named
        \/ d.kind = "actor-deactivate" /\ n = <<n[1], n[2]>> /\ named
        \/ /\ d.kind \in {"actor-invoke", "actor-timer", "actor-reminder"}
           /\ n = <<n[1], n[2], n[3]>> /\ named

ASSUME InboundAssumption ==
  /\ Families \subseteq {"http", "grpc", "go"}
  /\ Declared \subseteq Bindings /\ Bindings \subseteq Name
  /\ \A d \in Deliveries : IsDelivery(d)
  /\ \A i \in DOMAIN Subscriptions : Subscriptions[i].routes \subseteq RulePath \cup {None}
  /\ MaxDeliveries \in Nat

\* Escaping loses nothing, and leaves the words alone.
ASSUME EscapingAssumption ==
  /\ Words \subseteq Segments
  /\ \A w \in Words : Encoded[w] = w
  /\ \A s, t \in Segments : Encoded[s] = Encoded[t] => s = t

VARIABLES
  family,    \* the provider
  table,     \* what Dapr knows of the subscriptions: where to post for a path
  consumed,  \* bindings whose events Dapr delivers
  healthy,   \* Dapr's health tracker of the app
  phase,     \* "start", "subscribed", "idle", "sent" or "called"
  delivery,  \* the latest one
  attribute, \* the `path` attribute of its event
  malformed, \* those of its entries that do not parse
  event,     \* the callback that it has become
  answer,    \* the app's answer, for each part that it has answered
  outcome,   \* what Dapr sees of it, for each part
  count      \* of deliveries

input == <<delivery, attribute, malformed>>
vars == <<family, table, consumed, healthy, phase, input, event, answer, outcome, count>>

\* No delivery, no callback.
Unmatched == Of("none", None, <<>>)

Init ==
  /\ family \in Families
  /\ table = <<>>
  /\ consumed = {}
  /\ healthy = TRUE
  /\ phase = "start"
  /\ delivery = Unmatched
  /\ attribute = None
  /\ malformed = {}
  /\ event = Unmatched
  /\ answer = <<>>
  /\ outcome = <<>>
  /\ count = 0

-----------------------------------------------------------------------------
(* The requests of the sidecar.  Its HTTP client escapes a path, and it    *)
(* resolves path traversal in the method of an invocation, as go does.     *)

Escape(name) == [i \in DOMAIN name |-> Encoded[name[i]]]
Decode(name) == [i \in DOMAIN name |-> CHOOSE s \in Segments : Encoded[s] = name[i]]

(* path.Clean of "/" and the name, without that slash.                     *)
IsClean(name) == name = <<Blank>> \/ \A i \in DOMAIN name : name[i] \notin {Blank, ".", ".."}

Clean(name) ==
  LET walk[i \in 0..Len(name)] ==
        IF i = 0 THEN <<>>
        ELSE IF name[i] \in {Blank, "."} THEN walk[i - 1]
        ELSE IF name[i] # ".." THEN Append(walk[i - 1], name[i])
        ELSE SubSeq(walk[i - 1], 1, Len(walk[i - 1]) - 1)
  IN IF IsClean(name) THEN name
     ELSE IF walk[Len(name)] = <<>> THEN <<Blank>>
     ELSE walk[Len(name)]

Request(method, path) == [method |-> method, path |-> Escape(path)]

(* The method that Dapr's actor runtime builds is "actors/" and this.      *)
ActorPath(d) ==
  d.names[1] \o d.names[2] \o
    CASE d.kind = "actor-invoke"     -> <<"method">> \o d.names[3]
      [] d.kind = "actor-timer"      -> <<"method", "timer">> \o d.names[3]
      [] d.kind = "actor-reminder"   -> <<"method", "remind">> \o d.names[3]
      [] d.kind = "actor-deactivate" -> <<>>

ActorVerb(d) == IF d.kind = "actor-deactivate" THEN "DELETE" ELSE "PUT"

(* What Dapr posts to the app channel for a delivery.                      *)
Posted(d) ==
  LET n == d.names
  IN CASE d.kind = "health"           -> Request("GET", <<"healthz">>)
       [] d.kind = "actor-config"     -> Request("GET", <<"dapr", "config">>)
       [] d.kind \in {"topic", "bulk"} -> Request("POST", table[n[1]][d.path])
       [] d.kind = "binding"          -> Request("POST", n[1])
       [] d.kind = "job"              -> Request("POST", <<"job">> \o n[1])
       [] d.kind = "configuration"    -> Request("POST", <<"configuration">> \o n[1] \o <<"key">>)
       [] d.kind \in ActorKinds       -> Request(ActorVerb(d), <<"actors">> \o ActorPath(d))
       [] d.kind = "invoke"           -> Request(d.verb, Clean(n[1]))

-----------------------------------------------------------------------------
(* The router of wasi-http-inbound.  Unmatched: the request is of another  *)
(* kind.                                                                   *)

Probe(r) ==
  IF r.method # "GET" THEN Unmatched
  ELSE IF r.path = <<"healthz">> THEN Of("health", None, <<>>)
  ELSE IF r.path = <<"dapr", "subscribe">> THEN Of("subscribe", None, <<>>)
  ELSE IF r.path = <<"dapr", "config">> THEN Of("actor-config", None, <<>>)
  ELSE Unmatched

(* A path without its leading slashes.                                     *)
Trim(path) ==
  LET first == CHOOSE i \in DOMAIN path :
                 path[i] # Blank /\ \A j \in 1..(i - 1) : path[j] = Blank
  IN IF \A i \in DOMAIN path : path[i] = Blank THEN <<Blank>>
     ELSE SubSeq(path, first, Len(path))

Verify(r) ==
  IF r.method = "OPTIONS" /\ Trim(r.path) \in Declared
  THEN Of("verify", None, <<Trim(r.path)>>) ELSE Unmatched

(* Mutant of Topic: the path of the rule is looked for in the envelope.    *)
TopicOfEnvelope(r) ==
  IF r.method = "POST" /\ r.path[1] \in {"pubsub", "pubsub-bulk"}
  THEN [Of(IF r.path[1] = "pubsub" THEN "topic" ELSE "bulk", None, <<>>)
        EXCEPT !.path = attribute]
  ELSE Unmatched

(* The path of the rule overrides the one in the envelope.                 *)
Topic(r) ==
  IF r.method = "POST" /\ r.path[1] \in {"pubsub", "pubsub-bulk"}
  THEN [Of(IF r.path[1] = "pubsub" THEN "topic" ELSE "bulk", None, <<>>)
        EXCEPT !.path = IF Len(r.path) = 1 THEN attribute
                        ELSE [slashes |-> 1, name |-> Decode(Tail(r.path))]]
  ELSE Unmatched

Job(r) ==
  IF r.method = "POST" /\ r.path[1] = "job" /\ Len(r.path) > 1
  THEN Of("job", None, <<Decode(Tail(r.path))>>) ELSE Unmatched

Configuration(r) ==
  IF r.method = "POST" /\ r.path[1] = "configuration" /\ Len(r.path) > 1 /\ r.path[2] # Blank
  THEN Of("configuration", None, <<Decode(<<r.path[2]>>)>>) ELSE Unmatched

(* A path without its empty segments.                                      *)
NoEmpty(path) ==
  IF \A i \in DOMAIN path : path[i] # Blank THEN path
  ELSE SelectSeq(path, LAMBDA segment : segment # Blank)

(* route_actor.                                                            *)
Actor(r) ==
  LET s == Decode(NoEmpty(Tail(r.path)))
      called(kind, name) == Of(kind, None, <<<<s[1]>>, <<s[2]>>, name>>)
  IN IF r.path[1] # "actors" \/ Len(s) < 2 THEN Unmatched
     ELSE IF r.method = "DELETE" /\ Len(s) = 2
       THEN Of("actor-deactivate", None, <<<<s[1]>>, <<s[2]>>>>)
     ELSE IF Len(s) < 4 \/ s[3] # "method" THEN Unmatched
     ELSE IF s[4] = "timer" /\ Len(s) >= 5 THEN called("actor-timer", <<s[5]>>)
     ELSE IF s[4] = "remind" /\ Len(s) >= 5 THEN called("actor-reminder", <<s[5]>>)
     ELSE called("actor-invoke", SubSeq(s, 4, Len(s)))

Binding(r) ==
  IF r.method = "POST" /\ Trim(r.path) \in Declared
  THEN Of("binding", None, <<Trim(r.path)>>) ELSE Unmatched

Invocation(r) == Of("invoke", r.method, <<Trim(r.path)>>)

First(tries) ==
  tries[CHOOSE i \in DOMAIN tries :
          tries[i] # Unmatched /\ \A j \in 1..(i - 1) : tries[j] = Unmatched]

(* Mutant of Route: the actor routes come after the fallback's.            *)
RouteActorsLast(r) ==
  First(<<Probe(r), Verify(r), Topic(r), Job(r), Configuration(r), Binding(r),
          Invocation(r), Actor(r)>>)

(* The first match wins; what nothing matches is a service invocation.     *)
Route(r) ==
  First(<<Probe(r), Verify(r), Topic(r), Job(r), Configuration(r), Actor(r),
          Binding(r), Invocation(r)>>)

-----------------------------------------------------------------------------
(* The go family: invoke, and invokeActor of what follows "actors/".       *)
Invoked(verb, method) == Of("invoke", verb, <<Clean(method)>>)

InvokeActor(verb, rest) ==
  LET called(kind, name) == Of(kind, None, <<<<rest[1]>>, <<rest[2]>>, name>>)
      method == SubSeq(rest, 4, Len(rest))
      names(word) == method[1] = word /\ Len(method) > 1 /\ Tail(method) # <<Blank>>
  IN IF rest[1] # Blank /\ rest[2] # Blank /\ verb = "DELETE" /\ Len(rest) = 2
       THEN Of("actor-deactivate", None, <<<<rest[1]>>, <<rest[2]>>>>)
     ELSE IF \/ rest[1] = Blank \/ rest[2] = Blank \/ Len(rest) < 4
             \/ rest[3] # "method" \/ method = <<Blank>>
       THEN Invoked(verb, <<"actors">> \o rest)
     ELSE IF names("timer") THEN called("actor-timer", Tail(method))
     ELSE IF names("remind") THEN called("actor-reminder", Tail(method))
     ELSE called("actor-invoke", method)

(* Kinds that the AppCallback service has no method for.                   *)
Unimplemented == ActorKinds \cup {"actor-config", "configuration"}

(* non_empty of a path.                                                    *)
NonEmpty(path) == IF path = [slashes |-> 0, name |-> <<Blank>>] THEN None ELSE path

(* The AppCallback service: on_topic_event and the others.                 *)
CalledByGrpc(d) ==
  IF d.kind \in {"topic", "bulk"}
  THEN [d EXCEPT !.names = <<>>, !.path = NonEmpty(d.path)]
  ELSE d

(* Conn for the AppCallback methods, Channel for the rest.                 *)
CalledByGo(d) ==
  IF d.kind \in ActorKinds THEN InvokeActor(ActorVerb(d), ActorPath(d))
  ELSE IF d.kind = "invoke" THEN Invoked(d.verb, d.names[1])
  ELSE IF d.kind \in {"topic", "bulk"}
  THEN [d EXCEPT !.names = <<>>, !.path = NonEmpty(d.path)]
  ELSE d

(* The callback that a delivery becomes.                                   *)
Called(d) ==
  CASE family = "http" -> Route(Posted(d))
    [] family = "grpc" -> CalledByGrpc(d)
    [] family = "go"   -> CalledByGo(d)

-----------------------------------------------------------------------------
(* The steps.                                                              *)

Base(s) == IF s.bulk = "on" THEN <<"pubsub-bulk">> ELSE <<"pubsub">>

(* subscribe_response: below the base, the paths have one slash.           *)
Table ==
  [i \in DOMAIN Subscriptions |->
     [p \in Subscriptions[i].routes |->
        Base(Subscriptions[i]) \o IF p = None THEN <<>> ELSE p.name]]

(* Dapr asks for the subscriptions.                                        *)
Subscribe ==
  /\ phase = "start"
  /\ table' = Table
  /\ phase' = "subscribed"
  /\ UNCHANGED <<family, consumed, healthy, input, event, answer, outcome, count>>

(* Dapr asks which input bindings the app consumes, over HTTP by OPTIONS,  *)
(* to which the app may say yes in another callback than this one.         *)
Verifies ==
  /\ phase = "subscribed"
  /\ IF family = "http"
     THEN LET verified == {b \in Bindings : Route(Request("OPTIONS", b)).kind = "verify"}
          IN \E others \in SUBSET (Bindings \ verified) : consumed' = verified \cup others
     ELSE consumed' = Declared
  /\ phase' = "idle"
  /\ UNCHANGED <<family, table, healthy, input, event, answer, outcome, count>>

TopicDeliveries ==
  UNION {{[Of(IF Subscriptions[i].bulk = "on" THEN "bulk" ELSE "topic", None, <<i>>)
           EXCEPT !.path = p] : p \in Subscriptions[i].routes} : i \in DOMAIN Subscriptions}

Paths(d) == d.kind \in {"topic", "bulk"}

BindingDeliveries(names) == {Of("binding", None, <<b>>) : b \in names}

(* What of the delivery may fail to parse: only over HTTP, where whatever  *)
(* the router takes for an event or an update is parsed as one.            *)
Parsed(d) ==
  IF family # "http" THEN {}
  ELSE CASE Route(Posted(d)).kind = "bulk"                       -> Entries
         [] Route(Posted(d)).kind \in {"topic", "configuration"} -> {1}
         [] OTHER                                                -> {}

Send ==
  /\ phase = "idle" /\ count < MaxDeliveries
  /\ delivery' \in Deliveries \cup TopicDeliveries \cup BindingDeliveries(consumed)
  /\ malformed' \in SUBSET Parsed(delivery')
  /\ attribute' \in IF Parsed(delivery') = {} THEN {None} ELSE Attributes
  /\ phase' = "sent"
  /\ event' = Unmatched /\ answer' = <<>> /\ outcome' = <<>>
  /\ count' = count + 1
  /\ UNCHANGED <<family, table, consumed, healthy>>

(* The parts of a delivery that Dapr has an outcome of.                    *)
Parts(kind) == IF kind = "bulk" THEN Entries ELSE {1}

(* A delivery that ends without the app: there is no method for it, the    *)
(* app is unhealthy, or the envelope does not parse.                       *)
Turned(reply) ==
  /\ outcome' = [p \in Parts(delivery.kind) |-> reply]
  /\ phase' = "idle"
  /\ UNCHANGED <<family, table, consumed, healthy, input, event, answer, count>>

Unserved ==
  /\ phase = "sent"
  /\ family = "grpc" /\ delivery.kind \in Unimplemented
  /\ Turned("unimplemented")

Unhealthy ==
  /\ phase = "sent"
  /\ family = "go" /\ delivery.kind \in ActorKinds \cup {"invoke", "job"} /\ ~healthy
  /\ Turned("unhealthy")

(* A single event is dropped; a batch, all of it, is answered 404, which   *)
(* drops it too.  An update of the configuration is answered 200.          *)
Unparsed ==
  /\ phase = "sent"
  /\ malformed # {}
  /\ Turned(IF Route(Posted(delivery)).kind = "configuration" THEN "ok" ELSE "drop")

Served ==
  /\ ~ (family = "grpc" /\ delivery.kind \in Unimplemented)
  /\ ~ (family = "go" /\ delivery.kind \in ActorKinds \cup {"invoke", "job"} /\ ~healthy)
  /\ malformed = {}

Deliver ==
  /\ phase = "sent" /\ Served
  /\ event' = Called(delivery)
  /\ phase' = "called"
  /\ UNCHANGED <<family, table, consumed, healthy, input, answer, outcome, count>>

(* What the app may answer, for a batch perhaps not for every entry.       *)
Statuses == {"success", "retry", "drop"}
Answers(kind) ==
  CASE kind = "topic"  -> [{1} -> Statuses]
    [] kind = "bulk"   -> UNION {[es -> Statuses] : es \in SUBSET Entries}
    [] kind = "invoke" -> [{1} -> {"2xx", "other"}]
    [] kind \in {"actor-config", "configuration", "verify", "subscribe"} -> [{1} -> {"ok"}]
    [] OTHER           -> [{1} -> {"ok", "error"}]

(* Mutant of Reply: retry is told as drop.                                 *)
ReplyDropping(kind, a) ==
  [p \in Parts(kind) |-> IF p \in DOMAIN a /\ a[p] # "retry" THEN a[p] ELSE "drop"]

(* Mutant of Reply: what the app leaves out is left out.                   *)
ReplyPartly(kind, a) == a

(* What Dapr reads from the provider's answer: an InvokeResponse of gRPC   *)
(* has no status, and an entry of a batch without one is retried.          *)
Reply(kind, a) ==
  [p \in Parts(kind) |->
     IF p \notin DOMAIN a THEN "retry"
     ELSE IF family = "grpc" /\ kind = "invoke" /\ a[p] # "2xx" THEN "error"
     ELSE a[p]]

Answer ==
  /\ phase = "called"
  /\ \E a \in Answers(event.kind) :
       /\ answer' = a
       /\ outcome' = Reply(event.kind, a)
       /\ healthy' = IF event.kind = "health" THEN a[1] = "ok" ELSE healthy
  /\ phase' = "idle"
  /\ UNCHANGED <<family, table, consumed, input, event, count>>

Next == Subscribe \/ Verifies \/ Send \/ Unserved \/ Unhealthy \/ Unparsed \/ Deliver \/ Answer

Spec == Init /\ [][Next]_vars

-----------------------------------------------------------------------------
AllDeliveries == Deliveries \cup TopicDeliveries \cup BindingDeliveries(Bindings)

Outcomes == Statuses \cup {"ok", "error", "2xx", "other", "unimplemented", "unhealthy"}
OfParts(values) == UNION {[ps -> values] : ps \in SUBSET Entries}

TypeOK ==
  /\ family \in Families
  /\ table = IF phase = "start" THEN <<>> ELSE Table
  /\ consumed \subseteq Bindings
  /\ healthy \in BOOLEAN
  /\ phase \in {"start", "subscribed", "idle", "sent", "called"}
  /\ delivery \in AllDeliveries \cup {Unmatched}
  /\ attribute \in Attributes \cup {None}
  /\ malformed \subseteq Entries
  /\ answer \in OfParts(Outcomes)
  /\ outcome \in OfParts(Outcomes)
  /\ count \in 0..MaxDeliveries

(* Every part of a delivery has its outcome when Dapr sends the next one.  *)
AllAnswered ==
  phase = "idle" /\ delivery # Unmatched =>
    DOMAIN outcome \in {Parts(delivery.kind), Parts(event.kind)}

(* Dapr delivers nothing before it knows what the app takes.               *)
AwaitsFirst == phase \in {"start", "subscribed"} => delivery = Unmatched

(* The callback is the one of the delivery at hand.                        *)
InHand ==
  /\ phase \in {"sent", "called"} => delivery \in AllDeliveries
  /\ phase = "called" => event = Called(delivery)

(* Paths that the table at the head of wasi-http-inbound takes from the    *)
(* service invocations and from the bindings.                              *)
Prefixed(verb, path) ==
  \/ verb = "POST" /\ path[1] \in {"pubsub", "pubsub-bulk"}
  \/ verb = "POST" /\ path[1] \in {"job", "configuration"} /\ Len(path) > 1
  \/ path[1] = "actors" /\ Len(path) > 1

Reserved(verb, path) ==
  \/ verb = "GET" /\ path \in {<<"healthz">>, <<"dapr", "subscribe">>, <<"dapr", "config">>}
  \/ verb \in {"OPTIONS", "POST"} /\ path \in Declared
  \/ Prefixed(verb, path)

(* The runtime joins the names of an actor's call into one path, which has *)
(* more readings when a type or an id has a slash or is empty, or when a   *)
(* method begins like a timer or a reminder.                               *)
Ambiguous(d) ==
  LET n == d.names
  IN \/ Len(n[1]) > 1 \/ n[1] = <<Blank>> \/ Len(n[2]) > 1 \/ n[2] = <<Blank>>
     \/ d.kind # "actor-deactivate" /\ n[3] = <<Blank>>
     \/ /\ d.kind = "actor-invoke" /\ n[3][1] \in {"timer", "remind"}
        /\ Len(n[3]) > 1 /\ Tail(n[3]) # <<Blank>>

(* What does not reach its own callback.  wasi-http-inbound also gives the *)
(* app the name of a timer, a reminder or a configuration store up to its  *)
(* first slash, drops empty segments, and neither decodes the name of a    *)
(* binding or an invocation nor knows a binding that is not declared.      *)
Mistaken(d) ==
  LET n == d.names
  IN CASE family = "grpc" -> FALSE
       [] family = "go" ->
            \/ d.kind \in ActorKinds /\ Ambiguous(d)
            \/ d.kind = "invoke" /\ ~IsClean(n[1])
       [] family = "http" ->
            \/ d.kind \in ActorKinds /\ Ambiguous(d)
            \/ /\ d.kind \in ActorKinds \ {"actor-deactivate"}
               /\ \E i \in DOMAIN n[3] : n[3][i] = Blank
            \/ d.kind \in {"actor-timer", "actor-reminder"} /\ Len(n[3]) > 1
            \/ d.kind = "configuration" /\ (Len(n[1]) > 1 \/ n[1] = <<Blank>>)
            \/ /\ d.kind = "binding"
               /\ \/ n[1] \notin Declared \/ n[1][1] = Blank \/ Escape(n[1]) # n[1]
                  \/ Prefixed("POST", n[1])
            \/ /\ d.kind = "invoke"
               /\ ~IsClean(n[1]) \/ Escape(n[1]) # n[1] \/ Reserved(d.verb, n[1])

(* Every delivery becomes a call of its own callback with its own names,   *)
(* whatever the names are and whichever family carries it, but for those   *)
(* known to be mistaken.  No route takes what another one should have.     *)
ReachesItsCallback ==
  phase = "called" /\ ~Mistaken(delivery) =>
    /\ event.kind = delivery.kind
    /\ event.verb = delivery.verb
    /\ ~Paths(delivery) => event.names = delivery.names

(* Only the rule that has selected an event names its path: a path with    *)
(* one leading slash arrives as the app has declared it, through the       *)
(* discovery, the sidecar's request and back, in all families, whatever    *)
(* the envelope says.                                                      *)
RulePathArrives ==
  /\ phase = "called" /\ Paths(delivery)
  /\ delivery.path # None /\ delivery.path.slashes = 1
  => event.path = delivery.path

(* An event is lost only where the app says so or its envelope, or the one *)
(* of its batch, does not parse; and Dapr sees success only of what the    *)
(* app has said it of, or of an update that does not parse.                *)
LostOnlyIfSaid ==
  \A p \in DOMAIN outcome :
    LET said == p \in DOMAIN answer /\ answer[p] = outcome[p]
    IN /\ outcome[p] \in {"drop", "ok"} => malformed # {} \/ said
       /\ outcome[p] \in {"success", "2xx"} => said

IInv == TypeOK /\ AwaitsFirst /\ AllAnswered /\ InHand /\ LostOnlyIfSaid

=============================================================================
