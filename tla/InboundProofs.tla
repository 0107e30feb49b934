--------------------------- MODULE InboundProofs ---------------------------
(***************************************************************************)
(* Proofs about Inbound, for any names, paths, subscriptions, bindings and *)
(* escaping: what is not known to be mistaken reaches its own callback.    *)
(***************************************************************************)
EXTENDS Inbound, SequenceTheorems, TLAPS

-----------------------------------------------------------------------------
(* Sequences.                                                              *)

LEMMA Single ==
  ASSUME NEW S, NEW n \in Seq(S)
  PROVE  /\ Len(n) = 1 => n = <<n[1]>> /\ n[1] \in S
         /\ n # <<>> => 1 \in DOMAIN n /\ n[1] \in S /\ Len(n) > 0
         /\ DOMAIN n = 1..Len(n) /\ Len(n) \in Nat
         /\ ~(Len(n) > 1) /\ n # <<>> => Len(n) = 1 /\ n = <<n[1]>>
         /\ Len(n) = 1 => ~(Len(n) > 1)
         /\ Len(n) = 3 => Len(n) > 1 /\ Tail(n)[1] = n[2]
         /\ SubSeq(n, 1, Len(n)) = n
<1>1. Len(n) = 1 => n = <<n[1]>> /\ n[1] \in S
  <2>1. ASSUME Len(n) = 1
        PROVE  n = <<n[1]>> /\ n[1] \in S
    <3>1. n[1] \in S
      BY <2>1
    <3>2. <<n[1]>> \in Seq(S) /\ Len(<<n[1]>>) = 1 /\ <<n[1]>>[1] = n[1]
      BY <3>1
    <3>3. \A i \in 1..Len(n) : n[i] = <<n[1]>>[i]
      BY <2>1, <3>2
    <3> QED
      BY <2>1, <3>1, <3>2, <3>3, SeqEqual
  <2> QED
    BY <2>1
<1>2. n # <<>> => 1 \in DOMAIN n /\ n[1] \in S /\ Len(n) > 0
  BY EmptySeq
<1>3. DOMAIN n = 1..Len(n) /\ Len(n) \in Nat
  OBVIOUS
<1>4. Len(n) = 3 => Tail(n)[1] = n[2]
  <2>1. ASSUME Len(n) = 3
        PROVE  Tail(n)[1] = n[2]
    <3>1. n # <<>> /\ Len(Tail(n)) = Len(n) - 1 /\ Tail(n) \in Seq(S)
      BY <2>1, HeadTailProperties, SMTT(30)
    <3>2. 1 \in 1..Len(Tail(n)) /\ 1 + 1 = 2
      BY <2>1, <3>1
    <3> QED
      BY <3>1, <3>2, HeadTailProperties
  <2> QED
    BY <2>1
<1>5. SubSeq(n, 1, Len(n)) = n
  OBVIOUS
<1>6. Len(n) > 0 /\ ~(Len(n) > 1) => Len(n) = 1
  BY <1>3
<1>7. Len(n) = 1 => ~(Len(n) > 1)
  OBVIOUS
<1>8. Len(n) = 3 => Len(n) > 1
  OBVIOUS
<1> QED
  BY <1>1, <1>2, <1>3, <1>4, <1>5, <1>6, <1>7, <1>8

LEMMA Longer ==
  ASSUME NEW S, NEW m \in Seq(S), NEW T, NEW n \in Seq(T), Len(m) = Len(n) + 1
  PROVE  /\ n # <<>> => Len(m) > 1 /\ Len(m) # 1
         /\ Len(n) = 2 => Len(m) = 3
<1>1. n # <<>> => Len(n) > 0
  BY EmptySeq
<1>2. Len(n) \in Nat /\ Len(m) \in Nat
  OBVIOUS
<1>3. Len(n) > 0 => Len(m) > 1 /\ Len(m) # 1
  BY <1>2
<1>4. Len(n) = 2 => Len(m) = 3
  BY <1>2
<1> QED
  BY <1>1, <1>3, <1>4

LEMMA Few ==
  ASSUME NEW S, NEW w \in S, NEW x \in S, NEW y \in S
  PROVE  /\ <<w>> \o <<x>> \o <<y>> = <<w>> \o <<x, y>>
         /\ <<x>> \o <<y>> = <<x, y>>
         /\ <<x>> \in Seq(S) /\ <<x, y>> \in Seq(S)
         /\ Len(<<x>>) = 1 /\ Len(<<x, y>>) = 2
         /\ <<x>>[1] = x /\ <<x, y>>[1] = x
         /\ DOMAIN <<x>> = {1} /\ <<x>> # <<>>
<1>1. <<x>> \in Seq(S) /\ <<x, y>> \in Seq(S) /\ <<y>> \in Seq(S) /\ <<w>> \in Seq(S)
  OBVIOUS
<1>2. <<x>> \o <<y>> = <<x, y>>
  <2>1. /\ <<x>> \o <<y>> \in Seq(S) /\ Len(<<x>> \o <<y>>) = 2
        /\ (<<x>> \o <<y>>)[1] = x /\ (<<x>> \o <<y>>)[2] = y
    OBVIOUS
  <2>2. Len(<<x, y>>) = 2 /\ <<x, y>>[1] = x /\ <<x, y>>[2] = y
    OBVIOUS
  <2>3. \A i \in 1..2 : i = 1 \/ i = 2
    OBVIOUS
  <2>4. \A i \in 1..2 : (<<x>> \o <<y>>)[i] = <<x, y>>[i]
    BY <2>1, <2>2, <2>3
  <2> QED
    BY <1>1, <2>1, <2>2, <2>4, SeqEqual
<1>3. (<<w>> \o <<x>>) \o <<y>> = <<w>> \o (<<x>> \o <<y>>)
  BY <1>1, ConcatAssociative
<1>4. DOMAIN <<x>> = {1} /\ <<x>> # <<>>
  OBVIOUS
<1>5. Len(<<x>>) = 1 /\ Len(<<x, y>>) = 2 /\ <<x>>[1] = x /\ <<x, y>>[1] = x
  OBVIOUS
<1> QED
  BY <1>1, <1>2, <1>3, <1>4, <1>5

LEMMA Pair ==
  \A x, y \in Segments : <<x>> \o <<y>> = <<x, y>>
BY Few

LEMMA Lengths ==
  \A k \in Nat : /\ k = 2 => ~(k < 2)
                /\ k > 3 => ~(k < 2) /\ ~(k < 4)
                /\ k > 4 <=> k >= 5
OBVIOUS

LEMMA Blanks ==
  /\ Blank \in Words
  /\ \A w \in {"healthz", "dapr", "pubsub", "pubsub-bulk", "job", "configuration", "key",
               "actors", "method", "timer", "remind"} : w # Blank
BY Zenon DEF Blank, Words

-----------------------------------------------------------------------------
(* Escaping.                                                               *)

Codes == {Encoded[s] : s \in Segments}

LEMMA Spelled ==
  ASSUME NEW s \in Segments, NEW w \in Words
  PROVE  Encoded[s] = w <=> s = w
BY EscapingAssumption

LEMMA Coding ==
  ASSUME NEW n \in Seq(Segments)
  PROVE  /\ Escape(n) \in Seq(Codes)
         /\ Len(Escape(n)) = Len(n)
         /\ \A i \in 1..Len(n) : Escape(n)[i] = Encoded[n[i]]
         /\ Decode(Escape(n)) = n
<1>1. /\ Escape(n) = [i \in 1..Len(n) |-> Encoded[n[i]]]
      /\ \A i \in 1..Len(n) : n[i] \in Segments
  BY DEF Escape
<1>2. Escape(n) \in Seq(Codes) /\ Len(Escape(n)) = Len(n)
  BY <1>1 DEF Codes
<1>3. \A i \in 1..Len(n) : (CHOOSE s \in Segments : Encoded[s] = Escape(n)[i]) = n[i]
  BY <1>1, EscapingAssumption
<1>4. Decode(Escape(n)) = [i \in 1..Len(n) |-> n[i]]
  BY <1>2, <1>3 DEF Decode
<1> QED
  BY <1>1, <1>2, <1>4

LEMMA Joined ==
  ASSUME NEW w \in Words, NEW n \in Seq(Segments)
  PROVE  /\ <<w>> \o n \in Seq(Segments)
         /\ Escape(<<w>> \o n) \in Seq(Codes)
         /\ Len(Escape(<<w>> \o n)) = Len(n) + 1
         /\ Escape(<<w>> \o n)[1] = w
         /\ Tail(Escape(<<w>> \o n)) = Escape(n)
<1> DEFINE m == <<w>> \o n
<1>1. m \in Seq(Segments) /\ Len(m) = Len(n) + 1 /\ m[1] = w
      /\ \A i \in 1..Len(n) : m[i + 1] = n[i]
  BY EscapingAssumption
<1>2. Escape(m) \in Seq(Codes) /\ Len(Escape(m)) = Len(n) + 1
      /\ \A i \in 1..Len(m) : Escape(m)[i] = Encoded[m[i]]
  BY <1>1, Coding
<1>3. Escape(n) \in Seq(Codes) /\ Len(Escape(n)) = Len(n)
      /\ \A i \in 1..Len(n) : Escape(n)[i] = Encoded[n[i]]
  BY Coding
<1>4. Tail(Escape(m)) = Escape(n)
  <2> DEFINE t == Tail(Escape(m))
  <2>1. t \in Seq(Codes) /\ Len(t) = Len(n) /\ \A i \in 1..Len(n) : t[i] = Escape(m)[i + 1]
    BY <1>2
  <2>2. \A i \in 1..Len(n) : t[i] = Escape(n)[i]
    <3> TAKE i \in 1..Len(n)
    <3>1. i + 1 \in 1..Len(m) /\ m[i + 1] = n[i]
      BY <1>1
    <3>2. t[i] = Encoded[m[i + 1]]
      BY <1>2, <2>1, <3>1
    <3> QED
      BY <1>3, <3>1, <3>2
  <2> HIDE DEF t
  <2>3. t = Escape(n)
    BY <1>3, <2>1, <2>2
  <2> QED
    BY <2>3 DEF t
<1>5. Escape(m)[1] = w
  BY <1>1, <1>2, EscapingAssumption
<1> QED
  BY <1>1, <1>2, <1>4, <1>5

-----------------------------------------------------------------------------
(* The order of the routes.                                                *)

LEMMA FirstIs ==
  ASSUME NEW tries, NEW k \in Nat, DOMAIN tries \subseteq Nat, k \in DOMAIN tries,
         tries[k] # Unmatched, \A j \in 1..(k - 1) : tries[j] = Unmatched,
         1..k \subseteq DOMAIN tries, 0 \notin DOMAIN tries
  PROVE  First(tries) = tries[k]
<1> DEFINE P(i) == tries[i] # Unmatched /\ \A j \in 1..(i - 1) : tries[j] = Unmatched
<1>1. \A i \in DOMAIN tries : P(i) => i = k
  OBVIOUS
<1>2. (CHOOSE i \in DOMAIN tries : P(i)) = k
  BY <1>1
<1> QED
  BY <1>2 DEF First

LEMMA InvocationMatches ==
  ASSUME NEW r
  PROVE  Invocation(r) # Unmatched
BY DEF Invocation, Unmatched, Of

LEMMA RouteOrder ==
  ASSUME NEW r
  PROVE  Route(r) = IF Probe(r) # Unmatched THEN Probe(r)
                    ELSE IF Verify(r) # Unmatched THEN Verify(r)
                    ELSE IF Topic(r) # Unmatched THEN Topic(r)
                    ELSE IF Job(r) # Unmatched THEN Job(r)
                    ELSE IF Configuration(r) # Unmatched THEN Configuration(r)
                    ELSE IF Actor(r) # Unmatched THEN Actor(r)
                    ELSE IF Binding(r) # Unmatched THEN Binding(r)
                    ELSE Invocation(r)
<1> DEFINE tries == <<Probe(r), Verify(r), Topic(r), Job(r), Configuration(r), Actor(r),
                      Binding(r), Invocation(r)>>
<1>1. \A k \in 1..8 : tries[k] # Unmatched /\ (\A j \in 1..(k - 1) : tries[j] = Unmatched)
                      => Route(r) = tries[k]
  <2>1. DOMAIN tries = 1..8 /\ Route(r) = First(tries)
    BY DEF Route
  <2> HIDE DEF tries
  <2> QED
    BY <2>1, FirstIs
<1>2. /\ tries[1] = Probe(r) /\ tries[2] = Verify(r) /\ tries[3] = Topic(r) /\ tries[4] = Job(r)
      /\ tries[5] = Configuration(r) /\ tries[6] = Actor(r) /\ tries[7] = Binding(r)
      /\ tries[8] = Invocation(r)
  OBVIOUS
<1> HIDE DEF tries
<1> QED
  BY <1>1, <1>2, InvocationMatches

LEMMA NotGet ==
  ASSUME NEW r, r.method # "GET"
  PROVE  Probe(r) = Unmatched
BY DEF Probe

LEMMA NotOptions ==
  ASSUME NEW r, r.method # "OPTIONS"
  PROVE  Verify(r) = Unmatched
BY DEF Verify

LEMMA NotPost ==
  ASSUME NEW r, r.method # "POST"
  PROVE  /\ Topic(r) = Unmatched /\ Job(r) = Unmatched
         /\ Configuration(r) = Unmatched /\ Binding(r) = Unmatched
BY DEF Topic, Job, Configuration, Binding

LEMMA OnlyPost ==
  ASSUME NEW r, r.method = "POST"
  PROVE  Probe(r) = Unmatched /\ Verify(r) = Unmatched
<1>1. r.method # "GET" /\ r.method # "OPTIONS"
  OBVIOUS
<1> QED
  BY <1>1, NotGet, NotOptions

LEMMA NotPubsub ==
  ASSUME NEW r, r.path[1] \notin {"pubsub", "pubsub-bulk"}
  PROVE  Topic(r) = Unmatched
BY DEF Topic

LEMMA NotJob ==
  ASSUME NEW r, r.path[1] # "job" \/ ~(Len(r.path) > 1)
  PROVE  Job(r) = Unmatched
BY DEF Job

LEMMA NotConfiguration ==
  ASSUME NEW r, r.path[1] # "configuration" \/ ~(Len(r.path) > 1)
  PROVE  Configuration(r) = Unmatched
BY DEF Configuration

LEMMA NotActors ==
  ASSUME NEW r, r.path[1] # "actors"
  PROVE  Actor(r) = Unmatched
BY DEF Actor

(* "/actors" alone is no actor's.                                          *)
LEMMA ActorsAlone ==
  ASSUME NEW r, r.path = <<"actors">>
  PROVE  Actor(r) = Unmatched
<1>1. Tail(r.path) = <<>>
  OBVIOUS
<1>2. NoEmpty(<<>>) = <<>>
  BY DEF NoEmpty
<1>3. Decode(<<>>) = <<>>
  BY DEF Decode
<1>4. Len(Decode(NoEmpty(Tail(r.path)))) < 2
  BY <1>1, <1>2, <1>3
<1> QED
  BY <1>4 DEF Actor

-----------------------------------------------------------------------------
(* The deliveries by kind.                                                 *)

\* The callback has what the delivery says.
Right(d, e) ==
  /\ e.kind = d.kind /\ e.verb = d.verb
  /\ ~Paths(d) => e.names = d.names
  /\ Paths(d) /\ d.path # None /\ d.path.slashes = 1 => e.path = d.path

LEMMA Fields ==
  ASSUME NEW kind, NEW verb, NEW names
  PROVE  /\ Of(kind, verb, names).kind = kind /\ Of(kind, verb, names).verb = verb
         /\ Of(kind, verb, names).names = names /\ Of(kind, verb, names).path = None
         /\ kind # "none" => Of(kind, verb, names) # Unmatched
BY DEF Of, Unmatched

LEMMA OfNames ==
  ASSUME NEW d \in Deliveries
  PROVE  /\ ~Paths(d) /\ d.kind # "binding"
         /\ d.kind # "invoke" => d.verb = None
         /\ \A i \in DOMAIN d.names : d.names[i] \in Name
         /\ d.kind \in {"health", "actor-config"} => d.names = <<>>
         /\ d.kind \in {"job", "configuration", "invoke"} =>
              d.names = <<d.names[1]>> /\ d.names[1] \in Name
         /\ d.kind \in ActorKinds =>
              d.names[1] \in Name /\ d.names[2] \in Name
         /\ d.kind = "actor-deactivate" => d.names = <<d.names[1], d.names[2]>>
         /\ d.kind \in ActorKinds \ {"actor-deactivate"} =>
              d.names = <<d.names[1], d.names[2], d.names[3]>> /\ d.names[3] \in Name
         /\ d.kind \in {"health", "actor-config", "job", "configuration", "invoke"} \cup ActorKinds
<1>1. IsDelivery(d)
  BY InboundAssumption
<1> QED
  BY <1>1 DEF IsDelivery, Paths, ActorKinds

LEMMA OfTopics ==
  ASSUME NEW d \in TopicDeliveries
  PROVE  \E i \in DOMAIN Subscriptions : \E p \in Subscriptions[i].routes :
           /\ d.kind = IF Subscriptions[i].bulk = "on" THEN "bulk" ELSE "topic"
           /\ d.verb = None /\ d.names = <<i>> /\ d.path = p
           /\ p \in RulePath \cup {None}
<1>1. PICK i \in DOMAIN Subscriptions : \E p \in Subscriptions[i].routes :
        d = [Of(IF Subscriptions[i].bulk = "on" THEN "bulk" ELSE "topic", None, <<i>>)
             EXCEPT !.path = p]
  BY DEF TopicDeliveries
<1>2. PICK p \in Subscriptions[i].routes :
        d = [Of(IF Subscriptions[i].bulk = "on" THEN "bulk" ELSE "topic", None, <<i>>)
             EXCEPT !.path = p]
  BY <1>1
<1>3. p \in RulePath \cup {None}
  BY InboundAssumption
<1>4. /\ d.kind = IF Subscriptions[i].bulk = "on" THEN "bulk" ELSE "topic"
      /\ d.verb = None /\ d.names = <<i>> /\ d.path = p
  BY <1>2 DEF Of
<1> QED
  BY <1>3, <1>4

LEMMA Post ==
  ASSUME NEW method, NEW path
  PROVE  Request(method, path).method = method /\ Request(method, path).path = Escape(path)
BY DEF Request

LEMMA PostedBy ==
  ASSUME NEW d
  PROVE  LET n == d.names
         IN /\ d.kind = "health" => Posted(d) = Request("GET", <<"healthz">>)
            /\ d.kind = "actor-config" => Posted(d) = Request("GET", <<"dapr", "config">>)
            /\ Paths(d) => Posted(d) = Request("POST", table[n[1]][d.path])
            /\ d.kind = "binding" => Posted(d) = Request("POST", n[1])
            /\ d.kind = "job" => Posted(d) = Request("POST", <<"job">> \o n[1])
            /\ d.kind = "configuration" =>
                 Posted(d) = Request("POST", <<"configuration">> \o n[1] \o <<"key">>)
            /\ d.kind \in ActorKinds =>
                 Posted(d) = Request(ActorVerb(d), <<"actors">> \o ActorPath(d))
            /\ d.kind = "invoke" => Posted(d) = Request(d.verb, Clean(n[1]))
<1>1. CASE d.kind = "health"
  BY <1>1 DEF Posted, Paths, ActorKinds
<1>2. CASE d.kind = "actor-config"
  BY <1>2 DEF Posted, Paths, ActorKinds
<1>3. CASE d.kind \in {"topic", "bulk"}
  BY <1>3 DEF Posted, Paths, ActorKinds
<1>4. CASE d.kind = "binding"
  BY <1>4 DEF Posted, Paths, ActorKinds
<1>5. CASE d.kind = "job"
  BY <1>5 DEF Posted, Paths, ActorKinds
<1>6. CASE d.kind = "configuration"
  BY <1>6 DEF Posted, Paths, ActorKinds
<1>7. CASE d.kind \in ActorKinds
  BY <1>7 DEF Posted, Paths, ActorKinds
<1>8. CASE d.kind = "invoke"
  BY <1>8 DEF Posted, Paths, ActorKinds
<1> QED
  BY <1>1, <1>2, <1>3, <1>4, <1>5, <1>6, <1>7, <1>8 DEF Paths

LEMMA RoutesTopics ==
  ASSUME table = Table, NEW d \in TopicDeliveries
  PROVE  Right(d, Route(Posted(d)))
<1>0. PICK i \in DOMAIN Subscriptions : \E p \in Subscriptions[i].routes :
           /\ d.kind = IF Subscriptions[i].bulk = "on" THEN "bulk" ELSE "topic"
           /\ d.verb = None /\ d.names = <<i>> /\ d.path = p
           /\ p \in RulePath \cup {None}
  BY OfTopics
<1>1. PICK p \in Subscriptions[i].routes :
           /\ d.kind = IF Subscriptions[i].bulk = "on" THEN "bulk" ELSE "topic"
           /\ d.verb = None /\ d.names = <<i>> /\ d.path = p
           /\ p \in RulePath \cup {None}
  BY <1>0
<1> DEFINE r == Posted(d)
           base == IF Subscriptions[i].bulk = "on" THEN "pubsub-bulk" ELSE "pubsub"
           rest == IF p = None THEN <<>> ELSE p.name
<1>2. r = Request("POST", <<base>> \o rest)
  <2>1. table[i][p] = <<base>> \o rest
    <3>1. Base(Subscriptions[i]) = <<base>>
      BY DEF Base
    <3>2. table[i] = [q \in Subscriptions[i].routes |->
                        Base(Subscriptions[i]) \o IF q = None THEN <<>> ELSE q.name]
      BY DEF Table
    <3>3. table[i][p] = Base(Subscriptions[i]) \o rest
      BY <3>2
    <3> QED
      BY <3>1, <3>3
  <2> QED
    <3>1. Paths(d) /\ d.names[1] = i /\ d.path = p
      BY <1>1 DEF Paths
    <3>2. Posted(d) = Request("POST", table[d.names[1]][d.path])
      BY <3>1, PostedBy
    <3> QED
      BY <2>1, <3>1, <3>2
<1>3. base \in Words /\ base \in {"pubsub", "pubsub-bulk"}
  BY DEF Words
<1>4. rest \in Seq(Segments) /\ (p # None => rest = p.name /\ Len(rest) > 0)
  <2>1. CASE p = None
    BY <2>1
  <2>2. CASE p # None
    <3>1. p.name \in Seq(Segments) /\ p.name # <<>>
      BY <1>1, <2>2 DEF RulePath, Name
    <3> QED
      BY <2>2, <3>1
  <2> QED
    BY <2>1, <2>2
<1> HIDE DEF base, rest, r
<1>5. /\ r.method = "POST" /\ r.path[1] = base
      /\ r.path \in Seq(Codes) /\ Len(r.path) = Len(rest) + 1
      /\ Tail(r.path) = Escape(rest) /\ Decode(Escape(rest)) = rest
  <2>1. r.method = "POST" /\ r.path = Escape(<<base>> \o rest)
    BY <1>2, Post
  <2>2. /\ Escape(<<base>> \o rest)[1] = base
        /\ Escape(<<base>> \o rest) \in Seq(Codes)
        /\ Len(Escape(<<base>> \o rest)) = Len(rest) + 1
        /\ Tail(Escape(<<base>> \o rest)) = Escape(rest)
    BY <1>3, <1>4, Joined
  <2>3. Decode(Escape(rest)) = rest
    BY <1>4, Coding
  <2> QED
    BY <2>1, <2>2, <2>3
<1>6. /\ Topic(r).kind = IF base = "pubsub" THEN "topic" ELSE "bulk"
      /\ Topic(r).verb = None
      /\ p # None => Topic(r).path = [slashes |-> 1, name |-> rest]
  <2>1. p # None => Decode(Tail(r.path)) = rest /\ Len(r.path) # 1
    <3>1. Decode(Tail(r.path)) = rest
      BY <1>5
    <3>2. rest \in Seq(Segments) /\ Len(r.path) = Len(rest) + 1
      BY <1>4, <1>5
    <3>3. Len(rest) > 0 => Len(r.path) # 1
      BY <3>2
    <3> QED
      BY <1>4, <3>1, <3>3
  <2> DEFINE kind == IF base = "pubsub" THEN "topic" ELSE "bulk"
  <2>2. Topic(r) = [Of(kind, None, <<>>)
                    EXCEPT !.path = IF Len(r.path) = 1 THEN attribute
                                    ELSE [slashes |-> 1, name |-> Decode(Tail(r.path))]]
    BY <1>3, <1>5 DEF Topic
  <2> HIDE DEF kind
  <2>3. /\ Topic(r).kind = kind /\ Topic(r).verb = None
        /\ Len(r.path) # 1 => Topic(r).path = [slashes |-> 1, name |-> Decode(Tail(r.path))]
    BY <2>2 DEF Of
  <2> QED
    BY <2>1, <2>3 DEF kind
<1>7. Route(r) = Topic(r)
  <2>1. Topic(r) # Unmatched
    BY <1>6, Fields DEF Unmatched
  <2> QED
    BY <1>5, <2>1, OnlyPost, RouteOrder
<1>8. Topic(r).kind = d.kind
  BY <1>1, <1>6 DEF base
<1>9. Paths(d) /\ (d.path # None /\ d.path.slashes = 1 => Topic(r).path = d.path)
  BY <1>1, <1>4, <1>6 DEF Paths, RulePath
<1> QED
  BY <1>1, <1>6, <1>7, <1>8, <1>9 DEF Right, r

LEMMA RightIs ==
  ASSUME NEW d, ~Paths(d)
  PROVE  Right(d, Of(d.kind, d.verb, d.names))
BY Fields DEF Right

(* What is a word, the sidecar writes as it is.                            *)
LEMMA WordsStay ==
  ASSUME NEW n \in Seq(Words)
  PROVE  n \in Seq(Segments) /\ Escape(n) = n
<1>1. n \in Seq(Segments) /\ \A i \in 1..Len(n) : n[i] \in Words /\ Encoded[n[i]] = n[i]
  BY EscapingAssumption
<1>2. Escape(n) = [i \in 1..Len(n) |-> n[i]]
  BY <1>1 DEF Escape
<1> QED
  BY <1>1, <1>2

LEMMA Headed ==
  ASSUME NEW w \in Words, NEW n \in Seq(Segments), NEW path, path = Escape(<<w>> \o n)
  PROVE  /\ path \in Seq(Codes) /\ Len(path) = Len(n) + 1
         /\ path[1] = w /\ Tail(path) = Escape(n) /\ Decode(Tail(path)) = n
BY Joined, Coding

LEMMA RoutesProbes ==
  ASSUME NEW d \in Deliveries, d.kind \in {"health", "actor-config"}
  PROVE  Right(d, Route(Posted(d)))
<1> DEFINE r == Posted(d)
<1>1. d.names = <<>> /\ d.verb = None /\ ~Paths(d)
  BY OfNames
<1>2. CASE d.kind = "health"
  <2>1. <<"healthz">> \in Seq(Words)
    BY DEF Words
  <2>2. Posted(d) = Request("GET", <<"healthz">>)
    BY <1>2, PostedBy
  <2>5. r.method = "GET" /\ r.path = <<"healthz">>
    BY <2>1, <2>2, Post, WordsStay
  <2>3. Probe(r) = Of("health", None, <<>>)
    BY <2>5 DEF Probe
  <2> HIDE DEF r
  <2>4. Route(r) = Of("health", None, <<>>)
    BY <2>3, Fields, RouteOrder
  <2> QED
    BY <1>1, <1>2, <2>4, RightIs DEF r
<1>3. CASE d.kind = "actor-config"
  <2>1. <<"dapr", "config">> \in Seq(Words)
    BY DEF Words
  <2>2. Posted(d) = Request("GET", <<"dapr", "config">>)
    BY <1>3, PostedBy
  <2>5. r.method = "GET" /\ r.path = <<"dapr", "config">>
    <3>1. PICK n \in Seq(Words) : n = <<"dapr", "config">>
      BY <2>1
    <3>2. r.method = "GET" /\ r.path = Escape(n)
      BY <2>2, <3>1, Post
    <3>3. Escape(n) = n
      BY WordsStay
    <3> QED
      BY <3>1, <3>2, <3>3
  <2>3. Probe(r) = Of("actor-config", None, <<>>)
    BY <2>5 DEF Probe
  <2> HIDE DEF r
  <2>4. Route(r) = Of("actor-config", None, <<>>)
    BY <2>3, Fields, RouteOrder
  <2> QED
    BY <1>1, <1>3, <2>4, RightIs DEF r
<1> QED
  BY <1>2, <1>3

LEMMA RoutesJobs ==
  ASSUME NEW d \in Deliveries, d.kind = "job"
  PROVE  Right(d, Route(Posted(d)))
<1>1. PICK n \in Name : d.names = <<n>> /\ d.names[1] = n
  BY OfNames
<1>2. PICK r : r = Posted(d)
  OBVIOUS
<1>3. r = Request("POST", <<"job">> \o n)
  BY <1>1, <1>2, PostedBy
<1>4. "job" \in Words /\ n \in Seq(Segments) /\ n # <<>>
  BY DEF Words, Name
<1>5. /\ r.method = "POST" /\ r.path \in Seq(Codes) /\ Len(r.path) = Len(n) + 1
      /\ r.path[1] = "job" /\ Decode(Tail(r.path)) = n
  <2>1. PICK w \in Words : w = "job"
    BY <1>4
  <2>2. r.method = "POST" /\ r.path = Escape(<<w>> \o n)
    BY <1>3, <2>1, Post
  <2> QED
    BY <1>4, <2>1, <2>2, Headed
<1>6. Len(r.path) > 1
  BY <1>4, <1>5, Longer
<1>7. Job(r) = Of("job", None, <<n>>)
  BY <1>5, <1>6 DEF Job
<1>8. Route(r) = Job(r)
  <2>1. Probe(r) = Unmatched /\ Verify(r) = Unmatched
    BY <1>5, OnlyPost
  <2>2. Topic(r) = Unmatched
    BY <1>5, NotPubsub
  <2>3. Job(r) # Unmatched
    BY <1>7, Fields
  <2> QED
    BY <2>1, <2>2, <2>3, RouteOrder
<1> QED
  BY <1>1, <1>2, <1>7, <1>8, OfNames, RightIs

LEMMA RoutesConfiguration ==
  ASSUME NEW d \in Deliveries, d.kind = "configuration",
         Len(d.names[1]) = 1, d.names[1] # <<Blank>>
  PROVE  Right(d, Route(Posted(d)))
<1>1. PICK x \in Segments : d.names = <<<<x>>>> /\ d.names[1] = <<x>> /\ x # Blank
  <2>1. d.names = <<d.names[1]>> /\ d.names[1] \in Seq(Segments)
    BY OfNames DEF Name
  <2>2. d.names[1] = <<d.names[1][1]>> /\ d.names[1][1] \in Segments
    BY <2>1, Single
  <2> QED
    BY <2>1, <2>2
<1>2. PICK r : r = Posted(d)
  OBVIOUS
<1>3. "configuration" \in Words /\ "key" \in Segments /\ Blank \in Words
  BY EscapingAssumption, Blanks DEF Words
<1>4. r = Request("POST", <<"configuration">> \o <<x, "key">>)
  <2>1. r = Request("POST", <<"configuration">> \o <<x>> \o <<"key">>)
    BY <1>1, <1>2, PostedBy
  <2>2. <<"configuration">> \o <<x>> \o <<"key">> = <<"configuration">> \o <<x, "key">>
    BY <1>3, Few, EscapingAssumption
  <2> QED
    BY <2>1, <2>2
<1>5. /\ <<x, "key">> \in Seq(Segments) /\ Len(<<x, "key">>) = 2 /\ <<x, "key">>[1] = x
      /\ <<x>> \in Seq(Segments) /\ Len(<<x>>) = 1 /\ <<x>>[1] = x
  BY <1>3, Few
<1>6. /\ r.method = "POST" /\ r.path \in Seq(Codes) /\ r.path[1] = "configuration"
      /\ Len(r.path) = Len(<<x, "key">>) + 1 /\ Tail(r.path) = Escape(<<x, "key">>)
  <2>1. PICK w \in Words : w = "configuration"
    BY <1>3
  <2>2. PICK m \in Seq(Segments) : m = <<x, "key">>
    BY <1>5
  <2>3. r.method = "POST" /\ r.path = Escape(<<w>> \o m)
    BY <1>4, <2>1, <2>2, Post
  <2>4. /\ r.path \in Seq(Codes) /\ Len(r.path) = Len(m) + 1
        /\ r.path[1] = w /\ Tail(r.path) = Escape(m)
    BY <2>3, Headed
  <2> QED
    BY <2>1, <2>2, <2>3, <2>4
<1>7. Len(r.path) > 1 /\ Tail(r.path)[1] = r.path[2]
  <2>1. Len(r.path) = 3
    BY <1>5, <1>6, Longer
  <2> QED
    BY <1>6, <2>1, Single
<1>8. r.path[2] = Encoded[x]
  <2>1. 1 \in 1..2
    OBVIOUS
  <2>2. Escape(<<x, "key">>)[1] = Encoded[<<x, "key">>[1]]
    BY <1>5, <2>1, Coding
  <2> QED
    BY <1>5, <1>6, <1>7, <2>2
<1>9. r.path[2] # Blank /\ Decode(<<r.path[2]>>) = <<x>>
  <2>1. Escape(<<x>>) = <<Encoded[x]>>
    <3>1. Escape(<<x>>) \in Seq(Codes) /\ Len(Escape(<<x>>)) = 1
      BY <1>5, Coding
    <3>2. 1 \in 1..1
      OBVIOUS
    <3>3. Escape(<<x>>)[1] = Encoded[x]
      BY <1>5, <3>2, Coding
    <3> QED
      BY <3>1, <3>3, Single
  <2>2. Decode(Escape(<<x>>)) = <<x>>
    BY <1>5, Coding
  <2>3. Encoded[x] # Blank
    BY <1>1, <1>3, Spelled
  <2> QED
    BY <1>8, <2>1, <2>2, <2>3
<1>10. Configuration(r) = Of("configuration", None, <<<<x>>>>)
  BY <1>6, <1>7, <1>9 DEF Configuration
<1>11. Route(r) = Configuration(r)
  <2>1. Probe(r) = Unmatched /\ Verify(r) = Unmatched
    BY <1>6, OnlyPost
  <2>2. Topic(r) = Unmatched /\ Job(r) = Unmatched
    BY <1>6, NotPubsub, NotJob
  <2>3. Configuration(r) # Unmatched
    BY <1>10, Fields
  <2> QED
    BY <2>1, <2>2, <2>3, RouteOrder
<1> QED
  BY <1>1, <1>2, <1>10, <1>11, OfNames, RightIs

LEMMA TrimLeaves ==
  ASSUME NEW S, NEW n \in Seq(S), n # <<>>, n[1] # Blank \/ n = <<Blank>>
  PROVE  Trim(n) = n
<1>1. CASE n = <<Blank>>
  <2>1. \A i \in DOMAIN n : n[i] = Blank
    <3>1. DOMAIN n = {1} /\ n[1] = Blank
      BY <1>1, Few
    <3> QED
      BY <3>1
  <2> QED
    BY <1>1, <2>1 DEF Trim
<1>2. CASE n[1] # Blank
  <2> DEFINE P(i) == n[i] # Blank /\ \A j \in 1..(i - 1) : n[j] = Blank
  <2>1. DOMAIN n = 1..Len(n) /\ Len(n) \in Nat /\ 1 \in DOMAIN n
    BY Single
  <2>2. P(1)
    <3>1. 1..(1 - 1) = {}
      OBVIOUS
    <3> QED
      BY <1>2, <3>1
  <2>3. ASSUME NEW i \in DOMAIN n, P(i)
        PROVE  i = 1
    <3>1. i \in Nat \ {0}
      BY <2>1
    <3>2. i # 1 => 1 \in 1..(i - 1)
      BY <3>1
    <3> QED
      BY <1>2, <2>3, <3>2
  <2> HIDE DEF P
  <2>4. (CHOOSE i \in DOMAIN n : P(i)) = 1
    BY <2>1, <2>2, <2>3
  <2>5. ~ \A i \in DOMAIN n : n[i] = Blank
    BY <1>2, <2>1
  <2>6. Trim(n) = SubSeq(n, 1, Len(n))
    BY <2>4, <2>5 DEF Trim, P
  <2> QED
    BY <2>6, Single
<1> QED
  BY <1>1, <1>2

(* No prefix takes the other paths.                                        *)
LEMMA Unprefixed ==
  ASSUME NEW r, r.path \in Seq(Codes), r.path # <<>>, ~Prefixed(r.method, r.path)
  PROVE  /\ Topic(r) = Unmatched /\ Job(r) = Unmatched
         /\ Configuration(r) = Unmatched /\ Actor(r) = Unmatched
<1>1. ~(Len(r.path) > 1) => r.path = <<r.path[1]>>
  BY Single
<1>2. Topic(r) = Unmatched
  <2>1. r.method # "POST" \/ r.path[1] \notin {"pubsub", "pubsub-bulk"}
    BY DEF Prefixed
  <2> QED
    BY <2>1, NotPost, NotPubsub
<1>3. Job(r) = Unmatched
  <2>1. r.method # "POST" \/ r.path[1] # "job" \/ ~(Len(r.path) > 1)
    BY DEF Prefixed
  <2> QED
    BY <2>1, NotPost, NotJob
<1>4. Configuration(r) = Unmatched
  <2>1. r.method # "POST" \/ r.path[1] # "configuration" \/ ~(Len(r.path) > 1)
    BY DEF Prefixed
  <2> QED
    BY <2>1, NotPost, NotConfiguration
<1>5. Actor(r) = Unmatched
  <2>1. r.path[1] # "actors" \/ ~(Len(r.path) > 1)
    BY DEF Prefixed
  <2> QED
    BY <1>1, <2>1, NotActors, ActorsAlone
<1> QED
  BY <1>2, <1>3, <1>4, <1>5

LEMMA RoutesBindings ==
  ASSUME NEW n \in Declared, n[1] # Blank, Escape(n) = n, ~Prefixed("POST", n)
  PROVE  Route(Request("POST", n)) = Of("binding", None, <<n>>)
<1> DEFINE r == Request("POST", n)
<1>1. n \in Seq(Segments) /\ n # <<>>
  BY InboundAssumption DEF Name
<1>2. r.method = "POST" /\ r.path = n /\ n \in Seq(Codes)
  BY <1>1, Post, Coding
<1> HIDE DEF r
<1>3. Trim(n) = n
  BY <1>1, TrimLeaves
<1>4. Binding(r) = Of("binding", None, <<n>>)
  BY <1>2, <1>3 DEF Binding
<1>5. r.path \in Seq(Codes) /\ r.path # <<>> /\ ~Prefixed(r.method, r.path)
  BY <1>1, <1>2
<1>6. Probe(r) = Unmatched /\ Verify(r) = Unmatched
  BY <1>2, OnlyPost
<1>7. Binding(r) # Unmatched
  BY <1>4, Fields
<1>8. Route(r) = Binding(r)
  BY <1>5, <1>6, <1>7, RouteOrder, Unprefixed
<1> QED
  BY <1>4, <1>8 DEF r

LEMMA RoutesInvocations ==
  ASSUME NEW d \in Deliveries, d.kind = "invoke", IsClean(d.names[1]),
         Escape(d.names[1]) = d.names[1], ~Reserved(d.verb, d.names[1])
  PROVE  Right(d, Route(Posted(d)))
<1> DEFINE n == d.names[1]
           r == Posted(d)
<1>1. d.names = <<n>> /\ n \in Seq(Segments) /\ n # <<>> /\ ~Paths(d)
  BY OfNames DEF Name
<1>2. Clean(n) = n
  BY DEF Clean
<1>3. r.method = d.verb /\ r.path = n /\ n \in Seq(Codes)
  BY <1>1, <1>2, PostedBy, Post, Coding
<1>4. IsClean(n) /\ ~Reserved(r.method, n)
  BY <1>3
<1> HIDE DEF n, r
<1>5. Trim(n) = n
  <2>1. n[1] # Blank \/ n = <<Blank>>
    <3>1. 1 \in DOMAIN n
      BY <1>1, Single
    <3> QED
      BY <1>4, <3>1 DEF IsClean
  <2> QED
    BY <1>1, <2>1, TrimLeaves
<1>6. Probe(r) = Unmatched
  BY <1>3, <1>4 DEF Probe, Reserved
<1>7. Verify(r) = Unmatched
  BY <1>3, <1>4, <1>5 DEF Verify, Reserved
<1>8. Binding(r) = Unmatched
  BY <1>3, <1>4, <1>5 DEF Binding, Reserved
<1>9. ~Prefixed(r.method, r.path)
  BY <1>3, <1>4 DEF Reserved
<1> QED
  <2>1. Route(r) = Invocation(r)
    BY <1>1, <1>3, <1>6, <1>7, <1>8, <1>9, RouteOrder, Unprefixed
  <2>2. Invocation(r) = Of(d.kind, d.verb, d.names)
    BY <1>1, <1>3, <1>5 DEF Invocation
  <2> QED
    BY <1>1, <2>1, <2>2, RightIs DEF r

-----------------------------------------------------------------------------
(* Actors.                                                                 *)

LEMMA Prefix ==
  ASSUME NEW S, NEW c \in S, NEW m \in Seq(S)
  PROVE  /\ <<c>> \o m \in Seq(S) /\ Len(<<c>> \o m) = Len(m) + 1
         /\ (<<c>> \o m)[1] = c
         /\ \A k \in 1..Len(m) : (<<c>> \o m)[k + 1] = m[k]
OBVIOUS

LEMMA Calling ==
  ASSUME NEW S, NEW t \in S, NEW i \in S, NEW c \in S, NEW m \in Seq(S), m # <<>>,
         NEW p, p = <<t>> \o <<i>> \o (<<c>> \o m)
  PROVE  /\ p \in Seq(S) /\ Len(p) = Len(m) + 3 /\ Len(m) \in Nat /\ Len(m) > 0
         /\ p[1] = t /\ p[2] = i /\ p[3] = c /\ p[4] = m[1]
         /\ \A k \in 1..Len(p) : k \in {1, 2, 3} \/ (k - 3 \in 1..Len(m) /\ p[k] = m[k - 3])
         /\ Len(m) > 1 => p[5] = m[2] /\ Tail(m) \in Seq(S) /\ Tail(m)[1] = m[2]
         /\ SubSeq(p, 4, Len(p)) = m
<1>1. Len(m) \in Nat /\ Len(m) > 0
  BY EmptySeq
<1> DEFINE q == <<c>> \o m
           h == <<i>> \o q
<1>2. /\ q \in Seq(S) /\ Len(q) = Len(m) + 1 /\ q[1] = c
      /\ \A k \in 1..Len(m) : q[k + 1] = m[k]
  BY Prefix
<1>3. p = <<t>> \o h
  <2>1. <<t>> \in Seq(S) /\ <<i>> \in Seq(S)
    OBVIOUS
  <2> HIDE DEF q
  <2> QED
    BY <1>2, <2>1, ConcatAssociative DEF q
<1> HIDE DEF q
<1>4. /\ h \in Seq(S) /\ Len(h) = Len(q) + 1 /\ h[1] = i
      /\ \A k \in 1..Len(q) : h[k + 1] = q[k]
  BY <1>2, Prefix
<1> HIDE DEF h
<1>5. /\ p \in Seq(S) /\ Len(p) = Len(h) + 1 /\ p[1] = t
      /\ \A k \in 1..Len(h) : p[k + 1] = h[k]
  BY <1>3, <1>4, Prefix
<1>7. Len(p) = Len(m) + 3 /\ Len(h) = Len(m) + 2
  BY <1>1, <1>2, <1>4, <1>5
<1>8. p[1] = t /\ p[2] = i /\ p[3] = c
  <2>1. 1 \in 1..Len(h) /\ 2 \in 1..Len(h) /\ 1 \in 1..Len(q) /\ 1 + 1 = 2 /\ 2 + 1 = 3
    BY <1>1, <1>2, <1>7
  <2>2. p[2] = h[1] /\ p[3] = h[2]
    BY <1>5, <2>1
  <2>3. h[2] = q[1]
    BY <1>4, <2>1
  <2> QED
    BY <1>2, <1>4, <1>5, <2>2, <2>3
<1>9. \A k \in 1..Len(m) : p[k + 3] = m[k]
  <2> TAKE k \in 1..Len(m)
  <2>1. k + 2 \in 1..Len(h) /\ k + 1 \in 1..Len(q) /\ k + 2 + 1 = k + 3 /\ k + 1 + 1 = k + 2
    BY <1>1, <1>2, <1>7
  <2>2. p[k + 3] = h[k + 2]
    BY <1>5, <2>1
  <2>3. h[k + 2] = q[k + 1]
    BY <1>4, <2>1
  <2> QED
    BY <1>2, <2>2, <2>3
<1>10. p[4] = m[1] /\ (Len(m) > 1 => p[5] = m[2])
  <2>1. 1 \in 1..Len(m) /\ 1 + 3 = 4 /\ 2 + 3 = 5 /\ (Len(m) > 1 => 2 \in 1..Len(m))
    BY <1>1
  <2> QED
    BY <1>9, <2>1
<1>11. \A k \in 1..Len(p) : k \in {1, 2, 3} \/ (k - 3 \in 1..Len(m) /\ p[k] = m[k - 3])
  <2> TAKE k \in 1..Len(p)
  <2>1. k \in 1..Len(m) + 3
    BY <1>7
  <2>2. k \in {1, 2, 3} \/ (k - 3 \in 1..Len(m) /\ k = (k - 3) + 3)
    BY <1>1, <2>1
  <2> QED
    BY <1>9, <2>2
<1>12. Len(m) > 1 => Tail(m) \in Seq(S) /\ Tail(m)[1] = m[2]
  <2>1. Tail(m) \in Seq(S) /\ Len(Tail(m)) = Len(m) - 1
        /\ \A k \in 1..Len(Tail(m)) : Tail(m)[k] = m[k + 1]
    BY HeadTailProperties
  <2>2. Len(m) > 1 => 1 \in 1..Len(Tail(m)) /\ 1 + 1 = 2
    BY <1>1, <2>1
  <2> QED
    BY <2>1, <2>2
<1>13. SubSeq(p, 4, Len(p)) = m
  <2> DEFINE u == SubSeq(p, 4, Len(p))
  <2>1. u \in Seq(S) /\ Len(u) = Len(m) /\ \A k \in 1..Len(m) : u[k] = p[k + 3]
    <3>1. u = [k \in 1..(1 + Len(p) - 4) |-> p[k + 4 - 1]]
      OBVIOUS
    <3>2. 1 + Len(p) - 4 = Len(m) /\ \A k \in 1..Len(m) : k + 4 - 1 = k + 3 /\ k + 3 \in 1..Len(p)
      BY <1>1, <1>7
    <3>3. u = [k \in 1..Len(m) |-> p[k + 3]]
      BY <3>1, <3>2
    <3>4. \A k \in 1..Len(m) : p[k + 3] \in S
      BY <1>5, <3>2
    <3> HIDE DEF u
    <3> QED
      BY <1>1, <3>3, <3>4
  <2> HIDE DEF u
  <2>2. \A k \in 1..Len(u) : u[k] = m[k]
    BY <1>9, <2>1
  <2>3. u = m
    BY <2>1, <2>2, SeqEqual
  <2> QED
    BY <2>3 DEF u
<1> QED
  BY <1>1, <1>5, <1>7, <1>8, <1>10, <1>11, <1>12, <1>13

(* The router has the segments of a path without empty ones.               *)
LEMMA ActorSegments ==
  ASSUME NEW p \in Seq(Segments), \A k \in 1..Len(p) : p[k] # Blank,
         NEW r, r.path = Escape(<<"actors">> \o p)
  PROVE  r.path[1] = "actors" /\ Decode(NoEmpty(Tail(r.path))) = p
<1>1. PICK w \in Words : w = "actors"
  BY DEF Words
<1>2. r.path[1] = w /\ Tail(r.path) = Escape(p)
  BY <1>1, Headed
<1>3. \A k \in DOMAIN Escape(p) : Escape(p)[k] # Blank
  <2> TAKE k \in DOMAIN Escape(p)
  <2>1. k \in 1..Len(p) /\ Escape(p)[k] = Encoded[p[k]]
    BY Coding
  <2>2. p[k] \in Segments /\ p[k] # Blank
    BY <2>1
  <2> QED
    BY <2>1, <2>2, Blanks, Spelled
<1>4. NoEmpty(Escape(p)) = Escape(p)
  BY <1>3 DEF NoEmpty
<1> QED
  BY <1>1, <1>2, <1>4, Coding

LEMMA ActorFields ==
  ASSUME NEW d \in Deliveries, d.kind \in ActorKinds, ~Ambiguous(d)
  PROVE  \E t, i \in Segments :
           /\ t # Blank /\ i # Blank /\ d.names[1] = <<t>> /\ d.names[2] = <<i>>
           /\ d.verb = None /\ ~Paths(d)
           /\ d.kind = "actor-deactivate" => d.names = <<<<t>>, <<i>>>>
           /\ d.kind # "actor-deactivate" =>
                /\ d.names = <<<<t>>, <<i>>, d.names[3]>>
                /\ d.names[3] \in Seq(Segments) /\ d.names[3] # <<>> /\ d.names[3] # <<Blank>>
<1> DEFINE n == d.names
<1>1. /\ n[1] \in Name /\ n[2] \in Name /\ d.verb = None /\ ~Paths(d)
      /\ d.kind = "actor-deactivate" => n = <<n[1], n[2]>>
      /\ d.kind # "actor-deactivate" => n = <<n[1], n[2], n[3]>> /\ n[3] \in Name
  <2>1. d.kind # "invoke"
    BY DEF ActorKinds
  <2> QED
    BY <2>1, OfNames
<1>2. /\ ~(Len(n[1]) > 1) /\ n[1] # <<Blank>> /\ ~(Len(n[2]) > 1) /\ n[2] # <<Blank>>
      /\ d.kind # "actor-deactivate" => n[3] # <<Blank>>
  BY DEF Ambiguous
<1> HIDE DEF n
<1>3. \A m \in Name : ~(Len(m) > 1) /\ m # <<Blank>> => m = <<m[1]>> /\ m[1] \in Segments \ {Blank}
  <2> SUFFICES ASSUME NEW m \in Name, ~(Len(m) > 1), m # <<Blank>>
               PROVE  m = <<m[1]>> /\ m[1] \in Segments \ {Blank}
    OBVIOUS
  <2>1. m \in Seq(Segments) /\ m # <<>>
    BY DEF Name
  <2>2. m = <<m[1]>> /\ m[1] \in Segments
    BY <2>1, Single
  <2> QED
    BY <2>2
<1>4. PICK t, i \in Segments \ {Blank} : n[1] = <<t>> /\ n[2] = <<i>>
  BY <1>1, <1>2, <1>3
<1>5. d.kind # "actor-deactivate" => n[3] \in Seq(Segments) /\ n[3] # <<>>
  BY <1>1 DEF Name
<1> QED
  BY <1>1, <1>2, <1>4, <1>5 DEF n

LEMMA ActorPathIs ==
  ASSUME NEW d, NEW t, NEW i, d.names[1] = <<t>>, d.names[2] = <<i>>
  PROVE  /\ d.kind = "actor-deactivate" => ActorPath(d) = <<t, i>> /\ ActorVerb(d) = "DELETE"
         /\ d.kind = "actor-invoke" =>
              /\ ActorPath(d) = <<t>> \o <<i>> \o (<<"method">> \o d.names[3])
              /\ ActorVerb(d) = "PUT"
         /\ d.kind = "actor-timer" =>
              /\ ActorPath(d) = <<t>> \o <<i>> \o (<<"method", "timer">> \o d.names[3])
              /\ ActorVerb(d) = "PUT"
         /\ d.kind = "actor-reminder" =>
              /\ ActorPath(d) = <<t>> \o <<i>> \o (<<"method", "remind">> \o d.names[3])
              /\ ActorVerb(d) = "PUT"
<1>1. d.kind = "actor-deactivate" => ActorPath(d) = <<t, i>>
  <2>1. d.kind = "actor-deactivate" => ActorPath(d) = <<t>> \o <<i>> \o <<>>
    BY DEF ActorPath
  <2>2. <<t>> \o <<i>> \o <<>> = <<t, i>>
    <3>1. <<t>> \o <<i>> \in Seq({t, i}) /\ <<t>> \o <<i>> = <<t, i>>
      <4>1. t \in {t, i} /\ i \in {t, i}
        OBVIOUS
      <4> QED
        BY <4>1, Few
    <3> QED
      BY <3>1, ConcatEmptySeq
  <2> QED
    BY <2>1, <2>2
<1>2. d.kind = "actor-invoke" =>
        ActorPath(d) = <<t>> \o <<i>> \o (<<"method">> \o d.names[3])
  BY DEF ActorPath
<1>3. d.kind = "actor-timer" =>
        ActorPath(d) = <<t>> \o <<i>> \o (<<"method", "timer">> \o d.names[3])
  BY DEF ActorPath
<1>4. d.kind = "actor-reminder" =>
        ActorPath(d) = <<t>> \o <<i>> \o (<<"method", "remind">> \o d.names[3])
  BY DEF ActorPath
<1>5. ActorVerb(d) = IF d.kind = "actor-deactivate" THEN "DELETE" ELSE "PUT"
  BY DEF ActorVerb
<1> QED
  BY <1>1, <1>2, <1>3, <1>4, <1>5

(* What the router and the go channel make of the segments of an actor.    *)
LEMMA ActorIs ==
  ASSUME NEW r, r.path[1] = "actors", NEW p, Decode(NoEmpty(Tail(r.path))) = p, Len(p) \in Nat
  PROVE  /\ r.method = "DELETE" /\ Len(p) = 2 =>
              Actor(r) = Of("actor-deactivate", None, <<<<p[1]>>, <<p[2]>>>>)
         /\ r.method = "PUT" /\ Len(p) > 3 /\ p[3] = "method" =>
              /\ p[4] = "timer" /\ Len(p) > 4 =>
                   Actor(r) = Of("actor-timer", None, <<<<p[1]>>, <<p[2]>>, <<p[5]>>>>)
              /\ p[4] = "remind" /\ Len(p) > 4 =>
                   Actor(r) = Of("actor-reminder", None, <<<<p[1]>>, <<p[2]>>, <<p[5]>>>>)
              /\ p[4] \notin {"timer", "remind"} \/ ~(Len(p) > 4) =>
                   Actor(r) = Of("actor-invoke", None,
                                 <<<<p[1]>>, <<p[2]>>, SubSeq(p, 4, Len(p))>>)
<1>1. /\ Len(p) = 2 => ~(Len(p) < 2)
      /\ Len(p) > 3 => ~(Len(p) < 2) /\ ~(Len(p) < 4)
      /\ Len(p) > 4 <=> Len(p) >= 5
  BY Lengths
<1>2. Actor(r) =
        IF Len(p) < 2 THEN Unmatched
        ELSE IF r.method = "DELETE" /\ Len(p) = 2
          THEN Of("actor-deactivate", None, <<<<p[1]>>, <<p[2]>>>>)
        ELSE IF Len(p) < 4 \/ p[3] # "method" THEN Unmatched
        ELSE IF p[4] = "timer" /\ Len(p) >= 5
          THEN Of("actor-timer", None, <<<<p[1]>>, <<p[2]>>, <<p[5]>>>>)
        ELSE IF p[4] = "remind" /\ Len(p) >= 5
          THEN Of("actor-reminder", None, <<<<p[1]>>, <<p[2]>>, <<p[5]>>>>)
        ELSE Of("actor-invoke", None, <<<<p[1]>>, <<p[2]>>, SubSeq(p, 4, Len(p))>>)
  BY DEF Actor
<1>3. r.method = "DELETE" /\ Len(p) = 2 =>
        Actor(r) = Of("actor-deactivate", None, <<<<p[1]>>, <<p[2]>>>>)
  BY <1>1, <1>2
<1>4. r.method = "PUT" => r.method # "DELETE"
  OBVIOUS
<1>5. "timer" # "remind"
  OBVIOUS
<1> QED
  BY <1>1, <1>2, <1>3, <1>4, <1>5

LEMMA InvokeActorIs ==
  ASSUME NEW p, Len(p) \in Nat, p[1] # Blank, p[2] # Blank, NEW m, m = SubSeq(p, 4, Len(p))
  PROVE  /\ Len(p) = 2 => InvokeActor("DELETE", p) =
                            Of("actor-deactivate", None, <<<<p[1]>>, <<p[2]>>>>)
         /\ Len(p) > 3 /\ p[3] = "method" /\ m # <<Blank>> =>
              /\ m[1] = "timer" /\ Len(m) > 1 /\ Tail(m) # <<Blank>> =>
                   InvokeActor("PUT", p) = Of("actor-timer", None, <<<<p[1]>>, <<p[2]>>, Tail(m)>>)
              /\ m[1] = "remind" /\ Len(m) > 1 /\ Tail(m) # <<Blank>> =>
                   InvokeActor("PUT", p) = Of("actor-reminder", None, <<<<p[1]>>, <<p[2]>>, Tail(m)>>)
              /\ ~(m[1] \in {"timer", "remind"} /\ Len(m) > 1 /\ Tail(m) # <<Blank>>) =>
                   InvokeActor("PUT", p) = Of("actor-invoke", None, <<<<p[1]>>, <<p[2]>>, m>>)
<1>1. Len(p) > 3 => ~(Len(p) < 4)
  OBVIOUS
<1>2. "DELETE" # "PUT" /\ "timer" # "remind"
  OBVIOUS
<1>3. Len(p) = 2 => InvokeActor("DELETE", p) =
                      Of("actor-deactivate", None, <<<<p[1]>>, <<p[2]>>>>)
  BY DEF InvokeActor
<1>4. Len(p) > 3 /\ p[3] = "method" /\ m # <<Blank>> =>
        InvokeActor("PUT", p) =
          IF m[1] = "timer" /\ Len(m) > 1 /\ Tail(m) # <<Blank>>
            THEN Of("actor-timer", None, <<<<p[1]>>, <<p[2]>>, Tail(m)>>)
          ELSE IF m[1] = "remind" /\ Len(m) > 1 /\ Tail(m) # <<Blank>>
            THEN Of("actor-reminder", None, <<<<p[1]>>, <<p[2]>>, Tail(m)>>)
          ELSE Of("actor-invoke", None, <<<<p[1]>>, <<p[2]>>, m>>)
  BY <1>1, <1>2 DEF InvokeActor
<1> QED
  BY <1>2, <1>3, <1>4

LEMMA RoutesAnActor ==
  ASSUME NEW verb \in {"PUT", "DELETE"}, NEW p \in Seq(Segments),
         \A k \in 1..Len(p) : p[k] # Blank,
         NEW r, r = Request(verb, <<"actors">> \o p), Actor(r) # Unmatched
  PROVE  Route(r) = Actor(r)
<1>1. r.method = verb
  BY Post
<1>2. Probe(r) = Unmatched /\ Verify(r) = Unmatched
  <2>1. r.method # "GET" /\ r.method # "OPTIONS"
    BY <1>1
  <2> QED
    BY <2>1, NotGet, NotOptions
<1>3. Topic(r) = Unmatched /\ Job(r) = Unmatched /\ Configuration(r) = Unmatched
  <2>1. r.method # "POST"
    BY <1>1
  <2> QED
    BY <2>1, NotPost
<1> QED
  BY <1>2, <1>3, RouteOrder

LEMMA Deactivates ==
  ASSUME NEW d \in Deliveries, d.kind = "actor-deactivate", ~Ambiguous(d)
  PROVE  Right(d, Route(Posted(d))) /\ Right(d, CalledByGo(d))
<1>1. d.kind \in ActorKinds
  BY DEF ActorKinds
<1>2. PICK t, i \in Segments :
        /\ t # Blank /\ i # Blank /\ d.names[1] = <<t>> /\ d.names[2] = <<i>>
        /\ d.verb = None /\ ~Paths(d) /\ d.names = <<<<t>>, <<i>>>>
  BY <1>1, ActorFields
<1>3. ActorVerb(d) = "DELETE" /\ ActorPath(d) = <<t, i>>
  BY <1>2, ActorPathIs
<1>4. PICK p \in Seq(Segments) :
        /\ p = <<t, i>> /\ Len(p) = 2 /\ p[1] = t /\ p[2] = i
        /\ \A k \in 1..Len(p) : p[k] # Blank
  <2>1. <<t, i>> \in Seq(Segments) /\ Len(<<t, i>>) = 2 /\ <<t, i>>[1] = t /\ <<t, i>>[2] = i
    OBVIOUS
  <2>2. \A k \in 1..2 : k = 1 \/ k = 2
    OBVIOUS
  <2> QED
    BY <1>2, <2>1, <2>2
<1>5. Of("actor-deactivate", None, <<<<p[1]>>, <<p[2]>>>>) = Of(d.kind, d.verb, d.names)
  BY <1>2, <1>4
<1>6. Right(d, Route(Posted(d)))
  <2>1. PICK r : r = Posted(d)
    OBVIOUS
  <2>2. r = Request("DELETE", <<"actors">> \o p)
    BY <1>1, <1>3, <1>4, <2>1, PostedBy
  <2>3. r.method = "DELETE" /\ r.path = Escape(<<"actors">> \o p)
    BY <2>2, Post
  <2>4. r.path[1] = "actors" /\ Decode(NoEmpty(Tail(r.path))) = p
    BY <1>4, <2>3, ActorSegments
  <2>5. Actor(r) = Of("actor-deactivate", None, <<<<p[1]>>, <<p[2]>>>>)
    BY <1>4, <2>3, <2>4, ActorIs
  <2>6. Actor(r) # Unmatched
    BY <2>5, Fields
  <2>7. Route(r) = Actor(r)
    BY <1>4, <2>2, <2>6, RoutesAnActor
  <2> QED
    BY <1>2, <1>5, <2>1, <2>5, <2>7, RightIs
<1>7. Right(d, CalledByGo(d))
  <2>1. CalledByGo(d) = InvokeActor("DELETE", p)
    BY <1>1, <1>3, <1>4 DEF CalledByGo
  <2>2. InvokeActor("DELETE", p) = Of("actor-deactivate", None, <<<<p[1]>>, <<p[2]>>>>)
    BY <1>2, <1>4, InvokeActorIs
  <2> QED
    BY <1>2, <1>5, <2>1, <2>2, RightIs
<1> QED
  BY <1>6, <1>7

LEMMA InvokesActor ==
  ASSUME NEW d \in Deliveries, d.kind = "actor-invoke", ~Ambiguous(d)
  PROVE  /\ (\A k \in DOMAIN d.names[3] : d.names[3][k] # Blank) => Right(d, Route(Posted(d)))
         /\ Right(d, CalledByGo(d))
<1>1. d.kind \in ActorKinds /\ d.kind # "actor-deactivate"
  BY DEF ActorKinds
<1>2. PICK t, i \in Segments :
        /\ t # Blank /\ i # Blank /\ d.names[1] = <<t>> /\ d.names[2] = <<i>>
        /\ d.verb = None /\ ~Paths(d) /\ d.names = <<<<t>>, <<i>>, d.names[3]>>
        /\ d.names[3] \in Seq(Segments) /\ d.names[3] # <<>> /\ d.names[3] # <<Blank>>
  BY <1>1, ActorFields
<1>3. PICK m \in Seq(Segments) : m = d.names[3] /\ m # <<>> /\ m # <<Blank>>
  BY <1>2
<1>4. m[1] \notin {"timer", "remind"} \/ ~(Len(m) > 1) \/ Tail(m) = <<Blank>>
  BY <1>3 DEF Ambiguous
<1>5. PICK c \in Segments : c = "method" /\ c # Blank
  BY EscapingAssumption, Blanks DEF Words
<1>6. PICK p : p = <<t>> \o <<i>> \o (<<c>> \o m)
  OBVIOUS
<1>7. ActorVerb(d) = "PUT" /\ ActorPath(d) = p
  BY <1>2, <1>3, <1>5, <1>6, ActorPathIs
<1>8. /\ p \in Seq(Segments) /\ Len(p) = Len(m) + 3 /\ Len(m) \in Nat /\ Len(m) > 0
      /\ p[1] = t /\ p[2] = i /\ p[3] = c /\ p[4] = m[1]
      /\ \A k \in 1..Len(p) : k \in {1, 2, 3} \/ (k - 3 \in 1..Len(m) /\ p[k] = m[k - 3])
      /\ Len(m) > 1 => Tail(m)[1] = m[2]
      /\ SubSeq(p, 4, Len(p)) = m
  <2>1. m # <<>>
    BY <1>3
  <2> QED
    BY <1>6, <2>1, Calling, SMTT(30)
<1>9. Len(p) \in Nat /\ Len(p) > 3 /\ (Len(p) > 4 => Len(m) > 1)
  BY <1>8
<1>10. Of("actor-invoke", None, <<<<p[1]>>, <<p[2]>>, m>>) = Of(d.kind, d.verb, d.names)
  BY <1>2, <1>3, <1>8
<1>11. ASSUME \A k \in DOMAIN d.names[3] : d.names[3][k] # Blank
       PROVE  Right(d, Route(Posted(d)))
  <2>1. \A k \in 1..Len(m) : m[k] # Blank
    BY <1>3, <1>11, Single
  <2>2. \A k \in 1..Len(p) : p[k] # Blank
    BY <1>2, <1>5, <1>8, <2>1
  <2>3. PICK r : r = Posted(d)
    OBVIOUS
  <2>4. r = Request("PUT", <<"actors">> \o p)
    BY <1>1, <1>7, <2>3, PostedBy
  <2>5. r.method = "PUT" /\ r.path = Escape(<<"actors">> \o p)
    BY <2>4, Post
  <2>6. r.path[1] = "actors" /\ Decode(NoEmpty(Tail(r.path))) = p
    BY <1>8, <2>2, <2>5, ActorSegments
  <2>7. Len(m) > 1 => Tail(m) # <<Blank>>
    <3>1. Len(m) > 1 => 2 \in 1..Len(m)
      BY <1>8
    <3>2. <<Blank>>[1] = Blank
      OBVIOUS
    <3> QED
      BY <1>8, <2>1, <3>1, <3>2
  <2>8. p[4] \notin {"timer", "remind"} \/ ~(Len(p) > 4)
    BY <1>4, <1>8, <1>9, <2>7
  <2>9. Actor(r) = Of("actor-invoke", None, <<<<p[1]>>, <<p[2]>>, SubSeq(p, 4, Len(p))>>)
    <3>1. p[3] = "method"
      BY <1>5, <1>8
    <3> QED
      BY <1>9, <2>5, <2>6, <2>8, <3>1, ActorIs
  <2>10. Actor(r) # Unmatched
    BY <2>9, Fields
  <2>11. Route(r) = Actor(r)
    BY <1>8, <2>2, <2>4, <2>10, RoutesAnActor
  <2> QED
    BY <1>2, <1>8, <1>10, <2>3, <2>9, <2>11, RightIs
<1>12. Right(d, CalledByGo(d))
  <2>1. CalledByGo(d) = InvokeActor("PUT", p)
    BY <1>1, <1>7 DEF CalledByGo
  <2>2. ~(m[1] \in {"timer", "remind"} /\ Len(m) > 1 /\ Tail(m) # <<Blank>>)
    BY <1>4
  <2>3. InvokeActor("PUT", p) = Of("actor-invoke", None, <<<<p[1]>>, <<p[2]>>, m>>)
    BY <1>2, <1>3, <1>5, <1>8, <1>9, <2>2, InvokeActorIs
  <2> QED
    BY <1>2, <1>10, <2>1, <2>3, RightIs
<1> QED
  BY <1>11, <1>12

LEMMA FiresOfActor ==
  ASSUME NEW d \in Deliveries, d.kind \in {"actor-timer", "actor-reminder"}, ~Ambiguous(d)
  PROVE  /\ ~(Len(d.names[3]) > 1) => Right(d, Route(Posted(d)))
         /\ Right(d, CalledByGo(d))
<1>1. d.kind \in ActorKinds /\ d.kind # "actor-deactivate"
  BY DEF ActorKinds
<1>2. PICK t, i \in Segments :
        /\ t # Blank /\ i # Blank /\ d.names[1] = <<t>> /\ d.names[2] = <<i>>
        /\ d.verb = None /\ ~Paths(d) /\ d.names = <<<<t>>, <<i>>, d.names[3]>>
        /\ d.names[3] \in Seq(Segments) /\ d.names[3] # <<>> /\ d.names[3] # <<Blank>>
  BY <1>1, ActorFields
<1>3. PICK x \in Seq(Segments) : x = d.names[3] /\ x # <<>> /\ x # <<Blank>>
  BY <1>2
<1>4. PICK w \in Segments :
        w = (IF d.kind = "actor-timer" THEN "timer" ELSE "remind") /\ w # Blank
  BY EscapingAssumption, Blanks DEF Words
<1>5. PICK c \in Segments : c = "method" /\ c # Blank
  BY EscapingAssumption, Blanks DEF Words
<1>6. PICK m \in Seq(Segments) :
        /\ m = <<w>> \o x /\ Len(m) = Len(x) + 1 /\ m[1] = w
        /\ \A k \in 1..Len(x) : m[k + 1] = x[k]
  <2> DEFINE q == <<w>> \o x
  <2>1. /\ q \in Seq(Segments) /\ Len(q) = Len(x) + 1 /\ q[1] = w
        /\ \A k \in 1..Len(x) : q[k + 1] = x[k]
    BY Prefix
  <2>2. q = <<w>> \o x
    OBVIOUS
  <2> HIDE DEF q
  <2> QED
    BY <2>1, <2>2
<1>7. Tail(m) = x /\ Len(x) \in Nat /\ Len(x) > 0
  <2>1. Len(x) \in Nat /\ Len(x) > 0
    BY <1>3, EmptySeq
  <2>2. m # <<>>
    BY <1>6, <2>1
  <2>3. Tail(m) \in Seq(Segments) /\ Len(Tail(m)) = Len(m) - 1
        /\ \A k \in 1..Len(Tail(m)) : Tail(m)[k] = m[k + 1]
    BY <2>2, HeadTailProperties
  <2>4. Len(Tail(m)) = Len(x)
    BY <1>6, <2>1, <2>3
  <2> QED
    BY <1>6, <2>1, <2>3, <2>4, SeqEqual
<1>8. PICK p : p = <<t>> \o <<i>> \o (<<c>> \o m)
  OBVIOUS
<1>9. ActorVerb(d) = "PUT" /\ ActorPath(d) = p
  <2>1. <<c, w>> \o x = <<c>> \o m
    <3>1. <<c>> \in Seq(Segments) /\ <<w>> \in Seq(Segments)
      OBVIOUS
    <3>2. <<c>> \o <<w>> = <<c, w>>
      BY Pair, Zenon
    <3>3. (<<c>> \o <<w>>) \o x = <<c>> \o (<<w>> \o x)
      BY <3>1, ConcatAssociative
    <3> QED
      BY <1>6, <3>2, <3>3
  <2>2. CASE d.kind = "actor-timer"
    BY <1>2, <1>3, <1>4, <1>5, <1>8, <2>1, <2>2, ActorPathIs
  <2>3. CASE d.kind = "actor-reminder"
    BY <1>2, <1>3, <1>4, <1>5, <1>8, <2>1, <2>3, ActorPathIs
  <2> QED
    BY <2>2, <2>3
<1>10. /\ p \in Seq(Segments) /\ Len(p) = Len(m) + 3 /\ Len(m) \in Nat
       /\ p[1] = t /\ p[2] = i /\ p[3] = c /\ p[4] = m[1]
       /\ \A k \in 1..Len(p) : k \in {1, 2, 3} \/ (k - 3 \in 1..Len(m) /\ p[k] = m[k - 3])
       /\ Len(m) > 1 => p[5] = m[2]
       /\ SubSeq(p, 4, Len(p)) = m
  <2>1. m # <<>>
    BY <1>6, <1>7
  <2> QED
    BY <1>8, <2>1, Calling, SMTT(30)
<1>11. Len(m) > 1 /\ Len(p) \in Nat /\ Len(p) > 4 /\ Len(p) > 3
  BY <1>6, <1>7, <1>10
<1>12. Of(d.kind, None, <<<<p[1]>>, <<p[2]>>, x>>) = Of(d.kind, d.verb, d.names)
  BY <1>2, <1>3, <1>10
<1>13. ASSUME ~(Len(d.names[3]) > 1)
       PROVE  Right(d, Route(Posted(d)))
  <2>1. Len(x) = 1 /\ x = <<x[1]>>
    BY <1>3, <1>13, Single
  <2>2. p[5] = x[1] /\ x[1] # Blank
    <3>1. m[2] = x[1]
      <4>1. 1 \in 1..Len(x) /\ 1 + 1 = 2
        BY <2>1
      <4> QED
        BY <1>6, <4>1
    <3> QED
      BY <1>3, <1>10, <1>11, <2>1, <3>1
  <2>3. \A k \in 1..Len(m) : m[k] # Blank
    <3>1. \A k \in 1..Len(m) : k = 1 \/ k = 2
      BY <1>6, <2>1
    <3>2. m[2] = p[5]
      BY <1>10, <1>11
    <3> QED
      BY <1>4, <1>6, <2>2, <3>1, <3>2
  <2>4. \A k \in 1..Len(p) : p[k] # Blank
    BY <1>2, <1>5, <1>10, <2>3
  <2>5. PICK r : r = Posted(d)
    OBVIOUS
  <2>6. r = Request("PUT", <<"actors">> \o p)
    BY <1>1, <1>9, <2>5, PostedBy
  <2>7. r.method = "PUT" /\ r.path = Escape(<<"actors">> \o p)
    BY <2>6, Post
  <2>8. r.path[1] = "actors" /\ Decode(NoEmpty(Tail(r.path))) = p
    BY <1>10, <2>4, <2>7, ActorSegments
  <2>9. Actor(r) = Of(d.kind, None, <<<<p[1]>>, <<p[2]>>, <<p[5]>>>>)
    <3>1. p[3] = "method" /\ p[4] = w
      BY <1>5, <1>6, <1>10
    <3>2. CASE d.kind = "actor-timer"
      BY <1>4, <1>11, <2>7, <2>8, <3>1, <3>2, ActorIs
    <3>3. CASE d.kind = "actor-reminder"
      BY <1>4, <1>11, <2>7, <2>8, <3>1, <3>3, ActorIs
    <3> QED
      BY <3>2, <3>3
  <2>10. Actor(r) # Unmatched
    <3>1. d.kind # "none"
      OBVIOUS
    <3> QED
      BY <2>9, <3>1, Fields
  <2>11. Route(r) = Actor(r)
    BY <1>10, <2>4, <2>6, <2>10, RoutesAnActor
  <2> QED
    BY <1>2, <1>12, <2>1, <2>2, <2>5, <2>9, <2>11, RightIs
<1>14. Right(d, CalledByGo(d))
  <2>1. CalledByGo(d) = InvokeActor("PUT", p)
    BY <1>1, <1>9 DEF CalledByGo
  <2>2. m # <<Blank>>
    <3>1. Len(<<Blank>>) = 1
      OBVIOUS
    <3>2. Len(m) # 1
      BY <1>11, Single
    <3> QED
      BY <3>1, <3>2, Zenon
  <2>3. p[3] = "method" /\ m[1] = w /\ Tail(m) = x /\ x # <<Blank>>
    BY <1>3, <1>5, <1>6, <1>7, <1>10
  <2>4. InvokeActor("PUT", p) = Of(d.kind, None, <<<<p[1]>>, <<p[2]>>, x>>)
    <3>1. p[1] # Blank /\ p[2] # Blank /\ m = SubSeq(p, 4, Len(p))
      BY <1>2, <1>10
    <3>2. /\ m[1] = "timer" =>
               InvokeActor("PUT", p) = Of("actor-timer", None, <<<<p[1]>>, <<p[2]>>, Tail(m)>>)
          /\ m[1] = "remind" =>
               InvokeActor("PUT", p) = Of("actor-reminder", None, <<<<p[1]>>, <<p[2]>>, Tail(m)>>)
      BY <1>11, <2>2, <2>3, <3>1, InvokeActorIs
    <3>3. CASE d.kind = "actor-timer"
      BY <1>4, <2>3, <3>2, <3>3
    <3>4. CASE d.kind = "actor-reminder"
      BY <1>4, <2>3, <3>2, <3>4
    <3> QED
      BY <3>3, <3>4
  <2> QED
    BY <1>2, <1>12, <2>1, <2>4, RightIs
<1> QED
  BY <1>13, <1>14

-----------------------------------------------------------------------------
(* Every family.                                                           *)

LEMMA OfBindings ==
  ASSUME NEW d \in BindingDeliveries(Bindings)
  PROVE  /\ d.kind = "binding" /\ d.verb = None /\ ~Paths(d)
         /\ d.names = <<d.names[1]>> /\ d.names[1] \in Bindings
<1>1. PICK b \in Bindings : d = Of("binding", None, <<b>>)
  BY DEF BindingDeliveries
<1>2. d.kind = "binding" /\ d.verb = None /\ d.names = <<b>>
  BY <1>1, Fields
<1> QED
  BY <1>2 DEF Paths

(* No topic event is mistaken.                                             *)
LEMMA TopicsAreNot ==
  ASSUME NEW d, Paths(d), family \in Families
  PROVE  ~Mistaken(d)
<1>1. d.kind \notin ActorKinds \cup {"invoke", "configuration", "binding"}
  BY DEF Paths, ActorKinds
<1>2. family \in {"http", "grpc", "go"}
  BY InboundAssumption
<1>3. CASE family = "http"
  BY <1>1, <1>3 DEF Mistaken, ActorKinds
<1>4. CASE family = "grpc"
  BY <1>4 DEF Mistaken
<1>5. CASE family = "go"
  BY <1>1, <1>5 DEF Mistaken
<1> QED
  BY <1>2, <1>3, <1>4, <1>5

LEMMA ReachesByHttp ==
  ASSUME family = "http", table = Table, NEW d \in AllDeliveries, ~Mistaken(d)
  PROVE  Right(d, Route(Posted(d)))
<1>1. CASE d \in TopicDeliveries
  BY <1>1, RoutesTopics
<1>2. CASE d \in BindingDeliveries(Bindings)
  <2>1. d.kind = "binding" /\ d.verb = None /\ ~Paths(d) /\ d.names = <<d.names[1]>>
    BY <1>2, OfBindings
  <2>2. /\ d.names[1] \in Declared /\ d.names[1][1] # Blank
        /\ Escape(d.names[1]) = d.names[1] /\ ~Prefixed("POST", d.names[1])
    BY <2>1 DEF Mistaken
  <2>3. Posted(d) = Request("POST", d.names[1])
    BY <2>1, PostedBy
  <2>4. Route(Posted(d)) = Of("binding", None, <<d.names[1]>>)
    BY <2>2, <2>3, RoutesBindings
  <2> QED
    BY <2>1, <2>4, RightIs
<1>3. CASE d \in Deliveries
  <2>1. CASE d.kind \in {"health", "actor-config"}
    BY <1>3, <2>1, RoutesProbes
  <2>2. CASE d.kind = "job"
    BY <1>3, <2>2, RoutesJobs
  <2>3. CASE d.kind = "configuration"
    <3>1. ~(Len(d.names[1]) > 1) /\ d.names[1] # <<Blank>>
      BY <2>3 DEF Mistaken
    <3>2. d.names[1] \in Seq(Segments) /\ d.names[1] # <<>>
      BY <1>3, <2>3, OfNames DEF Name
    <3>3. Len(d.names[1]) = 1
      BY <3>1, <3>2, Single
    <3> QED
      BY <1>3, <2>3, <3>1, <3>3, RoutesConfiguration
  <2>4. CASE d.kind = "invoke"
    <3>1. /\ IsClean(d.names[1]) /\ Escape(d.names[1]) = d.names[1]
          /\ ~Reserved(d.verb, d.names[1])
      BY <2>4 DEF Mistaken
    <3> QED
      BY <1>3, <2>4, <3>1, RoutesInvocations
  <2>5. CASE d.kind \in ActorKinds
    <3>1. ~Ambiguous(d)
      BY <2>5 DEF Mistaken
    <3>2. d.kind \in {"actor-deactivate", "actor-invoke", "actor-timer", "actor-reminder"}
      BY <2>5 DEF ActorKinds
    <3>3. CASE d.kind = "actor-deactivate"
      BY <1>3, <3>1, <3>3, Deactivates
    <3>4. CASE d.kind = "actor-invoke"
      <4>1. \A k \in DOMAIN d.names[3] : d.names[3][k] # Blank
        BY <2>5, <3>4 DEF Mistaken
      <4> QED
        BY <1>3, <3>1, <3>4, <4>1, InvokesActor
    <3>5. CASE d.kind \in {"actor-timer", "actor-reminder"}
      <4>1. ~(Len(d.names[3]) > 1)
        BY <3>5 DEF Mistaken
      <4> QED
        BY <1>3, <3>1, <3>5, <4>1, FiresOfActor
    <3> QED
      BY <3>2, <3>3, <3>4, <3>5
  <2> QED
    BY <1>3, <2>1, <2>2, <2>3, <2>4, <2>5, OfNames
<1> QED
  BY <1>1, <1>2, <1>3 DEF AllDeliveries

LEMMA PathStays ==
  ASSUME NEW d, d.path # None, d.path.slashes = 1
  PROVE  NonEmpty(d.path) = d.path
<1>1. d.path # [slashes |-> 0, name |-> <<Blank>>]
  <2>1. [slashes |-> 0, name |-> <<Blank>>].slashes # 1
    OBVIOUS
  <2> QED
    BY <2>1
<1> QED
  BY <1>1 DEF NonEmpty

LEMMA KeepsTopic ==
  ASSUME NEW d \in TopicDeliveries
  PROVE  Right(d, [d EXCEPT !.names = <<>>, !.path = NonEmpty(d.path)])
<1> DEFINE e == [d EXCEPT !.names = <<>>, !.path = NonEmpty(d.path)]
<1>1. PICK i \in DOMAIN Subscriptions : \E p \in Subscriptions[i].routes :
        d = [Of(IF Subscriptions[i].bulk = "on" THEN "bulk" ELSE "topic", None, <<i>>)
             EXCEPT !.path = p]
  BY DEF TopicDeliveries
<1>2. d = [kind |-> d.kind, verb |-> d.verb, names |-> d.names, path |-> d.path]
  BY <1>1 DEF Of
<1>3. e.kind = d.kind /\ e.verb = d.verb /\ e.path = NonEmpty(d.path)
  BY <1>2
<1>4. Paths(d)
  BY OfTopics DEF Paths
<1> QED
  BY <1>3, <1>4, PathStays DEF Right

LEMMA KeepsAsItIs ==
  ASSUME NEW d
  PROVE  Right(d, d)
BY DEF Right

LEMMA KindOfTopics ==
  ASSUME NEW d \in AllDeliveries
  PROVE  Paths(d) <=> d \in TopicDeliveries
BY OfTopics, OfNames, OfBindings DEF AllDeliveries, Paths

LEMMA ReachesByGrpc ==
  ASSUME NEW d \in AllDeliveries
  PROVE  Right(d, CalledByGrpc(d))
<1>1. CASE Paths(d)
  BY <1>1, KindOfTopics, KeepsTopic DEF CalledByGrpc, Paths
<1>2. CASE ~Paths(d)
  BY <1>2, KeepsAsItIs DEF CalledByGrpc, Paths
<1> QED
  BY <1>1, <1>2

LEMMA ReachesByGo ==
  ASSUME family = "go", NEW d \in AllDeliveries, ~Mistaken(d)
  PROVE  Right(d, CalledByGo(d))
<1>1. CASE Paths(d)
  <2>1. d.kind \notin ActorKinds /\ d.kind # "invoke"
    BY <1>1 DEF Paths, ActorKinds
  <2> QED
    BY <1>1, <2>1, KindOfTopics, KeepsTopic DEF CalledByGo, Paths
<1>2. CASE d.kind \in ActorKinds
  <2>1. ~Ambiguous(d)
    BY <1>2 DEF Mistaken
  <2>2. d \in Deliveries
    BY <1>2, KindOfTopics, OfBindings DEF AllDeliveries, ActorKinds, Paths
  <2>3. d.kind \in {"actor-deactivate", "actor-invoke", "actor-timer", "actor-reminder"}
    BY <1>2 DEF ActorKinds
  <2> QED
    BY <2>1, <2>2, <2>3, Deactivates, InvokesActor, FiresOfActor
<1>3. CASE d.kind = "invoke"
  <2>1. d \in Deliveries
    BY <1>3, KindOfTopics, OfBindings DEF AllDeliveries, Paths
  <2>2. IsClean(d.names[1])
    BY <1>3 DEF Mistaken
  <2>3. d.names = <<d.names[1]>> /\ ~Paths(d)
    BY <1>3, <2>1, OfNames
  <2>4. CalledByGo(d) = Of("invoke", d.verb, <<d.names[1]>>)
    <3>1. d.kind \notin ActorKinds
      BY <1>3 DEF ActorKinds
    <3> QED
      BY <1>3, <2>2, <3>1 DEF CalledByGo, Invoked, Clean
  <2> QED
    BY <1>3, <2>3, <2>4, RightIs
<1>4. CASE d.kind \notin ActorKinds /\ d.kind # "invoke" /\ ~Paths(d)
  BY <1>4, KeepsAsItIs DEF CalledByGo, Paths
<1> QED
  BY <1>1, <1>2, <1>3, <1>4

(* Whichever the family, and whatever the names.                           *)
LEMMA Reaches ==
  ASSUME family \in Families, family = "http" => table = Table,
         NEW d \in AllDeliveries, ~Mistaken(d)
  PROVE  Right(d, Called(d))
<1>1. family \in {"http", "grpc", "go"}
  BY InboundAssumption
<1>2. CASE family = "http"
  BY <1>2, ReachesByHttp DEF Called
<1>3. CASE family = "grpc"
  BY <1>3, ReachesByGrpc DEF Called
<1>4. CASE family = "go"
  BY <1>4, ReachesByGo DEF Called
<1> QED
  BY <1>1, <1>2, <1>3, <1>4

-----------------------------------------------------------------------------
(* The invariant.                                                          *)

Replies == Statuses \cup {"ok", "error", "2xx", "other"}

LEMMA AnswersAre ==
  ASSUME NEW kind, NEW a \in Answers(kind)
  PROVE  \E ps \in SUBSET Entries : a \in [ps -> Replies]
<1>1. {1} \in SUBSET Entries
  BY DEF Entries
<1>2. CASE kind = "topic"
  <2>1. a \in [{1} -> Statuses]
    BY <1>2 DEF Answers
  <2>2. a \in [{1} -> Replies]
    BY <2>1 DEF Replies
  <2> QED
    BY <1>1, <2>2
<1>3. CASE kind = "bulk"
  <2>1. PICK ps \in SUBSET Entries : a \in [ps -> Statuses]
    BY <1>3 DEF Answers
  <2>2. a \in [ps -> Replies]
    BY <2>1 DEF Replies
  <2> QED
    BY <2>2
<1>4. CASE kind = "invoke"
  <2>1. a \in [{1} -> {"2xx", "other"}]
    BY <1>4 DEF Answers
  <2>2. a \in [{1} -> Replies]
    BY <2>1 DEF Replies
  <2> QED
    BY <1>1, <2>2
<1>5. CASE kind \in {"actor-config", "configuration", "verify", "subscribe"}
  <2>1. a \in [{1} -> {"ok"}]
    BY <1>5 DEF Answers
  <2>2. a \in [{1} -> Replies]
    BY <2>1 DEF Replies
  <2> QED
    BY <1>1, <2>2
<1>6. CASE kind \notin {"topic", "bulk", "invoke", "actor-config", "configuration", "verify",
                        "subscribe"}
  <2>1. a \in [{1} -> {"ok", "error"}]
    BY <1>6 DEF Answers
  <2>2. a \in [{1} -> Replies]
    BY <2>1 DEF Replies
  <2> QED
    BY <1>1, <2>2
<1> QED
  BY <1>2, <1>3, <1>4, <1>5, <1>6

LEMMA PartsOfEntries ==
  ASSUME NEW kind
  PROVE  Parts(kind) \subseteq Entries
BY DEF Parts, Entries

(* An outcome in which every part is told what the app has said of it, or  *)
(* that it is not known.                                                   *)
LEMMA Replied ==
  ASSUME NEW kind, NEW a \in Answers(kind)
  PROVE  /\ a \in OfParts(Outcomes) /\ Reply(kind, a) \in OfParts(Outcomes)
         /\ DOMAIN Reply(kind, a) = Parts(kind)
         /\ \A p \in Parts(kind) : \/ Reply(kind, a)[p] \in {"retry", "error"}
                                   \/ p \in DOMAIN a /\ Reply(kind, a)[p] = a[p]
<1>1. PICK ps \in SUBSET Entries : a \in [ps -> Replies]
  BY AnswersAre
<1>2. Replies \subseteq Outcomes
  BY DEF Replies, Outcomes
<1>3. DOMAIN a = ps /\ \A p \in ps : a[p] \in Replies
  BY <1>1
<1>4. a \in [ps -> Outcomes]
  BY <1>1, <1>2
<1> DEFINE o == Reply(kind, a)
<1>5. DOMAIN o = Parts(kind)
  BY DEF Reply
<1>6. \A p \in Parts(kind) : o[p] \in {"retry", "error"} \/ (p \in DOMAIN a /\ o[p] = a[p])
  BY DEF Reply
<1>7. o = [p \in Parts(kind) |-> o[p]]
  BY DEF Reply
<1> HIDE DEF o
<1>8. "retry" \in Outcomes /\ "error" \in Outcomes
  BY DEF Outcomes, Statuses
<1>9. \A p \in Parts(kind) : o[p] \in Outcomes
  BY <1>2, <1>3, <1>6, <1>8
<1>10. o \in [Parts(kind) -> Outcomes]
  BY <1>7, <1>9
<1>11. a \in OfParts(Outcomes) /\ o \in OfParts(Outcomes)
  BY <1>4, <1>10, PartsOfEntries DEF OfParts
<1> QED
  BY <1>5, <1>6, <1>11 DEF o

LEMMA NothingSaid ==
  <<>> \in OfParts(Outcomes) /\ DOMAIN <<>> = {}
<1>1. <<>> \in [{} -> Outcomes]
  OBVIOUS
<1> QED
  BY <1>1 DEF OfParts

LEMMA Started ==
  Init => IInv
<1> SUFFICES ASSUME Init
             PROVE  IInv
  OBVIOUS
<1>1. TypeOK
  BY InboundAssumption, NothingSaid DEF Init, TypeOK
<1>2. AwaitsFirst /\ AllAnswered /\ InHand
  BY DEF Init, AwaitsFirst, AllAnswered, InHand
<1>3. LostOnlyIfSaid
  BY NothingSaid DEF Init, LostOnlyIfSaid
<1> QED
  BY <1>1, <1>2, <1>3 DEF IInv

LEMMA TurnedKeeps ==
  ASSUME IInv, NEW reply \in Outcomes, phase = "sent", Turned(reply),
         reply \in {"drop", "ok"} => malformed # {}, reply \notin {"success", "2xx"}
  PROVE  IInv'
<1>1. /\ outcome' = [p \in Parts(delivery.kind) |-> reply] /\ phase' = "idle"
      /\ UNCHANGED <<family, table, consumed, healthy, delivery, attribute, malformed, event,
                     answer, count>>
  BY DEF Turned, input
<1>2. outcome' \in OfParts(Outcomes) /\ DOMAIN outcome' = Parts(delivery.kind)
      /\ \A p \in DOMAIN outcome' : outcome'[p] = reply
  <2>1. outcome' \in [Parts(delivery.kind) -> Outcomes]
    BY <1>1
  <2> QED
    BY <1>1, <2>1, PartsOfEntries DEF OfParts
<1>3. TypeOK'
  BY <1>1, <1>2 DEF IInv, TypeOK, Table, AllDeliveries, TopicDeliveries
<1>4. AwaitsFirst' /\ AllAnswered'
  BY <1>1, <1>2 DEF AwaitsFirst, AllAnswered
<1>5. InHand'
  BY <1>1 DEF InHand
<1>6. LostOnlyIfSaid'
  BY <1>1, <1>2 DEF LostOnlyIfSaid
<1> QED
  BY <1>3, <1>4, <1>5, <1>6 DEF IInv

(* What a step leaves alone keeps its part of the invariant.               *)
LEMMA Unchanged ==
  ASSUME IInv, UNCHANGED vars
  PROVE  IInv'
<1>1. UNCHANGED <<family, table, consumed, healthy, phase, delivery, attribute, malformed,
                  event, answer, outcome, count>>
  BY DEF vars, input
<1>2. TypeOK'
  BY <1>1 DEF IInv, TypeOK, Table
<1>3. AwaitsFirst' /\ AllAnswered' /\ LostOnlyIfSaid'
  BY <1>1 DEF IInv, AwaitsFirst, AllAnswered, LostOnlyIfSaid
<1>4. InHand'
  <2>1. phase' = "called" => event' = Called(delivery)'
    <3>1. Called(delivery)' = Called(delivery)
      BY <1>1 DEF Called, Posted, CalledByGrpc, CalledByGo, Route, Topic
    <3> QED
      BY <1>1, <3>1 DEF IInv, InHand
  <2> QED
    BY <1>1, <2>1 DEF IInv, InHand
<1> QED
  BY <1>2, <1>3, <1>4 DEF IInv

LEMMA SubscribeKeeps ==
  ASSUME IInv, Subscribe
  PROVE  IInv'
<1>1. /\ phase = "start" /\ phase' = "subscribed" /\ table' = Table
      /\ UNCHANGED <<family, consumed, healthy, delivery, attribute, malformed,
                     event, answer, outcome, count>>
  BY DEF Subscribe, input
<1>2. TypeOK'
  BY <1>1 DEF IInv, TypeOK, Table
<1>3. AwaitsFirst' /\ AllAnswered' /\ InHand' /\ LostOnlyIfSaid'
  BY <1>1 DEF IInv, AwaitsFirst, AllAnswered, InHand, LostOnlyIfSaid
<1> QED
  BY <1>2, <1>3 DEF IInv

LEMMA VerifiesKeeps ==
  ASSUME IInv, Verifies
  PROVE  IInv'
<1>1. /\ phase = "subscribed" /\ phase' = "idle" /\ consumed' \subseteq Bindings
      /\ UNCHANGED <<family, table, healthy, delivery, attribute, malformed,
                     event, answer, outcome, count>>
  <2>1. consumed' \subseteq Bindings
    <3>1. CASE family = "http"
      <4> DEFINE verified == {b \in Bindings : Route(Request("OPTIONS", b)).kind = "verify"}
      <4>1. \E others \in SUBSET (Bindings \ verified) : consumed' = verified \cup others
        BY <3>1 DEF Verifies
      <4>2. verified \subseteq Bindings
        OBVIOUS
      <4> HIDE DEF verified
      <4> QED
        BY <4>1, <4>2
    <3>2. CASE family # "http"
      BY <3>2, InboundAssumption DEF Verifies
    <3> QED
      BY <3>1, <3>2
  <2> QED
    BY <2>1 DEF Verifies, input
<1>2. delivery = Unmatched
  BY <1>1 DEF IInv, AwaitsFirst
<1>3. TypeOK'
  BY <1>1 DEF IInv, TypeOK, Table
<1>4. AwaitsFirst' /\ AllAnswered' /\ InHand' /\ LostOnlyIfSaid'
  BY <1>1, <1>2 DEF IInv, AwaitsFirst, AllAnswered, InHand, LostOnlyIfSaid
<1> QED
  BY <1>3, <1>4 DEF IInv

LEMMA SendKeeps ==
  ASSUME IInv, Send
  PROVE  IInv'
<1>1. /\ phase = "idle" /\ phase' = "sent" /\ count < MaxDeliveries /\ count' = count + 1
      /\ delivery' \in Deliveries \cup TopicDeliveries \cup BindingDeliveries(consumed)
      /\ malformed' \in SUBSET Parsed(delivery')
      /\ attribute' \in IF Parsed(delivery') = {} THEN {None} ELSE Attributes
      /\ event' = Unmatched /\ answer' = <<>> /\ outcome' = <<>>
      /\ UNCHANGED <<family, table, consumed, healthy>>
  BY DEF Send
<1>2. delivery' \in AllDeliveries
  <2>1. BindingDeliveries(consumed) \subseteq BindingDeliveries(Bindings)
    BY DEF IInv, TypeOK, BindingDeliveries
  <2> QED
    BY <1>1, <2>1 DEF AllDeliveries
<1>3. malformed' \subseteq Entries
  <2>1. \A d : Parsed(d) \subseteq Entries
    BY DEF Parsed, Entries
  <2> QED
    BY <1>1, <2>1
<1>4. attribute' \in Attributes \cup {None}
  BY <1>1
<1>5. count' \in 0..MaxDeliveries
  BY <1>1, InboundAssumption DEF IInv, TypeOK
<1>6. TypeOK'
  BY <1>1, <1>2, <1>3, <1>4, <1>5, NothingSaid DEF IInv, TypeOK, Table, AllDeliveries,
     TopicDeliveries
<1>7. AwaitsFirst' /\ AllAnswered' /\ InHand'
  BY <1>1, <1>2 DEF AwaitsFirst, AllAnswered, InHand, AllDeliveries, TopicDeliveries
<1>8. LostOnlyIfSaid'
  BY <1>1, NothingSaid DEF LostOnlyIfSaid
<1> QED
  BY <1>6, <1>7, <1>8 DEF IInv

LEMMA DeliverKeeps ==
  ASSUME IInv, Deliver
  PROVE  IInv'
<1>1. /\ phase = "sent" /\ phase' = "called" /\ event' = Called(delivery)
      /\ UNCHANGED <<family, table, consumed, healthy, delivery, attribute, malformed,
                     answer, outcome, count>>
  BY DEF Deliver, input
<1>2. TypeOK'
  BY <1>1 DEF IInv, TypeOK, Table
<1>3. AwaitsFirst' /\ AllAnswered' /\ LostOnlyIfSaid'
  BY <1>1 DEF IInv, AwaitsFirst, AllAnswered, LostOnlyIfSaid
<1>4. InHand'
  <2>1. Called(delivery)' = Called(delivery)
    BY <1>1 DEF Called, Posted, CalledByGrpc, CalledByGo, Route, Topic
  <2> QED
    BY <1>1, <2>1 DEF IInv, InHand
<1> QED
  BY <1>2, <1>3, <1>4 DEF IInv

LEMMA AnswerKeeps ==
  ASSUME IInv, Answer
  PROVE  IInv'
<1>1. PICK a \in Answers(event.kind) :
        /\ answer' = a /\ outcome' = Reply(event.kind, a)
        /\ healthy' = IF event.kind = "health" THEN a[1] = "ok" ELSE healthy
  BY DEF Answer
<1>2. /\ phase' = "idle"
      /\ UNCHANGED <<family, table, consumed, delivery, attribute, malformed, event, count>>
  BY DEF Answer, input
<1>3. phase = "called"
  BY DEF Answer
<1>4. /\ a \in OfParts(Outcomes) /\ Reply(event.kind, a) \in OfParts(Outcomes)
      /\ DOMAIN Reply(event.kind, a) = Parts(event.kind)
      /\ \A p \in Parts(event.kind) :
           \/ Reply(event.kind, a)[p] \in {"retry", "error"}
           \/ p \in DOMAIN a /\ Reply(event.kind, a)[p] = a[p]
  BY Replied
<1>5. healthy' \in BOOLEAN
  <2>1. healthy \in BOOLEAN
    BY DEF IInv, TypeOK
  <2> QED
    BY <1>1, <2>1, Zenon
<1>6. TypeOK'
  BY <1>1, <1>2, <1>3, <1>4, <1>5 DEF IInv, TypeOK, Table
<1>7. AwaitsFirst' /\ AllAnswered' /\ InHand'
  BY <1>1, <1>2, <1>3, <1>4 DEF AwaitsFirst, AllAnswered, InHand
<1>8. LostOnlyIfSaid'
  BY <1>1, <1>2, <1>4 DEF LostOnlyIfSaid
<1> QED
  BY <1>6, <1>7, <1>8 DEF IInv

LEMMA EveryStepKeeps ==
  IInv /\ [Next]_vars => IInv'
<1> SUFFICES ASSUME IInv, [Next]_vars
             PROVE  IInv'
  OBVIOUS
<1>0. /\ "unimplemented" \in Outcomes /\ "unhealthy" \in Outcomes
      /\ "drop" \in Outcomes /\ "ok" \in Outcomes
  BY DEF Outcomes, Statuses
<1>1. CASE Subscribe
  BY <1>1, SubscribeKeeps
<1>2. CASE Verifies
  BY <1>2, VerifiesKeeps
<1>3. CASE Send
  BY <1>3, SendKeeps
<1>4. CASE Unserved
  BY <1>0, <1>4, TurnedKeeps DEF Unserved
<1>5. CASE Unhealthy
  BY <1>0, <1>5, TurnedKeeps DEF Unhealthy
<1>6. CASE Unparsed
  <2>1. PICK reply \in {"ok", "drop"} : Turned(reply)
    BY <1>6 DEF Unparsed
  <2> QED
    BY <1>0, <1>6, <2>1, TurnedKeeps DEF Unparsed
<1>7. CASE Deliver
  BY <1>7, DeliverKeeps
<1>8. CASE Answer
  BY <1>8, AnswerKeeps
<1>9. CASE UNCHANGED vars
  BY <1>9, Unchanged
<1> QED
  BY <1>1, <1>2, <1>3, <1>4, <1>5, <1>6, <1>7, <1>8, <1>9 DEF Next

-----------------------------------------------------------------------------
(* The theorems.                                                           *)

(* The invariant holds of any deliveries, whatever their names: of every   *)
(* part of one Dapr has an outcome before it sends the next one.           *)
THEOREM InboundInvariant == Spec => []IInv
<1>1. Init => IInv
  BY Started
<1>2. IInv /\ [Next]_vars => IInv'
  BY EveryStepKeeps
<1> QED
  BY <1>1, <1>2, PTL DEF Spec

(* Every delivery becomes a call of its own callback with its own names,   *)
(* but for those that Mistaken lists, for all names and escapings.         *)
THEOREM DeliveriesReachTheirCallback == Spec => []ReachesItsCallback
<1>1. IInv => ReachesItsCallback
  <2> SUFFICES ASSUME IInv, phase = "called", ~Mistaken(delivery)
               PROVE  /\ event.kind = delivery.kind /\ event.verb = delivery.verb
                      /\ ~Paths(delivery) => event.names = delivery.names
    BY DEF ReachesItsCallback
  <2>1. /\ family \in Families /\ table = Table
        /\ delivery \in AllDeliveries /\ event = Called(delivery)
    BY DEF IInv, TypeOK, InHand
  <2>2. Right(delivery, Called(delivery))
    BY <2>1, Reaches
  <2> QED
    BY <2>1, <2>2 DEF Right
<1> QED
  BY <1>1, InboundInvariant, PTL

(* The path of the rule that selected an event arrives as it was declared, *)
(* for all paths with one leading slash, whatever the envelope says.       *)
THEOREM RulePathsArrive == Spec => []RulePathArrives
<1>1. IInv => RulePathArrives
  <2> SUFFICES ASSUME IInv, phase = "called", Paths(delivery),
                      delivery.path # None, delivery.path.slashes = 1
               PROVE  event.path = delivery.path
    BY DEF RulePathArrives
  <2>1. /\ family \in Families /\ table = Table
        /\ delivery \in AllDeliveries /\ event = Called(delivery)
    BY DEF IInv, TypeOK, InHand
  <2>2. Right(delivery, Called(delivery))
    BY <2>1, TopicsAreNot, Reaches
  <2> QED
    BY <2>1, <2>2 DEF Right
<1> QED
  BY <1>1, InboundInvariant, PTL

(* No event is lost, and none a success, without the app's word.           *)
THEOREM NothingLostUnsaid == Spec => []LostOnlyIfSaid
<1>1. IInv => LostOnlyIfSaid
  BY DEF IInv
<1> QED
  BY <1>1, InboundInvariant, PTL

=============================================================================
