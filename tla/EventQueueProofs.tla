-------------------------- MODULE EventQueueProofs --------------------------
(***************************************************************************)
(* IInv of EventQueue is inductive for every set of goroutines, of events, *)
(* and every capacity; the safety properties of the queue follow.          *)
(***************************************************************************)
EXTENDS EventQueue, SequenceTheorems, TLAPS

USE ConstantsAssumption

Pending == [event : Event, done : Answer \cup {NoAnswer}]
Entry == [id : 1..nextID, event : Event, answer : Answer]

LEMMA InitInv == Init => IInv
<1> SUFFICES ASSUME Init PROVE IInv
  OBVIOUS
<1>1. \A S : <<>> \in Seq(S) /\ Len(<<>>) = 0
  BY EmptySeq
<1>2. TypeOK
  <2>1. queue \in Seq(1..nextID) /\ pend \in Seq(Pending) /\ log \in Seq(Entry)
        /\ Len(pend) = nextID
    BY <1>1 DEF Init
  <2>2. QED
    <3>1. inflight \subseteq 1..nextID /\ mine \in [Callers -> 0..nextID] /\ cur \in 0..nextID
          /\ nextID \in Nat
      BY DEF Init
    <3>2. QED
      BY <2>1, <3>1 DEF Init, TypeOK, PumpStates, Pending, Entry
<1>3. QED
  BY <1>1, <1>2 DEF Init, IInv, TypeOK, NeverTraps, AttachedFirst, OwnIds, AwaitedInQueue,
     HeldByPump, AnswerOfCallback, OneCallback, InflightExact, Holding, InQueue, Logged

LEMMA ReceiveInv == IInv /\ Receive => IInv'
<1> SUFFICES ASSUME IInv, Receive PROVE IInv'
  OBVIOUS
<1> USE DEF IInv, Receive, events, dapr
<1>1. /\ cur' \in 1..nextID /\ Len(queue) \in Nat \ {0} /\ cur' = queue[1]
      /\ queue' \in Seq(1..nextID) /\ Len(queue') = Len(queue) - 1
      /\ \A n \in 1..Len(queue') : queue'[n] = queue[n + 1]
  <2>1. queue \in Seq(1..nextID) /\ queue # <<>>
    BY DEF TypeOK
  <2>2. QED
    <3>1. /\ Head(queue) \in 1..nextID
          /\ Tail(queue) \in Seq(1..nextID)
          /\ Len(Tail(queue)) = Len(queue) - 1
          /\ \A n \in 1..Len(Tail(queue)) : Tail(queue)[n] = queue[n + 1]
      BY <2>1, HeadTailProperties
    <3>2. Len(queue) \in Nat \ {0}
      BY <2>1, EmptySeq
    <3>3. Head(queue) = queue[1]
      BY <2>1, <3>2
    <3>4. QED
      BY <3>1, <3>2, <3>3
<1>2. TypeOK'
  BY <1>1 DEF TypeOK, PumpStates
<1>3. NeverTraps' /\ AttachedFirst' /\ OwnIds' /\ OneCallback'
  BY DEF NeverTraps, AttachedFirst, OwnIds, OneCallback
<1>4. AwaitedInQueue'
  BY <1>1, SMTT(30) DEF TypeOK, AwaitedInQueue, Holding, InQueue, Logged
<1>5. HeldByPump'
  BY <1>1 DEF TypeOK, AwaitedInQueue, Holding, InQueue, Logged, HeldByPump, InflightExact
<1>6. AnswerOfCallback'
  BY DEF AnswerOfCallback, TypeOK
<1>7. InflightExact'
  BY <1>1 DEF InflightExact, TypeOK
<1>8. QED
  BY <1>2, <1>3, <1>4, <1>5, <1>6, <1>7 DEF IInv
LEMMA AttachInv == IInv /\ Attach => IInv'
<1> SUFFICES ASSUME IInv, Attach PROVE IInv'
  OBVIOUS
<1> USE DEF IInv, Attach, dapr
<1>1. TypeOK'
  BY DEF TypeOK, PumpStates
<1>2. QED
  BY <1>1 DEF NeverTraps, AttachedFirst, OwnIds, AwaitedInQueue, HeldByPump,
     AnswerOfCallback, OneCallback, InflightExact, Holding, InQueue, Logged

(* The id the pump received is still in the map. *)
LEMMA LookupInv == IInv /\ Lookup => IInv'
<1> SUFFICES ASSUME IInv, Lookup PROVE IInv'
  OBVIOUS
<1> USE DEF IInv, Lookup, events, dapr
<1>1. cur \in inflight /\ seen' = pend[cur].event /\ pump' = "callback"
  BY DEF HeldByPump, Holding
<1>2. TypeOK'
  <2>1. pend \in Seq(Pending) /\ cur \in 1..Len(pend)
    BY <1>1 DEF TypeOK, Pending
  <2>2. pend[cur] \in Pending
    BY <2>1, ElementOfSeq
  <2>3. QED
    BY <1>1, <2>2 DEF TypeOK, PumpStates, Pending
<1>3. QED
  BY <1>1, <1>2 DEF NeverTraps, AttachedFirst, OwnIds, AwaitedInQueue, HeldByPump,
     AnswerOfCallback, OneCallback, InflightExact, Holding, InQueue, Logged

(* The log grows by the entry of the held id, which it did not have. *)
LEMMA AppAnswersInv == IInv /\ AppAnswers => IInv'
<1> SUFFICES ASSUME IInv, AppAnswers PROVE IInv'
  OBVIOUS
<1> USE DEF IInv, AppAnswers, events, dapr
<1>1. /\ cur \in 1..nextID /\ seen = pend[cur].event /\ seen \in Event
      /\ cur \in inflight /\ ~Logged(cur)
  <2>1. cur \in 1..nextID /\ seen = pend[cur].event /\ cur \in inflight /\ ~Logged(cur)
    BY DEF HeldByPump, Holding, TypeOK
  <2>2. pend \in Seq(Pending) /\ cur \in 1..Len(pend)
    BY <2>1 DEF TypeOK, Pending
  <2>3. pend[cur] \in Pending
    BY <2>2, ElementOfSeq
  <2>4. QED
    BY <2>1, <2>3 DEF Pending
<1>2. answer' \in Answer /\ answer'.kind = seen.kind
  BY <1>1 DEF Answer, Event
<1> DEFINE entry == [id |-> cur, event |-> seen, answer |-> answer']
<1>3. /\ log' \in Seq(Entry) /\ Len(log) \in Nat /\ Len(log') = Len(log) + 1
      /\ log'[Len(log) + 1] = entry
      /\ \A n \in 1..Len(log) : log'[n] = log[n]
  <2>1. entry \in Entry /\ log \in Seq(Entry) /\ log' = Append(log, entry)
    BY <1>1, <1>2 DEF TypeOK, Entry
  <2>2. QED
    BY <2>1, AppendProperties, LenProperties
<1>4. TypeOK'
  BY <1>2, <1>3 DEF TypeOK, PumpStates, Entry
<1>5. \A i : Logged(i)' <=> Logged(i) \/ i = cur
  BY <1>3 DEF Logged
<1>6. NeverTraps' /\ AttachedFirst' /\ OwnIds'
  BY DEF NeverTraps, AttachedFirst, OwnIds
<1>7. OneCallback'
  BY <1>1, <1>3 DEF OneCallback, Logged
<1>8. AwaitedInQueue'
  BY <1>1, <1>5 DEF AwaitedInQueue, HeldByPump, Holding, InQueue
<1>9. HeldByPump'
  BY <1>1, <1>5 DEF HeldByPump, Holding, InQueue
<1>10. AnswerOfCallback'
  <2>1. \A n \in 1..Len(log') : log'[n].id = cur => log'[n].answer = answer'
    BY <1>1, <1>3 DEF Logged
  <2>2. \A n \in 1..Len(log') : log'[n].event = pend[log'[n].id].event
    BY <1>1, <1>3 DEF AnswerOfCallback
  <2>3. \A i \in 1..nextID : pend[i].done # NoAnswer =>
          \E n \in 1..Len(log') : log'[n].id = i /\ log'[n].answer = pend[i].done
    BY <1>3 DEF AnswerOfCallback
  <2>4. QED
    BY <1>2, <2>1, <2>2, <2>3 DEF AnswerOfCallback
<1>11. InflightExact'
  BY DEF InflightExact
<1>12. QED
  BY <1>4, <1>6, <1>7, <1>8, <1>9, <1>10, <1>11

LEMMA TakeInv == IInv /\ Take => IInv'
<1> SUFFICES ASSUME IInv, Take PROVE IInv'
  OBVIOUS
<1> USE DEF IInv, Take, dapr
<1>1. cur \in inflight /\ pend[cur].event.kind = answer.kind /\ pump' = "send"
  BY DEF HeldByPump, Holding, AnswerOfCallback
<1>2. TypeOK'
  BY <1>1 DEF TypeOK, PumpStates
<1>3. NeverTraps' /\ AttachedFirst' /\ OwnIds' /\ OneCallback'
  BY <1>1 DEF NeverTraps, AttachedFirst, OwnIds, OneCallback
<1>4. AwaitedInQueue'
  BY <1>1 DEF AwaitedInQueue, HeldByPump, Holding, InQueue, Logged
<1>5. HeldByPump'
  BY <1>1 DEF HeldByPump, Holding, InQueue, Logged
<1>6. AnswerOfCallback'
  BY <1>1 DEF AnswerOfCallback
<1>7. InflightExact'
  BY <1>1 DEF InflightExact
<1>8. QED
  BY <1>2, <1>3, <1>4, <1>5, <1>6, <1>7
(* The one write into a done channel: it was empty, its goroutine waits.   *)
LEMMA SendInv == IInv /\ Send => IInv'
<1> SUFFICES ASSUME IInv, Send PROVE IInv'
  OBVIOUS
<1> USE DEF IInv, Send, dapr
<1>1. /\ cur \in 1..nextID /\ cur \notin inflight /\ ~InQueue(cur) /\ Logged(cur)
      /\ answer \in Answer
  BY DEF HeldByPump, Holding, TypeOK, AnswerOfCallback
<1>2. /\ pend' \in Seq(Pending) /\ Len(pend') = nextID
      /\ pend'[cur].done = answer
      /\ \A i \in 1..nextID : pend'[i].event = pend[i].event
      /\ \A i \in 1..nextID : i # cur => pend'[i].done = pend[i].done
  <2>1. pend \in Seq(Pending) /\ cur \in 1..Len(pend) /\ nextID = Len(pend)
    BY <1>1 DEF TypeOK, Pending
  <2>2. \A i \in 1..nextID : pend[i] \in Pending
    BY <2>1, ElementOfSeq
  <2> DEFINE filled == [pend[cur] EXCEPT !.done = answer]
  <2>3. filled \in Pending /\ filled.done = answer /\ filled.event = pend[cur].event
    BY <1>1, <2>2 DEF Pending
  <2>4. pend' = [pend EXCEPT ![cur] = filled]
    BY DEF Send
  <2> HIDE DEF filled
  <2>5. /\ pend' \in Seq(Pending) /\ Len(pend') = Len(pend)
        /\ \A j \in 1..Len(pend) : pend'[j] = IF j = cur THEN filled ELSE pend[j]
    BY <2>1, <2>3, <2>4, ExceptSeq
  <2>6. QED
    BY <1>1, <2>1, <2>3, <2>5
<1>3. TypeOK'
  BY <1>2 DEF TypeOK, PumpStates, Pending
<1>4. NeverTraps' /\ AttachedFirst' /\ OwnIds' /\ OneCallback'
  BY DEF NeverTraps, AttachedFirst, OwnIds, OneCallback
<1>5. AwaitedInQueue'
  BY <1>1 DEF AwaitedInQueue, HeldByPump, Holding, InQueue, Logged
<1>6. HeldByPump'
  BY DEF HeldByPump, Holding
<1>7. AnswerOfCallback'
  <2>1. \A n \in 1..Len(log) : log[n].event = pend'[log[n].id].event
    <3>1. \A n \in 1..Len(log) : log[n] \in Entry
      BY ElementOfSeq DEF TypeOK, Entry
    <3>2. QED
      BY <1>2, <3>1 DEF AnswerOfCallback, Entry
  <2>2. ASSUME NEW i \in 1..nextID, pend'[i].done # NoAnswer
        PROVE  \E n \in 1..Len(log) : log[n].id = i /\ log[n].answer = pend'[i].done
    <3>1. CASE i = cur
      <4>1. PICK n \in 1..Len(log) : log[n].id = cur
        BY <1>1 DEF Logged
      <4>2. log[n].answer = answer
        BY <4>1 DEF AnswerOfCallback
      <4>3. QED
        BY <1>2, <3>1, <4>1, <4>2
    <3>2. CASE i # cur
      BY <1>2, <2>2, <3>2 DEF AnswerOfCallback
    <3>3. QED
      BY <3>1, <3>2
  <2>3. ASSUME NEW g \in Callers, pc[g] = "idle", got[g] \in Answer
        PROVE  mine[g] # 0 /\ pend'[mine[g]].done = got[g]
    <3>1. mine[g] # 0 /\ pend[mine[g]].done = got[g]
      BY <2>3 DEF AnswerOfCallback
    <3>2. mine[g] # cur
      BY <2>3, <3>1 DEF Send
    <3>3. QED
      BY <1>2, <3>1, <3>2 DEF TypeOK
  <2>4. QED
    BY <2>1, <2>2, <2>3 DEF AnswerOfCallback
<1>8. InflightExact'
  <2>1. ASSUME NEW i \in 1..nextID
        PROVE  i \in inflight <=> pend'[i].done = NoAnswer
    BY <1>1, <1>2 DEF InflightExact
  <2>2. QED
    BY <2>1 DEF InflightExact
<1>9. QED
  BY <1>3, <1>4, <1>5, <1>6, <1>7, <1>8

(* Steps of the app's calls that move the pump and callee only. *)
LEMMA CallStepInv ==
  ASSUME IInv, CallStore \/ CallReturns \/ GiveUp
  PROVE  IInv'
<1> USE DEF IInv, CallStore, CallReturns, GiveUp, events, dapr
<1>1. /\ pump \in {"callback", "calling"} /\ pump' \in {"callback", "calling"}
      /\ callee' \in Callers \cup {NoOne}
      /\ UNCHANGED <<attached, nextID, inflight, queue, pend, pc, mine, got,
                     cur, seen, answer, log>>
  BY DEF TypeOK
<1>2. TypeOK'
  BY <1>1 DEF TypeOK, PumpStates
<1>3. QED
  BY <1>1, <1>2 DEF NeverTraps, AttachedFirst, OwnIds, AwaitedInQueue, HeldByPump,
     AnswerOfCallback, OneCallback, InflightExact, Holding, InQueue, Logged
LEMMA RefuseInv ==
  ASSUME IInv, NEW g \in Callers, Refuse(g)
  PROVE  IInv'
<1> USE DEF IInv, Refuse, events, app
<1>1. TypeOK'
  BY DEF TypeOK
<1>2. QED
  BY <1>1 DEF NeverTraps, AttachedFirst, OwnIds, AwaitedInQueue, HeldByPump, TypeOK,
     AnswerOfCallback, OneCallback, InflightExact, Holding, InQueue, Logged

(* The id enters the queue: it was in no place but its goroutine. *)
LEMMA EnqueueInv ==
  ASSUME IInv, NEW g \in Callers, Enqueue(g)
  PROVE  IInv'
<1> USE DEF IInv, Enqueue, app
<1>1. /\ mine[g] \in 1..nextID /\ mine[g] \in inflight /\ ~InQueue(mine[g])
      /\ ~(Holding /\ cur = mine[g]) /\ ~Logged(mine[g])
  BY DEF AwaitedInQueue, TypeOK
<1>2. /\ queue' \in Seq(1..nextID) /\ Len(queue) \in Nat /\ Len(queue') = Len(queue) + 1
      /\ queue'[Len(queue) + 1] = mine[g]
      /\ \A n \in 1..Len(queue) : queue'[n] = queue[n]
  <2>1. queue \in Seq(1..nextID)
    BY DEF TypeOK
  <2>2. QED
    BY <1>1, <2>1, AppendProperties, LenProperties
<1>3. /\ pc'[g] = "wait"
      /\ \A h \in Callers : h # g => pc'[h] = pc[h]
      /\ pc' \in [Callers -> {"idle", "enqueue", "wait"}]
  BY DEF TypeOK
<1>4. TypeOK'
  BY <1>2, <1>3 DEF TypeOK
<1>5. NeverTraps' /\ AttachedFirst' /\ OwnIds' /\ OneCallback'
  BY <1>1, <1>3 DEF NeverTraps, AttachedFirst, OwnIds, OneCallback
<1>6. AwaitedInQueue'
  <2>1. \A i : InQueue(i)' <=> InQueue(i) \/ i = mine[g]
    BY <1>2 DEF InQueue
  <2>2. \A m, n \in 1..Len(queue') : queue'[m] = queue'[n] => m = n
    BY <1>1, <1>2 DEF AwaitedInQueue, InQueue
  <2>3. \A n \in 1..Len(queue') :
          /\ queue'[n] \in inflight
          /\ \E h \in Callers : mine[h] = queue'[n] /\ pc'[h] = "wait"
          /\ ~Logged(queue'[n])
    BY <1>1, <1>2, <1>3 DEF AwaitedInQueue
  <2>4. \A h \in Callers : pc'[h] = "enqueue" =>
          /\ mine[h] \in inflight
          /\ ~InQueue(mine[h])'
          /\ ~(Holding /\ cur = mine[h])
          /\ ~Logged(mine[h])
    BY <1>1, <1>3, <2>1 DEF AwaitedInQueue, OwnIds
  <2>5. QED
    BY <2>2, <2>3, <2>4 DEF AwaitedInQueue, Holding, InQueue, Logged
<1>7. HeldByPump'
  BY <1>1, <1>2, <1>3 DEF HeldByPump, Holding, InQueue, Logged
<1>8. AnswerOfCallback'
  BY <1>3 DEF AnswerOfCallback
<1>9. InflightExact'
  BY <1>2, <1>3 DEF InflightExact, TypeOK
<1>10. QED
  BY <1>4, <1>5, <1>6, <1>7, <1>8, <1>9

LEMMA ReturnInv ==
  ASSUME IInv, NEW g \in Callers, Return(g)
  PROVE  IInv'
<1> USE DEF IInv, Return, events, app
<1>1. /\ mine[g] \in 1..nextID
      /\ pend[mine[g]].done \in Answer
      /\ mine[g] \notin inflight
  <2>1. mine[g] \in 1..nextID
    BY DEF OwnIds, TypeOK
  <2>2. pend[mine[g]] \in Pending
    BY <2>1, ElementOfSeq DEF TypeOK, Pending
  <2>3. QED
    BY <2>1, <2>2 DEF Pending, InflightExact
<1>2. /\ pc'[g] = "idle" /\ got'[g] = pend[mine[g]].done
      /\ \A h \in Callers : h # g => pc'[h] = pc[h] /\ got'[h] = got[h]
  BY DEF TypeOK
<1>3. TypeOK'
  BY <1>1 DEF TypeOK
<1>4. NeverTraps' /\ AttachedFirst' /\ OwnIds' /\ OneCallback'
  BY <1>2 DEF NeverTraps, AttachedFirst, OwnIds, OneCallback
<1>5. AwaitedInQueue'
  BY <1>1, <1>2 DEF AwaitedInQueue, Holding, InQueue, Logged
<1>6. HeldByPump'
  BY <1>1, <1>2 DEF HeldByPump, Holding, InQueue, Logged
<1>7. AnswerOfCallback'
  BY <1>1, <1>2 DEF AnswerOfCallback
<1>8. InflightExact'
  BY <1>1, <1>2 DEF InflightExact, TypeOK
<1>9. QED
  BY <1>3, <1>4, <1>5, <1>6, <1>7, <1>8

(* A fresh id: nothing in the queue, the pump or the log has it. *)
LEMMA EnterInv ==
  ASSUME IInv, NEW g \in Callers, NEW e \in Event, Enter(g, e),
         UNCHANGED <<cur, seen, answer, log>>,
         callee' \in Callers \cup {NoOne},
         pump' = pump \/ (pump = "callback" /\ pump' = "calling")
  PROVE  IInv'
<1> USE DEF IInv
<1>1. /\ nextID \in Nat /\ nextID' = nextID + 1 /\ nextID' \notin 1..nextID
      /\ 1..nextID' = 1..nextID \cup {nextID'}
      /\ inflight' = inflight \cup {nextID'}
      /\ attached /\ pc[g] = "idle" /\ UNCHANGED <<attached, queue>>
  BY DEF TypeOK, Enter
<1>2. /\ pend' \in Seq(Pending) /\ Len(pend') = nextID'
      /\ pend'[nextID'] = [event |-> e, done |-> NoAnswer]
      /\ \A i \in 1..nextID : pend'[i] = pend[i]
  <2>1. pend \in Seq(Pending) /\ Len(pend) = nextID
        /\ pend' = Append(pend, [event |-> e, done |-> NoAnswer])
        /\ [event |-> e, done |-> NoAnswer] \in Pending
    BY DEF TypeOK, Pending, Enter
  <2>2. QED
    BY <1>1, <2>1, AppendProperties
<1>3. /\ mine'[g] = nextID' /\ pc'[g] = "enqueue" /\ got'[g] = NoAnswer
      /\ \A h \in Callers : h # g => /\ mine'[h] = mine[h]
                                    /\ pc'[h] = pc[h]
                                    /\ got'[h] = got[h]
      /\ mine' \in [Callers -> 0..nextID']
      /\ pc' \in [Callers -> {"idle", "enqueue", "wait"}]
      /\ got' \in [Callers -> Answer \cup {NoAnswer, NotAttached}]
  BY <1>1 DEF TypeOK, Enter
<1>4. /\ queue \in Seq(1..nextID') /\ log \in Seq(Entry)'
      /\ Len(queue) \in Nat /\ \A n \in 1..Len(queue) : queue[n] \in 1..nextID
      /\ Len(log) \in Nat /\ \A n \in 1..Len(log) : log[n].id \in 1..nextID
  <2>1. queue \in Seq(1..nextID) /\ log \in Seq(Entry)
    BY DEF TypeOK, Entry
  <2>2. 1..nextID \subseteq 1..nextID' /\ Entry \subseteq Entry'
    BY <1>1 DEF Entry
  <2>3. \A n \in 1..Len(log) : log[n] \in Entry
    BY <2>1, ElementOfSeq
  <2>4. \A n \in 1..Len(queue) : queue[n] \in 1..nextID
    BY <2>1, ElementOfSeq
  <2>5. queue \in Seq(1..nextID') /\ log \in Seq(Entry)'
    BY <2>1, <2>2, SeqMonotonic
  <2>6. QED
    BY <2>1, <2>3, <2>4, <2>5, LenProperties DEF Entry
<1>5. TypeOK'
  <2>2. inflight' \subseteq 1..nextID' /\ cur' \in 0..nextID' /\ nextID' \in Nat
    BY <1>1 DEF TypeOK
  <2>3. QED
    BY <1>1, <1>2, <1>3, <1>4, <2>2 DEF TypeOK, PumpStates, Pending, Entry
<1>6. NeverTraps' /\ AttachedFirst' /\ OneCallback'
  BY <1>1 DEF NeverTraps, AttachedFirst, OneCallback, TypeOK
<1>ids. \A h \in Callers : mine[h] \in Nat /\ mine[h] # nextID' /\ (mine[h] # 0 => mine[h] \in 1..nextID)
  <2>1. \A h \in Callers : mine[h] \in 0..nextID
    BY DEF TypeOK
  <2>2. QED
    BY <1>1, <2>1
<1>7. OwnIds'
  <2>1. nextID' # 0
    BY <1>1
  <2>2. QED
    BY <1>1, <1>3, <1>ids, <2>1 DEF OwnIds
<1>8. AwaitedInQueue'
  <2>1. \A n \in 1..Len(queue) :
          /\ queue[n] \in inflight'
          /\ \E h \in Callers : mine'[h] = queue[n] /\ pc'[h] = "wait"
    <3>1. TAKE n \in 1..Len(queue)
    <3>2. PICK h \in Callers : mine[h] = queue[n] /\ pc[h] = "wait"
      BY DEF AwaitedInQueue
    <3>3. mine'[h] = queue[n] /\ pc'[h] = "wait"
      BY <1>1, <1>3, <3>2
    <3>4. QED
      BY <1>1, <3>3 DEF AwaitedInQueue
  <2>2. \A h \in Callers : h # g /\ pc'[h] = "enqueue" => mine'[h] \in inflight'
          /\ ~InQueue(mine'[h]) /\ ~(Holding /\ cur = mine'[h]) /\ ~Logged(mine'[h])
    BY <1>1, <1>3 DEF AwaitedInQueue
  <2>3. ~InQueue(nextID') /\ ~(Holding /\ cur = nextID') /\ ~Logged(nextID')
    BY <1>1, <1>4 DEF InQueue, Logged, TypeOK
  <2>4. UNCHANGED <<queue, log, cur>> /\ (Holding' <=> Holding)
    BY <1>1 DEF Holding
  <2>5. \A h \in Callers : pc'[h] = "enqueue" => mine'[h] \in inflight'
          /\ ~InQueue(mine'[h]) /\ ~(Holding /\ cur = mine'[h]) /\ ~Logged(mine'[h])
    BY <1>1, <1>3, <2>2, <2>3
  <2>6. QED
    BY <2>1, <2>4, <2>5 DEF AwaitedInQueue, InQueue, Logged
<1>9. HeldByPump'
  <2>1. Holding' <=> Holding
    BY DEF Holding
  <2>2. Holding => cur \in 1..nextID
    BY DEF HeldByPump, TypeOK
  <2>3. QED
    BY <1>1, <1>2, <1>3, <2>1, <2>2 DEF HeldByPump, Holding, InQueue, Logged
<1>10. AnswerOfCallback'
  <2>1. \A i \in 1..nextID' : pend'[i].done # NoAnswer => i \in 1..nextID
    BY <1>1, <1>2
  <2>2. \A h \in Callers : pc'[h] = "idle" => h # g
    BY <1>3
  <2>3. QED
    <3>1. \A n \in 1..Len(log) : log[n].event = pend'[log[n].id].event
      BY <1>2, <1>4 DEF AnswerOfCallback
    <3>2. \A i \in 1..nextID' : pend'[i].done # NoAnswer =>
            \E n \in 1..Len(log) : log[n].id = i /\ log[n].answer = pend'[i].done
      BY <1>2, <2>1 DEF AnswerOfCallback
    <3>3. \A h \in Callers : pc'[h] = "idle" /\ got'[h] \in Answer =>
            mine'[h] # 0 /\ pend'[mine'[h]].done = got'[h]
      BY <1>2, <1>3, <1>ids, <2>2 DEF AnswerOfCallback
    <3>4. pump' \in {"complete", "send"} => pump \in {"complete", "send"}
      OBVIOUS
    <3>5. QED
      BY <3>1, <3>2, <3>3, <3>4 DEF AnswerOfCallback
<1>11. InflightExact'
  <2>1. ASSUME NEW i \in 1..nextID'
        PROVE  i \in inflight' <=> pend'[i].done = NoAnswer /\ ~(pump' = "send" /\ cur = i)
    <3>1. CASE i = nextID'
      BY <1>1, <1>2, <3>1 DEF TypeOK
    <3>2. CASE i \in 1..nextID
      BY <1>1, <1>2, <3>2 DEF InflightExact
    <3>3. QED
      BY <1>1, <3>1, <3>2
  <2>2. \A i \in inflight' : \E h \in Callers : mine'[h] = i /\ pc'[h] # "idle"
    <3>1. TAKE i \in inflight'
    <3>2. CASE i = nextID'
      BY <1>3, <3>2
    <3>3. CASE i \in inflight
      <4>1. PICK h \in Callers : mine[h] = i /\ pc[h] # "idle"
        BY <3>3 DEF InflightExact
      <4>2. QED
        BY <1>1, <1>3, <4>1
    <3>4. QED
      BY <1>1, <3>2, <3>3
  <2>3. Len(queue') <= QueueCap
    BY <1>1 DEF InflightExact
  <2>4. QED
    BY <2>1, <2>2, <2>3 DEF InflightExact
<1>12. QED
  BY <1>5, <1>6, <1>7, <1>8, <1>9, <1>10, <1>11

LEMMA StepInv == IInv /\ [Next]_vars => IInv'
<1> SUFFICES ASSUME IInv, [Next]_vars PROVE IInv'
  OBVIOUS
<1>1. ASSUME NEW g \in Callers, NEW e \in Event, Register(g, e)
      PROVE  IInv'
  BY <1>1, EnterInv DEF Register, app, IInv, TypeOK
<1>2. ASSUME NEW g \in Callers, NEW e \in Event, CallBack(g, e)
      PROVE  IInv'
  BY <1>2, EnterInv DEF CallBack
<1>3. ASSUME NEW g \in Callers, Refuse(g) \/ Enqueue(g) \/ Return(g)
      PROVE  IInv'
  BY <1>3, RefuseInv, EnqueueInv, ReturnInv
<1>4. CASE Attach \/ PumpStep
  BY <1>4, AttachInv, ReceiveInv, LookupInv, TakeInv, SendInv DEF PumpStep
<1>5. CASE AppAnswers \/ CallStore \/ CallReturns \/ GiveUp
  BY <1>5, AppAnswersInv, CallStepInv
<1>6. CASE UNCHANGED vars
  BY <1>6 DEF vars, events, dapr, app, IInv, TypeOK, NeverTraps, AttachedFirst, OwnIds,
     AwaitedInQueue, HeldByPump, AnswerOfCallback, OneCallback, InflightExact, Holding,
     InQueue, Logged
<1>7. QED
  BY <1>1, <1>2, <1>3, <1>4, <1>5, <1>6 DEF Next, WakeUp, CallSelf

(* The inductive invariant holds in every behaviour. *)
THEOREM QueueInvariant == Spec => []IInv
<1>1. QED
  BY InitInv, StepInv, PTL DEF Spec

(* Every variable of the queue, the goroutines and the pump keeps its type. *)
THEOREM QueueTypes == Spec => []TypeOK
<1>1. IInv => TypeOK
  BY DEF IInv
<1>2. QED
  BY <1>1, QueueInvariant, PTL

(* complete-event never meets an unknown id or a result of another case,   *)
(* next-event never meets a missing pending.                               *)
THEOREM QueueNeverTraps == Spec => []NeverTraps
<1>1. IInv => NeverTraps
  BY DEF IInv
<1>2. QED
  BY <1>1, QueueInvariant, PTL

(* A returned Deliver carries the app's answer to its own event. *)
THEOREM QueueOwnAnswer == Spec => []OwnAnswer
<1>1. IInv => OwnAnswer
  <2> SUFFICES ASSUME IInv, NEW g \in Callers, pc[g] = "idle", got[g] \in Answer
               PROVE  \E n \in 1..Len(log) :
                        log[n] = [id |-> mine[g], event |-> pend[mine[g]].event,
                                  answer |-> got[g]]
    BY DEF OwnAnswer
  <2>1. mine[g] \in 1..nextID /\ pend[mine[g]].done = got[g]
    BY DEF IInv, AnswerOfCallback, TypeOK
  <2>2. PICK n \in 1..Len(log) : log[n].id = mine[g] /\ log[n].answer = got[g]
    <3>1. got[g] # NoAnswer
      OBVIOUS
    <3>2. QED
      BY <2>1, <3>1 DEF IInv, AnswerOfCallback
  <2>3. log[n] \in Entry /\ log[n].event = pend[mine[g]].event
    <3>1. log \in Seq(Entry)
      BY DEF IInv, TypeOK, Entry
    <3>2. log[n] \in Entry
      BY <3>1, ElementOfSeq
    <3>3. QED
      BY <2>2, <3>2 DEF IInv, AnswerOfCallback
  <2>4. QED
    BY <2>2, <2>3 DEF Entry
<1>2. QED
  BY <1>1, QueueInvariant, PTL

(* No delivery runs two callbacks. *)
THEOREM QueueOneCallback == Spec => []OneCallback
<1>1. IInv => OneCallback
  BY DEF IInv
<1>2. QED
  BY <1>1, QueueInvariant, PTL

(* The inflight map holds exactly the unanswered deliveries, each awaited  *)
(* by a goroutine.                                                         *)
THEOREM QueueInflightExact == Spec => []InflightExact
<1>1. IInv => InflightExact
  BY DEF IInv
<1>2. QED
  BY <1>1, QueueInvariant, PTL

-----------------------------------------------------------------------------
(* The refinement: every step of the queue is a step of Delivery or leaves *)
(* phase, ask and result of every caller alone.                            *)

Unmoved(g) ==
  PhaseOf(g)' = PhaseOf(g) /\ AskOf(g)' = AskOf(g) /\ ResultOf(g)' = ResultOf(g)

LEMMA Stutter ==
  ASSUME attached' = attached, \A g \in Callers : Unmoved(g)
  PROVE  UNCHANGED Promise!vars
BY DEF Unmoved, Promise!vars

LEMMA InitPromise == Init => Promise!Init
BY DEF Init, Promise!Init, PhaseOf, AskOf, ResultOf, Waiting, Held

LEMMA EnterAsks ==
  ASSUME IInv, IInv', NEW g \in Callers, NEW e \in Event, Enter(g, e),
         UNCHANGED <<cur, seen, answer, log>>,
         pump' = pump \/ (pump = "callback" /\ pump' = "calling")
  PROVE  Promise!Ask(g, e)
<1>1. /\ nextID \in Nat /\ nextID' = nextID + 1
      /\ attached /\ attached' = attached
      /\ pc[g] = "idle" /\ mine'[g] = nextID' /\ pc'[g] = "enqueue" /\ got'[g] = NoAnswer
      /\ \A h \in Callers : h # g => /\ mine'[h] = mine[h]
                                    /\ pc'[h] = pc[h]
                                    /\ got'[h] = got[h]
  BY DEF IInv, TypeOK, Enter
<1>2. /\ pend'[nextID'] = [event |-> e, done |-> NoAnswer]
      /\ \A i \in 1..nextID : pend'[i] = pend[i]
  <2>1. pend \in Seq(Pending) /\ Len(pend) = nextID
        /\ pend' = Append(pend, [event |-> e, done |-> NoAnswer])
        /\ [event |-> e, done |-> NoAnswer] \in Pending
    BY DEF IInv, TypeOK, Pending, Enter
  <2>2. QED
    BY <1>1, <2>1, AppendProperties
<1>3. \A h \in Callers : mine[h] # 0 => mine[h] \in 1..nextID
  BY DEF IInv, TypeOK
<1>4. PhaseOf(g) = "out" /\ PhaseOf(g)' = "asked" /\ AskOf(g)' = e /\ ResultOf(g)' = NoAnswer
  <2>1. cur \in 0..nextID /\ cur' = cur /\ mine'[g] # cur' /\ mine'[g] # 0
    BY <1>1 DEF IInv, TypeOK
  <2>2. QED
    BY <1>1, <1>2, <2>1 DEF PhaseOf, AskOf, ResultOf, Waiting, Held
<1>5. \A h \in Callers : h # g => Unmoved(h)
  <2> SUFFICES ASSUME NEW h \in Callers, h # g PROVE Unmoved(h)
    OBVIOUS
  <2>1. mine'[h] = mine[h] /\ pc'[h] = pc[h] /\ got'[h] = got[h]
        /\ (mine[h] # 0 => pend'[mine[h]] = pend[mine[h]])
        /\ (pc[h] # "idle" => mine[h] # 0)
    BY <1>1, <1>2, <1>3 DEF IInv, OwnIds
  <2>2. PhaseOf(h)' = PhaseOf(h)
    BY <2>1 DEF PhaseOf, Waiting, Held
  <2>3. QED
    BY <2>1, <2>2 DEF Unmoved, AskOf, ResultOf, PhaseOf, Waiting, Held
<1>6. QED
  BY <1>1, <1>4, <1>5 DEF Promise!Ask, Unmoved

(* The owner of a delivery is the only goroutine whose phase moves with it. *)
LEMMA Owner ==
  ASSUME IInv, Holding
  PROVE  \E g \in Callers : /\ mine[g] = cur /\ pc[g] = "wait" /\ Held(g)
                            /\ \A h \in Callers : h # g => ~Held(h)
BY DEF IInv, HeldByPump, OwnIds, Held, Waiting, TypeOK

LEMMA LookupRuns ==
  ASSUME IInv, IInv', Lookup
  PROVE  \E g \in Callers : Promise!Run(g)
<1>1. pump = "lookup" /\ pump' = "callback" /\ Holding
      /\ UNCHANGED <<attached, pend, pc, mine, got, cur, answer>>
  BY DEF Lookup, IInv, NeverTraps, Holding, events, dapr
<1>2. PICK g \in Callers : /\ mine[g] = cur /\ pc[g] = "wait" /\ Held(g)
                          /\ \A h \in Callers : h # g => ~Held(h)
  BY <1>1, Owner
<1>3. pend[cur].done = NoAnswer
  BY <1>1 DEF IInv, HeldByPump
<1>4. PhaseOf(g) = "asked" /\ PhaseOf(g)' = "running" /\ AskOf(g)' = AskOf(g)
      /\ ResultOf(g) = NoAnswer /\ ResultOf(g)' = NoAnswer
  BY <1>1, <1>2, <1>3 DEF PhaseOf, AskOf, ResultOf, Held, Waiting
<1>5. \A h \in Callers : PhaseOf(h) # "running"
  BY <1>1 DEF PhaseOf
<1>6. \A h \in Callers : h # g => Unmoved(h)
  BY <1>1, <1>2 DEF Unmoved, PhaseOf, AskOf, ResultOf, Held, Waiting
<1>7. QED
  BY <1>1, <1>4, <1>5, <1>6 DEF Promise!Run, Unmoved

LEMMA AppAnswersReplies ==
  ASSUME IInv, IInv', AppAnswers
  PROVE  \E g \in Callers : \E a \in Answer : Promise!Reply(g, a)
<1>1. pump = "callback" /\ pump' = "complete" /\ Holding
      /\ UNCHANGED <<attached, pend, pc, mine, got, cur, seen>>
  BY DEF AppAnswers, Holding, events, dapr
<1>2. PICK g \in Callers : /\ mine[g] = cur /\ pc[g] = "wait" /\ Held(g)
                          /\ \A h \in Callers : h # g => ~Held(h)
  BY <1>1, Owner
<1>3. answer' \in Answer /\ answer'.kind = seen.kind /\ seen = pend[cur].event
      /\ pend[cur].done = NoAnswer
  BY <1>1 DEF IInv, AnswerOfCallback, HeldByPump
<1>4. AskOf(g) = seen /\ AskOf(g)' = AskOf(g)
  BY <1>1, <1>2, <1>3 DEF AskOf, IInv, HeldByPump
<1>5. PhaseOf(g) = "running" /\ PhaseOf(g)' = "answered" /\ ResultOf(g)' = answer'
  BY <1>1, <1>2, <1>3 DEF PhaseOf, ResultOf, Held, Waiting
<1>6. \A h \in Callers : h # g => Unmoved(h)
  BY <1>1, <1>2 DEF Unmoved, PhaseOf, AskOf, ResultOf, Held, Waiting
<1>7. QED
  BY <1>1, <1>3, <1>4, <1>5, <1>6 DEF Promise!Reply, Unmoved

LEMMA SendStutters ==
  ASSUME IInv, IInv', Send
  PROVE  UNCHANGED Promise!vars
<1>1. pump = "send" /\ pump' = "next" /\ Holding
      /\ UNCHANGED <<attached, pc, mine, got, cur, answer>>
      /\ pend' = [pend EXCEPT ![cur].done = answer]
  BY DEF Send, Holding, dapr
<1>2. PICK g \in Callers : /\ mine[g] = cur /\ pc[g] = "wait" /\ Held(g)
                          /\ \A h \in Callers : h # g => ~Held(h)
  BY <1>1, Owner
<1>3. pend'[cur].done = answer /\ pend'[cur].event = pend[cur].event
      /\ \A i \in 1..nextID : i # cur => pend'[i] = pend[i]
      /\ answer # NoAnswer /\ cur # 0
  <2>1. pend \in Seq(Pending) /\ Len(pend) = nextID /\ cur \in 1..nextID /\ answer \in Answer
    BY <1>1 DEF IInv, TypeOK, Pending, HeldByPump, AnswerOfCallback
  <2>2. pend[cur] \in Pending
    BY <2>1, ElementOfSeq
  <2>3. QED
    BY <1>1, <2>1, <2>2, ExceptSeq DEF Pending
<1>4. Unmoved(g)
  BY <1>1, <1>2, <1>3 DEF Unmoved, PhaseOf, AskOf, ResultOf, Held, Waiting
<1>5. ASSUME NEW h \in Callers, h # g PROVE Unmoved(h)
  <2>1. mine[h] # 0 => mine[h] \in 1..nextID /\ mine[h] # cur
    BY <1>2, <1>5 DEF IInv, TypeOK, OwnIds
  <2>2. mine[h] # 0 => pend'[mine[h]] = pend[mine[h]]
    BY <1>3, <2>1
  <2>3. Waiting(h) => mine[h] # 0
    BY DEF IInv, OwnIds, Waiting
  <2>4. ~Held(h) /\ ~Held(h)' /\ mine'[h] = mine[h] /\ Waiting(h)' = Waiting(h) /\ got'[h] = got[h]
    BY <1>1, <1>2, <1>5 DEF Held, Waiting
  <2>5. PhaseOf(h)' = PhaseOf(h)
    BY <2>2, <2>3, <2>4 DEF PhaseOf
  <2>6. QED
    BY <2>2, <2>3, <2>4, <2>5 DEF Unmoved, AskOf, ResultOf, PhaseOf
<1>6. QED
  BY <1>1, <1>4, <1>5, Stutter

LEMMA ReturnHears ==
  ASSUME IInv, NEW g \in Callers, Return(g)
  PROVE  Promise!Hear(g)
<1>1. /\ pc[g] = "wait" /\ pc'[g] = "idle" /\ got'[g] = pend[mine[g]].done
      /\ pend[mine[g]].done # NoAnswer
      /\ \A h \in Callers : h # g => pc'[h] = pc[h] /\ got'[h] = got[h]
      /\ UNCHANGED <<attached, pend, mine, pump, cur, answer>>
  BY DEF Return, IInv, TypeOK, events, app
<1>2. ~(Held(g) /\ Holding)
  BY <1>1 DEF Held, IInv, HeldByPump
<1>3. PhaseOf(g) = "answered" /\ ResultOf(g) = pend[mine[g]].done
  BY <1>1, <1>2 DEF PhaseOf, ResultOf, Held, Waiting, Holding
<1>4. PhaseOf(g)' = "out" /\ ResultOf(g)' = ResultOf(g) /\ AskOf(g)' = AskOf(g)
  <2>1. PhaseOf(g)' = "out"
    BY <1>1 DEF PhaseOf, Held, Waiting
  <2>2. QED
    BY <1>1, <1>3, <2>1 DEF ResultOf, AskOf
<1>5. \A h \in Callers : h # g => Unmoved(h)
  BY <1>1 DEF Unmoved, PhaseOf, AskOf, ResultOf, Held, Waiting
<1>6. QED
  BY <1>1, <1>3, <1>4, <1>5 DEF Promise!Hear, Unmoved

LEMMA RefuseRefuses ==
  ASSUME IInv, NEW g \in Callers, Refuse(g)
  PROVE  Promise!Refuse(g)
<1>1. /\ ~attached /\ pc[g] = "idle" /\ got'[g] = NotAttached
      /\ \A h \in Callers : h # g => got'[h] = got[h]
      /\ UNCHANGED <<attached, pend, mine, pc, pump, cur, answer>>
  BY DEF Refuse, IInv, TypeOK, events, app
<1>2. PhaseOf(g) = "out" /\ PhaseOf(g)' = "out" /\ ResultOf(g)' = NotAttached
      /\ AskOf(g)' = AskOf(g)
  BY <1>1 DEF PhaseOf, ResultOf, AskOf, Held, Waiting
<1>3. \A h \in Callers : h # g => Unmoved(h)
  BY <1>1 DEF Unmoved, PhaseOf, AskOf, ResultOf, Held, Waiting
<1>4. QED
  BY <1>1, <1>2, <1>3 DEF Promise!Refuse, Unmoved

LEMMA EnqueueStutters ==
  ASSUME IInv, NEW g \in Callers, Enqueue(g)
  PROVE  UNCHANGED Promise!vars
<1>1. /\ \A h \in Callers : Waiting(h)' = Waiting(h)
      /\ UNCHANGED <<attached, pend, mine, got, pump, cur, answer>>
  BY DEF Enqueue, IInv, TypeOK, app, Waiting
<1>2. \A h \in Callers : Unmoved(h)
  BY <1>1 DEF Unmoved, PhaseOf, AskOf, ResultOf, Held
<1>3. QED
  BY <1>1, <1>2, Stutter

LEMMA AttachAttaches ==
  ASSUME IInv, Attach
  PROVE  Promise!Attach
<1>1. /\ ~attached /\ attached' /\ pump = "detached" /\ pump' = "next"
      /\ UNCHANGED <<pend, pc, mine, got, cur, answer>>
  BY DEF Attach, IInv, AttachedFirst, dapr
<1>2. \A h \in Callers : Unmoved(h)
  BY <1>1 DEF Unmoved, PhaseOf, AskOf, ResultOf, Held, Waiting
<1>3. attached' = TRUE
  BY DEF Attach
<1>4. QED
  BY <1>1, <1>2, <1>3 DEF Promise!Attach, Unmoved

LEMMA PumpStutters ==
  ASSUME IInv, IInv', Receive \/ Take \/ CallStore \/ CallReturns \/ GiveUp
  PROVE  UNCHANGED Promise!vars
<1>1. UNCHANGED <<attached, pend, pc, mine, got, answer>>
  BY DEF Receive, Take, CallStore, CallReturns, GiveUp, events, dapr
<1>2. \/ pump = "next" /\ pump' = "lookup"
      \/ pump = "complete" /\ pump' = "send" /\ cur' = cur
      \/ {pump, pump'} = {"callback", "calling"} /\ cur' = cur
  BY DEF Receive, Take, CallStore, CallReturns, GiveUp, IInv, NeverTraps
<1>3. \A h \in Callers : Unmoved(h)
  BY <1>1, <1>2 DEF Unmoved, PhaseOf, AskOf, ResultOf, Held, Waiting
<1>4. QED
  BY <1>1, <1>3, Stutter

LEMMA StepRefines == IInv /\ IInv' /\ [Next]_vars => [Promise!Next]_(Promise!vars)
<1> SUFFICES ASSUME IInv, IInv', [Next]_vars PROVE Promise!Next \/ UNCHANGED Promise!vars
  OBVIOUS
<1>1. ASSUME NEW g \in Callers, NEW e \in Event, Register(g, e) \/ CallBack(g, e)
      PROVE  Promise!Next
  <2>1. Promise!Ask(g, e)
    BY <1>1, EnterAsks DEF Register, CallBack, app
  <2>2. QED
    BY <2>1 DEF Promise!Next
<1>2. ASSUME NEW g \in Callers, Refuse(g) \/ Enqueue(g) \/ Return(g)
      PROVE  Promise!Next \/ UNCHANGED Promise!vars
  BY <1>2, RefuseRefuses, EnqueueStutters, ReturnHears DEF Promise!Next
<1>3. CASE Attach \/ Lookup \/ AppAnswers
  BY <1>3, AttachAttaches, LookupRuns, AppAnswersReplies DEF Promise!Next
<1>4. CASE Receive \/ Take \/ CallStore \/ CallReturns \/ GiveUp \/ Send
  BY <1>4, PumpStutters, SendStutters
<1>5. CASE UNCHANGED vars
  <2>1. \A h \in Callers : Unmoved(h)
    BY <1>5 DEF vars, events, dapr, app, Unmoved, PhaseOf, AskOf, ResultOf, Held, Waiting
  <2>2. QED
    BY <1>5, <2>1, Stutter DEF vars, events
<1>6. QED
  BY <1>1, <1>2, <1>3, <1>4, <1>5 DEF Next, PumpStep, WakeUp, CallSelf

(* The queue, the goroutines and the pump together keep the promise of     *)
(* Delivery: one callback per call, one at a time, answered to its caller. *)
THEOREM QueueImplementsDelivery == Spec => ImplementsDelivery
<1>1. QED
  BY InitPromise, StepRefines, QueueInvariant, PTL DEF Spec, ImplementsDelivery, Promise!Spec

-----------------------------------------------------------------------------
(* A building-block call of a callback comes back.                         *)

NeverWaits == Targets \cap NeedsDelivery = {} => callee = NoOne
InCall == pump = "calling"
WaitsForCallee == InCall /\ CalleeWaits
MayReturn == InCall /\ ~CalleeWaits
Back == pump = "callback"

(* Where no target needs a delivery, no call waits for one.                *)
LEMMA NeverWaitsHolds == Spec => []NeverWaits
<1>1. Init => NeverWaits
  BY DEF Init, NeverWaits
<1>2. NeverWaits /\ [Next]_vars => NeverWaits'
  BY DEF NeverWaits, Next, Register, CallBack, Refuse, Enqueue, Return, Attach, WakeUp, PumpStep,
     Receive, Lookup, Take, Send, AppAnswers, CallStore, CallSelf, CallReturns, GiveUp, app, vars
<1> QED
  BY <1>1, <1>2, PTL DEF Spec

(* A call is given up or its delivery returns, and then nobody can make it *)
(* wait again: its goroutine delivers nothing else until it has returned.  *)
LEMMA CallStep ==
  ASSUME IInv, [Next]_vars
  PROVE  /\ WaitsForCallee => WaitsForCallee' \/ MayReturn' \/ Back'
         /\ MayReturn => MayReturn' \/ Back'
<1> USE DEF WaitsForCallee, MayReturn, Back, InCall, CalleeWaits
<1> SUFFICES ASSUME InCall
             PROVE  \/ InCall' /\ (~CalleeWaits => ~CalleeWaits')
                    \/ Back'
  OBVIOUS
<1>1. CASE \E g \in Callers, e \in Event : Register(g, e)
  BY <1>1 DEF Register, Enter, app
<1>2. ASSUME NEW g \in Callers, Refuse(g) \/ Enqueue(g) \/ Return(g)
      PROVE  InCall' /\ (~CalleeWaits => ~CalleeWaits')
  <2>1. callee' = callee /\ pump' = pump
    BY <1>2 DEF Refuse, Enqueue, Return, app
  <2>2. \A h \in Callers : pc[h] = "idle" => pc'[h] = "idle"
    BY <1>2 DEF Refuse, Enqueue, Return, IInv, TypeOK
  <2> QED
    BY <2>1, <2>2
<1>3. CASE CallReturns \/ GiveUp
  BY <1>3 DEF CallReturns, GiveUp
<1>4. CASE UNCHANGED vars
  BY <1>4 DEF vars, app, dapr
<1>5. ~Attach /\ ~WakeUp /\ ~PumpStep /\ ~AppAnswers /\ ~CallStore /\ ~CallSelf
  BY DEF Attach, WakeUp, PumpStep, Receive, Lookup, Take, Send, AppAnswers, CallStore, CallSelf
<1>6. \A g \in Callers, e \in Event : ~CallBack(g, e)
  BY DEF CallBack
<1> QED
  BY <1>1, <1>2, <1>3, <1>4, <1>5, <1>6 DEF Next

(* A building-block call that a callback makes comes back, whatever it     *)
(* waits for, given Dapr's timeouts; and without them when no call waits   *)
(* for a delivery to the app, which is busy with the callback.  The fair   *)
(* steps must not be held back (appcallback.go, invoke; go.wit).           *)
THEOREM QueueCallsComeBack ==
  ASSUME Resiliency \/ Targets \cap NeedsDelivery = {}
  PROVE  FairSpec /\ []StepsNotHeldBack => CallsComeBack
<1>1. WaitsForCallee /\ <<GiveUp>>_vars => Back'
  BY DEF GiveUp, Back
<1>2. MayReturn /\ <<CallReturns>>_vars => Back'
  BY DEF CallReturns, Back
<1>3. NeverWaits /\ WaitsForCallee => Resiliency
  BY ConstantsAssumption DEF ConstantsAssumption, NeverWaits, WaitsForCallee, CalleeWaits
<1>4. StepsNotHeldBack =>
        /\ WaitsForCallee /\ Resiliency => ENABLED <<GiveUp>>_vars
        /\ MayReturn => ENABLED <<CallReturns>>_vars
  BY DEF StepsNotHeldBack, WaitsForCallee, MayReturn, InCall
<1>5. InCall => WaitsForCallee \/ MayReturn
  BY DEF WaitsForCallee, MayReturn
<1>6. FairSpec /\ []StepsNotHeldBack => (InCall ~> Back)
  BY <1>1, <1>2, <1>3, <1>4, <1>5, CallStep, QueueInvariant, NeverWaitsHolds, PTL
     DEF FairSpec, Fairness, Spec
<1> QED
  BY <1>6, PTL DEF CallsComeBack, InCall, Back

-----------------------------------------------------------------------------
(* A delivery goes on: into the queue, up in it, to the pump and back.     *)

AtNext == pump = "next" /\ queue # <<>>
AtLookup == pump = "lookup"
AtComplete == pump = "complete"
AtSend == pump = "send"
Free == ~Holding

(* The pump's round; a panic is out of reach by IInv.                      *)
LEMMA PumpMoves ==
  ASSUME IInv, IInv', [Next]_vars
  PROVE  /\ AtLookup => AtLookup' \/ Back'
         /\ Back => Back' \/ InCall' \/ AtComplete'
         /\ InCall => InCall' \/ Back'
         /\ AtComplete => AtComplete' \/ AtSend'
         /\ AtSend => AtSend' \/ Free'
<1> USE DEF AtLookup, Back, InCall, AtComplete, AtSend, Free, Holding
<1>1. pump' # "trapped"
  BY DEF IInv, NeverTraps
<1>2. ASSUME NEW g \in Callers, NEW e \in Event, Register(g, e) \/ CallBack(g, e)
      PROVE  pump' = pump \/ (pump = "callback" /\ pump' = "calling")
  BY <1>2 DEF Register, CallBack, app
<1>3. ASSUME NEW g \in Callers, Refuse(g) \/ Enqueue(g) \/ Return(g)
      PROVE  pump' = pump
  BY <1>3 DEF Refuse, Enqueue, Return, app
<1>4. CASE PumpStep
  BY <1>1, <1>4 DEF PumpStep, Receive, Lookup, Take, Send
<1>5. CASE Attach \/ WakeUp \/ AppAnswers \/ CallStore \/ CallSelf \/ CallReturns \/ GiveUp
  BY <1>5 DEF Attach, WakeUp, AppAnswers, CallStore, CallSelf, CallReturns, GiveUp, vars, app
<1>6. CASE UNCHANGED vars
  BY <1>6 DEF vars, app
<1> QED
  BY <1>2, <1>3, <1>4, <1>5, <1>6 DEF Next

(* It takes an event only by Receive, and lets go of it only by Send.      *)
LEMMA PumpTakesAndLetsGo ==
  ASSUME IInv, IInv', [Next]_vars
  PROVE  /\ pump = "next" => pump' = "next" \/ Receive
         /\ Holding => Holding' \/ Send
<1> USE DEF Holding
<1>1. ASSUME NEW g \in Callers, NEW e \in Event, Register(g, e) \/ CallBack(g, e)
      PROVE  pump' = pump \/ (pump = "callback" /\ pump' = "calling")
  BY <1>1 DEF Register, CallBack, app
<1>2. ASSUME NEW g \in Callers, Refuse(g) \/ Enqueue(g) \/ Return(g)
      PROVE  pump' = pump
  BY <1>2 DEF Refuse, Enqueue, Return, app
<1>3. CASE Lookup \/ Take
  BY <1>3 DEF Lookup, Take, IInv, NeverTraps
<1>4. CASE Receive \/ Send
  BY <1>4 DEF Receive, Send
<1>5. CASE Attach \/ WakeUp \/ AppAnswers \/ CallStore \/ CallSelf \/ CallReturns \/ GiveUp
  BY <1>5 DEF Attach, WakeUp, AppAnswers, CallStore, CallSelf, CallReturns, GiveUp, vars, app
<1>6. CASE UNCHANGED vars
  BY <1>6 DEF vars, app
<1> QED
  BY <1>1, <1>2, <1>3, <1>4, <1>5, <1>6 DEF Next, PumpStep

LEMMA PumpFairSteps ==
  ASSUME IInv, IInv'
  PROVE  /\ AtLookup /\ <<PumpStep>>_vars => Back'
         /\ <<AppAnswers>>_vars => AtComplete'
         /\ AtComplete /\ <<PumpStep>>_vars => AtSend'
         /\ AtSend /\ <<PumpStep>>_vars => Free'
<1>1. pump' # "trapped"
  BY DEF IInv, NeverTraps
<1> QED
  BY <1>1 DEF AtLookup, Back, AtComplete, AtSend, Free, Holding, PumpStep, Receive, Lookup, Take, Send,
     AppAnswers

LEMMA PumpReady ==
  ASSUME StepsNotHeldBack
  PROVE  /\ AtLookup \/ AtComplete \/ AtSend \/ AtNext => ENABLED <<PumpStep>>_vars
         /\ Back => ENABLED <<AppAnswers>>_vars
BY DEF StepsNotHeldBack, AtLookup, AtComplete, AtSend, AtNext, Back

(* The pump hands every event it holds back with its answer.               *)
LEMMA PumpComesRound ==
  ASSUME Resiliency \/ Targets \cap NeedsDelivery = {}
  PROVE  FairSpec /\ []StepsNotHeldBack => (Holding ~> Free)
<1>1. FairSpec => []IInv
  BY QueueInvariant, PTL DEF FairSpec
<1>2. FairSpec /\ []StepsNotHeldBack => (InCall ~> Back)
  BY QueueCallsComeBack, PTL DEF CallsComeBack, InCall, Back
<1>3. Holding => AtLookup \/ Back \/ InCall \/ AtComplete \/ AtSend
  BY DEF Holding, AtLookup, Back, InCall, AtComplete, AtSend
<1>4. FairSpec /\ []StepsNotHeldBack => (AtLookup ~> Back)
  BY <1>1, PumpMoves, PumpFairSteps, PumpReady, PTL DEF FairSpec, Fairness, Spec
<1>5. FairSpec /\ []StepsNotHeldBack => (Back ~> AtComplete)
  BY <1>1, <1>2, PumpMoves, PumpFairSteps, PumpReady, PTL DEF FairSpec, Fairness, Spec
<1>6. FairSpec /\ []StepsNotHeldBack => (AtComplete ~> AtSend)
  BY <1>1, PumpMoves, PumpFairSteps, PumpReady, PTL DEF FairSpec, Fairness, Spec
<1>7. FairSpec /\ []StepsNotHeldBack => (AtSend ~> Free)
  BY <1>1, PumpMoves, PumpFairSteps, PumpReady, PTL DEF FairSpec, Fairness, Spec
<1> QED
  BY <1>2, <1>3, <1>4, <1>5, <1>6, <1>7, PTL

(* A step of the others leaves a delivery that g waits for where it is.    *)
LEMMA OthersStep ==
  ASSUME IInv, [Next]_vars, NEW g \in Callers, pc[g] # "idle"
  PROVE  \/ Enqueue(g)
         \/ Return(g)
         \/ /\ pc'[g] = pc[g] /\ mine'[g] = mine[g]
            /\ pend[mine[g]].done # NoAnswer => pend'[mine[g]].done # NoAnswer
            /\ \/ Receive
               \/ /\ cur' = cur
                  /\ queue' = queue \/ (\E h \in Callers : queue' = Append(queue, mine[h]))
<1> DEFINE Stays == /\ pc'[g] = pc[g] /\ mine'[g] = mine[g]
                    /\ pend[mine[g]].done # NoAnswer => pend'[mine[g]].done # NoAnswer
           Kept == /\ cur' = cur
                   /\ queue' = queue \/ (\E h \in Callers : queue' = Append(queue, mine[h]))
<1>1. /\ pc \in [Callers -> {"idle", "enqueue", "wait"}] /\ mine \in [Callers -> 0..nextID]
      /\ mine[g] \in 1..nextID /\ nextID \in Nat
      /\ pend \in Seq([event : Event, done : Answer \cup {NoAnswer}]) /\ Len(pend) = nextID
  BY DEF IInv, TypeOK, OwnIds
<1>2. ASSUME NEW h \in Callers, NEW e \in Event, Register(h, e) \/ CallBack(h, e)
      PROVE  Stays /\ Kept
  <2>1. h # g /\ Enter(h, e) /\ cur' = cur
    BY <1>2 DEF Register, CallBack, Enter, app
  <2>2. pend'[mine[g]] = pend[mine[g]]
    BY <1>1, <2>1 DEF Enter
  <2> QED
    BY <1>1, <2>1, <2>2 DEF Enter
<1>3. ASSUME NEW h \in Callers, h # g, Refuse(h) \/ Enqueue(h) \/ Return(h)
      PROVE  Stays /\ Kept
  BY <1>1, <1>3 DEF Refuse, Enqueue, Return, events, app
<1>4. ~Refuse(g)
  BY DEF Refuse
<1>5. CASE Receive
  BY <1>5 DEF Receive, dapr
<1>6. CASE Lookup \/ Take
  BY <1>6 DEF Lookup, Take, events, dapr
<1>7. CASE Send
  <2>1. queue' = queue /\ cur' = cur /\ UNCHANGED dapr /\ answer # NoAnswer
    BY <1>7, ConstantsAssumption DEF Send, IInv, AnswerOfCallback, ConstantsAssumption
  <2>2. pend' = [pend EXCEPT ![cur].done = answer] /\ cur \in 1..nextID
    BY <1>7 DEF Send, IInv, TypeOK, HeldByPump, Holding
  <2>3. pend[mine[g]].done # NoAnswer => pend'[mine[g]].done # NoAnswer
    BY <1>1, <2>1, <2>2
  <2> QED
    BY <2>1, <2>3 DEF dapr
<1>8. CASE Attach \/ WakeUp \/ AppAnswers \/ CallStore \/ CallSelf \/ CallReturns \/ GiveUp
  BY <1>8 DEF Attach, WakeUp, AppAnswers, CallStore, CallSelf, CallReturns, GiveUp, vars, events,
     dapr, app
<1>9. CASE UNCHANGED vars
  BY <1>9 DEF vars, events, dapr, app
<1> QED
  BY <1>2, <1>3, <1>4, <1>5, <1>6, <1>7, <1>8, <1>9 DEF Next, PumpStep

(* The places of a delivery: blocked at the channel, k-th in it, with the  *)
(* pump, answered, returned.                                               *)
Outside(g) == pc[g] = "enqueue"
Queued(g, k) == pc[g] = "wait" /\ k \in 1..Len(queue) /\ queue[k] = mine[g]
InLine(g) == pc[g] = "wait" /\ InQueue(mine[g])
Taken(g) == Holding /\ cur = mine[g] /\ pc[g] = "wait"
Answered(g) == pc[g] = "wait" /\ pend[mine[g]].done # NoAnswer
Heard(g) == pc[g] = "idle"
Up(g, k) == IF k = 1 THEN Taken(g) ELSE Queued(g, k - 1)

LEMMA Attached ==
  ASSUME IInv, NEW g \in Callers, pc[g] # "idle" PROVE GoRuns \/ Back
<1>1. nextID # 0
  BY DEF IInv, TypeOK, OwnIds
<1> QED
  BY <1>1 DEF IInv, TypeOK, PumpStates, NeverTraps, AttachedFirst, GoRuns, Back

LEMMA QueuedStep ==
  ASSUME IInv, IInv', [Next]_vars, NEW g \in Callers, NEW k \in Nat \ {0}, Queued(g, k)
  PROVE  \/ Queued(g, k)' /\ (AtNext => AtNext') /\ ~Receive
         \/ Up(g, k)' /\ Receive
<1>1. ~Enqueue(g) /\ ~Return(g)
  BY DEF Queued, Enqueue, Return, IInv, AwaitedInQueue, InflightExact, TypeOK
<1>2. queue \in Seq(1..nextID) /\ mine \in [Callers -> 0..nextID]
  BY DEF IInv, TypeOK
<1>3. pc'[g] = pc[g] /\ mine'[g] = mine[g]
  BY <1>1, OthersStep DEF Queued
<1>4. CASE Receive
  <2>1. cur' = Head(queue) /\ queue' = Tail(queue) /\ Holding'
    BY <1>4 DEF Receive, Holding
  <2>2. CASE k = 1
    <3>1. cur' = mine'[g]
      BY <1>2, <1>3, <2>1, <2>2 DEF Queued
    <3> QED
      BY <1>3, <1>4, <2>1, <2>2, <3>1 DEF Queued, Up, Taken
  <2>3. CASE k # 1
    <3>1. k - 1 \in 1..Len(queue') /\ queue'[k - 1] = queue[k]
      BY <1>2, <2>1, <2>3 DEF Queued
    <3> QED
      BY <1>3, <1>4, <2>3, <3>1 DEF Queued, Up
  <2> QED
    BY <1>4, <2>2, <2>3
<1>5. CASE ~Receive
  <2>1. queue' = queue \/ (\E h \in Callers : queue' = Append(queue, mine[h]))
    BY <1>1, <1>5, OthersStep DEF Queued
  <2>2. k \in 1..Len(queue') /\ queue'[k] = queue[k]
    BY <1>2, <2>1 DEF Queued
  <2>3. AtNext => AtNext'
    BY <1>5, <2>2, PumpTakesAndLetsGo DEF AtNext
  <2> QED
    BY <1>3, <1>5, <2>2, <2>3 DEF Queued
<1> QED
  BY <1>4, <1>5

LEMMA TakenStep ==
  ASSUME IInv, IInv', [Next]_vars, NEW g \in Callers
  PROVE  /\ Taken(g) => Taken(g)' \/ Answered(g)'
         /\ Answered(g) => Answered(g)' \/ Heard(g)'
<1>1. ASSUME Taken(g) PROVE Taken(g)' \/ Answered(g)'
  <2>1. ~Enqueue(g) /\ ~Return(g) /\ ~Receive
    BY <1>1 DEF Taken, Enqueue, Return, Receive, Holding, IInv, HeldByPump
  <2>2. pc'[g] = pc[g] /\ mine'[g] = mine[g] /\ cur' = cur
    BY <1>1, <2>1, OthersStep DEF Taken
  <2>3. CASE Send
    <3>1. pend' = [pend EXCEPT ![cur].done = answer] /\ answer \in Answer
      BY <2>3 DEF Send, IInv, AnswerOfCallback
    <3>2. cur \in 1..nextID /\ pend \in Seq(Pending) /\ Len(pend) = nextID
      BY <1>1 DEF Taken, IInv, TypeOK, HeldByPump, Pending
    <3>3. pend'[cur].done = answer
      BY <3>1, <3>2 DEF Pending
    <3> QED
      BY <1>1, <2>2, <3>1, <3>3, ConstantsAssumption DEF Taken, Answered, ConstantsAssumption
  <2>4. CASE ~Send
    BY <1>1, <2>2, <2>4, PumpTakesAndLetsGo DEF Taken
  <2> QED
    BY <2>3, <2>4
<1>2. ASSUME Answered(g) PROVE Answered(g)' \/ Heard(g)'
  <2>1. CASE Return(g)
    BY <2>1 DEF Return, Heard, IInv, TypeOK
  <2>2. CASE ~Return(g)
    <3>1. ~Enqueue(g)
      BY <1>2 DEF Answered, Enqueue
    <3> QED
      BY <1>2, <2>2, <3>1, OthersStep DEF Answered
  <2> QED
    BY <2>1, <2>2
<1> QED
  BY <1>1, <1>2

(* The goroutines run again and again, since every callback ends.          *)
LEMMA CallbackLeaves ==
  ASSUME Resiliency \/ Targets \cap NeedsDelivery = {}
  PROVE  FairSpec /\ []StepsNotHeldBack => (Back ~> AtComplete)
<1>1. FairSpec => []IInv
  BY QueueInvariant, PTL DEF FairSpec
<1>2. FairSpec /\ []StepsNotHeldBack => (InCall ~> Back)
  BY QueueCallsComeBack, PTL DEF CallsComeBack, InCall, Back
<1> QED
  BY <1>1, <1>2, PumpMoves, PumpFairSteps, PumpReady, PTL DEF FairSpec, Fairness, Spec

(* A delivery moves up in the channel until the pump takes it.             *)
MovesUp(g, k) == Queued(g, k) ~> Up(g, k)

LEMMA OnePlace ==
  ASSUME Resiliency \/ Targets \cap NeedsDelivery = {},
         NEW g \in Callers, NEW k \in Nat \ {0}
  PROVE  FairSpec /\ []StepsNotHeldBack => MovesUp(g, k)
<1>1. FairSpec => []IInv
  BY QueueInvariant, PTL DEF FairSpec
<1>2. IInv => (Queued(g, k) => AtNext \/ Holding)
  <2> SUFFICES ASSUME IInv, Queued(g, k) PROVE AtNext \/ Holding
    OBVIOUS
  <2>1. queue # <<>> /\ (GoRuns \/ Back)
    BY Attached DEF Queued
  <2>2. pump # "absent"
    BY <2>1 DEF IInv, TypeOK, AttachedFirst, OwnIds, Queued
  <2> QED
    BY <2>1, <2>2 DEF GoRuns, Back, AtNext, Holding
<1>3. IInv /\ IInv' /\ [Next]_vars =>
        (Queued(g, k) => \/ Queued(g, k)' /\ (AtNext => AtNext')
                         \/ Up(g, k)')
  BY QueuedStep
<1>4. IInv /\ IInv' /\ [Next]_vars =>
        (Queued(g, k) /\ AtNext /\ <<PumpStep>>_vars => Up(g, k)')
  <2> SUFFICES ASSUME IInv, IInv', [Next]_vars, Queued(g, k), AtNext, PumpStep
               PROVE  Up(g, k)'
    OBVIOUS
  <2>1. Receive
    BY DEF PumpStep, AtNext, Lookup, Take, Send
  <2> QED
    BY <2>1, QueuedStep
<1>5. FairSpec /\ []StepsNotHeldBack => (Holding ~> Free)
  BY PumpComesRound
<1>6. Free => ~Holding
  BY DEF Free
<1>7. FairSpec /\ []StepsNotHeldBack => ((Queued(g, k) /\ AtNext) ~> Up(g, k))
  BY <1>1, <1>3, <1>4, PumpReady, PTL DEF FairSpec, Fairness, Spec
<1>8. FairSpec /\ []StepsNotHeldBack => (Queued(g, k) ~> ((Queued(g, k) /\ AtNext) \/ Up(g, k)))
  BY <1>1, <1>2, <1>3, <1>5, <1>6, PTL DEF FairSpec, Spec
<1> QED
  BY <1>7, <1>8, PTL DEF MovesUp

(* The one that the pump holds is answered, and its goroutine hears of it. *)
IsHeard(g) == Taken(g) ~> Heard(g)

LEMMA OneAnswer ==
  ASSUME Resiliency \/ Targets \cap NeedsDelivery = {}, NEW g \in Callers
  PROVE  FairSpec /\ []StepsNotHeldBack => IsHeard(g)
<1>1. FairSpec => []IInv
  BY QueueInvariant, PTL DEF FairSpec
<1>2. GoroutinesRun => Runs(g)
  BY DEF GoroutinesRun
<1>3. IInv /\ IInv' /\ [Next]_vars =>
        /\ Taken(g) => Taken(g)' \/ Answered(g)'
        /\ Answered(g) => Answered(g)' \/ Heard(g)'
  BY TakenStep
<1>4. Taken(g) => Holding /\ ~Free
  BY DEF Taken, Free
<1>5. IInv => (Answered(g) => GoRuns \/ Back)
  BY Attached DEF Answered
<1>6. AtComplete => GoRuns
  BY DEF AtComplete, GoRuns
<1>7. StepsNotHeldBack => (Answered(g) /\ GoRuns => ENABLED <<Return(g)>>_vars)
  BY DEF StepsNotHeldBack, Answered
<1>8. IInv => (<<Return(g)>>_vars => Heard(g)')
  BY DEF Return, Heard, IInv, TypeOK
<1>9. FairSpec /\ []StepsNotHeldBack => (Holding ~> Free)
  BY PumpComesRound
<1>10. FairSpec /\ []StepsNotHeldBack => (Back ~> AtComplete)
  BY CallbackLeaves
<1>11. FairSpec /\ []StepsNotHeldBack => (Taken(g) ~> Answered(g))
  BY <1>1, <1>3, <1>4, <1>9, PTL DEF FairSpec, Spec
<1>12. FairSpec /\ []StepsNotHeldBack => (Answered(g) ~> Heard(g))
  BY <1>1, <1>2, <1>3, <1>5, <1>6, <1>7, <1>8, <1>10, PTL DEF FairSpec, Fairness, Spec, Runs
<1> QED
  BY <1>11, <1>12, PTL DEF IsHeard

(* A goroutine that blocks at the channel gets in: the pump makes room,    *)
(* and the room is still there when a callback lets the goroutines run.    *)
GetsIn(g) == Outside(g) ~> InLine(g)
Slot == Len(queue) < QueueCap
MayEnter(g) == Outside(g) /\ GoRuns /\ Slot
Crowded(g) == Outside(g) /\ ~Slot
Paused(g) == Outside(g) /\ Slot /\ Back

LEMMA OutsideStep ==
  ASSUME IInv, [Next]_vars, NEW g \in Callers, Outside(g)
  PROVE  /\ ~Enqueue(g) => Outside(g)'
         /\ Enqueue(g) => InLine(g)'
<1>1. ~Return(g)
  BY DEF Outside, Return
<1>2. ASSUME Enqueue(g) PROVE InLine(g)'
  <2>1. /\ pc'[g] = "wait" /\ mine' = mine /\ queue' = Append(queue, mine[g])
        /\ queue \in Seq(1..nextID) /\ mine[g] \in 1..nextID
    BY <1>2 DEF Enqueue, IInv, TypeOK, OwnIds
  <2>2. Len(queue) + 1 \in 1..Len(queue') /\ queue'[Len(queue) + 1] = mine[g]
    BY <2>1
  <2> QED
    BY <2>1, <2>2 DEF InLine, InQueue
<1> QED
  BY <1>1, <1>2, OthersStep DEF Outside

(* A full channel is received from before it takes anything more.          *)
LEMMA CrowdedStep ==
  ASSUME IInv, IInv', [Next]_vars, NEW g \in Callers, Crowded(g)
  PROVE  \/ Crowded(g)' /\ (AtNext => AtNext') /\ ~Receive
         \/ MayEnter(g)' /\ Receive
<1>1. ~Enqueue(g) /\ ~Return(g)
  BY DEF Crowded, Slot, Outside, Enqueue, Return
<1>2. Outside(g)'
  BY <1>1, OutsideStep DEF Crowded
<1>3. /\ queue \in Seq(1..nextID) /\ QueueCap \in Nat \ {0} /\ Len(queue) = QueueCap
      /\ mine \in [Callers -> 0..nextID]
  BY ConstantsAssumption DEF ConstantsAssumption, IInv, TypeOK, InflightExact, Crowded, Slot
<1>4. CASE Receive
  <2>1. queue' = Tail(queue) /\ pump' = "lookup"
    BY <1>4 DEF Receive
  <2>2. Slot'
    BY <1>3, <2>1 DEF Slot
  <2> QED
    BY <1>2, <1>4, <2>1, <2>2 DEF MayEnter, GoRuns
<1>5. CASE ~Receive
  <2>1. queue' = queue \/ (\E h \in Callers : queue' = Append(queue, mine[h]))
    BY <1>1, <1>5, OthersStep DEF Crowded, Outside
  <2>2. Len(queue') \in Nat /\ Len(queue') >= QueueCap
    BY <1>3, <2>1
  <2>3. ~Slot' /\ queue' # <<>>
    BY <1>3, <2>2 DEF Slot
  <2> QED
    BY <1>2, <1>5, <2>3, PumpTakesAndLetsGo DEF Crowded, AtNext
<1> QED
  BY <1>4, <1>5

(* No goroutine runs while the app is in a callback.                       *)
LEMMA PausedStep ==
  ASSUME IInv, IInv', [Next]_vars, NEW g \in Callers, Paused(g)
  PROVE  Paused(g)' \/ MayEnter(g)'
<1>1. ~GoRuns
  BY DEF Paused, Back, GoRuns
<1>2. Outside(g)'
  BY <1>1, OutsideStep DEF Paused, Enqueue
<1>3. Back' \/ InCall' \/ AtComplete'
  BY PumpMoves DEF Paused
<1>4. queue' = queue
  BY <1>1 DEF Paused, Back, Next, Register, CallBack, Enter, Refuse, Enqueue, Return, Attach, WakeUp,
     PumpStep, Receive, Lookup, Take, Send, AppAnswers, CallStore, CallSelf, CallReturns, GiveUp,
     vars, events
<1> QED
  BY <1>2, <1>3, <1>4 DEF Paused, MayEnter, Slot, GoRuns, InCall, AtComplete, Back

LEMMA OneEntry ==
  ASSUME Resiliency \/ Targets \cap NeedsDelivery = {}, NEW g \in Callers
  PROVE  FairSpec /\ []StepsNotHeldBack => GetsIn(g)
<1>1. FairSpec => []IInv
  BY QueueInvariant, PTL DEF FairSpec
<1>2. GoroutinesRun => Runs(g)
  BY DEF GoroutinesRun
<1>3. IInv => (Outside(g) => MayEnter(g) \/ Paused(g) \/ Crowded(g))
  BY Attached DEF Outside, MayEnter, Paused, Crowded
<1>4. IInv => (Crowded(g) => AtNext \/ Holding)
  <2> SUFFICES ASSUME IInv, Crowded(g) PROVE AtNext \/ Holding
    OBVIOUS
  <2>1. queue # <<>> /\ (GoRuns \/ Back)
    BY Attached, ConstantsAssumption DEF ConstantsAssumption, Crowded, Slot, Outside
  <2>2. pump # "absent"
    BY DEF IInv, TypeOK, AttachedFirst, OwnIds, Crowded, Outside
  <2> QED
    BY <2>1, <2>2 DEF GoRuns, Back, AtNext, Holding
<1>5. IInv /\ [Next]_vars =>
        /\ Outside(g) => Outside(g)' \/ InLine(g)'
        /\ Outside(g) /\ <<Enqueue(g)>>_vars => InLine(g)'
  BY OutsideStep
<1>6. IInv /\ IInv' /\ [Next]_vars =>
        (Crowded(g) => \/ Crowded(g)' /\ (AtNext => AtNext')
                       \/ MayEnter(g)')
  BY CrowdedStep
<1>7. IInv /\ IInv' /\ [Next]_vars =>
        (Crowded(g) /\ AtNext /\ <<PumpStep>>_vars => MayEnter(g)')
  <2> SUFFICES ASSUME IInv, IInv', [Next]_vars, Crowded(g), AtNext, PumpStep
               PROVE  MayEnter(g)'
    OBVIOUS
  <2>1. Receive
    BY DEF PumpStep, AtNext, Lookup, Take, Send
  <2> QED
    BY <2>1, CrowdedStep
<1>8. IInv /\ IInv' /\ [Next]_vars => (Paused(g) => Paused(g)' \/ MayEnter(g)')
  BY PausedStep
<1>9. StepsNotHeldBack => (MayEnter(g) => ENABLED <<Enqueue(g)>>_vars)
  BY DEF StepsNotHeldBack, MayEnter, Outside, Slot
<1>10. FairSpec /\ []StepsNotHeldBack => (Holding ~> Free)
  BY PumpComesRound
<1>11. FairSpec /\ []StepsNotHeldBack => (Back ~> AtComplete)
  BY CallbackLeaves
<1>12. /\ Free => ~Holding
       /\ Paused(g) => Back /\ ~AtComplete
       /\ MayEnter(g) => Outside(g)
       /\ <<Enqueue(g)>>_vars => Outside(g)
  BY DEF Free, Paused, Back, AtComplete, MayEnter, Enqueue, Outside
<1>13. FairSpec /\ []StepsNotHeldBack => (Paused(g) ~> MayEnter(g))
  BY <1>1, <1>8, <1>11, <1>12, PTL DEF FairSpec, Spec
<1>14. FairSpec /\ []StepsNotHeldBack => ((Crowded(g) /\ AtNext) ~> MayEnter(g))
  BY <1>1, <1>6, <1>7, PumpReady, PTL DEF FairSpec, Fairness, Spec
<1>15. FairSpec /\ []StepsNotHeldBack => (Crowded(g) ~> ((Crowded(g) /\ AtNext) \/ MayEnter(g)))
  BY <1>1, <1>4, <1>6, <1>10, <1>12, PTL DEF FairSpec, Spec
<1>16. FairSpec /\ []StepsNotHeldBack => (Outside(g) ~> MayEnter(g))
  BY <1>1, <1>3, <1>13, <1>14, <1>15, PTL
<1> QED
  BY <1>1, <1>2, <1>5, <1>9, <1>12, <1>16, PTL DEF FairSpec, Fairness, Spec, Runs, GetsIn

(* A delivery goes on to its answer: a goroutine that Deliver lets in gets *)
(* into the channel, however full it is; a delivery in the channel moves   *)
(* up, one place after the other, to the pump; and what the pump holds is  *)
(* answered and heard of.  It needs the pump and the callbacks, the calls  *)
(* of which come back as QueueCallsComeBack has it (events.go; pump.go).   *)
THEOREM QueueDeliveriesGoOn ==
  ASSUME Resiliency \/ Targets \cap NeedsDelivery = {}
  PROVE  FairSpec /\ []StepsNotHeldBack =>
           /\ \A g \in Callers : GetsIn(g) /\ IsHeard(g)
           /\ \A g \in Callers : \A k \in Nat \ {0} : MovesUp(g, k)
<1>1. ASSUME NEW g \in Callers
      PROVE  FairSpec /\ []StepsNotHeldBack => GetsIn(g) /\ IsHeard(g)
  BY <1>1, OneEntry, OneAnswer
<1>2. ASSUME NEW g \in Callers, NEW k \in Nat \ {0}
      PROVE  FairSpec /\ []StepsNotHeldBack => MovesUp(g, k)
  BY <1>2, OnePlace
<1> QED
  BY <1>1, <1>2
=============================================================================
