--------------------------- MODULE RuntimeProofs ---------------------------
(***************************************************************************)
(* Proofs about the component that holds the embedded runtime of the go    *)
(* family: how it starts (Boot), whether or not it may fail and callbacks  *)
(* may call it while it starts, what a configuration subscription gives    *)
(* the app (Subscription), for any updates of the store, and how long the  *)
(* memory lives that calls use (Pinning), for any values.                  *)
(***************************************************************************)
EXTENDS Boot, Subscription, Pinning, TLAPS

-----------------------------------------------------------------------------
(* The start of the runtime.                                               *)

USE ConstantsAssumption

LEMMA RankOfStates ==
  /\ Rank["off"] = 0 /\ Rank["options"] = 1 /\ Rank["building"] = 2
  /\ Rank["initializing"] = 3 /\ Rank["asking"] = 4 /\ Rank["serving"] = 5
  /\ Rank["returned"] = 6 /\ Rank["ended"] = 7
BY DEF Rank

LEMMA InitInv == Init => IInv
BY DEF Init, BootStates, IInv, TypeOK, NoInternalPanic, PanicHasReason, Strength

(* A step that changes nothing keeps the type, in two parts: the Boolean   *)
(* variables, and those that range over sets of names.                     *)
LEMMA StutterType == TypeOK /\ UNCHANGED vars => TypeOK'
<1> SUFFICES ASSUME TypeOK, UNCHANGED vars PROVE TypeOK'
  OBVIOUS
<1>1. /\ UNCHANGED attached /\ UNCHANGED started /\ UNCHANGED attachedStart
      /\ UNCHANGED app /\ UNCHANGED rt /\ UNCHANGED ready /\ UNCHANGED initComplete
  BY DEF vars, daprrt
<1>2. /\ UNCHANGED boot /\ UNCHANGED failed /\ UNCHANGED pump /\ UNCHANGED call
      /\ UNCHANGED event /\ UNCHANGED served /\ UNCHANGED trap
  BY DEF vars, daprrt
<1>3. /\ attached' \in BOOLEAN /\ started' \in BOOLEAN /\ attachedStart' \in BOOLEAN
      /\ app' \in BOOLEAN /\ rt' \in BOOLEAN /\ ready' \in BOOLEAN
      /\ initComplete' \in BOOLEAN
  BY <1>1, Zenon DEF TypeOK
<1>4. /\ boot' \in BootStates
      /\ failed' \in {"nil", "error", "dapr runtime stopped"}
      /\ pump' \in {"detached", "attaching", "pumping", "callback"}
      /\ call' \in {"none", "ready", "init"}
      /\ event' \in {"none", "queued", "taken"}
      /\ served' \in BootStates \cup {"never"}
      /\ trap' \in {"none", "attached too late", "failed to start", "not attached",
                   "close of closed channel"}
  BY <1>2, Zenon DEF TypeOK
<1>5. QED
  BY <1>3, <1>4, Zenon DEF TypeOK

LEMMA StepInv == IInv /\ [Next]_vars => IInv'
<1> SUFFICES ASSUME IInv, [Next]_vars PROVE IInv'
  OBVIOUS
<1> USE DEF IInv, TypeOK, BootStates, NoInternalPanic, PanicHasReason, Strength, daprrt
<1>1. CASE Running /\ AttachEvents
  <2>1. TypeOK'
    BY <1>1 DEF Running, AttachEvents
  <2>2. NoInternalPanic' /\ PanicHasReason'
    BY <1>1 DEF Running, AttachEvents
  <2>3. Strength'
    BY <1>1 DEF Running, AttachEvents
  <2>4. QED
    BY <2>1, <2>2, <2>3
<1>2. CASE Running /\ StartAttached
  <2>1. TypeOK'
    BY <1>2, ZenonT(30) DEF Running, StartAttached, Start
  <2>2. NoInternalPanic' /\ PanicHasReason'
    BY <1>2 DEF Running, StartAttached, Start
  <2>3. Strength'
    BY <1>2 DEF Running, StartAttached, Start
  <2>4. QED
    BY <2>1, <2>2, <2>3
<1>3. CASE Running /\ CallAPI
  <2>1. TypeOK'
    BY <1>3, ZenonT(30) DEF Running, CallAPI, Start
  <2>2. NoInternalPanic' /\ PanicHasReason'
    BY <1>3 DEF Running, CallAPI, Start
  <2>3. Strength'
    BY <1>3 DEF Running, CallAPI, Start, MayCall
  <2>4. QED
    BY <2>1, <2>2, <2>3
<1>4. CASE Running /\ SeeReady
  <2>1. TypeOK'
    BY <1>4, ZenonT(30) DEF Running, SeeReady
  <2>2. NoInternalPanic' /\ PanicHasReason'
    BY <1>4 DEF Running, SeeReady
  <2>3. Strength'
    BY <1>4 DEF Running, SeeReady
  <2>4. QED
    BY <2>1, <2>2, <2>3
<1>5. CASE Running /\ SeeInitComplete
  <2>1. TypeOK'
    BY <1>5 DEF Running, SeeInitComplete
  <2>2. NoInternalPanic' /\ PanicHasReason'
    BY <1>5 DEF Running, SeeInitComplete
  <2>3. Strength'
    BY <1>5 DEF Running, SeeInitComplete
  <2>4. QED
    BY <2>1, <2>2, <2>3
<1>6. CASE Running /\ Options
  <2>1. TypeOK'
    BY <1>6 DEF Running, Options
  <2>2. NoInternalPanic' /\ PanicHasReason'
    BY <1>6 DEF Running, Options
  <2>3. Strength'
    BY <1>6 DEF Running, Options
  <2>4. QED
    BY <2>1, <2>2, <2>3
<1>7. CASE Running /\ BuildFails
  <2>1. TypeOK'
    BY <1>7 DEF Running, BuildFails
  <2>2. NoInternalPanic' /\ PanicHasReason'
    BY <1>7 DEF Running, BuildFails
  <2>3. Strength'
    BY <1>7 DEF Running, BuildFails
  <2>4. QED
    BY <2>1, <2>2, <2>3
<1>8. CASE Running /\ Publish
  <2>1. TypeOK'
    BY <1>8 DEF Running, Publish
  <2>2. NoInternalPanic' /\ PanicHasReason'
    BY <1>8 DEF Running, Publish
  <2>3. Strength'
    BY <1>8 DEF Running, Publish
  <2>4. QED
    BY <2>1, <2>2, <2>3
<1>9. CASE Running /\ AskApp
  <2>1. TypeOK'
    BY <1>9 DEF Running, AskApp
  <2>2. NoInternalPanic' /\ PanicHasReason'
    BY <1>9 DEF Running, AskApp
  <2>3. Strength'
    BY <1>9 DEF Running, AskApp
  <2>4. QED
    BY <2>1, <2>2, <2>3
<1>10. CASE Running /\ Initialized
  <2>1. TypeOK'
    BY <1>10 DEF Running, Initialized
  <2>2. NoInternalPanic' /\ PanicHasReason'
    BY <1>10 DEF Running, Initialized
  <2>3. Strength'
    BY <1>10 DEF Running, Initialized
  <2>4. QED
    BY <2>1, <2>2, <2>3
<1>11. CASE Running /\ RunEnds
  <2>1. TypeOK'
    BY <1>11 DEF Running, RunEnds
  <2>2. NoInternalPanic' /\ PanicHasReason'
    BY <1>11 DEF Running, RunEnds
  <2>3. Strength'
    BY <1>11 DEF Running, RunEnds
  <2>4. QED
    BY <2>1, <2>2, <2>3
<1>12. CASE Running /\ Finish
  <2>1. TypeOK'
    BY <1>12, ZenonT(30) DEF Running, Finish
  <2>2. NoInternalPanic' /\ PanicHasReason'
    BY <1>12 DEF Running, Finish
  <2>3. Strength'
    BY <1>12 DEF Running, Finish
  <2>4. QED
    BY <2>1, <2>2, <2>3
<1>13. CASE Running /\ Deliver
  <2>1. TypeOK'
    BY <1>13 DEF Running, Deliver
  <2>2. NoInternalPanic' /\ PanicHasReason'
    BY <1>13 DEF Running, Deliver
  <2>3. Strength'
    BY <1>13 DEF Running, Deliver
  <2>4. QED
    BY <2>1, <2>2, <2>3
<1>14. CASE Running /\ NextEvent
  <2>1. TypeOK'
    BY <1>14 DEF Running, NextEvent
  <2>2. NoInternalPanic' /\ PanicHasReason'
    BY <1>14 DEF Running, NextEvent
  <2>3. Strength'
    BY <1>14 DEF Running, NextEvent
  <2>4. QED
    BY <2>1, <2>2, <2>3
<1>15. CASE Running /\ CompleteEvent
  <2>1. TypeOK'
    BY <1>15 DEF Running, CompleteEvent
  <2>2. NoInternalPanic' /\ PanicHasReason'
    BY <1>15 DEF Running, CompleteEvent
  <2>3. Strength'
    BY <1>15 DEF Running, CompleteEvent
  <2>4. QED
    BY <2>1, <2>2, <2>3
<1>16. CASE UNCHANGED vars
  <2>1. TypeOK'
    BY <1>16, StutterType
  <2>2. NoInternalPanic' /\ PanicHasReason'
    BY <1>16 DEF vars
  <2>3. Strength'
    BY <1>16 DEF vars
  <2>4. QED
    BY <2>1, <2>2, <2>3
<1>17. QED
  BY <1>1, <1>2, <1>3, <1>4, <1>5, <1>6, <1>7, <1>8, <1>9, <1>10, <1>11, <1>12, <1>13, <1>14, <1>15, <1>16
     DEF Next, BootStep, PumpStep, CallStep

(* The inductive invariant holds in every behaviour. *)
THEOREM BootInvariant == Spec => []IInv
<1>1. QED
  BY InitInv, StepInv, PTL DEF Spec

(* No delivery meets an event queue nobody attached to, ready is closed    *)
(* once, and the pump only pumps a runtime that has the app.               *)
THEOREM BootNoInternalPanic == Spec => []NoInternalPanic
<1>1. IInv => NoInternalPanic
  BY DEF IInv
<1>2. QED
  BY <1>1, BootInvariant, PTL

(* API panics only over a runtime that was never built, with the reason. *)
THEOREM BootPanicHasReason == Spec => []PanicHasReason
<1>1. IInv => PanicHasReason
  BY DEF IInv
<1>2. QED
  BY <1>1, BootInvariant, PTL

(* One runtime is started, once, with the app or without it for good. *)
THEOREM BootStartedOnce == Spec => StartedOnce
<1>1. IInv /\ [Next]_vars =>
        [started => /\ started' /\ app' = app /\ attachedStart' = attachedStart
                    /\ Rank[boot'] >= Rank[boot]]_vars
  <2> SUFFICES ASSUME IInv, Next, started
               PROVE  /\ started' /\ app' = app /\ attachedStart' = attachedStart
                      /\ Rank[boot'] >= Rank[boot]
    OBVIOUS
  <2>1. boot \in BootStates
    BY DEF IInv, TypeOK
  <2>2. /\ started' /\ app' = app /\ attachedStart' = attachedStart
    BY DEF Next, BootStep, PumpStep, CallStep, daprrt, Options, BuildFails, Publish, AskApp,
       Initialized, Finish, StartAttached, NextEvent, CompleteEvent, SeeReady,
       SeeInitComplete, RunEnds, Deliver, AttachEvents, CallAPI
  <2>3. \/ boot' = boot
        \/ boot = "options" /\ boot' \in {"building", "returned"}
        \/ boot = "building" /\ boot' \in {"returned", "initializing"}
        \/ boot = "initializing" /\ boot' \in {"asking", "serving", "returned"}
        \/ boot = "asking" /\ boot' \in {"serving", "returned"}
        \/ boot = "serving" /\ boot' = "returned"
        \/ boot = "returned" /\ boot' = "ended"
    BY DEF Next, BootStep, PumpStep, CallStep, daprrt, Options, BuildFails, Publish, AskApp,
       Initialized, Finish, StartAttached, NextEvent, CompleteEvent, SeeReady,
       SeeInitComplete, RunEnds, Deliver, AttachEvents, CallAPI
  <2>4. Rank[boot'] >= Rank[boot]
    BY <2>1, <2>3, RankOfStates DEF BootStates
  <2>5. QED
    BY <2>2, <2>4
<1>2. QED
  BY <1>1, BootInvariant, PTL DEF Spec, StartedOnce

(* API hands out the object of a runtime that has initialized. *)
THEOREM BootHandsOutInitialized == Spec => HandsOutInitialized
<1>1. IInv /\ [Next]_vars => [call = "init" /\ call' = "none" => rt /\ initComplete]_vars
  <2> SUFFICES ASSUME IInv, Next, call = "init", call' = "none"
               PROVE  rt /\ initComplete
    OBVIOUS
  <2>1. SeeInitComplete
    BY DEF Next, BootStep, PumpStep, CallStep, Options, BuildFails, Publish, AskApp,
       Initialized, Finish, StartAttached, NextEvent, CompleteEvent, SeeReady, RunEnds,
       Deliver, AttachEvents, CallAPI
  <2>2. QED
    BY <2>1 DEF SeeInitComplete, IInv, Strength
<1>2. QED
  BY <1>1, BootInvariant, PTL DEF Spec, HandsOutInitialized

(* A call comes back: nothing that a step does leads away from its end.    *)

(* A call that waits, and how far it is from its end: for ready while the  *)
(* boot goroutine has yet to close it; then for initComplete; or for       *)
(* neither.                                                                *)
Waiting ==
  /\ call # "none" /\ Running
  /\ ~NeverInitializes /\ ~CalledFromStartup

ForReady(b) == Waiting /\ call = "ready" /\ ~ready /\ boot = b
ForInit(b) == Waiting /\ call = "init" /\ ~initComplete /\ boot = b
ReadyClosed == Waiting /\ call = "ready" /\ ready
InitClosed == Waiting /\ call = "init" /\ initComplete

CallOver == call = "none" \/ trap # "none" \/ NeverInitializes \/ CalledFromStartup

(* What is closer to the end than each of these, in this order.            *)
PastInitReturned == InitClosed \/ CallOver
PastInitializing == ForInit("returned") \/ PastInitReturned
PastReady == ForInit("initializing") \/ PastInitializing
PastReturned == ReadyClosed \/ PastReady
PastBuilding == ForReady("returned") \/ PastReturned
PastOptions == ForReady("building") \/ PastBuilding

(* Every waiting call is somewhere in this order.                          *)
LEMMA WaitingStages == IInv /\ call # "none" => ForReady("options") \/ PastOptions
<1> SUFFICES ASSUME IInv, Waiting
             PROVE  \/ ForReady("options") \/ ForReady("building") \/ ForReady("returned")
                    \/ ReadyClosed
                    \/ ForInit("initializing") \/ ForInit("returned") \/ InitClosed
  BY DEF Waiting, CallOver, Running, PastOptions, PastBuilding, PastReturned, PastReady,
     PastInitializing, PastInitReturned
<1>1. boot \in {"options", "building", "initializing", "asking", "serving", "returned", "ended"}
  BY DEF IInv, TypeOK, BootStates, Strength, Waiting
<1>2. CASE call = "ready"
  BY <1>1, <1>2 DEF IInv, Strength, ForReady, ReadyClosed
<1>3. CASE call = "init"
  <2>1. boot # "asking"
    BY DEF IInv, Strength, Waiting, CalledFromStartup
  <2>2. rt /\ (failed # "nil" <=> boot = "ended")
    BY <1>3 DEF IInv, Strength
  <2>3. boot # "ended" \/ initComplete
    BY <2>2 DEF Waiting, NeverInitializes
  <2> QED
    BY <1>1, <1>3, <2>1, <2>2, <2>3 DEF IInv, Strength, ForInit, InitClosed
<1> QED
  BY <1>2, <1>3 DEF IInv, TypeOK, Waiting

(* What a step does to a waiting call: neither channel opens again, and    *)
(* the boot goroutine goes forward.                                        *)
LEMMA WaitingMoves ==
  ASSUME IInv, Next, Waiting
  PROVE  /\ \/ call' = call \/ call' = "none"
            \/ SeeReady /\ call = "ready" /\ ready /\ (call' = "init" \/ trap' # "none")
         /\ ready => ready'
         /\ initComplete => initComplete'
         /\ \/ boot' = boot
            \/ BootStep /\ boot = "options" /\ boot' \in {"building", "returned"}
            \/ BootStep /\ boot = "building" /\ boot' \in {"returned", "initializing"}
            \/ boot = "initializing" /\ boot' \in {"asking", "serving", "returned"}
            \/ boot = "asking" /\ boot' \in {"serving", "returned"}
            \/ boot = "serving" /\ boot' = "returned"
            \/ BootStep /\ boot = "returned" /\ boot' = "ended"
BY DEF Next, BootStep, PumpStep, CallStep, daprrt, Options, BuildFails, Publish, AskApp,
   Initialized, Finish, StartAttached, NextEvent, CompleteEvent, SeeReady,
   SeeInitComplete, RunEnds, Deliver, AttachEvents, CallAPI, Waiting, IInv, Strength

(* So no step takes the call further from its end.                         *)
LEMMA WaitingStep ==
  IInv /\ [Next]_vars =>
    /\ ForReady("options") => ForReady("options")' \/ PastOptions'
    /\ ForReady("building") => ForReady("building")' \/ PastBuilding'
    /\ ForReady("returned") => ForReady("returned")' \/ PastReturned'
    /\ ReadyClosed => ReadyClosed' \/ PastReady'
    /\ ForInit("initializing") => ForInit("initializing")' \/ PastInitializing'
    /\ ForInit("returned") => ForInit("returned")' \/ PastInitReturned'
    /\ InitClosed => InitClosed' \/ CallOver'
<1>1. IInv /\ [Next]_vars /\ call' # "none" => (ForReady("options") \/ PastOptions)'
  <2>1. IInv /\ [Next]_vars => IInv'
    BY StepInv
  <2>2. (IInv /\ call # "none" => ForReady("options") \/ PastOptions)'
    BY WaitingStages, PTL
  <2> QED
    BY <2>1, <2>2
<1> SUFFICES ASSUME IInv, [Next]_vars, Waiting, ~CallOver'
    PROVE  /\ ForReady("options") => ForReady("options")' \/ PastOptions'
           /\ ForReady("building") => ForReady("building")' \/ PastBuilding'
           /\ ForReady("returned") => ForReady("returned")' \/ PastReturned'
           /\ ReadyClosed => ReadyClosed' \/ PastReady'
           /\ ForInit("initializing") => ForInit("initializing")' \/ PastInitializing'
           /\ ForInit("returned") => ForInit("returned")' \/ PastInitReturned'
           /\ InitClosed => InitClosed'
  BY DEF ForReady, ForInit, ReadyClosed, InitClosed, PastOptions, PastBuilding, PastReturned,
     PastReady, PastInitializing, PastInitReturned
<1>2. call' # "none" /\ trap' = "none"
  BY DEF CallOver
<1>3. (ForReady("options") \/ PastOptions)'
  BY <1>1, <1>2
<1>4. CASE UNCHANGED vars
  BY <1>4 DEF vars, daprrt, ForReady, ForInit, ReadyClosed, InitClosed, Waiting, Running,
     NeverInitializes, CalledFromStartup
<1>5. CASE Next
  <2>1. /\ call' = call \/ (call = "ready" /\ ready /\ call' = "init")
        /\ ready => ready'
        /\ initComplete => initComplete'
        /\ \/ boot' = boot
           \/ boot = "options" /\ boot' \in {"building", "returned"}
           \/ boot = "building" /\ boot' \in {"returned", "initializing"}
           \/ boot = "initializing" /\ boot' \in {"asking", "serving", "returned"}
           \/ boot = "asking" /\ boot' \in {"serving", "returned"}
           \/ boot = "serving" /\ boot' = "returned"
           \/ boot = "returned" /\ boot' = "ended"
    BY <1>2, <1>5, WaitingMoves
  <2> QED
    BY <1>3, <2>1 DEF ForReady, ForInit, ReadyClosed, InitClosed, PastOptions, PastBuilding,
       PastReturned, PastReady, PastInitializing, PastInitReturned
<1> QED
  BY <1>4, <1>5

(* The step that is fair takes it closer.                                  *)
LEMMA WaitingFairStep ==
  IInv /\ [Next]_vars =>
    /\ ForReady("options") /\ <<BootStep>>_vars => PastOptions'
    /\ ForReady("building") /\ <<BootStep>>_vars => PastBuilding'
    /\ ForReady("returned") /\ <<BootStep>>_vars => PastReturned'
    /\ ReadyClosed /\ <<CallStep>>_vars => PastReady'
    /\ ForInit("initializing") /\ <<BootStep>>_vars => PastInitializing'
    /\ ForInit("returned") /\ <<BootStep>>_vars => PastInitReturned'
    /\ InitClosed /\ <<CallStep>>_vars => CallOver'
<1> SUFFICES ASSUME IInv, [Next]_vars, ~CallOver'
    PROVE  /\ ForReady("options") /\ BootStep => ~ForReady("options")'
           /\ ForReady("building") /\ BootStep => ~ForReady("building")'
           /\ ForReady("returned") /\ BootStep => ~ForReady("returned")'
           /\ ReadyClosed /\ CallStep => ~ReadyClosed'
           /\ ForInit("initializing") /\ BootStep => ~ForInit("initializing")'
           /\ ForInit("returned") /\ BootStep => ~ForInit("returned")'
           /\ InitClosed /\ CallStep => FALSE
  BY WaitingStep DEF PastOptions, PastBuilding, PastReturned, PastReady, PastInitializing,
     PastInitReturned
<1>1. call' # "none" /\ trap' = "none"
  BY DEF CallOver
<1>2. BootStep => \/ boot = "options" /\ boot' # "options"
                  \/ boot = "building" /\ boot' # "building"
                  \/ boot = "returned" /\ boot' # "returned"
                  \/ boot = "initializing" /\ boot' # "initializing"
                  \/ boot = "asking"
  BY <1>1 DEF BootStep, Options, BuildFails, Publish, AskApp, Initialized, Finish
<1>3. CallStep => \/ call = "ready" /\ call' = "init"
                  \/ call = "init" /\ call' = "none"
  BY <1>1 DEF CallStep, SeeReady, SeeInitComplete
<1> QED
  BY <1>1, <1>2, <1>3 DEF ForReady, ForInit, ReadyClosed, InitClosed

(* And can be taken.                                                       *)
LEMMA WaitingReady ==
  BootNotHeldBack =>
    /\ ForReady("options") => ENABLED <<BootStep>>_vars
    /\ ForReady("building") => ENABLED <<BootStep>>_vars
    /\ ForReady("returned") => ENABLED <<BootStep>>_vars
    /\ ReadyClosed => ENABLED <<CallStep>>_vars
    /\ ForInit("initializing") => ENABLED <<BootStep>>_vars
    /\ ForInit("returned") => ENABLED <<BootStep>>_vars
    /\ InitClosed => ENABLED <<CallStep>>_vars
BY DEF BootNotHeldBack, ForReady, ForInit, ReadyClosed, InitClosed, Waiting

(* API returns or panics, whatever the boot goroutine meets on its way,    *)
(* but in the two cases that CallsReturn names: provided that the steps of *)
(* BootNotHeldBack can be taken.                                           *)
THEOREM BootCallsReturn == FairSpec /\ []BootNotHeldBack => CallsReturn
<1>1. FairSpec => []IInv
  BY BootInvariant, PTL DEF FairSpec
<1> QED
  BY <1>1, WaitingStages, WaitingStep, WaitingFairStep, WaitingReady, PTL
     DEF FairSpec, Spec, Fairness, CallsReturn, CallOver, PastOptions, PastBuilding,
         PastReturned, PastReady, PastInitializing, PastInitReturned

-----------------------------------------------------------------------------
(* The subscription: its inductive invariant holds at first, and every     *)
(* action keeps it.                                                        *)

LEMMA SubInitInv == SubInit => SubInv
<1> SUFFICES ASSUME SubInit PROVE SubInv
  OBVIOUS
<1>1. pumping \in BOOLEAN /\ first \in BOOLEAN /\ id \in BOOLEAN
  BY Zenon DEF SubInit
<1>2. SubTypeOK
  BY <1>1 DEF SubInit, SubTypeOK
<1>3. UpdatesAreKnown /\ Outcomes /\ OneAtATime /\ LateIsTheLast
  BY DEF SubInit, UpdatesAreKnown, Outcomes, OneAtATime, Sending, LateIsTheLast
<1> QED
  BY <1>2, <1>3 DEF SubInv

LEMMA SubSubscribeKeeps == ASSUME SubInv, Subscribe PROVE SubInv'
<1> USE DEF Subscribe
<1>1. SubTypeOK'
  BY DEF SubInv, SubTypeOK
<1>2. UpdatesAreKnown'
  BY DEF SubInv, SubTypeOK, UpdatesAreKnown, Outcomes
<1>3. Outcomes'
  BY DEF SubInv, SubTypeOK, Outcomes, UpdatesAreKnown
<1>4. OneAtATime'
  BY DEF SubInv, SubTypeOK, OneAtATime, Sending
<1>5. LateIsTheLast'
  BY DEF SubInv, SubTypeOK, LateIsTheLast, OneAtATime, Outcomes, Sending
<1> QED
  BY <1>1, <1>2, <1>3, <1>4, <1>5 DEF SubInv

LEMMA SubSelectIdKeeps == ASSUME SubInv, SelectId PROVE SubInv'
<1> USE DEF SelectId
<1>1. SubTypeOK'
  BY DEF SubInv, SubTypeOK
<1>2. UpdatesAreKnown'
  BY DEF SubInv, SubTypeOK, UpdatesAreKnown, Outcomes
<1>3. Outcomes'
  BY DEF SubInv, SubTypeOK, Outcomes, UpdatesAreKnown
<1>4. OneAtATime'
  BY DEF SubInv, SubTypeOK, OneAtATime, Sending
<1>5. LateIsTheLast'
  BY DEF SubInv, SubTypeOK, LateIsTheLast, OneAtATime, Outcomes, Sending
<1> QED
  BY <1>1, <1>2, <1>3, <1>4, <1>5 DEF SubInv

LEMMA SubSelectDoneKeeps == ASSUME SubInv, SelectDone PROVE SubInv'
<1> USE DEF SelectDone
<1>1. SubTypeOK'
  BY DEF SubInv, SubTypeOK
<1>2. UpdatesAreKnown'
  BY DEF SubInv, SubTypeOK, UpdatesAreKnown, Outcomes
<1>3. Outcomes'
  BY DEF SubInv, SubTypeOK, Outcomes, UpdatesAreKnown
<1>4. OneAtATime'
  BY DEF SubInv, SubTypeOK, OneAtATime, Sending
<1>5. LateIsTheLast'
  BY DEF SubInv, SubTypeOK, LateIsTheLast, OneAtATime, Outcomes, Sending
<1> QED
  BY <1>1, <1>2, <1>3, <1>4, <1>5 DEF SubInv

LEMMA SubSendIdKeeps == ASSUME SubInv, SendId PROVE SubInv'
<1> USE DEF SendId
<1>1. SubTypeOK'
  BY DEF SubInv, SubTypeOK
<1>2. UpdatesAreKnown'
  BY DEF SubInv, SubTypeOK, UpdatesAreKnown, Outcomes
<1>3. Outcomes'
  BY DEF SubInv, SubTypeOK, Outcomes, UpdatesAreKnown
<1>4. OneAtATime'
  BY DEF SubInv, SubTypeOK, OneAtATime, Sending
<1>5. LateIsTheLast'
  BY DEF SubInv, SubTypeOK, LateIsTheLast, OneAtATime, Outcomes, Sending
<1> QED
  BY <1>1, <1>2, <1>3, <1>4, <1>5 DEF SubInv

LEMMA SubFailKeeps == ASSUME SubInv, Fail PROVE SubInv'
<1> USE DEF Fail
<1>1. SubTypeOK'
  BY DEF SubInv, SubTypeOK
<1>2. UpdatesAreKnown'
  BY DEF SubInv, SubTypeOK, UpdatesAreKnown, Outcomes
<1>3. Outcomes'
  BY DEF SubInv, SubTypeOK, Outcomes, UpdatesAreKnown
<1>4. OneAtATime'
  BY DEF SubInv, SubTypeOK, OneAtATime, Sending
<1>5. LateIsTheLast'
  BY DEF SubInv, SubTypeOK, LateIsTheLast, OneAtATime, Outcomes, Sending
<1> QED
  BY <1>1, <1>2, <1>3, <1>4, <1>5 DEF SubInv

LEMMA SubEndKeeps == ASSUME SubInv, End PROVE SubInv'
<1> USE DEF End
<1>1. SubTypeOK'
  BY DEF SubInv, SubTypeOK
<1>2. UpdatesAreKnown'
  BY DEF SubInv, SubTypeOK, UpdatesAreKnown, Outcomes
<1>3. Outcomes'
  BY DEF SubInv, SubTypeOK, Outcomes, UpdatesAreKnown
<1>4. OneAtATime'
  BY DEF SubInv, SubTypeOK, OneAtATime, Sending
<1>5. LateIsTheLast'
  BY DEF SubInv, SubTypeOK, LateIsTheLast, OneAtATime, Outcomes, Sending
<1> QED
  BY <1>1, <1>2, <1>3, <1>4, <1>5 DEF SubInv

LEMMA SubLeaveKeeps == ASSUME SubInv, Leave PROVE SubInv'
<1> USE DEF Leave
<1>1. SubTypeOK'
  BY DEF SubInv, SubTypeOK
<1>2. UpdatesAreKnown'
  BY DEF SubInv, SubTypeOK, UpdatesAreKnown, Outcomes
<1>3. Outcomes'
  BY DEF SubInv, SubTypeOK, Outcomes, UpdatesAreKnown
<1>4. OneAtATime'
  BY DEF SubInv, SubTypeOK, OneAtATime, Sending
<1>5. LateIsTheLast'
  BY DEF SubInv, SubTypeOK, LateIsTheLast, OneAtATime, Outcomes, Sending
<1> QED
  BY <1>1, <1>2, <1>3, <1>4, <1>5 DEF SubInv

LEMMA SubSendKeeps == ASSUME SubInv, NEW u \in Updates, Send(u) PROVE SubInv'
<1> USE DEF Send, goroutine
<1>1. SubTypeOK'
  BY DEF SubInv, SubTypeOK
<1>2. UpdatesAreKnown'
  BY DEF SubInv, SubTypeOK, UpdatesAreKnown, Outcomes
<1>3. Outcomes'
  BY DEF SubInv, SubTypeOK, Outcomes, UpdatesAreKnown
<1>4. OneAtATime'
  BY DEF SubInv, SubTypeOK, OneAtATime, Sending
<1>5. LateIsTheLast'
  BY DEF SubInv, SubTypeOK, LateIsTheLast, OneAtATime, Outcomes, Sending
<1> QED
  BY <1>1, <1>2, <1>3, <1>4, <1>5 DEF SubInv

LEMMA SubDeliverKeeps == ASSUME SubInv, NEW u \in Updates, DeliverUpdate(u) PROVE SubInv'
<1> USE DEF DeliverUpdate, goroutine
<1>1. SubTypeOK'
  BY DEF SubInv, SubTypeOK
<1>2. UpdatesAreKnown'
  BY DEF SubInv, SubTypeOK, UpdatesAreKnown, Outcomes
<1>3. Outcomes'
  BY DEF SubInv, SubTypeOK, Outcomes, UpdatesAreKnown
<1>4. OneAtATime'
  BY DEF SubInv, SubTypeOK, OneAtATime, Sending
<1>5. LateIsTheLast'
  BY DEF SubInv, SubTypeOK, LateIsTheLast, OneAtATime, Outcomes, Sending
<1> QED
  BY <1>1, <1>2, <1>3, <1>4, <1>5 DEF SubInv

LEMMA SubCallbackKeeps == ASSUME SubInv, NEW u \in Updates, Callback(u) PROVE SubInv'
<1> USE DEF Callback, goroutine
<1>1. SubTypeOK'
  BY DEF SubInv, SubTypeOK
<1>2. UpdatesAreKnown'
  BY DEF SubInv, SubTypeOK, UpdatesAreKnown, Outcomes
<1>3. Outcomes'
  BY DEF SubInv, SubTypeOK, Outcomes, UpdatesAreKnown
<1>4. OneAtATime'
  BY DEF SubInv, SubTypeOK, OneAtATime, Sending
<1>5. LateIsTheLast'
  BY DEF SubInv, SubTypeOK, LateIsTheLast, OneAtATime, Outcomes, Sending
<1> QED
  BY <1>1, <1>2, <1>3, <1>4, <1>5 DEF SubInv

LEMMA SubCallbackReturnsKeeps == ASSUME SubInv, NEW u \in Updates, CallbackReturns(u) PROVE SubInv'
<1> USE DEF CallbackReturns, goroutine
<1>1. SubTypeOK'
  BY DEF SubInv, SubTypeOK
<1>2. UpdatesAreKnown'
  BY DEF SubInv, SubTypeOK, UpdatesAreKnown, Outcomes
<1>3. Outcomes'
  BY DEF SubInv, SubTypeOK, Outcomes, UpdatesAreKnown
<1>4. OneAtATime'
  BY DEF SubInv, SubTypeOK, OneAtATime, Sending
<1>5. LateIsTheLast'
  BY DEF SubInv, SubTypeOK, LateIsTheLast, OneAtATime, Outcomes, Sending
<1> QED
  BY <1>1, <1>2, <1>3, <1>4, <1>5 DEF SubInv

LEMMA SubDropKeeps == ASSUME SubInv, Drop PROVE SubInv'
<1> USE DEF Drop, goroutine
<1>1. SubTypeOK'
  BY DEF SubInv, SubTypeOK
<1>2. UpdatesAreKnown'
  BY DEF SubInv, SubTypeOK, UpdatesAreKnown, Outcomes
<1>3. Outcomes'
  BY DEF SubInv, SubTypeOK, Outcomes, UpdatesAreKnown
<1>4. OneAtATime'
  BY DEF SubInv, SubTypeOK, OneAtATime, Sending
<1>5. LateIsTheLast'
  BY DEF SubInv, SubTypeOK, LateIsTheLast, OneAtATime, Outcomes, Sending
<1> QED
  BY <1>1, <1>2, <1>3, <1>4, <1>5 DEF SubInv

LEMMA SubDroppedKeeps == ASSUME SubInv, Dropped PROVE SubInv'
<1> USE DEF Dropped, goroutine
<1>1. SubTypeOK'
  BY DEF SubInv, SubTypeOK
<1>2. UpdatesAreKnown'
  BY DEF SubInv, SubTypeOK, UpdatesAreKnown, Outcomes
<1>3. Outcomes'
  BY DEF SubInv, SubTypeOK, Outcomes, UpdatesAreKnown
<1>4. OneAtATime'
  BY DEF SubInv, SubTypeOK, OneAtATime, Sending
<1>5. LateIsTheLast'
  BY DEF SubInv, SubTypeOK, LateIsTheLast, OneAtATime, Outcomes, Sending
<1> QED
  BY <1>1, <1>2, <1>3, <1>4, <1>5 DEF SubInv

LEMMA SubStutterKeeps == ASSUME SubInv, UNCHANGED subVars PROVE SubInv'
<1> USE DEF subVars, goroutine
<1>1. SubTypeOK'
  BY DEF SubInv, SubTypeOK
<1>2. UpdatesAreKnown'
  BY DEF SubInv, SubTypeOK, UpdatesAreKnown, Outcomes
<1>3. Outcomes'
  BY DEF SubInv, SubTypeOK, Outcomes, UpdatesAreKnown
<1>4. OneAtATime'
  BY DEF SubInv, SubTypeOK, OneAtATime, Sending
<1>5. LateIsTheLast'
  BY DEF SubInv, SubTypeOK, LateIsTheLast, OneAtATime, Outcomes, Sending
<1> QED
  BY <1>1, <1>2, <1>3, <1>4, <1>5 DEF SubInv

LEMMA SubNextKeeps == SubInv /\ [SubNext]_subVars => SubInv'
<1> SUFFICES ASSUME SubInv, [SubNext]_subVars PROVE SubInv'
  OBVIOUS
<1>1. CASE Subscribe \/ SelectId \/ SelectDone
  BY <1>1, SubSubscribeKeeps, SubSelectIdKeeps, SubSelectDoneKeeps
<1>2. CASE SendId \/ Fail \/ End \/ Leave
  BY <1>2, SubSendIdKeeps, SubFailKeeps, SubEndKeeps, SubLeaveKeeps
<1>3. ASSUME NEW u \in Updates, Send(u) \/ DeliverUpdate(u) \/ Callback(u) \/ CallbackReturns(u)
      PROVE SubInv'
  BY <1>3, SubSendKeeps, SubDeliverKeeps, SubCallbackKeeps, SubCallbackReturnsKeeps
<1>4. CASE Drop \/ Dropped
  BY <1>4, SubDropKeeps, SubDroppedKeeps
<1>5. CASE UNCHANGED subVars
  BY <1>5, SubStutterKeeps
<1> QED
  BY <1>1, <1>2, <1>3, <1>4, <1>5 DEF SubNext

-----------------------------------------------------------------------------
(* IInv holds however the store, Dapr's call and the app interleave.       *)
THEOREM SubscriptionInvariant == SubSpec => []SubInv
BY SubInitInv, SubNextKeeps, PTL DEF SubSpec

(* No update reaches the app before Subscribe has given it the id.         *)
THEOREM UpdatesOfAKnownSubscription == SubSpec => []UpdatesAreKnown
<1>1. SubInv => UpdatesAreKnown
  BY DEF SubInv
<1> QED
  BY <1>1, SubscriptionInvariant, PTL

(* Of all the updates of the store, at most one reaches an app that has    *)
(* dropped its subscription (OnDrop of configuration/export.go).           *)
THEOREM AtMostOneLateUpdate == SubSpec => []OneLateUpdate
<1>1. SubInv => OneLateUpdate
  BY DEF SubInv, LateIsTheLast, OneLateUpdate
<1> QED
  BY <1>1, SubscriptionInvariant, PTL

(* A subscription that is over, and what of it is still there.             *)
Over == result = "error" \/ handle = "dropped"
OverLive == Over /\ api = "subscribed" /\ ctx = "live"
OverCancelled == Over /\ api = "subscribed" /\ ctx = "cancelled"
OverReturned == Over /\ api = "returned"
OverGone == api = "gone" /\ ctx = "cancelled"

(* It stays over; its call goes from one of these to the next.             *)
LEMMA OverSteps ==
  ASSUME SubInv, [SubNext]_subVars
  PROVE  /\ OverLive => OverLive' \/ OverCancelled' \/ OverReturned'
         /\ OverCancelled => OverCancelled' \/ OverReturned'
         /\ OverReturned => OverReturned' \/ OverGone'
<1> SUFFICES ASSUME Over
             PROVE  /\ OverLive => OverLive' \/ OverCancelled' \/ OverReturned'
                    /\ OverCancelled => OverCancelled' \/ OverReturned'
                    /\ OverReturned => OverReturned' \/ OverGone'
  BY DEF OverLive, OverCancelled, OverReturned
<1> USE DEF Over, OverLive, OverCancelled, OverReturned, OverGone, goroutine
<1>1. op # "subscribing" /\ api # "off" /\ ctx \in {"live", "cancelled"}
  BY DEF SubInv, SubTypeOK, Outcomes
<1>2. CASE Subscribe \/ SelectId \/ SelectDone
  BY <1>1, <1>2 DEF Subscribe, SelectId, SelectDone
<1>3. CASE SendId \/ Fail \/ End \/ Leave
  BY <1>1, <1>3 DEF SendId, Fail, End, Leave
<1>4. ASSUME NEW u \in Updates, Send(u) \/ DeliverUpdate(u) \/ Callback(u) \/ CallbackReturns(u)
      PROVE  UNCHANGED <<result, handle, api, ctx>>
  BY <1>4 DEF Send, DeliverUpdate, Callback, CallbackReturns
<1>5. CASE Drop \/ Dropped
  BY <1>1, <1>5 DEF Drop, Dropped
<1>6. CASE UNCHANGED subVars
  BY <1>6 DEF subVars
<1> QED
  BY <1>2, <1>3, <1>4, <1>5, <1>6 DEF SubNext

(* The fair steps, and that they can be taken.                             *)
LEMMA OverFairSteps ==
  ASSUME SubInv, [SubNext]_subVars
  PROVE  /\ OverLive /\ <<Dropped>>_subVars => OverCancelled'
         /\ OverCancelled /\ <<ctx = "cancelled" /\ End>>_subVars => OverReturned'
         /\ OverReturned /\ <<Leave>>_subVars => OverGone'
BY DEF Over, OverLive, OverCancelled, OverReturned, OverGone, goroutine, Dropped, End, Leave

LEMMA OverReady ==
  ASSUME SubInv, EndNotHeldBack
  PROVE  /\ OverLive => ENABLED <<Dropped>>_subVars
         /\ OverCancelled => ENABLED <<ctx = "cancelled" /\ End>>_subVars
         /\ OverReturned => ENABLED <<Leave>>_subVars
<1>1. OverLive => op = "unsubscribing"
  BY DEF SubInv, Outcomes, LateIsTheLast, Over, OverLive
<1> QED
  BY <1>1 DEF EndNotHeldBack, OverLive, OverCancelled, OverReturned

(* A subscription that failed or was dropped leaves no goroutine behind,   *)
(* whether unsubscribing succeeds or fails and whatever updates are on     *)
(* their way: provided the steps of EndNotHeldBack can be taken.           *)
THEOREM OverSubscriptionEnds == SubFairSpec /\ []EndNotHeldBack => SubscriptionEnds
<1>1. SubFairSpec => []SubInv
  BY SubscriptionInvariant, PTL DEF SubFairSpec
<1>2. SubInv /\ Over => OverLive \/ OverCancelled \/ OverReturned \/ OverGone
  BY DEF SubInv, SubTypeOK, Outcomes, Over, OverLive, OverCancelled, OverReturned, OverGone
<1> QED
  BY <1>1, <1>2, OverSteps, OverFairSteps, OverReady, PTL
     DEF SubFairSpec, SubSpec, SubscriptionEnds, Over, OverGone

-----------------------------------------------------------------------------
(* The memory of calls.                                                    *)

LEMMA ArgumentsStoredKeeps == ASSUME PinInv, NEW bs \in SUBSET Allocations, ArgumentsStored(bs) PROVE PinInv'
<1> USE DEF ArgumentsStored
<1>1. PinTypeOK'
  BY DEF PinInv, PinTypeOK, Keepers
<1>2. Kept'
  BY DEF PinInv, PinTypeOK, Kept, Keepers
<1>3. NothingStaysPinned'
  BY DEF PinInv, PinTypeOK, NothingStaysPinned, Keepers
<1>4. Keepers'
  BY DEF PinInv, PinTypeOK, NothingStaysPinned, Keepers
<1> QED
  BY <1>1, <1>2, <1>3, <1>4 DEF PinInv

LEMMA ResultStoredKeeps == ASSUME PinInv, NEW bs \in SUBSET Allocations, ResultStored(bs) PROVE PinInv'
<1> USE DEF ResultStored
<1>1. PinTypeOK'
  BY DEF PinInv, PinTypeOK, Keepers
<1>2. Kept'
  BY DEF PinInv, PinTypeOK, Kept, Keepers
<1>3. NothingStaysPinned'
  BY DEF PinInv, PinTypeOK, NothingStaysPinned, Keepers
<1>4. Keepers'
  BY DEF PinInv, PinTypeOK, NothingStaysPinned, Keepers
<1> QED
  BY <1>1, <1>2, <1>3, <1>4 DEF PinInv

LEMMA OutgoingStoredKeeps == ASSUME PinInv, NEW bs \in SUBSET Allocations, OutgoingStored(bs) PROVE PinInv'
<1> USE DEF OutgoingStored
<1>1. PinTypeOK'
  BY DEF PinInv, PinTypeOK, Keepers
<1>2. Kept'
  BY DEF PinInv, PinTypeOK, Kept, Keepers
<1>3. NothingStaysPinned'
  BY DEF PinInv, PinTypeOK, NothingStaysPinned, Keepers
<1>4. Keepers'
  BY DEF PinInv, PinTypeOK, NothingStaysPinned, Keepers
<1> QED
  BY <1>1, <1>2, <1>3, <1>4 DEF PinInv

LEMMA AnswerStoredKeeps == ASSUME PinInv, NEW bs \in SUBSET Allocations, AnswerStored(bs) PROVE PinInv'
<1> USE DEF AnswerStored
<1>1. PinTypeOK'
  BY DEF PinInv, PinTypeOK, Keepers
<1>2. Kept'
  BY DEF PinInv, PinTypeOK, Kept, Keepers
<1>3. NothingStaysPinned'
  BY DEF PinInv, PinTypeOK, NothingStaysPinned, Keepers
<1>4. Keepers'
  BY DEF PinInv, PinTypeOK, NothingStaysPinned, Keepers
<1> QED
  BY <1>1, <1>2, <1>3, <1>4 DEF PinInv

LEMMA ArgumentsLiftedKeeps == ASSUME PinInv, NEW aliased \in SUBSET blocks, ArgumentsLifted(aliased) PROVE PinInv'
<1> USE DEF ArgumentsLifted
<1>1. PinTypeOK'
  BY DEF PinInv, PinTypeOK, Keepers
<1>2. Kept'
  BY DEF PinInv, PinTypeOK, Kept, Keepers
<1>3. NothingStaysPinned'
  BY DEF PinInv, PinTypeOK, NothingStaysPinned, Keepers
<1>4. Keepers'
  BY DEF PinInv, PinTypeOK, NothingStaysPinned, Keepers
<1> QED
  BY <1>1, <1>2, <1>3, <1>4 DEF PinInv

LEMMA AnswerLiftedKeeps == ASSUME PinInv, NEW aliased \in SUBSET blocks, AnswerLifted(aliased) PROVE PinInv'
<1> USE DEF AnswerLifted
<1>1. PinTypeOK'
  BY DEF PinInv, PinTypeOK, Keepers
<1>2. Kept'
  BY DEF PinInv, PinTypeOK, Kept, Keepers
<1>3. NothingStaysPinned'
  BY DEF PinInv, PinTypeOK, NothingStaysPinned, Keepers
<1>4. Keepers'
  BY DEF PinInv, PinTypeOK, NothingStaysPinned, Keepers
<1> QED
  BY <1>1, <1>2, <1>3, <1>4 DEF PinInv

LEMMA ArgumentsUnpinnedKeeps == ASSUME PinInv, NEW unpins \in BOOLEAN, blocks # {} => unpins, ArgumentsUnpinned(unpins) PROVE PinInv'
<1> USE DEF ArgumentsUnpinned
<1>1. PinTypeOK'
  BY DEF PinInv, PinTypeOK, Keepers
<1>2. Kept'
  BY DEF PinInv, PinTypeOK, Kept, Keepers
<1>3. NothingStaysPinned'
  BY DEF PinInv, PinTypeOK, NothingStaysPinned, Keepers
<1>4. Keepers'
  BY DEF PinInv, PinTypeOK, NothingStaysPinned, Keepers
<1> QED
  BY <1>1, <1>2, <1>3, <1>4 DEF PinInv

LEMMA ResultUnpinnedKeeps == ASSUME PinInv, NEW unpins \in BOOLEAN, blocks # {} => unpins, ResultUnpinned(unpins) PROVE PinInv'
<1> USE DEF ResultUnpinned
<1>1. PinTypeOK'
  BY DEF PinInv, PinTypeOK, Keepers
<1>2. Kept'
  BY DEF PinInv, PinTypeOK, Kept, Keepers
<1>3. NothingStaysPinned'
  BY DEF PinInv, PinTypeOK, NothingStaysPinned, Keepers
<1>4. Keepers'
  BY DEF PinInv, PinTypeOK, NothingStaysPinned, Keepers
<1> QED
  BY <1>1, <1>2, <1>3, <1>4 DEF PinInv

LEMMA ReadKeeps == ASSUME PinInv, ResultRead \/ OutgoingRead PROVE PinInv'
<1> USE DEF ResultRead, OutgoingRead
<1>1. PinTypeOK'
  BY DEF PinInv, PinTypeOK, Keepers
<1>2. Kept'
  BY DEF PinInv, PinTypeOK, Kept, Keepers
<1>3. NothingStaysPinned'
  BY DEF PinInv, PinTypeOK, NothingStaysPinned, Keepers
<1>4. Keepers'
  BY DEF PinInv, PinTypeOK, NothingStaysPinned, Keepers
<1> QED
  BY <1>1, <1>2, <1>3, <1>4 DEF PinInv

LEMMA CollectKeeps == ASSUME PinInv, Collect PROVE PinInv'
<1> USE DEF Collect
<1>1. PinTypeOK'
  BY DEF PinInv, PinTypeOK, Keepers
<1>2. Kept'
  BY DEF PinInv, PinTypeOK, Kept, Keepers
<1>3. NothingStaysPinned'
  BY DEF PinInv, PinTypeOK, NothingStaysPinned, Keepers
<1>4. Keepers'
  BY DEF PinInv, PinTypeOK, NothingStaysPinned, Keepers
<1> QED
  BY <1>1, <1>2, <1>3, <1>4 DEF PinInv

LEMMA NoPinningKeeps == ASSUME PinInv, UNCHANGED pinVars PROVE PinInv'
<1> USE DEF pinVars
<1>1. PinTypeOK'
  BY DEF PinInv, PinTypeOK, Keepers
<1>2. Kept'
  BY DEF PinInv, PinTypeOK, Kept, Keepers
<1>3. NothingStaysPinned'
  BY DEF PinInv, PinTypeOK, NothingStaysPinned, Keepers
<1>4. Keepers'
  BY DEF PinInv, PinTypeOK, NothingStaysPinned, Keepers
<1> QED
  BY <1>1, <1>2, <1>3, <1>4 DEF PinInv

LEMMA PinningKeeps == PinInv /\ [PinNext]_pinVars => PinInv'
<1> SUFFICES ASSUME PinInv, [PinNext]_pinVars PROVE PinInv'
  OBVIOUS
<1>1. CASE /\ blocks' \subseteq Allocations
           /\ ArgumentsStored(blocks') \/ ResultStored(blocks')
              \/ OutgoingStored(blocks') \/ AnswerStored(blocks')
  BY <1>1, ArgumentsStoredKeeps, ResultStoredKeeps, OutgoingStoredKeeps, AnswerStoredKeeps
<1>2. CASE /\ referenced' \subseteq blocks
           /\ ArgumentsLifted(referenced') \/ AnswerLifted(referenced')
  BY <1>2, ArgumentsLiftedKeeps, AnswerLiftedKeeps
<1>3. ASSUME NEW unpins \in BOOLEAN, blocks # {} => unpins,
             ArgumentsUnpinned(unpins) \/ ResultUnpinned(unpins)
      PROVE  PinInv'
  BY <1>3, ArgumentsUnpinnedKeeps, ResultUnpinnedKeeps
<1>4. CASE ResultRead \/ OutgoingRead \/ Collect
  BY <1>4, ReadKeeps, CollectKeeps
<1>5. CASE UNCHANGED pinVars
  BY <1>5, NoPinningKeeps
<1> QED
  BY <1>1, <1>2, <1>3, <1>4, <1>5 DEF PinNext

(* The invariant holds of any calls of any exports and imports that pin    *)
(* what they store, with a collection between any two steps.               *)
THEOREM PinningInvariant == PinSpec => []PinInv
<1>1. PinInit => PinInv
  BY DEF PinInit, PinInv, PinTypeOK, Kept, NothingStaysPinned, Keepers
<1>2. QED
  BY <1>1, PinningKeeps, PTL DEF PinSpec

(* What the host or a wrapper is about to read is there, and what a Go     *)
(* value refers to stays, though its block is unpinned before it is used.  *)
THEOREM MemoryIsKept == PinSpec => []Kept
<1>1. PinInv => Kept
  BY DEF PinInv
<1>2. QED
  BY <1>1, PinningInvariant, PTL

(* Calls leave nothing pinned, whatever imports are called on the way, but *)
(* for what those gave since arguments were last unpinned.                 *)
THEOREM NothingIsLeftPinned == PinSpec => []NothingStaysPinned
<1>1. PinInv => NothingStaysPinned
  BY DEF PinInv
<1>2. QED
  BY <1>1, PinningInvariant, PTL

=============================================================================
