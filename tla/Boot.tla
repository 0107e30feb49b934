-------------------------------- MODULE Boot --------------------------------
(***************************************************************************)
(* How the embedded Dapr runtime of the go provider family comes up        *)
(* (go-outbound, internal/daprrt) and meets the app: the attach export of  *)
(* the pump, the building-block calls that start the runtime on demand and *)
(* wait for it, the goroutine that boots it, and the events Dapr delivers  *)
(* from the moment its initialization begins.                              *)
(*                                                                         *)
(* One thread runs the app, the pump and the exports; the boot goroutine   *)
(* runs whenever an export is on the stack.  Every section under mu is one *)
(* step.  A panic is kept in trap and ends the composition.                *)
(***************************************************************************)
EXTENDS Naturals

CONSTANTS
  RunFails,      \* TRUE: r.Run may end before Dapr has initialized
  StartupCalls   \* TRUE: callbacks that Dapr's initialization waits for
                 \*       may call building blocks

ASSUME ConstantsAssumption == RunFails \in BOOLEAN /\ StartupCalls \in BOOLEAN

VARIABLES
  attached,       \* events.attached
  started,        \* daprrt.started
  attachedStart,  \* daprrt.attachedStart
  app,            \* daprrt.app is set
  boot,           \* where the boot goroutine is in run(args)
  rt,             \* daprrt.rt is set
  ready,          \* the channel ready is closed
  failed,         \* daprrt.failed: "nil", or what it says
  initComplete,   \* the runtime's channel initComplete is closed
  pump,           \* the pump, or whoever drives the app without one
  call,           \* the app's building-block call, inside API()
  event,          \* the delivery Dapr makes to the app
  served,         \* history: the boot state when API last returned
  trap            \* the panic that ended the composition, "none" if it runs

daprrt == <<started, attachedStart, app, boot, rt, ready, failed, initComplete>>
vars == <<attached, daprrt, pump, call, event, served, trap>>

BootStates == {"off", "options", "building", "initializing", "asking",
               "serving", "returned", "ended"}
Rank == [off |-> 0, options |-> 1, building |-> 2, initializing |-> 3, asking |-> 4,
         serving |-> 5, returned |-> 6, ended |-> 7]

Init ==
  /\ attached = FALSE
  /\ started = FALSE
  /\ attachedStart = FALSE
  /\ app = FALSE
  /\ boot = "off"
  /\ rt = FALSE
  /\ ready = FALSE
  /\ failed = "nil"
  /\ initComplete = FALSE
  /\ pump = "detached"
  /\ call = "none"
  /\ event = "none"
  /\ served = "never"
  /\ trap = "none"

-----------------------------------------------------------------------------
(* start(a), under mu.                                                     *)
Start(a) ==
  /\ started' = TRUE
  /\ app' = a
  /\ boot' = "options"

(* Mutant of StartAttached: the runtime is started although it already is. *)
StartAttachedAnyway ==
  /\ pump = "attaching"
  /\ attachedStart' = TRUE
  /\ Start(TRUE)
  /\ pump' = "pumping"
  /\ UNCHANGED <<attached, rt, ready, failed, initComplete, call, event, served, trap>>

(* The attach export: events.Attach, then StartAttached.  mu may be held   *)
(* by the boot goroutine meanwhile, which then runs between the two.       *)
AttachEvents ==
  /\ pump = "detached"
  /\ call = "none"
  /\ attached' = TRUE
  /\ pump' = "attaching"
  /\ UNCHANGED <<daprrt, call, event, served, trap>>

StartAttached ==
  /\ pump = "attaching"
  /\ IF started
     THEN /\ IF attachedStart
             THEN pump' = "pumping" /\ UNCHANGED trap
             ELSE trap' = "attached too late" /\ UNCHANGED pump
          /\ UNCHANGED <<started, attachedStart, app, boot>>
     ELSE /\ attachedStart' = TRUE
          /\ Start(TRUE)
          /\ pump' = "pumping"
          /\ UNCHANGED trap
  /\ UNCHANGED <<attached, rt, ready, failed, initComplete, call, event, served>>

-----------------------------------------------------------------------------
(* API().  The app calls a building block inside a callback, or, before a  *)
(* pump attached, on its own account.                                      *)
MayCall ==
  \/ pump = "detached"
  \/ pump = "callback" /\ (StartupCalls \/ initComplete)

CallAPI ==
  /\ MayCall
  /\ call = "none"
  /\ IF started THEN UNCHANGED <<started, app, boot>> ELSE Start(FALSE)
  /\ call' = "ready"
  /\ UNCHANGED <<attached, attachedStart, rt, ready, failed, initComplete, pump,
                 event, served, trap>>

(* <-ready, then rt and failed are read under mu.                          *)
SeeReady ==
  /\ call = "ready"
  /\ ready
  /\ IF rt THEN call' = "init" /\ UNCHANGED trap
           ELSE trap' = "failed to start" /\ UNCHANGED call
  /\ UNCHANGED <<attached, daprrt, pump, event, served>>

(* Mutant of SeeInitComplete: the object is handed out as soon as it exists *)
HandOutEarly ==
  /\ call = "init"
  /\ call' = "none"
  /\ served' = boot
  /\ UNCHANGED <<attached, daprrt, pump, event, trap>>

(* <-initComplete; the API object is handed out, whatever boot is by now.  *)
SeeInitComplete ==
  /\ call = "init"
  /\ initComplete
  /\ call' = "none"
  /\ served' = boot
  /\ UNCHANGED <<attached, daprrt, pump, event, trap>>

-----------------------------------------------------------------------------
(* The boot goroutine: run(args), then failed and ready under mu.          *)
Options ==
  /\ boot = "options"
  /\ boot' \in {"building", "returned"}
  /\ UNCHANGED <<attached, started, attachedStart, app, rt, ready, failed,
                 initComplete, pump, call, event, served, trap>>

(* FromConfig fails; or the runtime is built, attached to the app, and     *)
(* published.                                                              *)
BuildFails ==
  /\ boot = "building"
  /\ boot' = "returned"
  /\ UNCHANGED <<attached, started, attachedStart, app, rt, ready, failed,
                 initComplete, pump, call, event, served, trap>>

Publish ==
  /\ boot = "building"
  /\ rt' = TRUE
  /\ ready' = TRUE
  /\ boot' = "initializing"
  /\ UNCHANGED <<attached, started, attachedStart, app, failed, initComplete,
                 pump, call, event, served, trap>>

(* r.Run: Dapr asks an attached app at start-up what it wants (its actor   *)
(* configuration, its subscriptions) and waits for the answers.  deliver   *)
(* panics when events.attached is not set.                                 *)
AskApp ==
  /\ boot = "initializing"
  /\ app
  /\ IF attached
     THEN boot' = "asking" /\ event' = "queued" /\ UNCHANGED trap
     ELSE trap' = "not attached" /\ UNCHANGED <<boot, event>>
  /\ UNCHANGED <<attached, started, attachedStart, app, rt, ready, failed,
                 initComplete, pump, call, served>>

Initialized ==
  /\ \/ boot = "initializing" /\ ~app
     \/ boot = "asking" /\ event = "none"
  /\ initComplete' = TRUE
  /\ boot' = "serving"
  /\ UNCHANGED <<attached, started, attachedStart, app, rt, ready, failed,
                 pump, call, event, served, trap>>

RunEnds ==
  /\ \/ boot = "serving"
     \/ RunFails /\ boot \in {"initializing", "asking"}
  /\ boot' = "returned"
  /\ UNCHANGED <<attached, started, attachedStart, app, rt, ready, failed,
                 initComplete, pump, call, event, served, trap>>

(* Mutants of Finish: ready is closed whether it is already or not; never. *)
FinishClosing ==
  /\ boot = "returned"
  /\ failed' \in {"error", "dapr runtime stopped"}
  /\ ready' = TRUE
  /\ trap' = IF ready THEN "close of closed channel" ELSE trap
  /\ boot' = "ended"
  /\ UNCHANGED <<attached, started, attachedStart, app, rt, initComplete,
                 pump, call, event, served>>

FinishSilently ==
  /\ boot = "returned"
  /\ failed' \in {"error", "dapr runtime stopped"}
  /\ boot' = "ended"
  /\ UNCHANGED <<attached, started, attachedStart, app, rt, ready, initComplete,
                 pump, call, event, served, trap>>

(* The deferred part: failed is set, ready closed unless it is.            *)
Finish ==
  /\ boot = "returned"
  /\ failed' \in {"error", "dapr runtime stopped"}
  /\ IF ready THEN UNCHANGED ready ELSE ready' = TRUE
  /\ boot' = "ended"
  /\ UNCHANGED <<attached, started, attachedStart, app, rt, initComplete,
                 pump, call, event, served, trap>>

-----------------------------------------------------------------------------
(* A delivery once Dapr serves, and the pump's way with every delivery.    *)
Deliver ==
  /\ boot = "serving"
  /\ app
  /\ event = "none"
  /\ IF attached THEN event' = "queued" /\ UNCHANGED trap
                 ELSE trap' = "not attached" /\ UNCHANGED event
  /\ UNCHANGED <<attached, daprrt, pump, call, served>>

NextEvent ==
  /\ pump = "pumping"
  /\ event = "queued"
  /\ event' = "taken"
  /\ pump' = "callback"
  /\ UNCHANGED <<attached, daprrt, call, served, trap>>

CompleteEvent ==
  /\ pump = "callback"
  /\ call = "none"
  /\ event' = "none"
  /\ pump' = "pumping"
  /\ UNCHANGED <<attached, daprrt, call, served, trap>>

-----------------------------------------------------------------------------
Running == trap = "none"

BootStep ==
  /\ Running
  /\ Options \/ BuildFails \/ Publish \/ AskApp \/ Initialized \/ Finish

PumpStep == Running /\ (StartAttached \/ NextEvent \/ CompleteEvent)
CallStep == Running /\ (SeeReady \/ SeeInitComplete)

Next ==
  \/ BootStep \/ PumpStep \/ CallStep
  \/ Running /\ (RunEnds \/ Deliver \/ AttachEvents \/ CallAPI)

Spec == Init /\ [][Next]_vars

(* The pump and a call go on as soon as they can, and so does the boot     *)
(* goroutine: an export is on the stack while anybody waits for it.  The   *)
(* runtime need never end, nor the app make a call; a callback ends.       *)
Fairness == WF_vars(BootStep) /\ WF_vars(PumpStep) /\ WF_vars(CallStep)

FairSpec == Spec /\ Fairness

-----------------------------------------------------------------------------
TypeOK ==
  /\ attached \in BOOLEAN /\ started \in BOOLEAN /\ attachedStart \in BOOLEAN
  /\ app \in BOOLEAN /\ rt \in BOOLEAN /\ ready \in BOOLEAN
  /\ initComplete \in BOOLEAN
  /\ boot \in BootStates
  /\ failed \in {"nil", "error", "dapr runtime stopped"}
  /\ pump \in {"detached", "attaching", "pumping", "callback"}
  /\ call \in {"none", "ready", "init"}
  /\ event \in {"none", "queued", "taken"}
  /\ served \in BootStates \cup {"never"}
  /\ trap \in {"none", "attached too late", "failed to start", "not attached",
               "close of closed channel"}

(* Whatever the order of attach, calls and the boot goroutine: no delivery *)
(* meets an event queue nobody attached to, ready is closed once, and the  *)
(* pump only ever pumps a runtime that has the app.                        *)
NoInternalPanic ==
  /\ trap \in {"none", "attached too late", "failed to start"}
  /\ pump \in {"pumping", "callback"} => app

(* API panics only over a runtime that was never built, with the reason in *)
(* hand: failed is set before ready is closed.                             *)
PanicHasReason == trap = "failed to start" => failed # "nil" /\ ~rt

(* There is one runtime: it keeps the app it was started with, or without, *)
(* and its boot never goes back, whoever asks for a start again.           *)
StartedOnce ==
  [][started => /\ started' /\ app' = app /\ attachedStart' = attachedStart
                /\ Rank[boot'] >= Rank[boot]]_vars

(* API hands out the object of a runtime that has initialized.             *)
HandsOutInitialized ==
  [][call = "init" /\ call' = "none" => rt /\ initComplete]_vars

Strength ==
  /\ attachedStart => started /\ app
  /\ started <=> boot # "off"
  /\ app => attachedStart /\ attached
  /\ pump = "detached" <=> ~attached
  /\ rt => ready
  /\ boot \in {"off", "options", "building"} => ~ready /\ ~rt
  /\ boot \in {"initializing", "asking", "serving"} => rt
  /\ boot = "ended" => ready
  /\ ready /\ ~rt => boot = "ended"
  /\ failed # "nil" <=> boot = "ended"
  /\ initComplete => rt
  /\ call = "init" => rt
  /\ boot = "asking" => app
  /\ boot = "serving" => initComplete
  /\ call # "none" => started /\ pump \in {"detached", "callback"}

IInv == TypeOK /\ NoInternalPanic /\ PanicHasReason /\ Strength

(* A building-block call returns or panics, but for two cases in which     *)
(* nobody is left to close initComplete: the runtime has ended before it   *)
(* had initialized, and the call is made by a callback that the            *)
(* initialization itself waits for.                                        *)
NeverInitializes == rt /\ failed # "nil" /\ ~initComplete
CalledFromStartup == pump = "callback" /\ boot = "asking"

CallsReturn ==
  call # "none" ~>
    (call = "none" \/ trap # "none" \/ NeverInitializes \/ CalledFromStartup)

(* The boot goroutine waits for nothing but the answer of the app that it  *)
(* asks, and a call for nothing but the two channels.                      *)
BootNotHeldBack ==
  /\ Running /\ boot \in {"options", "building", "initializing", "returned"} =>
       ENABLED <<BootStep>>_vars
  /\ Running /\ ((call = "ready" /\ ready) \/ (call = "init" /\ initComplete)) =>
       ENABLED <<CallStep>>_vars

StateInv == IInv /\ BootNotHeldBack
=============================================================================
