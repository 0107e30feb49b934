------------------------------ MODULE Pinning ------------------------------
(***************************************************************************)
(* How long memory lives that a call across the boundary of the Go         *)
(* component uses.  Linear memory is the Go heap: a block that is not      *)
(* pinned and that no Go value refers to may be collected at any moment,   *)
(* and a pointer the host or a wrapper holds as a number is no reference.  *)
(*                                                                         *)
(* A call passes a value up to four times: the arguments of the export, the *)
(* arguments and the results of the imports that it calls, and its own     *)
(* result.  Each action here is what one step of Boundary does to the      *)
(* blocks of that value, whatever the value is.                            *)
(***************************************************************************)
CONSTANT Allocations  \* the blocks there may be

VARIABLES
  phase,      \* how far the call is
  blocks,     \* the blocks of the value that is passed
  requested,  \* the blocks pinned since the host asked for them (cabi_realloc)
  pinned,     \* the blocks in syncExportPinner
  held,       \* the blocks in the pinner of the import's wrapper
  referenced, \* the blocks that Go values refer to
  freed,      \* the blocks of the value that were collected
  given       \* history: what imports gave of the blocks that are requested

pinVars == <<phase, blocks, requested, pinned, held, referenced, freed, given>>

PinInit ==
  /\ phase = "idle"
  /\ blocks = {} /\ requested = {} /\ pinned = {} /\ held = {}
  /\ referenced = {} /\ freed = {} /\ given = {}

-----------------------------------------------------------------------------
(* The export.                                                             *)

(* The host stores the arguments in memory that it asks for.               *)
ArgumentsStored(bs) ==
  /\ phase = "idle" /\ phase' = "called"
  /\ blocks' = bs /\ requested' = requested \cup bs /\ freed' = {}
  /\ UNCHANGED <<pinned, held, referenced, given>>

(* The wrapper makes Go values of them, some of which alias that memory.   *)
ArgumentsLifted(aliased) ==
  /\ phase = "called" /\ phase' = "lifted"
  /\ referenced' = aliased
  /\ UNCHANGED <<blocks, requested, pinned, held, freed, given>>

(* It unpins what the host has asked for, unless it takes nothing there.   *)
ArgumentsUnpinned(unpins) ==
  /\ phase = "lifted" /\ phase' = "running"
  /\ requested' = IF unpins THEN {} ELSE requested
  /\ given' = IF unpins THEN {} ELSE given
  /\ UNCHANGED <<blocks, pinned, held, referenced, freed>>

(* The Go function has returned, and the wrapper stores and pins the result.*)
ResultStored(bs) ==
  /\ phase = "running" /\ phase' = "returned"
  /\ blocks' = bs /\ pinned' = pinned \cup bs /\ freed' = {} /\ referenced' = {}
  /\ UNCHANGED <<requested, held, given>>

ResultRead ==
  /\ phase = "returned" /\ phase' = "read"
  /\ UNCHANGED <<blocks, requested, pinned, held, referenced, freed, given>>

(* A mutant: post-return leaves what the wrapper pinned.                   *)
ResultForgotten(unpins) ==
  /\ phase = "read" /\ phase' = "idle"
  /\ blocks' = {} /\ freed' = {}
  /\ UNCHANGED <<requested, pinned, held, referenced, given>>

(* Post-return, of the exports that have one.                              *)
ResultUnpinned(unpins) ==
  /\ phase = "read" /\ phase' = "idle"
  /\ pinned' = IF unpins THEN {} ELSE pinned
  /\ blocks' = {} /\ freed' = {}
  /\ UNCHANGED <<requested, held, referenced, given>>

-----------------------------------------------------------------------------
(* An import that the Go code calls.                                       *)

(* The wrapper stores the arguments in memory that it pins.                *)
OutgoingStored(bs) ==
  /\ phase = "running" /\ phase' = "asking"
  /\ blocks' = bs /\ held' = bs /\ freed' = {} /\ referenced' = {}
  /\ UNCHANGED <<requested, pinned, given>>

OutgoingRead ==
  /\ phase = "asking" /\ phase' = "served"
  /\ UNCHANGED <<blocks, requested, pinned, held, referenced, freed, given>>

(* The host stores the result in memory that it asks for.                  *)
AnswerStored(bs) ==
  /\ phase = "served" /\ phase' = "answered"
  /\ blocks' = bs /\ requested' = requested \cup bs /\ freed' = {}
  /\ given' = given \cup bs
  /\ UNCHANGED <<pinned, held, referenced>>

(* The wrapper makes Go values of it and returns, its pinner with it.      *)
AnswerLifted(aliased) ==
  /\ phase = "answered" /\ phase' = "running"
  /\ referenced' = aliased /\ held' = {}
  /\ UNCHANGED <<blocks, requested, pinned, freed, given>>

-----------------------------------------------------------------------------
(* The Go runtime collects what nothing keeps.                             *)
Collect ==
  /\ phase # "idle"
  /\ freed' = blocks \ (requested \cup pinned \cup held \cup referenced)
  /\ freed' # freed
  /\ UNCHANGED <<phase, blocks, requested, pinned, held, referenced, given>>

(* A value that has something in memory is of a type that may have, and    *)
(* then its wrapper unpins or the export has a post-return.                *)
PinNext ==
  \/ /\ blocks' \subseteq Allocations
     /\ \/ ArgumentsStored(blocks') \/ ResultStored(blocks')
        \/ OutgoingStored(blocks') \/ AnswerStored(blocks')
  \/ /\ referenced' \subseteq blocks
     /\ ArgumentsLifted(referenced') \/ AnswerLifted(referenced')
  \/ \E unpins \in BOOLEAN :
       /\ blocks # {} => unpins
       /\ ArgumentsUnpinned(unpins) \/ ResultUnpinned(unpins)
  \/ ResultRead \/ OutgoingRead \/ Collect

PinSpec == PinInit /\ [][PinNext]_pinVars

-----------------------------------------------------------------------------
PinTypeOK ==
  /\ phase \in {"idle", "called", "lifted", "running", "returned", "read",
                "asking", "served", "answered"}
  /\ blocks \subseteq Allocations /\ requested \subseteq Allocations
  /\ pinned \subseteq Allocations /\ held \subseteq Allocations
  /\ referenced \subseteq Allocations /\ freed \subseteq blocks
  /\ given \subseteq requested

(* What is about to be read is still there, and so is what the Go function *)
(* has of the arguments, or of an import's result, after they are unpinned.*)
Kept ==
  /\ phase \in {"called", "returned", "asking", "answered"} => freed = {}
  /\ phase \in {"lifted", "running"} => referenced \cap freed = {}

(* Between two calls nothing is pinned but what imported functions gave    *)
(* since a call last brought arguments in memory, which is when that is    *)
(* unpinned.                                                               *)
NothingStaysPinned ==
  phase = "idle" => pinned = {} /\ held = {} /\ requested = given

(* What keeps the blocks of a value that is on its way, and what each of   *)
(* the three pinners has when.                                             *)
Keepers ==
  /\ phase \in {"called", "lifted", "answered"} => blocks \subseteq requested
  /\ phase \in {"returned", "read"} => pinned = blocks
  /\ phase \notin {"returned", "read"} => pinned = {}
  /\ phase = "asking" => held = blocks
  /\ phase \notin {"asking", "served", "answered"} => held = {}
  /\ phase \in {"called", "lifted"} => requested \subseteq given \cup blocks
  /\ phase \notin {"called", "lifted"} => requested = given

PinInv == PinTypeOK /\ Kept /\ NothingStaysPinned /\ Keepers
=============================================================================
