----------------------------- MODULE MCBoundary -----------------------------
(* Imported functions are called from an export that takes nothing         *)
(* (attach) and from one that takes a string in memory (terminate).        *)
EXTENDS Boundary

MCAllocations == Seq(Nat)

MCCallers == {f \in DOMAIN Exports : Exports[f] \in {Attach, Terminate}}
=============================================================================
