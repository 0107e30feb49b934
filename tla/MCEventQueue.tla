---------------------------- MODULE MCEventQueue ----------------------------
(* Small instances of EventQueue for TLC.                                  *)
EXTENDS EventQueue, TLC

Symmetry == Permutations(Callers) \cup Permutations(Bodies)
=============================================================================
