--------------------------- MODULE MCEaExecution ---------------------------
(***************************************************************************)
(* EaExecution on a small instance.                                        *)
(***************************************************************************)
EXTENDS EaExecution, TLC

Symmetry == Permutations(Charts) \union Permutations(Requests)
=============================================================================
