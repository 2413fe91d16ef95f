----------------------------- MODULE MCRestore -----------------------------
(***************************************************************************)
(* A small instance of Restore for TLC.                                    *)
(***************************************************************************)
EXTENDS Restore, TLC

Symmetry == Permutations(Path) \cup Permutations(Hash) \cup Permutations(Worker)
=============================================================================
