-------------------------- MODULE MCBenchService --------------------------
(***************************************************************************)
(* BenchService for TLC.  Calls differ only by their name, so a safety run *)
(* may take them up to a permutation.                                      *)
(***************************************************************************)
EXTENDS BenchService, TLC

Symmetry == Permutations(Calls)
=============================================================================
