------------------------- MODULE MCDecisionReplay -------------------------
(***************************************************************************)
(* DecisionReplay for TLC: an instant before the other, each with a zone,  *)
(* and one timestamp without.  Voters and roles differ only by their names.*)
(***************************************************************************)
EXTENDS DecisionReplay, TLC

MCStamps == {[at |-> 1, zoned |-> TRUE], [at |-> 2, zoned |-> TRUE],
             [at |-> 1, zoned |-> FALSE]}

Symmetry == Permutations(Voters) \cup Permutations(Roles)
=============================================================================
