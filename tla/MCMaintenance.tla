---------------------------- MODULE MCMaintenance --------------------------
(***************************************************************************)
(* Instances of Maintenance for TLC.                                       *)
(***************************************************************************)
EXTENDS Maintenance, TLC

CONSTANTS c1, c2, main, u1, j1, j2

\* c2 needs c1.
LineParents == [x \in Commits |-> IF x = c1 THEN {} ELSE {c1}]
Line        == [x \in Commits |-> {x} \cup LineParents[x]]

JobSymmetry == Permutations(Jobs)
=============================================================================
