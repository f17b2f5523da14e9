------------------------------- MODULE MCHelper ----------------------------
(***************************************************************************)
(* Instances of Helper for TLC.                                            *)
(***************************************************************************)
EXTENDS Helper, TLC

CONSTANTS c1, c2, c3, main, tag, u1, u2

\* c1 is the parent of c2 and of c3.
ForkParents == [x \in Commits |-> IF x = c1 THEN {} ELSE {c1}]
Fork        == [x \in Commits |-> {x} \cup ForkParents[x]]

\* Where dying leaves something behind.
Sharp == {"download", "putIdx", "cas", "force", "initHead"}

UserSymmetry == Permutations(Users)
Symmetry     == UserSymmetry \cup Permutations({c2, c3})
=============================================================================
