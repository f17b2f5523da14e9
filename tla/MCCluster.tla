------------------------------ MODULE MCCluster ----------------------------
(***************************************************************************)
(* Instances of Cluster for TLC.                                           *)
(***************************************************************************)
EXTENDS Cluster

CONSTANTS c1, c2, f1, main, tag, p1, s1, u1

\* c2 needs c1.
LineParents == [x \in Commits |-> IF x = c1 THEN {} ELSE {c1}]
Line        == [x \in Commits |-> {x} \cup LineParents[x]]

\* Bound: a tag is created, with c1, and nobody asks for more; branches move.
TagStays ==
  /\ \A c \in Pushers : want[c][tag] \in {adv[c][tag], c1}
  /\ \A u \in Users : uWant[u][tag] \in {uAdv[u][tag], c1}
=============================================================================
