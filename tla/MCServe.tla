-------------------------------- MODULE MCServe ----------------------------
(***************************************************************************)
(* Instances of Serve for TLC.                                             *)
(***************************************************************************)
EXTENDS Serve, TLC

CONSTANTS c1, c2, c3, main, tag, p1, p2, f1, s1, s2

\* c1 is c2's parent, and c2 is c3's.
Chain == [x \in Commits |-> IF x = c1 THEN {c1} ELSE {c1, c2}]
Line  == [x \in Commits |-> IF x = c3 THEN Commits ELSE Chain[x]]

Everywhere == Steps \ Quiescent
\* The steps where a failure leaves nothing for others to trip over: not
\* between the two PUTs, not between the CAS and the bump.
Harmless   == {"download", "wipe", "packed", "record", "serve", "advert",
               "receive", "putPack", "cas", "promote"}
NotPutIdx  == Everywhere \ {"putIdx"}
\* Where a failure leaves something half done.
Sharp      == Announcing \cup {"putIdx", "packed", "record", "promote"}
Torn       == {"refs", "packed-refs", "HEAD", ".ogorod-version"}
\* A child that outlives its handler from its first step on, or from the
\* hook's, does whatever one that loses it later does.
Orphans    == {"getVersion", "hookList", "promote"}

PusherSymmetry == Permutations(Pushers)
Symmetry       == Permutations(Servers) \cup PusherSymmetry
=============================================================================
