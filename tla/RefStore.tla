------------------------------ MODULE RefStore -----------------------------
(***************************************************************************)
(* What etcd and S3 are together, for one repository: refs that only ever  *)
(* move to what can be read back, whatever the order in which servers,     *)
(* hooks and helpers send their requests to the two of them.               *)
(* Serve and Helper implement it.                                          *)
(***************************************************************************)
EXTENDS Git

VARIABLES
  refs,    \* the ref map
  head,    \* the branch HEAD names, NoRef when there is no HEAD
  stored   \* the commits that can be read back, each with what it introduces

storeVars == <<refs, head, stored>>

Init == refs = NoRefs /\ head = NoRef /\ stored = {}

\* Objects arrive.  None goes.
Keep ==
  /\ stored \subseteq stored' /\ stored' \in SUBSET Commits
  /\ UNCHANGED <<refs, head>>

\* Refs move, any number of them at once (those of one transaction together,
\* those a helper forces one by one), and the histories they move to are there
\* to be fetched.
Move ==
  /\ refs' \in RefMap /\ HistoryOf(refs') \subseteq stored
  /\ UNCHANGED <<head, stored>>

\* HEAD is chosen once.
Choose ==
  /\ head = NoRef /\ head' \in Branches
  /\ UNCHANGED <<refs, stored>>

Next == Keep \/ Move \/ Choose

Spec == Init /\ [][Next]_storeVars
=============================================================================
