-------------------------------- MODULE Git --------------------------------
(***************************************************************************)
(* Refs, commits and packs, as far as ogorod tells them apart.             *)
(*                                                                         *)
(* A commit stands for itself and for the trees and blobs only it          *)
(* introduces.  Reach[c] is everything childHashes (objects.go) leads to   *)
(* from c, c included.  A pack file is the set of commits it contains: git *)
(* names a pack after its contents, so equal contents mean equal names.    *)
(***************************************************************************)
EXTENDS Integers

CONSTANTS
  Commits,   \* the commits that can exist
  Refs,      \* the names of one repository's refs, HEAD excepted
  Branches,  \* those under refs/heads/
  NoSha,     \* the value of a ref that does not exist (OldSha or NewSha "")
  NoRef,     \* the value of a HEAD that does not exist
  Reach      \* Reach[c]: what is reachable from c

ASSUME NoShaAssumption == NoSha \notin Commits

ASSUME BranchAssumption == Branches \subseteq Refs /\ NoRef \notin Refs

ASSUME ReachAssumption ==
  /\ Reach \in [Commits -> SUBSET Commits]
  /\ \A c \in Commits : c \in Reach[c]
  /\ \A c \in Commits : \A d \in Reach[c] : Reach[d] \subseteq Reach[c]

Sha    == Commits \cup {NoSha}
RefMap == [Refs -> Sha]
Pack   == SUBSET Commits
Head   == Branches \cup {NoRef}

NoRefs == [r \in Refs |-> NoSha]

\* A push is two maps, what the pusher saw and what it wants; its commands
\* are the refs on which they differ.
Changed(old, new) == {r \in Refs : new[r] # old[r]}

\* Everything reachable from the value of a ref, from a map of refs.
History(v)     == IF v = NoSha THEN {} ELSE Reach[v]
HistoryOf(map) == UNION {History(map[r]) : r \in Refs}

\* Creating or deleting a ref is never a non-fast-forward for git.
FastForward(old, new) == old = NoSha \/ new = NoSha \/ old \in History(new)
=============================================================================
