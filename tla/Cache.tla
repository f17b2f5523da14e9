-------------------------------- MODULE Cache ------------------------------
(***************************************************************************)
(* The bare repository <cache-dir>/<repo>.git of every server, and the     *)
(* file writes sync.go and git make in it.  The files are those            *)
(* ensureBareRepo creates before the first SyncRepo; a server that was     *)
(* never asked for the repository has the same cache as a fresh one.       *)
(***************************************************************************)
EXTENDS Git

CONSTANT Servers

VARIABLES
  packDir,      \* objects/pack: packs with a .pack and an .idx file
  tornIdx,      \* those whose .idx was cut short while it was written
  packedRefs,   \* packed-refs
  looseRefs,    \* refs/, NoSha where there is no file
  headFile,     \* HEAD, NoRef while it is the placeholder or cut short
  versionFile   \* .ogorod-version, 0 when missing or unreadable

cacheVars ==
  <<packDir, tornIdx, packedRefs, looseRefs, headFile, versionFile>>

CacheTypeOK ==
  /\ packDir \in [Servers -> SUBSET Pack]
  /\ tornIdx \in [Servers -> SUBSET Pack]
  /\ packedRefs \in [Servers -> RefMap]
  /\ looseRefs \in [Servers -> RefMap]
  /\ headFile \in [Servers -> Head]
  /\ versionFile \in [Servers -> Nat]

\* ensureBareRepo.
CacheInit ==
  /\ packDir = [s \in Servers |-> {}]
  /\ tornIdx = [s \in Servers |-> {}]
  /\ packedRefs = [s \in Servers |-> NoRefs]
  /\ looseRefs = [s \in Servers |-> NoRefs]
  /\ headFile = [s \in Servers |-> NoRef]
  /\ versionFile = [s \in Servers |-> 0]

\* What git reads: a loose ref shadows the packed one; a pack whose index it
\* cannot open does not exist.
Eff(s) == [r \in Refs |-> IF looseRefs[s][r] # NoSha THEN looseRefs[s][r]
                          ELSE packedRefs[s][r]]
LocalObjects(s) == UNION (packDir[s] \ tornIdx[s])

-----------------------------------------------------------------------------

StorePack(s, p)   == packDir' = [packDir EXCEPT ![s] = @ \cup {p}]
TearIdxFile(s, p) == tornIdx' = [tornIdx EXCEPT ![s] = @ \cup {p}]

\* A sync that leaves the loose refs where they are.
KeepLooseRefs(s) == looseRefs' = looseRefs

\* A removal of refs/ that stops half way.
RemoveLooseRefs(s, gone) ==
  looseRefs' = [looseRefs EXCEPT ![s] =
                  [r \in Refs |-> IF r \in gone THEN NoSha ELSE @[r]]]

WipeLooseRefs(s) == looseRefs' = [looseRefs EXCEPT ![s] = NoRefs]

WritePackedRefs(s, map) == packedRefs' = [packedRefs EXCEPT ![s] = map]

\* Without a HEAD key the file stays as it is.
WriteHead(s, h) ==
  headFile' = [headFile EXCEPT ![s] = IF h = NoRef THEN @ ELSE h]

TruncateHead(s) == headFile' = [headFile EXCEPT ![s] = NoRef]

WriteLocalVersion(s, v) == versionFile' = [versionFile EXCEPT ![s] = v]

\* git moves some refs of a push to their new values: an update writes a
\* loose ref, a deletion removes the loose and the packed one.
ApplyRefs(s, done, new) ==
  /\ looseRefs' = [looseRefs EXCEPT ![s] =
       [r \in Refs |-> IF r \in done THEN new[r] ELSE @[r]]]
  /\ packedRefs' = [packedRefs EXCEPT ![s] =
       [r \in Refs |-> IF r \in done /\ new[r] = NoSha THEN NoSha ELSE @[r]]]
=============================================================================
