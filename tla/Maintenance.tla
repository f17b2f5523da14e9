----------------------------- MODULE Maintenance ---------------------------
(***************************************************************************)
(* `ogorod gc` and `ogorod repack` on a repository that an older release   *)
(* left in the loose area, beside users of the remote helper who list,     *)
(* fetch and push all the while.  Neither command takes a lock.            *)
(*                                                                         *)
(* A member of Commits is any object here, and Parents is childHashes.     *)
(* task[j] names the call job j makes next; an operator starts its jobs,   *)
(* and starts them again, when he likes (or, if Careful, only when the     *)
(* conditions hold that GcAllowed and RepackAllowed state).                *)
(***************************************************************************)
EXTENDS Helper, Loose

CONSTANTS
  Jobs,     \* gc and repack processes that can run at the same time
  Careful   \* TRUE for an operator who checks first

ASSUME MaintenanceAssumption == Careful \in BOOLEAN

GcSteps     == {"gcWalk", "gcDelete"}
RepackSteps == {"repackGet", "repackIdx", "repackDelete"}

VARIABLES
  task,    \* the next step of each job
  listed,  \* repackMain's loose: what ListAll returned
  pending, \* objects its current loop has yet to visit
  marked,  \* gc: walkReachableS3's seen; repack: hashes
  raced    \* history: an object was deleted since the user's list

jobVars == <<task, listed, pending, marked>>
legacyVars == <<looseKeys, task, listed, pending, marked, raced>>
allVars == <<vars, legacyVars>>

MaintenanceTypeOK ==
  /\ TypeOK /\ LooseTypeOK
  /\ task \in [Jobs -> {"idle"} \cup GcSteps \cup RepackSteps]
  /\ listed \in [Jobs -> SUBSET Commits]
  /\ pending \in [Jobs -> SUBSET Commits]
  /\ marked \in [Jobs -> SUBSET Commits]
  /\ raced \in [Users -> BOOLEAN]

Closed(S) == \A c \in S : Parents[c] \subseteq S

\* A bucket of an older release: the histories of the refs in the loose area,
\* and whatever deleted refs and failed pushes left there.
LegacyInit ==
  /\ refs \in RefMap /\ head \in Branches
  /\ version = 0 /\ lock = NoOwner
  /\ S3Init
  /\ looseKeys \in {S \in SUBSET Commits : HistoryOf(refs) \subseteq S}
  /\ UsersInit
  /\ task = [j \in Jobs |-> "idle"]
  /\ listed = [j \in Jobs |-> {}]
  /\ pending = [j \in Jobs |-> {}]
  /\ marked = [j \in Jobs |-> {}]
  /\ raced = [u \in Users |-> FALSE]

-----------------------------------------------------------------------------
(* The users: as in Helper, but a fetch asks for loose objects too.        *)

List(u) ==
  /\ HandleList(u)
  /\ raced' = [raced EXCEPT ![u] = FALSE]
  /\ UNCHANGED <<looseKeys, jobVars>>

\* What the walk of runFetches finds neither in .git nor before it in the
\* queue.  (One it would only come to behind another missing object is in
\* here already: nothing can bring it back in the meantime.)
Frontier(u) ==
  (Tips(u) \cup UNION {Parents[c] : c \in HistoryOf(adv[u]) \cap Objects(u)})
    \ Objects(u)

GetLoose(u) ==
  /\ at[u] = "walk"
  /\ \E c \in Frontier(u) : Has(c) /\ loose' = [loose EXCEPT ![u] = @ \cup {c}]
  /\ UNCHANGED <<etcdVars, s3Vars, at, packs, gitVars, todo, pushVars,
                 legacyVars>>

\* "remote is missing object": the helper throws.
GetMissing(u) ==
  /\ at[u] = "walk"
  /\ \E c \in Frontier(u) : ~Has(c)
  /\ Exit(u)
  /\ UNCHANGED <<etcdVars, s3Vars, localVars, legacyVars>>

\* It finds everything.
WalkFetched(u) == Fetched(u) /\ Walk(u)

User(u) ==
  \/ List(u) \/ GetLoose(u) \/ GetMissing(u)
  \/ /\ \/ Commit(u) \/ CollectGarbage(u)
        \/ HandleFetch(u) \/ HandlePush(u) \/ HandleEOF(u)
        \/ LoadListPacks(u) \/ LoadPack(u) \/ WalkFetched(u)
        \/ RunPushes(u) \/ Die(u)
     /\ UNCHANGED legacyVars

-----------------------------------------------------------------------------
(* Jobs.                                                                   *)

Pushing == \E u \in Users : at[u] \in PushSteps /\ Commands(u) # {}

\* No push is under way, no other job runs, and no packed object needs a
\* loose one, behind which gc cannot look.
GcAllowed ==
  Careful => /\ ~Pushing
             /\ \A j \in Jobs : task[j] = "idle"
             /\ Closed(Stored)

\* No gc runs, and none was stopped half way through its deletions.
RepackAllowed ==
  Careful => /\ \A j \in Jobs : task[j] \notin GcSteps
             /\ Closed(Readable)

Finish(j) ==
  /\ task' = [task EXCEPT ![j] = "idle"]
  /\ listed' = [listed EXCEPT ![j] = {}]
  /\ pending' = [pending EXCEPT ![j] = {}]
  /\ marked' = [marked EXCEPT ![j] = {}]

\* The loop goes on with what is left.
Rest(j, left) ==
  /\ pending' = [pending EXCEPT ![j] = left]
  /\ UNCHANGED <<task, listed>>

\* One Delete of the loop a job ends with.
DeleteNext(j) ==
  /\ \E c \in pending[j] :
       /\ Delete(c)
       /\ raced' = [u \in Users |-> raced[u] \/ Has(c)]
       /\ IF pending[j] = {c} THEN Finish(j)
                              ELSE Rest(j, pending[j] \ {c}) /\ UNCHANGED marked
  /\ UNCHANGED vars

\* A gc that takes the value of HEAD for a hash.
RootsAndHead == ({refs[r] : r \in Refs} \ {NoSha}) \cup {head}

\* The values of the refs; HEAD's is a name, and skipped.
Roots == {refs[r] : r \in Refs} \ {NoSha}

\* gcMain up to its walk: the roots are the refs of one moment.
GcListRefs(j) ==
  /\ task[j] = "idle" /\ GcAllowed
  /\ task' = [task EXCEPT ![j] = "gcWalk"]
  /\ pending' = [pending EXCEPT ![j] = Roots]
  /\ UNCHANGED <<vars, looseKeys, listed, marked, raced>>

\* A walk that does not ask childHashes.
GcVisitRoots(j) ==
  /\ task[j] = "gcWalk"
  /\ \E c \in pending[j] :
       /\ marked' = [marked EXCEPT ![j] = @ \cup {c}]
       /\ Rest(j, pending[j] \ {c})
  /\ UNCHANGED <<vars, looseKeys, raced>>

\* walkReachableS3: an object that is not loose is seen, and has no children.
GcVisit(j) ==
  /\ task[j] = "gcWalk"
  /\ \E c \in pending[j] :
       LET seen     == marked[j] \cup {c}
           children == IF Has(c) THEN Parents[c] ELSE {}
       IN  /\ marked' = [marked EXCEPT ![j] = seen]
           /\ Rest(j, (pending[j] \cup children) \ seen)
  /\ UNCHANGED <<vars, looseKeys, raced>>

\* The bucket is listed after the walk: what arrived since is in the list,
\* and not among what the walk has seen.
GcListAll(j) ==
  /\ task[j] = "gcWalk" /\ pending[j] = {}
  /\ LET orphans == ListAll \ marked[j] IN
       IF orphans = {} THEN Finish(j)
         ELSE /\ task' = [task EXCEPT ![j] = "gcDelete"]
              /\ pending' = [pending EXCEPT ![j] = orphans]
              /\ UNCHANGED <<listed, marked>>
  /\ UNCHANGED <<vars, looseKeys, raced>>

GcDelete(j) == task[j] = "gcDelete" /\ DeleteNext(j)

Gc(j) == GcListRefs(j) \/ GcVisit(j) \/ GcListAll(j) \/ GcDelete(j)

RepackListAll(j) ==
  /\ task[j] = "idle" /\ RepackAllowed /\ ListAll # {}
  /\ task' = [task EXCEPT ![j] = "repackGet"]
  /\ listed' = [listed EXCEPT ![j] = ListAll]
  /\ pending' = [pending EXCEPT ![j] = ListAll]
  /\ UNCHANGED <<vars, looseKeys, marked, raced>>

\* An object that vanished since the list is skipped.
RepackGet(j) ==
  /\ task[j] = "repackGet"
  /\ \E c \in pending[j] :
       /\ marked' = [marked EXCEPT ![j] = @ \cup ({c} \cap looseKeys)]
       /\ Rest(j, pending[j] \ {c})
  /\ UNCHANGED <<vars, looseKeys, raced>>

\* A repack that deletes what it listed before the index is there.
RepackPutPackOnly(j) ==
  /\ task[j] = "repackGet" /\ pending[j] = {}
  /\ PutPackKey(marked[j])
  /\ task' = [task EXCEPT ![j] = "repackDelete"]
  /\ pending' = [pending EXCEPT ![j] = listed[j]]
  /\ UNCHANGED <<etcdVars, at, localVars, gitVars, todo, pushVars, looseKeys,
                 listed, marked, raced>>

RepackPutPack(j) ==
  /\ task[j] = "repackGet" /\ pending[j] = {}
  /\ PutPackKey(marked[j])
  /\ task' = [task EXCEPT ![j] = "repackIdx"]
  /\ UNCHANGED <<etcdVars, at, localVars, gitVars, todo, pushVars, looseKeys,
                 listed, pending, marked, raced>>

\* From here on everything listed goes, what was skipped included.
RepackPutIdx(j) ==
  /\ task[j] = "repackIdx"
  /\ PutIdxKey(marked[j])
  /\ task' = [task EXCEPT ![j] = "repackDelete"]
  /\ pending' = [pending EXCEPT ![j] = listed[j]]
  /\ UNCHANGED <<etcdVars, at, localVars, gitVars, todo, pushVars, looseKeys,
                 listed, marked, raced>>

RepackDelete(j) == task[j] = "repackDelete" /\ DeleteNext(j)

Repack(j) == \/ RepackListAll(j) \/ RepackGet(j) \/ RepackPutPack(j)
             \/ RepackPutIdx(j) \/ RepackDelete(j)

\* S3 or etcd fails, or somebody stops the command.
Stop(j) ==
  /\ task[j] # "idle"
  /\ Finish(j)
  /\ UNCHANGED <<vars, looseKeys, raced>>

-----------------------------------------------------------------------------

MaintenanceNext ==
  \/ \E u \in Users : User(u)
  \/ \E j \in Jobs : Gc(j) \/ Repack(j) \/ Stop(j)

MaintenanceSpec == LegacyInit /\ [][MaintenanceNext]_allVars

-----------------------------------------------------------------------------
(* Properties.                                                             *)

\* Every object a ref reaches can be fetched, packed or loose, at every
\* moment: pushes stop their walk at objects they believe to be on S3, while
\* gc and repack take objects away.
RefsReadable == HistoryOf(refs) \subseteq Readable

\* A fetch that throws "remote is missing object" was overtaken: some object
\* was deleted after its list.  Tried again in a quiet moment, it succeeds.
FetchMissesOnlyRaced ==
  \A u \in Users : at[u] = "walk" /\ ~raced[u] => Frontier(u) \subseteq looseKeys

\* repackMain's order: whatever runs beside it, an object that a repack
\* deletes, also one it could not read, is not lost by that.
RepackLosesNothing ==
  [][\A j \in Jobs : task[j] = "repackDelete" /\ looseKeys' # looseKeys
        /\ pending'[j] # pending[j] => Readable \subseteq Readable']_allVars
=============================================================================
