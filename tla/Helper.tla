------------------------------- MODULE Helper ------------------------------
(***************************************************************************)
(* Helper mode: git-remote-ogorod on the machines of several users, over   *)
(* the shared etcd keys and pack area.  No server, no lock, no version:    *)
(* the compares of UpdateRefsCAS are all that orders the pushes.           *)
(*                                                                         *)
(* One process of the helper serves one git command.  git asks for `list`, *)
(* then sends a batch of fetches or a batch of pushes; at[u] names what    *)
(* user u's process does next.  The loose area of S3 is empty: nothing     *)
(* calls S3Client.Put, only buckets of an older release have loose         *)
(* objects; Maintenance has users on one of those.                         *)
(***************************************************************************)
EXTENDS Etcd, S3

CONSTANTS
  Users,
  Parents,  \* Parents[c]: what childHashes finds in c
  LocalGC,  \* when users run git gc in their repositories: "never", when
            \* all they have is "pushed", or at "any" time
  Exchange, \* TRUE when users have commits of each other from elsewhere
  FaultAt   \* the steps at which the helper may die

\* Reach[c] is the least set that holds c and the parents of all it holds.
ASSUME ParentsAssumption ==
  /\ Parents \in [Commits -> SUBSET Commits]
  /\ \A c \in Commits : Parents[c] \subseteq Reach[c]
  /\ \A c \in Commits, S \in SUBSET Commits :
       c \in S /\ (\A d \in S : Parents[d] \subseteq S) => Reach[c] \subseteq S

FetchSteps == {"listPacks", "download", "walk"}
PushSteps  == {"snapshot", "listPacks", "download", "upload", "putIdx", "cas",
               "force", "initHead", "report"}
Steps      == {"idle", "listed"} \cup FetchSteps \cup PushSteps

ASSUME HelperAssumption ==
  /\ LocalGC \in {"never", "pushed", "any"} /\ Exchange \in BOOLEAN
  /\ FaultAt \subseteq Steps \ {"idle"}

VARIABLES
  at,      \* the next step of each user's helper
  loose,   \* .git/objects: the commits in loose objects
  packs,   \* .git/objects/pack: packs with both files
  adv,     \* what `list` printed
  want,    \* what git asks the refs to become; adv for a fetch
  force,   \* the refs whose push spec begins with +
  old,     \* runPushes' own snapshot of the refs, the OldShas
  oldHead, \* and its HEAD
  todo,    \* packs still to download
  queue,   \* refs the current loop of runPushes has yet to handle
  up,      \* the pack between its two PUTs, {} when none
  allOk,   \* what UpdateRefsCAS returned
  applied  \* history: the refs this push has written

localVars == <<loose, packs>>
gitVars   == <<adv, want, force>>
pushVars  == <<old, oldHead, queue, up, allOk, applied>>

vars == <<etcdVars, s3Vars, at, localVars, gitVars, todo, pushVars>>

TypeOK ==
  /\ EtcdTypeOK /\ S3TypeOK
  /\ at \in [Users -> Steps]
  /\ loose \in [Users -> SUBSET Commits]
  /\ packs \in [Users -> SUBSET Pack]
  /\ adv \in [Users -> RefMap]
  /\ want \in [Users -> RefMap]
  /\ force \in [Users -> SUBSET Refs]
  /\ old \in [Users -> RefMap]
  /\ oldHead \in [Users -> Head]
  /\ todo \in [Users -> SUBSET Pack]
  /\ queue \in [Users -> SUBSET Refs]
  /\ up \in [Users -> Pack]
  /\ allOk \in [Users -> BOOLEAN]
  /\ applied \in [Users -> SUBSET Refs]

\* Nobody runs the helper, and the repositories are empty.
UsersInit ==
  /\ at = [u \in Users |-> "idle"]
  /\ loose = [u \in Users |-> {}]
  /\ packs = [u \in Users |-> {}]
  /\ adv = [u \in Users |-> NoRefs]
  /\ want = [u \in Users |-> NoRefs]
  /\ force = [u \in Users |-> {}]
  /\ old = [u \in Users |-> NoRefs]
  /\ oldHead = [u \in Users |-> NoRef]
  /\ todo = [u \in Users |-> {}]
  /\ queue = [u \in Users |-> {}]
  /\ up = [u \in Users |-> {}]
  /\ allOk = [u \in Users |-> TRUE]
  /\ applied = [u \in Users |-> {}]

Init == EtcdInit /\ S3Init /\ UsersInit

Goto(u, step) == at' = [at EXCEPT ![u] = step]

\* storer.EncodedObject finds it, and with everything it needs.
Objects(u)     == loose[u] \cup UNION packs[u]
Complete(u, c) == Reach[c] \subseteq Objects(u)

-----------------------------------------------------------------------------
(* The user's own repository.                                              *)

\* git commit, or a commit that comes from elsewhere.
Commit(u) ==
  /\ at[u] = "idle"
  /\ \E c \in Commits \ Objects(u) :
       /\ Parents[c] \subseteq {d \in Objects(u) : Complete(u, d)}
       /\ Exchange \/ \A v \in Users : c \notin Objects(v)
       /\ loose' = [loose EXCEPT ![u] = @ \cup {c}]
  /\ UNCHANGED <<etcdVars, s3Vars, at, packs, gitVars, todo, pushVars>>

\* git gc: what was loose, and what was in several packs, is in one.  (At any
\* time, it makes packs of what was never pushed, and RefsBacked is lost:
\* remotePackHashes takes every pack for one of the remote's.)
CollectGarbage(u) ==
  /\ at[u] = "idle" /\ loose[u] # {}
  /\ LocalGC = "any" \/ (LocalGC = "pushed" /\ loose[u] \subseteq Stored)
  /\ packs' = [packs EXCEPT ![u] = {Objects(u)}]
  /\ loose' = [loose EXCEPT ![u] = {}]
  /\ UNCHANGED <<etcdVars, s3Vars, at, gitVars, todo, pushVars>>

-----------------------------------------------------------------------------
(* list, and what git makes of it.                                         *)

HandleList(u) ==
  /\ at[u] = "idle"
  /\ adv' = [adv EXCEPT ![u] = refs]
  /\ want' = [want EXCEPT ![u] = refs]
  /\ Goto(u, "listed")
  /\ UNCHANGED <<etcdVars, s3Vars, localVars, force, todo, pushVars>>

Commands(u) == Changed(adv[u], want[u])
Deleted(u)  == {r \in Commands(u) : want[u][r] = NoSha}
Forced(u)   == (Commands(u) \cap force[u]) \ Deleted(u)
Tips(u)     == {adv[u][r] : r \in Refs} \ {NoSha}

HandleFetch(u) ==
  /\ at[u] = "listed"
  /\ Tips(u) # {}
  /\ Goto(u, "listPacks")
  /\ UNCHANGED <<etcdVars, s3Vars, localVars, gitVars, todo, pushVars>>

\* git drops what it takes to need a +: an update it cannot see to be a
\* fast-forward, and any update of a tag.
NeedsForce(u, r, v) ==
  /\ adv[u][r] # NoSha /\ v # NoSha
  /\ r \in Branches => ~(adv[u][r] \in Objects(u) /\ adv[u][r] \in Reach[v])

HandlePush(u) ==
  /\ at[u] = "listed"
  /\ \E new \in RefMap, plus \in SUBSET Refs :
       /\ new # adv[u] /\ plus \subseteq Changed(adv[u], new)
       /\ \A r \in Changed(adv[u], new) :
            /\ new[r] # NoSha => Complete(u, new[r])
            /\ NeedsForce(u, r, new[r]) => r \in plus
       /\ want' = [want EXCEPT ![u] = new]
       /\ force' = [force EXCEPT ![u] = plus]
  /\ Goto(u, "snapshot")
  /\ UNCHANGED <<etcdVars, s3Vars, localVars, adv, todo, pushVars>>

\* The process ends; .git stays.
Exit(u) ==
  /\ Goto(u, "idle")
  /\ adv' = [adv EXCEPT ![u] = NoRefs]
  /\ want' = [want EXCEPT ![u] = NoRefs]
  /\ force' = [force EXCEPT ![u] = {}]
  /\ old' = [old EXCEPT ![u] = NoRefs]
  /\ oldHead' = [oldHead EXCEPT ![u] = NoRef]
  /\ todo' = [todo EXCEPT ![u] = {}]
  /\ queue' = [queue EXCEPT ![u] = {}]
  /\ up' = [up EXCEPT ![u] = {}]
  /\ allOk' = [allOk EXCEPT ![u] = TRUE]
  /\ applied' = [applied EXCEPT ![u] = {}]

\* EOF after the list: git had nothing to ask for.
HandleEOF(u) ==
  /\ at[u] = "listed"
  /\ Exit(u)
  /\ UNCHANGED <<etcdVars, s3Vars, localVars>>

-----------------------------------------------------------------------------
(* loadPacksIntoLocal, of fetches and pushes.                              *)

ToUpload(u) == Commands(u) \ Deleted(u)

AfterUpload(rest) == IF rest = {} THEN "cas" ELSE "upload"

AfterDownload(u, rest) == IF rest # {} THEN "download"
                          ELSE IF Commands(u) = {} THEN "walk"
                          ELSE AfterUpload(ToUpload(u))

\* A loadPacksIntoLocal for fresh clones only.
LoadFirstPacks(u) ==
  /\ at[u] = "listPacks"
  /\ LET missing == IF packs[u] = {} THEN ListPacks ELSE {} IN
       /\ todo' = [todo EXCEPT ![u] = missing]
       /\ Goto(u, AfterDownload(u, missing))
  /\ UNCHANGED <<etcdVars, s3Vars, localVars, gitVars, pushVars>>

LoadListPacks(u) ==
  /\ at[u] = "listPacks"
  /\ LET missing == ListPacks \ packs[u] IN
       /\ todo' = [todo EXCEPT ![u] = missing]
       /\ Goto(u, AfterDownload(u, missing))
  /\ UNCHANGED <<etcdVars, s3Vars, localVars, gitVars, pushVars>>

LoadPack(u) ==
  /\ at[u] = "download"
  /\ \E p \in todo[u] :
       /\ packs' = [packs EXCEPT ![u] = IF p \in Whole THEN @ \cup {p} ELSE @]
       /\ todo' = [todo EXCEPT ![u] = @ \ {p}]
       /\ Goto(u, AfterDownload(u, todo[u] \ {p}))
  /\ UNCHANGED <<etcdVars, s3Vars, loose, gitVars, pushVars>>

\* The walk of runFetches from the wanted tips.
Fetched(u) == \A c \in Tips(u) : Complete(u, c)

\* It comes to its end, or to an object that is missing: the helper throws then
\* ("remote is missing object"), and that is the end of the process too.
Walk(u) ==
  /\ at[u] = "walk"
  /\ Exit(u)
  /\ UNCHANGED <<etcdVars, s3Vars, localVars>>

-----------------------------------------------------------------------------
(* runPushes.                                                              *)

Snapshot(u) ==
  /\ at[u] = "snapshot"
  /\ old' = [old EXCEPT ![u] = refs]
  /\ oldHead' = [oldHead EXCEPT ![u] = head]
  /\ queue' = [queue EXCEPT ![u] = ToUpload(u)]
  /\ Goto(u, "listPacks")
  /\ UNCHANGED <<etcdVars, s3Vars, localVars, gitVars, todo, up, allOk,
                 applied>>

\* A stopAt of everything the user has.
StopAtObjects(u) == Objects(u)

\* Every index in objects/pack, wherever the pack came from.
RemotePackHashes(u) == UNION packs[u]

StopAt(u) == RemotePackHashes(u) \cup {old[u][r] : r \in Refs}

\* uploadReachable's walk: from root, past no object of stopAt and none the
\* repository lacks.
NewObjects(u, root) ==
  LET open      == Objects(u) \ StopAt(u)
      Closed(S) == /\ {root} \cap open \subseteq S
                   /\ \A c \in S : Parents[c] \cap open \subseteq S
  IN  {c \in open : \A S \in SUBSET open : Closed(S) => c \in S}

Upload(u) ==
  /\ at[u] = "upload"
  /\ \E r \in queue[u] :
       LET new == NewObjects(u, want[u][r]) IN
       /\ queue' = [queue EXCEPT ![u] = @ \ {r}]
       /\ IF new = {}
            THEN /\ Goto(u, AfterUpload(queue[u] \ {r}))
                 /\ UNCHANGED <<s3Vars, up>>
            ELSE /\ Goto(u, "putIdx")
                 /\ PutPackKey(new)
                 /\ up' = [up EXCEPT ![u] = new]
  /\ UNCHANGED <<etcdVars, localVars, gitVars, todo, old, oldHead, allOk,
                 applied>>

UploadIdx(u) ==
  /\ at[u] = "putIdx"
  /\ PutIdxKey(up[u])
  /\ up' = [up EXCEPT ![u] = {}]
  /\ Goto(u, AfterUpload(queue[u]))
  /\ UNCHANGED <<etcdVars, localVars, gitVars, todo, old, oldHead, queue,
                 allOk, applied>>

\* Updates and deletions go into one transaction, forced ones follow.
Compared(u) == Commands(u) \ Forced(u)

AfterCas(rest) == IF rest = {} THEN "initHead" ELSE "force"

CasRefs(u) ==
  /\ at[u] = "cas"
  /\ UpdateRefsCAS(Compared(u), old[u], want[u])
  /\ applied' = [applied EXCEPT ![u] = Compared(u)]
  /\ queue' = [queue EXCEPT ![u] = Forced(u)]
  /\ Goto(u, AfterCas(Forced(u)))
  /\ UNCHANGED <<head, version, lock, s3Vars, localVars, gitVars, todo, old,
                 oldHead, up, allOk>>

\* A push that drops the result of UpdateRefsCAS.
CasIgnored(u) ==
  /\ at[u] = "cas" /\ ~Compares(Compared(u), old[u])
  /\ queue' = [queue EXCEPT ![u] = Forced(u)]
  /\ Goto(u, AfterCas(Forced(u)))
  /\ UNCHANGED <<etcdVars, s3Vars, localVars, gitVars, todo, old, oldHead, up,
                 allOk, applied>>

CasRejected(u) ==
  /\ at[u] = "cas" /\ ~Compares(Compared(u), old[u])
  /\ allOk' = [allOk EXCEPT ![u] = FALSE]
  /\ queue' = [queue EXCEPT ![u] = Forced(u)]
  /\ Goto(u, AfterCas(Forced(u)))
  /\ UNCHANGED <<etcdVars, s3Vars, localVars, gitVars, todo, old, oldHead, up,
                 applied>>

ForceRef(u) ==
  /\ at[u] = "force"
  /\ \E r \in queue[u] :
       /\ PutRefForce(r, want[u][r])
       /\ applied' = [applied EXCEPT ![u] = @ \cup {r}]
       /\ queue' = [queue EXCEPT ![u] = @ \ {r}]
       /\ Goto(u, AfterCas(queue[u] \ {r}))
  /\ UNCHANGED <<head, version, lock, s3Vars, localVars, gitVars, todo, old,
                 oldHead, up, allOk>>

\* The first branch of the batch, if the snapshot had no HEAD.
Named(u) == {r \in Commands(u) \cap Branches :
               oldHead[u] = NoRef /\ want[u][r] # NoSha}

InitHead(u) ==
  /\ at[u] = "initHead"
  /\ IF Named(u) = {} THEN UNCHANGED head
                      ELSE \E r \in Named(u) : PutHEADIfMissing(r)
  /\ Goto(u, "report")
  /\ UNCHANGED <<refs, version, lock, s3Vars, localVars, gitVars, todo,
                 pushVars>>

\* The refs that get an "ok" line.
ReportedOk(u) ==
  {r \in Commands(u) : r \in Deleted(u) \cup Forced(u) \/ allOk[u]}

Report(u) ==
  /\ at[u] = "report"
  /\ Exit(u)
  /\ UNCHANGED <<etcdVars, s3Vars, localVars>>

\* An error, or the user's Ctrl-C.
Die(u) ==
  /\ at[u] \in FaultAt
  /\ Exit(u)
  /\ UNCHANGED <<etcdVars, s3Vars, localVars>>

-----------------------------------------------------------------------------

RunFetches(u) == LoadListPacks(u) \/ LoadPack(u) \/ Walk(u)

RunPushes(u) ==
  \/ Snapshot(u) \/ Upload(u) \/ UploadIdx(u) \/ CasRefs(u) \/ CasRejected(u)
  \/ ForceRef(u) \/ InitHead(u) \/ Report(u)

Next == \E u \in Users :
  \/ Commit(u) \/ CollectGarbage(u)
  \/ HandleList(u) \/ HandleFetch(u) \/ HandlePush(u) \/ HandleEOF(u)
  \/ RunFetches(u) \/ RunPushes(u) \/ Die(u)

Spec == Init /\ [][Next]_vars

-----------------------------------------------------------------------------
(* Properties.                                                             *)

\* uploadReachable before UpdateRefsCAS: everything a ref reaches can be read
\* from the packs on S3, though each push uploads only what its stopAt leaves
\* out, and helpers die between any two requests.
RefsBacked == HistoryOf(refs) \subseteq Stored

\* loadPacksIntoLocal after list: a fetch never ends with "remote is missing
\* object", whatever pushes run beside it and whatever earlier fetches left.
FetchFindsAll == \A u \in Users : at[u] = "walk" => Fetched(u)

\* A push without + overwrites the value that runPushes found, and nothing
\* that came later.  A value that git was shown it overwrites only by one that
\* contains it; of one that came between the list and runPushes, git knows
\* nothing, and it goes whatever it was (see NonFastForwardFails).
NoBlindWrite ==
  [][\A r \in Refs : refs'[r] # refs[r] =>
       \E u \in Users :
         /\ r \in Commands(u) /\ refs'[r] = want[u][r]
         /\ \/ r \in Forced(u)
            \/ /\ old[u][r] = refs[r]
               /\ adv[u][r] = refs[r] => FastForward(refs[r], refs'[r])]_vars

\* The result lines: an update reported ok is one this push wrote, a ref
\* reported as an error is one it did not touch.
HonestReport ==
  \A u \in Users : at[u] = "report" =>
    /\ ReportedOk(u) \ Deleted(u) \subseteq applied[u]
    /\ (Commands(u) \ ReportedOk(u)) \cap applied[u] = {}

-----------------------------------------------------------------------------
(* What the README says and the code does not do.                          *)

\* "the actual write is IF <ref> == <old_sha> THEN PUT <new_sha>, so a
\* non-fast-forward push fails atomically": a ref loses history only to a +.
NonFastForwardFails ==
  [][\A r \in Refs : ~FastForward(refs[r], refs'[r]) =>
       \E u \in Users : r \in Forced(u) /\ refs'[r] = want[u][r]]_vars

-----------------------------------------------------------------------------

Store == INSTANCE RefStore WITH stored <- Stored

\* Users that share nothing but etcd and S3 see a RefStore there.
ImplementsRefStore == Store!Spec
=============================================================================
