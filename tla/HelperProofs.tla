---------------------------- MODULE HelperProofs ---------------------------
(***************************************************************************)
(* While no user's git gc packs what was never pushed, the helper never    *)
(* moves a ref onto objects that are not on S3, and no fetch misses one,   *)
(* for any number of users that push, fetch and die as they like.          *)
(***************************************************************************)
EXTENDS Helper, TLAPS

USE DEF etcdVars, s3Vars, localVars, gitVars, pushVars

\* A pack gets its index last, and what is in whole packs is complete.
StoreSound ==
  /\ idxKeys \subseteq packKeys
  /\ \A c \in Stored : Reach[c] \subseteq Stored

\* All a repository and its helper know of the remote is backed.
ViewBacked(u) ==
  /\ UNION packs[u] \subseteq Stored
  /\ HistoryOf(adv[u]) \subseteq Stored
  /\ HistoryOf(old[u]) \subseteq Stored

\* What `list` printed is in the packs loaded and to load.
Loaded(u) ==
  at[u] \in {"download", "walk", "upload", "putIdx"} =>
    HistoryOf(adv[u]) \subseteq UNION (packs[u] \cup (todo[u] \cap Whole))

Uploading == {"snapshot", "listPacks", "download", "upload", "putIdx"}
Uploaded  == {"cas", "force", "initHead", "report"}

\* A ref that has left the queue has its history on S3 or under way.
PushBacked(u) ==
  /\ at[u] \in Uploading =>
       \A r \in ToUpload(u) : Reach[want[u][r]] \subseteq Objects(u)
  /\ at[u] \in {"listPacks", "download"} => queue[u] = ToUpload(u)
  /\ at[u] \in {"upload", "putIdx"} =>
       /\ queue[u] \subseteq ToUpload(u)
       /\ \A r \in ToUpload(u) \ queue[u] :
            Reach[want[u][r]] \subseteq Stored \cup up[u]
  /\ at[u] \in Uploaded =>
       \A r \in ToUpload(u) : Reach[want[u][r]] \subseteq Stored
  /\ at[u] = "walk" => todo[u] = {}
  /\ at[u] = "force" => queue[u] \subseteq Forced(u)
  /\ at[u] \in {"idle", "listed"} => Commands(u) = {} /\ queue[u] = {}

\* The pack between its two PUTs is complete but for what S3 has.
UpBacked(u) ==
  /\ at[u] = "putIdx" => up[u] \in packKeys
  /\ at[u] # "putIdx" => up[u] = {}
  /\ \A c \in up[u] : Reach[c] \subseteq up[u] \cup Stored

UserInv(u) == ViewBacked(u) /\ Loaded(u) /\ PushBacked(u) /\ UpBacked(u)

HelperInv ==
  /\ TypeOK /\ RefsBacked /\ StoreSound
  /\ \A u \in Users : UserInv(u)

-----------------------------------------------------------------------------
(* Types.                                                                  *)

LEMMA NoRefsType == NoRefs \in RefMap
  BY DEF NoRefs, RefMap, Sha

LEMMA TypeInit == Init => TypeOK
<1> SUFFICES ASSUME Init PROVE TypeOK
  OBVIOUS
<1>1. EtcdTypeOK /\ S3TypeOK
  BY NoRefsType DEF Init, EtcdInit, EtcdTypeOK, S3Init, S3TypeOK, Head
<1>2. at \in [Users -> Steps] /\ up \in [Users -> Pack]
  BY DEF Init, UsersInit, Steps, Pack
<1> QED
  BY <1>1, <1>2, NoRefsType DEF Init, UsersInit, TypeOK, Head, Pack

LEMMA ExitType ==
  ASSUME TypeOK, NEW u \in Users, Exit(u), UNCHANGED <<s3Vars, localVars>>,
         EtcdTypeOK'
  PROVE  TypeOK'
<1>1. at' \in [Users -> Steps] /\ up' \in [Users -> Pack]
  BY DEF TypeOK, Exit, Goto, Steps, Pack
<1>2. /\ adv' \in [Users -> RefMap] /\ want' \in [Users -> RefMap]
      /\ old' \in [Users -> RefMap] /\ oldHead' \in [Users -> Head]
  BY NoRefsType DEF TypeOK, Exit, Head
<1> QED
  BY <1>1, <1>2 DEF TypeOK, Exit, S3TypeOK

LEMMA NextStepType ==
  ASSUME NEW u, NEW rest
  PROVE  /\ AfterUpload(rest) \in {"cas", "upload"}
         /\ AfterDownload(u, rest) \in {"download", "walk", "cas", "upload"}
         /\ AfterCas(rest) \in {"initHead", "force"}
  BY DEF AfterUpload, AfterDownload, AfterCas

LEMMA CommandsType ==
  ASSUME NEW u
  PROVE  /\ Commands(u) \subseteq Refs /\ ToUpload(u) \subseteq Refs
         /\ Compared(u) \subseteq Refs /\ Forced(u) \subseteq Refs
  BY DEF Commands, Changed, ToUpload, Compared, Forced

LEMMA TypeStep == ASSUME TypeOK, [Next]_vars PROVE TypeOK'
<1> USE DEF Steps, FetchSteps, PushSteps
<1>1. ASSUME NEW u \in Users, Commit(u) \/ CollectGarbage(u) PROVE TypeOK'
  BY <1>1
  DEF TypeOK, Commit, CollectGarbage, Objects, Pack, EtcdTypeOK, S3TypeOK
<1>2. ASSUME NEW u \in Users, HandleList(u) PROVE TypeOK'
  BY <1>2 DEF TypeOK, HandleList, Goto, EtcdTypeOK, S3TypeOK
<1>3. ASSUME NEW u \in Users, HandleFetch(u) PROVE TypeOK'
  BY <1>3 DEF TypeOK, HandleFetch, Goto, EtcdTypeOK, S3TypeOK
<1>4. ASSUME NEW u \in Users, HandlePush(u) PROVE TypeOK'
  <2>1. at' \in [Users -> Steps] /\ want' \in [Users -> RefMap]
    BY <1>4 DEF TypeOK, HandlePush, Goto
  <2>2. force' \in [Users -> SUBSET Refs]
    BY <1>4 DEF TypeOK, HandlePush
  <2> QED
    BY <1>4, <2>1, <2>2 DEF TypeOK, HandlePush, EtcdTypeOK, S3TypeOK
<1>5. ASSUME NEW u \in Users,
             \/ HandleEOF(u) \/ Walk(u)
             \/ Report(u) \/ Die(u)
      PROVE  TypeOK'
  BY <1>5, ExitType
  DEF TypeOK, EtcdTypeOK, HandleEOF, Walk, Report, Die
<1>6. ASSUME NEW u \in Users, LoadListPacks(u) \/ LoadPack(u) PROVE TypeOK'
  <2>1. at' \in [Users -> Steps]
    <3>1. \E rest : Goto(u, AfterDownload(u, rest))
      BY <1>6 DEF LoadListPacks, LoadPack
    <3> QED
      BY <3>1, NextStepType DEF TypeOK, Goto
  <2>2. todo' \in [Users -> SUBSET Pack] /\ packs' \in [Users -> SUBSET Pack]
    <3>1. CASE LoadListPacks(u)
      <4>1. ListPacks \ packs[u] \in SUBSET Pack
        BY DEF TypeOK, S3TypeOK, ListPacks
      <4> QED
        BY <3>1, <4>1 DEF TypeOK, LoadListPacks
    <3>2. CASE LoadPack(u)
      <4>1. PICK p \in todo[u] :
              /\ packs' = [packs EXCEPT ![u] = IF p \in Whole THEN @ \cup {p} ELSE @]
              /\ todo' = [todo EXCEPT ![u] = @ \ {p}]
        BY <3>2 DEF LoadPack
      <4>2. todo[u] \ {p} \in SUBSET Pack /\ packs[u] \cup {p} \in SUBSET Pack
        BY DEF TypeOK
      <4> QED
        BY <4>1, <4>2 DEF TypeOK
    <3> QED
      BY <1>6, <3>1, <3>2
  <2> QED
    BY <1>6, <2>1, <2>2
    DEF TypeOK, LoadListPacks, LoadPack, EtcdTypeOK, S3TypeOK
<1>7. ASSUME NEW u \in Users, Snapshot(u) PROVE TypeOK'
  <2>1. queue' \in [Users -> SUBSET Refs]
    BY <1>7, CommandsType DEF TypeOK, Snapshot
  <2> QED
    BY <1>7, <2>1 DEF TypeOK, Snapshot, Goto, EtcdTypeOK, S3TypeOK
<1>8. ASSUME NEW u \in Users, Upload(u) PROVE TypeOK'
  <2>1. PICK r \in queue[u] :
          /\ queue' = [queue EXCEPT ![u] = @ \ {r}]
          /\ IF NewObjects(u, want[u][r]) = {}
               THEN /\ Goto(u, AfterUpload(queue[u] \ {r}))
                    /\ UNCHANGED <<s3Vars, up>>
               ELSE /\ Goto(u, "putIdx")
                    /\ PutPackKey(NewObjects(u, want[u][r]))
                    /\ up' = [up EXCEPT ![u] = NewObjects(u, want[u][r])]
    BY <1>8 DEF Upload
  <2>2. NewObjects(u, want[u][r]) \in Pack
    BY DEF TypeOK, NewObjects, Objects, Pack
  <2>3. at' \in [Users -> Steps] /\ queue' \in [Users -> SUBSET Refs]
    BY <2>1, NextStepType DEF TypeOK, Goto
  <2>4. up' \in [Users -> Pack] /\ S3TypeOK'
    BY <2>1, <2>2 DEF TypeOK, S3TypeOK, PutPackKey
  <2> QED
    BY <1>8, <2>3, <2>4 DEF TypeOK, Upload, EtcdTypeOK
<1>9. ASSUME NEW u \in Users, UploadIdx(u) PROVE TypeOK'
  <2>1. at' \in [Users -> Steps]
    BY <1>9, NextStepType DEF TypeOK, UploadIdx, Goto
  <2>2. up' \in [Users -> Pack] /\ S3TypeOK'
    BY <1>9 DEF TypeOK, S3TypeOK, UploadIdx, PutIdxKey, Pack
  <2> QED
    BY <1>9, <2>1, <2>2 DEF TypeOK, UploadIdx, EtcdTypeOK
<1>10. ASSUME NEW u \in Users, CasRefs(u) \/ CasRejected(u) \/ ForceRef(u)
       PROVE  TypeOK'
  <2>1. at' \in [Users -> Steps]
    BY <1>10, NextStepType DEF TypeOK, CasRefs, CasRejected, ForceRef, Goto
  <2>2. /\ queue' \in [Users -> SUBSET Refs] /\ applied' \in [Users -> SUBSET Refs]
        /\ allOk' \in [Users -> BOOLEAN]
    <3>1. CASE CasRefs(u) \/ CasRejected(u)
      <4>1. Compared(u) \in SUBSET Refs /\ Forced(u) \in SUBSET Refs
        BY CommandsType
      <4>2. CASE CasRefs(u)
        BY <4>1, <4>2 DEF TypeOK, CasRefs
      <4>3. CASE CasRejected(u)
        BY <4>1, <4>3 DEF TypeOK, CasRejected
      <4> QED
        BY <3>1, <4>2, <4>3
    <3>2. CASE ForceRef(u)
      <4>1. PICK r \in queue[u] :
              /\ applied' = [applied EXCEPT ![u] = @ \cup {r}]
              /\ queue' = [queue EXCEPT ![u] = @ \ {r}]
        BY <3>2 DEF ForceRef
      <4> QED
        BY <3>2, <4>1 DEF TypeOK, ForceRef
    <3> QED
      BY <1>10, <3>1, <3>2
  <2>3. refs' \in RefMap
    <3>1. CASE CasRefs(u)
      <4>1. Puts(Compared(u), want[u])
        BY <3>1 DEF CasRefs, UpdateRefsCAS
      <4>2. want[u] \in RefMap /\ refs \in RefMap
        BY DEF TypeOK, EtcdTypeOK
      <4> QED
        BY <4>1, <4>2 DEF Puts, RefMap
    <3>2. CASE CasRejected(u)
      BY <3>2 DEF TypeOK, EtcdTypeOK, CasRejected
    <3>3. CASE ForceRef(u)
      <4>1. PICK r \in queue[u] : refs' = [refs EXCEPT ![r] = want[u][r]]
        BY <3>3 DEF ForceRef, PutRefForce
      <4>2. r \in Refs /\ want[u][r] \in Sha
        BY DEF TypeOK, RefMap
      <4> QED
        BY <4>1, <4>2 DEF TypeOK, EtcdTypeOK, RefMap
    <3> QED
      BY <1>10, <3>1, <3>2, <3>3
  <2> QED
    BY <1>10, <2>1, <2>2, <2>3
    DEF TypeOK, CasRefs, CasRejected, ForceRef, EtcdTypeOK, S3TypeOK
<1>11. ASSUME NEW u \in Users, InitHead(u) PROVE TypeOK'
  <2>1. head' \in Head
    BY <1>11 DEF TypeOK, EtcdTypeOK, InitHead, PutHEADIfMissing, Named, Head
  <2> QED
    BY <1>11, <2>1 DEF TypeOK, InitHead, Goto, EtcdTypeOK, S3TypeOK
<1>12. CASE UNCHANGED vars
  BY <1>12 DEF TypeOK, vars, EtcdTypeOK, S3TypeOK
<1> QED
  BY <1>1, <1>2, <1>3, <1>4, <1>5, <1>6, <1>7, <1>8, <1>9, <1>10, <1>11, <1>12
  DEF Next, RunFetches, RunPushes

\* Every variable keeps its type.
THEOREM HelperTypeCorrect == Spec => []TypeOK
  BY TypeInit, TypeStep, PTL DEF Spec

-----------------------------------------------------------------------------
(* The upload of one ref.                                                  *)

\* What uploadReachable leaves out is on S3 with all it needs, so that what
\* it finds and what S3 has make the whole history of the root.
LEMMA UploadComplete ==
  ASSUME TypeOK, StoreSound, NEW u \in Users, ViewBacked(u),
         NEW root \in Commits, Reach[root] \subseteq Objects(u)
  PROVE  Reach[root] \subseteq NewObjects(u, root) \cup Stored
<1> DEFINE open == Objects(u) \ StopAt(u)
           N    == NewObjects(u, root)
           T    == {x \in Reach[root] : x \in N \/ Reach[x] \subseteq Stored}
<1>1. ASSUME NEW x \in Reach[root], x \notin open
      PROVE  Reach[x] \subseteq Stored
  <2>1. x \in StopAt(u)
    BY <1>1
  <2>2. CASE x \in UNION packs[u]
    BY <2>2 DEF ViewBacked, StoreSound, Stored
  <2>3. ASSUME NEW r \in Refs, x = old[u][r] PROVE Reach[x] \subseteq Stored
    <3>1. x # NoSha
      BY NoShaAssumption, ReachAssumption
    <3> QED
      BY <2>3, <3>1 DEF ViewBacked, HistoryOf, History
  <2> QED
    BY <2>1, <2>2, <2>3 DEF StopAt, RemotePackHashes
<1>2. root \in T
  <2>1. root \in Reach[root]
    BY ReachAssumption
  <2>2. root \in open => root \in N
    BY DEF NewObjects
  <2> QED
    BY <1>1, <2>1, <2>2
<1>3. ASSUME NEW x \in T PROVE Parents[x] \subseteq T
  <2> SUFFICES ASSUME NEW y \in Parents[x] PROVE y \in T
    OBVIOUS
  <2>1. x \in Commits /\ y \in Reach[x]
    BY ReachAssumption, ParentsAssumption
  <2>2. y \in Reach[root]
    BY <2>1, ReachAssumption
  <2>3. CASE y \notin open
    BY <1>1, <2>2, <2>3
  <2>4. CASE y \in open /\ x \in N
    BY <2>2, <2>4 DEF NewObjects
  <2>5. CASE Reach[x] \subseteq Stored
    BY <2>1, <2>2, <2>5, ReachAssumption
  <2> QED
    BY <2>3, <2>4, <2>5
<1>4. T \in SUBSET Commits
  BY ReachAssumption
<1>5. Reach[root] \subseteq T
  BY <1>2, <1>3, <1>4, ParentsAssumption
<1>6. ASSUME NEW x \in Commits, Reach[x] \subseteq Stored PROVE x \in Stored
  BY <1>6, ReachAssumption
<1> QED
  BY <1>4, <1>5, <1>6

\* And it finds nothing else.
LEMMA UploadReachable ==
  ASSUME TypeOK, NEW u \in Users, NEW root \in Commits
  PROVE  NewObjects(u, root) \subseteq Reach[root]
<1> DEFINE open == Objects(u) \ StopAt(u)
           R    == Reach[root] \cap open
<1>1. R \in SUBSET open /\ {root} \cap open \subseteq R
  BY ReachAssumption
<1>2. \A c \in R : Parents[c] \cap open \subseteq R
  <2>1. \A c \in Reach[root] : c \in Commits /\ Reach[c] \subseteq Reach[root]
    BY ReachAssumption
  <2> QED
    BY <2>1, ParentsAssumption
<1> QED
  BY <1>1, <1>2 DEF NewObjects

LEMMA UploadClosed ==
  ASSUME TypeOK, StoreSound, NEW u \in Users, ViewBacked(u),
         NEW root \in Commits, Reach[root] \subseteq Objects(u)
  PROVE  \A c \in NewObjects(u, root) :
           Reach[c] \subseteq NewObjects(u, root) \cup Stored
  BY UploadComplete, UploadReachable, ReachAssumption

-----------------------------------------------------------------------------
(* The invariant of one user, and the steps of the others.                 *)

\* The helper and the repository of v stay as they are.
Same(v) ==
  /\ at'[v] = at[v] /\ loose'[v] = loose[v] /\ packs'[v] = packs[v]
  /\ adv'[v] = adv[v] /\ want'[v] = want[v] /\ force'[v] = force[v]
  /\ old'[v] = old[v] /\ todo'[v] = todo[v] /\ queue'[v] = queue[v]
  /\ up'[v] = up[v] /\ allOk'[v] = allOk[v] /\ applied'[v] = applied[v]

LEMMA StoredGrows ==
  ASSUME packKeys \subseteq packKeys', idxKeys \subseteq idxKeys'
  PROVE  Whole \subseteq Whole' /\ Stored \subseteq Stored'
  BY DEF Whole, Stored

LEMMA BucketStays ==
  ASSUME UNCHANGED s3Vars
  PROVE  /\ Whole' = Whole /\ Stored' = Stored /\ ListPacks' = ListPacks
         /\ StoreSound' = StoreSound
  BY DEF Whole, Stored, ListPacks, StoreSound

LEMMA SameAsked ==
  ASSUME NEW v, adv'[v] = adv[v], want'[v] = want[v], force'[v] = force[v]
  PROVE  /\ Commands(v)' = Commands(v) /\ ToUpload(v)' = ToUpload(v)
         /\ Forced(v)' = Forced(v) /\ Compared(v)' = Compared(v)
  BY DEF Commands, Changed, Deleted, ToUpload, Forced, Compared

LEMMA UserFrame ==
  ASSUME NEW v, UserInv(v), Same(v),
         packKeys \subseteq packKeys', idxKeys \subseteq idxKeys'
  PROVE  UserInv(v)'
<1>1. Whole \subseteq Whole' /\ Stored \subseteq Stored'
  BY StoredGrows
<1>2. /\ Commands(v)' = Commands(v) /\ ToUpload(v)' = ToUpload(v)
      /\ Forced(v)' = Forced(v) /\ Objects(v)' = Objects(v)
  BY SameAsked DEF Same, Objects
<1>3. ViewBacked(v)' /\ Loaded(v)'
  BY <1>1 DEF UserInv, ViewBacked, Loaded, Same, HistoryOf
<1>4. PushBacked(v)'
  BY <1>1, <1>2 DEF UserInv, PushBacked, Same
<1>5. UpBacked(v)'
  BY <1>1 DEF UserInv, UpBacked, Same
<1> QED
  BY <1>3, <1>4, <1>5 DEF UserInv

Step(u) ==
  \/ Commit(u) \/ CollectGarbage(u)
  \/ HandleList(u) \/ HandleFetch(u) \/ HandlePush(u) \/ HandleEOF(u)
  \/ RunFetches(u) \/ RunPushes(u) \/ Die(u)

LEMMA ExitKeeps ==
  ASSUME TypeOK, NEW u \in Users, Exit(u), UNCHANGED localVars
  PROVE  \A v \in Users \ {u} : Same(v)
  BY DEF TypeOK, Exit, Goto, Same

LEMMA OthersKeep ==
  ASSUME TypeOK, NEW u \in Users, Step(u)
  PROVE  \A v \in Users \ {u} : Same(v)
<1>1. CASE Commit(u) \/ CollectGarbage(u)
  BY <1>1 DEF TypeOK, Commit, CollectGarbage, Same
<1>2. CASE HandleList(u) \/ HandleFetch(u) \/ HandlePush(u)
  BY <1>2 DEF TypeOK, HandleList, HandleFetch, HandlePush, Goto, Same
<1>3. CASE \/ HandleEOF(u) \/ Walk(u)
           \/ Report(u) \/ Die(u)
  BY <1>3, ExitKeeps DEF HandleEOF, Walk, Report, Die
<1>4. CASE LoadListPacks(u) \/ LoadPack(u) \/ Snapshot(u)
  BY <1>4 DEF TypeOK, LoadListPacks, LoadPack, Snapshot, Goto, Same
<1>5. CASE Upload(u) \/ UploadIdx(u)
  BY <1>5 DEF TypeOK, Upload, UploadIdx, Goto, Same
<1>6. CASE CasRefs(u) \/ CasRejected(u) \/ ForceRef(u) \/ InitHead(u)
  BY <1>6 DEF TypeOK, CasRefs, CasRejected, ForceRef, InitHead, Goto, Same
<1> QED
  BY <1>1, <1>2, <1>3, <1>4, <1>5, <1>6 DEF Step, RunFetches, RunPushes

-----------------------------------------------------------------------------
(* One step of u.                                                          *)

Kept(u) == RefsBacked /\ StoreSound /\ UserInv(u)

LEMMA NoRefsBacked == HistoryOf(NoRefs) = {}
  BY DEF HistoryOf, History, NoRefs

\* A step that leaves the bucket and the refs in etcd alone.
LEMMA QuietStep ==
  ASSUME HelperInv, UNCHANGED s3Vars, refs' = refs
  PROVE  /\ RefsBacked' /\ StoreSound'
         /\ Whole' = Whole /\ Stored' = Stored /\ ListPacks' = ListPacks
  BY BucketStays DEF HelperInv, RefsBacked, HistoryOf

LEMMA BackedValue ==
  ASSUME TypeOK, NEW u \in Users, NEW r \in ToUpload(u)
  PROVE  r \in Refs /\ want[u][r] \in Commits /\ History(want[u][r]) = Reach[want[u][r]]
<1>1. r \in Refs /\ want[u][r] # NoSha
  BY DEF ToUpload, Deleted, Commands, Changed
<1> QED
  BY <1>1 DEF TypeOK, RefMap, Sha, History

LEMMA ExitBacked ==
  ASSUME HelperInv, NEW u \in Users, Exit(u),
         UNCHANGED <<s3Vars, localVars>>, refs' = refs
  PROVE  Kept(u)'
<1>1. /\ at'[u] = "idle" /\ adv'[u] = NoRefs /\ want'[u] = NoRefs
      /\ old'[u] = NoRefs /\ up'[u] = {} /\ queue'[u] = {}
  BY DEF HelperInv, TypeOK, Exit, Goto
<1>2. ViewBacked(u)'
  BY <1>1, QuietStep, NoRefsBacked
  DEF HelperInv, UserInv, ViewBacked, HistoryOf
<1>3. Loaded(u)' /\ UpBacked(u)'
  BY <1>1 DEF Loaded, UpBacked
<1>4. PushBacked(u)'
  BY <1>1 DEF PushBacked, Uploading, Uploaded, Commands, Changed
<1> QED
  BY <1>2, <1>3, <1>4, QuietStep DEF Kept, UserInv

\* The user between two commands, list, and what git makes of it.
LEMMA GitBacked ==
  ASSUME HelperInv, NEW u \in Users,
         Commit(u) \/ HandleList(u) \/ HandleFetch(u) \/ HandlePush(u)
  PROVE  Kept(u)'
<1>0. UNCHANGED s3Vars /\ refs' = refs /\ packs' = packs
      /\ old' = old /\ up' = up /\ queue' = queue /\ UserInv(u) /\ TypeOK
  BY DEF Commit, HandleList, HandleFetch, HandlePush, HelperInv
<1>1. at[u] \in {"idle", "listed"} /\ at'[u] \in {"idle", "listed", "listPacks", "snapshot"}
  BY <1>0 DEF TypeOK, Commit, HandleList, HandleFetch, HandlePush, Goto
<1>2. ViewBacked(u)'
  <2>1. adv'[u] = adv[u] \/ adv'[u] = refs
    BY <1>0 DEF TypeOK, Commit, HandleList, HandleFetch, HandlePush
  <2>2. HistoryOf(adv'[u]) \subseteq Stored
    BY <1>0, <2>1 DEF HelperInv, RefsBacked, UserInv, ViewBacked
  <2> QED
    BY <1>0, <2>2, QuietStep DEF UserInv, ViewBacked, HistoryOf
<1>3. Loaded(u)' /\ UpBacked(u)'
  BY <1>0, <1>1, QuietStep DEF Loaded, UpBacked, UserInv
<1>4. PushBacked(u)'
  <2>1. CASE Commit(u) \/ HandleList(u) \/ HandleFetch(u)
    <3>1. /\ Commands(u)' = {} /\ queue'[u] = {}
          /\ at'[u] \in {"idle", "listed", "listPacks"}
      <4>1. Commands(u) = {} /\ queue'[u] = {}
        BY <1>0, <1>1 DEF UserInv, PushBacked
      <4>2. at'[u] \in {"idle", "listed", "listPacks"}
        BY <1>0, <1>1, <2>1 DEF TypeOK, Commit, HandleList, HandleFetch, Goto
      <4>3. CASE HandleList(u)
        BY <1>0, <4>1, <4>2, <4>3 DEF TypeOK, HandleList, Commands, Changed
      <4>4. CASE Commit(u) \/ HandleFetch(u)
        BY <4>1, <4>2, <4>4 DEF Commit, HandleFetch, Commands, Changed
      <4> QED
        BY <2>1, <4>3, <4>4
    <3>2. ToUpload(u)' = {}
      BY <3>1 DEF ToUpload
    <3> QED
      BY <3>1, <3>2 DEF PushBacked, Uploaded
  <2>2. CASE HandlePush(u)
    <3>1. at'[u] = "snapshot" /\ Objects(u)' = Objects(u)
      BY <1>0, <2>2 DEF TypeOK, HandlePush, Goto, Objects
    <3>2. PICK new \in RefMap :
            /\ want'[u] = new /\ adv'[u] = adv[u]
            /\ \A r \in Changed(adv[u], new) :
                 new[r] # NoSha => Complete(u, new[r])
      BY <1>0, <2>2 DEF TypeOK, HandlePush
    <3>3. \A r \in ToUpload(u)' : Reach[want'[u][r]] \subseteq Objects(u)
      BY <3>2 DEF ToUpload, Deleted, Commands, Complete
    <3> QED
      BY <3>1, <3>3 DEF PushBacked, Uploaded, Uploading
  <2> QED
    BY <2>1, <2>2
<1> QED
  BY <1>2, <1>3, <1>4, QuietStep, <1>0 DEF Kept, UserInv

\* git gc, when all that it packs is on S3.
LEMMA PackedBacked ==
  ASSUME HelperInv, NEW u \in Users, CollectGarbage(u), LocalGC # "any"
  PROVE  Kept(u)'
<1>1. /\ UNCHANGED s3Vars /\ UNCHANGED <<at, adv, want, force, old, up, queue>>
      /\ refs' = refs /\ at[u] = "idle" /\ UserInv(u) /\ TypeOK
      /\ loose[u] \subseteq Stored /\ packs'[u] = {Objects(u)}
  BY DEF CollectGarbage, HelperInv, TypeOK
<1>2. UNION packs'[u] \subseteq Stored
  BY <1>1 DEF UserInv, ViewBacked, Objects
<1>3. ViewBacked(u)'
  BY <1>1, <1>2, QuietStep DEF UserInv, ViewBacked, HistoryOf
<1>4. Commands(u)' = Commands(u)
  BY <1>1, SameAsked
<1>5. Loaded(u)' /\ PushBacked(u)' /\ UpBacked(u)'
  BY <1>1, <1>4, QuietStep
  DEF UserInv, Loaded, PushBacked, UpBacked, Uploading, Uploaded
<1> QED
  BY <1>1, <1>3, <1>5, QuietStep DEF Kept, UserInv

\* Where loadPacksIntoLocal goes once all of the listed packs are there.
LEMMA AfterDownloadBacked ==
  ASSUME NEW u, NEW rest,
         at'[u] = AfterDownload(u, rest), todo'[u] = rest,
         UNCHANGED <<adv, want, force, up, queue>>,
         UNCHANGED s3Vars, up[u] = {},
         queue[u] = ToUpload(u),
         \A r \in ToUpload(u) : Reach[want[u][r]] \subseteq Objects(u)',
         HistoryOf(adv[u]) \subseteq UNION (packs'[u] \cup (rest \cap Whole))
  PROVE  Loaded(u)' /\ PushBacked(u)' /\ UpBacked(u)'
<1>1. ToUpload(u)' = ToUpload(u) /\ Commands(u)' = Commands(u)
  BY SameAsked
<1>2. at'[u] = "cas" => ToUpload(u) = {}
  BY DEF AfterDownload, AfterUpload
<1>3. at'[u] = "walk" => rest = {}
  BY DEF AfterDownload, AfterUpload
<1>4. at'[u] \in {"download", "walk", "upload", "cas"}
  BY DEF AfterDownload, AfterUpload
<1>5. Loaded(u)'
  BY BucketStays DEF Loaded, HistoryOf
<1>6. PushBacked(u)'
  BY <1>1, <1>2, <1>3, <1>4 DEF PushBacked, Uploading, Uploaded
<1>7. UpBacked(u)'
  BY <1>4 DEF UpBacked
<1> QED
  BY <1>5, <1>6, <1>7

LEMMA LoadBacked ==
  ASSUME HelperInv, NEW u \in Users, LoadListPacks(u) \/ LoadPack(u)
  PROVE  Kept(u)'
<1>0. /\ UNCHANGED s3Vars /\ UNCHANGED <<adv, want, force, up, queue>>
      /\ refs' = refs /\ loose' = loose /\ old' = old
      /\ UserInv(u) /\ TypeOK /\ StoreSound
      /\ at[u] \in {"listPacks", "download"}
  BY DEF LoadListPacks, LoadPack, HelperInv
<1>1. up[u] = {} /\ queue[u] = ToUpload(u)
  BY <1>0 DEF UserInv, UpBacked, PushBacked
<1>2. \A r \in ToUpload(u) : Reach[want[u][r]] \subseteq Objects(u)
  BY <1>0 DEF UserInv, PushBacked, Uploading
<1>3. CASE LoadListPacks(u)
  <2> DEFINE missing == ListPacks \ packs[u]
  <2>1. /\ todo'[u] = missing /\ at'[u] = AfterDownload(u, missing)
        /\ packs' = packs
    BY <1>0, <1>3 DEF TypeOK, LoadListPacks, Goto
  <2>2. HistoryOf(adv[u]) \subseteq UNION (packs'[u] \cup (missing \cap Whole))
    BY <1>0, <2>1
    DEF UserInv, ViewBacked, Stored, ListPacks, Whole
  <2>3. ViewBacked(u)' /\ Objects(u)' = Objects(u)
    BY <1>0, <2>1, QuietStep DEF UserInv, ViewBacked, HistoryOf, Objects
  <2> QED
    BY <1>0, <1>1, <1>2, <2>1, <2>2, <2>3, AfterDownloadBacked, QuietStep
    DEF Kept, UserInv
<1>4. CASE LoadPack(u)
  <2>1. PICK p \in todo[u] :
          /\ packs'[u] = IF p \in Whole THEN packs[u] \cup {p} ELSE packs[u]
          /\ todo'[u] = todo[u] \ {p}
          /\ at'[u] = AfterDownload(u, todo[u] \ {p})
    BY <1>0, <1>4 DEF TypeOK, LoadPack, Goto
  <2>2. at[u] = "download"
    BY <1>4 DEF LoadPack
  <2>3. HistoryOf(adv[u]) \subseteq UNION (packs'[u] \cup ((todo[u] \ {p}) \cap Whole))
    BY <1>0, <2>1, <2>2 DEF UserInv, Loaded
  <2>4. ViewBacked(u)'
    <3>1. UNION packs'[u] \subseteq Stored
      BY <1>0, <2>1 DEF UserInv, ViewBacked, Stored
    <3> QED
      BY <1>0, <3>1, QuietStep DEF UserInv, ViewBacked, HistoryOf
  <2>5. Objects(u) \subseteq Objects(u)'
    BY <1>0, <2>1 DEF Objects
  <2> QED
    BY <1>0, <1>1, <1>2, <2>1, <2>3, <2>4, <2>5, AfterDownloadBacked, QuietStep
    DEF Kept, UserInv
<1> QED
  BY <1>3, <1>4

LEMMA SnapshotBacked ==
  ASSUME HelperInv, NEW u \in Users, Snapshot(u)
  PROVE  Kept(u)'
<1>0. /\ UNCHANGED s3Vars /\ UNCHANGED <<adv, want, force, up>>
      /\ refs' = refs /\ UNCHANGED localVars
      /\ UserInv(u) /\ TypeOK /\ RefsBacked /\ at[u] = "snapshot"
  BY DEF Snapshot, HelperInv
<1>1. old'[u] = refs /\ at'[u] = "listPacks" /\ queue'[u] = ToUpload(u)
  BY <1>0 DEF Snapshot, TypeOK, Goto
<1>2. ToUpload(u)' = ToUpload(u) /\ Objects(u)' = Objects(u)
  BY <1>0, SameAsked DEF Objects
<1>3. ViewBacked(u)'
  BY <1>0, <1>1, QuietStep DEF UserInv, ViewBacked, RefsBacked, HistoryOf
<1>4. PushBacked(u)'
  BY <1>0, <1>1, <1>2 DEF UserInv, PushBacked, Uploading, Uploaded
<1>5. Loaded(u)' /\ UpBacked(u)'
  BY <1>0, <1>1 DEF UserInv, UpBacked, Loaded
<1> QED
  BY <1>0, <1>3, <1>4, <1>5, QuietStep DEF Kept, UserInv

LEMMA UploadBacked ==
  ASSUME HelperInv, NEW u \in Users, Upload(u)
  PROVE  Kept(u)'
<1>0. /\ UNCHANGED <<adv, want, force, old, todo>> /\ UNCHANGED localVars
      /\ refs' = refs /\ UserInv(u) /\ TypeOK /\ RefsBacked /\ StoreSound
      /\ at[u] = "upload" /\ up[u] = {}
  BY DEF Upload, HelperInv, UserInv, UpBacked
<1>1. PICK r \in queue[u] :
        /\ queue'[u] = queue[u] \ {r}
        /\ IF NewObjects(u, want[u][r]) = {}
             THEN /\ at'[u] = AfterUpload(queue[u] \ {r})
                  /\ UNCHANGED <<s3Vars, up>>
             ELSE /\ at'[u] = "putIdx"
                  /\ PutPackKey(NewObjects(u, want[u][r]))
                  /\ up'[u] = NewObjects(u, want[u][r])
  BY <1>0 DEF Upload, TypeOK, Goto
<1> DEFINE root == want[u][r]
           new  == NewObjects(u, root)
<1>2. r \in ToUpload(u) /\ root \in Commits /\ Reach[root] \subseteq Objects(u)
  BY <1>0, BackedValue DEF UserInv, PushBacked, Uploading
<1>3. /\ Reach[root] \subseteq new \cup Stored
      /\ \A c \in new : Reach[c] \subseteq new \cup Stored
  BY <1>0, <1>2, UploadComplete, UploadClosed DEF UserInv
<1>4. Whole' = Whole /\ packKeys \subseteq packKeys' /\ idxKeys' = idxKeys
  <2>1. CASE new = {}
    BY <1>1, <2>1, BucketStays
  <2>2. CASE new # {}
    BY <1>0, <1>1, <2>2 DEF PutPackKey, Whole, StoreSound, PutPackKey
  <2> QED
    BY <2>1, <2>2
<1>5. Stored' = Stored /\ RefsBacked' /\ StoreSound'
  BY <1>0, <1>4 DEF Stored, RefsBacked, StoreSound, HistoryOf
<1>6. ToUpload(u)' = ToUpload(u) /\ Commands(u)' = Commands(u) /\ Objects(u)' = Objects(u)
  BY <1>0, SameAsked DEF Objects
<1>7. ViewBacked(u)' /\ Loaded(u)'
  BY <1>0, <1>4, <1>5 DEF UserInv, ViewBacked, Loaded, HistoryOf
<1>8. \A q \in ToUpload(u) : Reach[want[u][q]] \subseteq Objects(u)
  BY <1>0 DEF UserInv, PushBacked, Uploading
<1>9. \A q \in ToUpload(u) \ queue'[u] : Reach[want[u][q]] \subseteq Stored \cup new
  BY <1>0, <1>1, <1>3 DEF UserInv, PushBacked
<1>10. queue'[u] \subseteq ToUpload(u)
  BY <1>0, <1>1 DEF UserInv, PushBacked
<1>11. CASE new = {}
  <2>1. at'[u] = AfterUpload(queue'[u]) /\ up' = up
    BY <1>1, <1>11
  <2>2. PushBacked(u)'
    BY <1>0, <1>5, <1>6, <1>8, <1>9, <1>10, <1>11, <2>1
    DEF PushBacked, AfterUpload, Uploading, Uploaded
  <2>3. UpBacked(u)'
    BY <1>0, <2>1 DEF UpBacked, AfterUpload
  <2> QED
    BY <1>5, <1>7, <2>2, <2>3 DEF Kept, UserInv
<1>12. CASE new # {}
  <2>1. at'[u] = "putIdx" /\ up'[u] = new /\ new \in packKeys'
    BY <1>1, <1>12 DEF PutPackKey
  <2>2. PushBacked(u)'
    BY <1>0, <1>5, <1>6, <1>8, <1>9, <1>10, <2>1
    DEF PushBacked, Uploading, Uploaded
  <2>3. UpBacked(u)'
    BY <1>3, <1>5, <2>1 DEF UpBacked
  <2> QED
    BY <1>5, <1>7, <2>2, <2>3 DEF Kept, UserInv
<1> QED
  BY <1>11, <1>12

LEMMA UploadIdxBacked ==
  ASSUME HelperInv, NEW u \in Users, UploadIdx(u)
  PROVE  Kept(u)'
<1>0. /\ UNCHANGED <<adv, want, force, old, todo, queue>> /\ UNCHANGED localVars
      /\ refs' = refs /\ UserInv(u) /\ TypeOK /\ RefsBacked /\ StoreSound
      /\ at[u] = "putIdx" /\ packKeys' = packKeys
      /\ idxKeys' = idxKeys \cup {up[u]} /\ up[u] \in packKeys
  BY DEF UploadIdx, HelperInv, UserInv, UpBacked, PutIdxKey
<1>1. at'[u] = AfterUpload(queue[u]) /\ up'[u] = {}
  BY <1>0 DEF UploadIdx, TypeOK, Goto
<1>2. Whole' = Whole \cup {up[u]}
  BY <1>0 DEF Whole
<1>3. Stored' = Stored \cup up[u]
  BY <1>2 DEF Stored
<1>4. RefsBacked'
  BY <1>0, <1>3 DEF RefsBacked, HistoryOf
<1>5. StoreSound'
  BY <1>0, <1>3 DEF StoreSound, UserInv, UpBacked
<1>6. ToUpload(u)' = ToUpload(u) /\ Commands(u)' = Commands(u) /\ Objects(u)' = Objects(u)
  BY <1>0, SameAsked DEF Objects
<1>7. ViewBacked(u)' /\ Loaded(u)'
  BY <1>0, <1>2, <1>3 DEF UserInv, ViewBacked, Loaded, HistoryOf
<1>8. PushBacked(u)'
  BY <1>0, <1>1, <1>3, <1>6
  DEF UserInv, PushBacked, AfterUpload, Uploading, Uploaded
<1>9. UpBacked(u)'
  BY <1>1 DEF UpBacked, AfterUpload
<1> QED
  BY <1>4, <1>5, <1>7, <1>8, <1>9 DEF Kept, UserInv

\* The transaction and the puts that follow it, when all is on S3.
LEMMA WriteBacked ==
  ASSUME HelperInv, NEW u \in Users,
         CasRefs(u) \/ CasRejected(u) \/ ForceRef(u) \/ InitHead(u)
  PROVE  Kept(u)'
<1>0. /\ UNCHANGED s3Vars /\ UNCHANGED <<adv, want, force, old, todo, up>>
      /\ UNCHANGED localVars
      /\ UserInv(u) /\ TypeOK /\ RefsBacked /\ StoreSound
      /\ at[u] \in {"cas", "force", "initHead"} /\ up[u] = {}
  BY DEF CasRefs, CasRejected, ForceRef, InitHead, HelperInv, UserInv, UpBacked
<1>1. \A r \in ToUpload(u) : Reach[want[u][r]] \subseteq Stored
  BY <1>0 DEF UserInv, PushBacked, Uploaded
<1>2. /\ at'[u] \in {"force", "initHead", "report"}
      /\ at'[u] = "force" => queue'[u] \subseteq Forced(u)
  <2>1. CASE CasRefs(u) \/ CasRejected(u)
    BY <1>0, <2>1, NextStepType DEF TypeOK, CasRefs, CasRejected, Goto
  <2>2. CASE ForceRef(u)
    <3>1. queue[u] \subseteq Forced(u)
      BY <1>0, <2>2 DEF UserInv, PushBacked, ForceRef
    <3>2. PICK r \in queue[u] : /\ queue' = [queue EXCEPT ![u] = @ \ {r}]
                                /\ at' = [at EXCEPT ![u] = AfterCas(queue[u] \ {r})]
      BY <2>2 DEF ForceRef, Goto
    <3> QED
      BY <1>0, <3>1, <3>2, NextStepType DEF TypeOK
  <2>3. CASE InitHead(u)
    BY <1>0, <2>3 DEF TypeOK, InitHead, Goto
  <2> QED
    BY <2>1, <2>2, <2>3
<1>3. /\ ToUpload(u)' = ToUpload(u) /\ Forced(u)' = Forced(u)
      /\ Whole' = Whole /\ Stored' = Stored /\ StoreSound'
  BY <1>0, SameAsked, BucketStays
<1>4. ViewBacked(u)' /\ Loaded(u)' /\ UpBacked(u)'
  BY <1>0, <1>2, <1>3 DEF UserInv, ViewBacked, Loaded, UpBacked, HistoryOf
<1>5. PushBacked(u)'
  BY <1>0, <1>1, <1>2, <1>3 DEF PushBacked, Uploading
<1>6. RefsBacked'
  <2>1. ASSUME NEW r \in Refs
        PROVE  \/ refs'[r] = refs[r]
               \/ r \in ToUpload(u) /\ refs'[r] = want[u][r]
               \/ refs'[r] = NoSha
    <3>1. CASE CasRefs(u)
      <4>1. refs'[r] = IF r \in Compared(u) THEN want[u][r] ELSE refs[r]
        BY <3>1 DEF CasRefs, UpdateRefsCAS, Puts
      <4> QED
        BY <4>1 DEF Compared, ToUpload, Deleted
    <3>2. CASE CasRejected(u) \/ InitHead(u)
      BY <3>2 DEF CasRejected, InitHead
    <3>3. CASE ForceRef(u)
      <4>1. PICK q \in queue[u] : refs' = [refs EXCEPT ![q] = want[u][q]]
        BY <3>3 DEF ForceRef, PutRefForce
      <4>2. q \in ToUpload(u)
        BY <1>0, <3>3
        DEF UserInv, PushBacked, ForceRef, Forced, ToUpload
      <4> QED
        BY <1>0, <4>1, <4>2 DEF TypeOK, EtcdTypeOK, RefMap
    <3> QED
      BY <3>1, <3>2, <3>3
  <2>2. ASSUME NEW r \in Refs PROVE History(refs'[r]) \subseteq Stored
    <3>1. History(refs[r]) \subseteq Stored
      BY <1>0 DEF RefsBacked, HistoryOf
    <3>2. r \in ToUpload(u) => History(want[u][r]) \subseteq Stored
      BY <1>0, <1>1, BackedValue
    <3> QED
      BY <2>1, <3>1, <3>2 DEF History
  <2> QED
    BY <1>3, <2>2 DEF RefsBacked, HistoryOf
<1> QED
  BY <1>3, <1>4, <1>5, <1>6 DEF Kept, UserInv

-----------------------------------------------------------------------------
(* The theorems.                                                           *)

LEMMA BucketGrows ==
  ASSUME NEW u \in Users, Step(u)
  PROVE  packKeys \subseteq packKeys' /\ idxKeys \subseteq idxKeys'
<1>1. CASE Upload(u) \/ UploadIdx(u)
  BY <1>1 DEF Upload, UploadIdx, PutPackKey, PutIdxKey
<1>2. CASE ~(Upload(u) \/ UploadIdx(u))
  BY <1>2
  DEF Step, RunFetches, RunPushes, Commit, CollectGarbage, HandleList,
      HandleFetch, HandlePush, HandleEOF, LoadListPacks, LoadPack, Walk,
      Snapshot, CasRefs, CasRejected, ForceRef, InitHead, Report,
      Die
<1> QED
  BY <1>1, <1>2

LEMMA StepKeeps ==
  ASSUME HelperInv, NEW u \in Users, Step(u), LocalGC # "any"
  PROVE  Kept(u)'
<1>1. CASE HandleEOF(u) \/ Walk(u) \/ Report(u) \/ Die(u)
  BY <1>1, ExitBacked DEF HandleEOF, Walk, Report, Die
<1> QED
  BY <1>1, GitBacked, PackedBacked, LoadBacked, SnapshotBacked, UploadBacked,
     UploadIdxBacked, WriteBacked
  DEF Step, RunFetches, RunPushes

LEMMA HelperInit == Init => HelperInv
<1> SUFFICES ASSUME Init PROVE HelperInv
  OBVIOUS
<1>1. RefsBacked /\ StoreSound
  BY NoRefsBacked
  DEF Init, UsersInit, EtcdInit, S3Init, RefsBacked, StoreSound, Stored, Whole
<1>2. ASSUME NEW u \in Users PROVE UserInv(u)
  <2>1. /\ at[u] = "idle" /\ adv[u] = NoRefs /\ want[u] = NoRefs
        /\ old[u] = NoRefs /\ packs[u] = {} /\ up[u] = {} /\ queue[u] = {}
    BY DEF Init, UsersInit
  <2>2. ViewBacked(u) /\ Loaded(u) /\ UpBacked(u)
    BY <2>1, NoRefsBacked DEF ViewBacked, Loaded, UpBacked
  <2>3. PushBacked(u)
    BY <2>1 DEF PushBacked, Uploading, Uploaded, Commands, Changed
  <2> QED
    BY <2>2, <2>3 DEF UserInv
<1> QED
  BY <1>1, <1>2, TypeInit DEF HelperInv

LEMMA HelperStep ==
  ASSUME HelperInv, [Next]_vars, LocalGC # "any" PROVE HelperInv'
<1>1. TypeOK'
  BY TypeStep DEF HelperInv
<1>2. ASSUME NEW u \in Users, Step(u) PROVE HelperInv'
  <2>1. Kept(u)'
    BY <1>2, StepKeeps
  <2>2. ASSUME NEW v \in Users \ {u} PROVE UserInv(v)'
    <3>1. UserInv(v) /\ Same(v)
      BY <1>2, OthersKeep DEF HelperInv
    <3>2. packKeys \subseteq packKeys' /\ idxKeys \subseteq idxKeys'
      BY <1>2, BucketGrows
    <3> QED
      BY <3>1, <3>2, UserFrame
  <2> QED
    BY <1>1, <2>1, <2>2 DEF Kept, HelperInv
<1>3. CASE UNCHANGED vars
  <2>1. UNCHANGED s3Vars /\ refs' = refs /\ \A v \in Users : Same(v)
    BY <1>3 DEF vars, Same
  <2>2. \A v \in Users : UserInv(v)'
    BY <2>1, UserFrame DEF HelperInv
  <2> QED
    BY <1>1, <2>1, <2>2, QuietStep DEF HelperInv
<1> QED
  BY <1>2, <1>3 DEF Next, Step

\* Unless a user's git gc packs what was never pushed, the helper never moves a
\* ref onto objects that are not in whole packs on S3: each upload of
\* uploadReachable completes what the bucket has, for any number of users
\* whose helpers upload at the same time and die between any two requests.
THEOREM HelperRefBacked ==
  ASSUME LocalGC # "any"
  PROVE  Spec => []RefsBacked
<1>1. HelperInv /\ [Next]_vars => HelperInv'
  BY HelperStep
<1>2. HelperInv => RefsBacked
  BY DEF HelperInv
<1> QED
  BY <1>1, <1>2, HelperInit, PTL DEF Spec

\* Under the same condition no fetch ends with "remote is missing object":
\* what loadPacksIntoLocal brings has all that `list` printed, although the
\* packs are listed later and downloaded one by one.
THEOREM NoFetchMisses ==
  ASSUME LocalGC # "any"
  PROVE  Spec => []FetchFindsAll
<1>1. HelperInv /\ [Next]_vars => HelperInv'
  BY HelperStep
<1>2. HelperInv => FetchFindsAll
  <2> SUFFICES ASSUME HelperInv, NEW u \in Users, at[u] = "walk",
                      NEW r \in Refs, adv[u][r] # NoSha
               PROVE  Reach[adv[u][r]] \subseteq Objects(u)
    BY DEF FetchFindsAll, Fetched, Tips, Complete
  <2>1. HistoryOf(adv[u]) \subseteq UNION packs[u]
    BY DEF HelperInv, UserInv, Loaded, PushBacked
  <2> QED
    BY <2>1 DEF HistoryOf, History, Objects
<1> QED
  BY <1>1, <1>2, HelperInit, PTL DEF Spec

-----------------------------------------------------------------------------
(* No blind write, with or without git gc.                                 *)

OnlyForcedLeft == \A u \in Users : at[u] = "force" => queue[u] \subseteq Forced(u)

LEMMA OnlyForcedLeftStep ==
  ASSUME TypeOK, OnlyForcedLeft, [Next]_vars
  PROVE  OnlyForcedLeft'
<1>1. ASSUME NEW u \in Users, Step(u) PROVE OnlyForcedLeft'
  <2>1. ASSUME NEW v \in Users \ {u}, at'[v] = "force"
        PROVE  queue'[v] \subseteq Forced(v)'
    BY <1>1, <2>1, OthersKeep, SameAsked DEF Same, OnlyForcedLeft
  <2>2. ASSUME at'[u] = "force" PROVE queue'[u] \subseteq Forced(u)'
    <3>1. CASE CasRefs(u) \/ CasRejected(u)
      BY <3>1, SameAsked DEF TypeOK, CasRefs, CasRejected
    <3>2. CASE ForceRef(u)
      <4>1. queue'[u] \subseteq queue[u]
        BY <3>2 DEF TypeOK, ForceRef
      <4> QED
        BY <3>2, <4>1, SameAsked DEF ForceRef, OnlyForcedLeft
    <3>3. CASE ~(CasRefs(u) \/ CasRejected(u) \/ ForceRef(u))
      <4>1. ~(LoadListPacks(u) \/ LoadPack(u) \/ Upload(u) \/ UploadIdx(u))
        <5>1. ASSUME NEW next, Goto(u, next) PROVE next = "force"
          BY <2>2, <5>1 DEF TypeOK, Goto
        <5>2. ASSUME NEW rest
              PROVE  /\ ~Goto(u, AfterDownload(u, rest))
                     /\ ~Goto(u, AfterUpload(rest)) /\ ~Goto(u, "putIdx")
          BY <5>1, NextStepType
        <5> QED
          BY <5>2 DEF LoadListPacks, LoadPack, Upload, UploadIdx
      <4>2. ~(Commit(u) \/ CollectGarbage(u))
        BY <2>2 DEF Commit, CollectGarbage
      <4> QED
        BY <1>1, <2>2, <3>3, <4>1, <4>2
        DEF TypeOK, Step, RunFetches, RunPushes, HandleList, HandleFetch,
            HandlePush, HandleEOF, Walk, Snapshot, InitHead,
            Report, Die, Exit, Goto
    <3> QED
      BY <3>1, <3>2, <3>3
  <2> QED
    BY <2>1, <2>2 DEF OnlyForcedLeft
<1>2. CASE UNCHANGED vars
  BY <1>2, SameAsked DEF vars, OnlyForcedLeft
<1> QED
  BY <1>1, <1>2 DEF Next, Step

\* What git lets pass without + contains what it was shown.
Judged(u) == \A r \in Compared(u) : FastForward(adv[u][r], want[u][r])

LEMMA JudgedStep ==
  ASSUME TypeOK, NEW u \in Users, Step(u), \A v \in Users : Judged(v)
  PROVE  \A v \in Users : Judged(v)'
<1>1. ASSUME NEW v \in Users, UNCHANGED <<adv[v], want[v], force[v]>>
      PROVE  Judged(v)'
  BY <1>1, SameAsked DEF Judged
<1>2. ASSUME NEW v \in Users \ {u} PROVE Judged(v)'
  BY <1>1, <1>2, OthersKeep DEF Same
<1>3. CASE adv'[u] = want'[u]
  BY <1>2, <1>3 DEF Judged, Compared, Commands, Changed
<1>4. CASE HandleList(u) \/ Exit(u)
  BY <1>3, <1>4 DEF TypeOK, HandleList, Exit
<1>5. CASE HandlePush(u)
  <2>1. PICK new \in RefMap, plus \in SUBSET Refs :
          /\ want'[u] = new /\ force'[u] = plus /\ adv' = adv
          /\ \A r \in Changed(adv[u], new) : NeedsForce(u, r, new[r]) => r \in plus
    BY <1>5 DEF TypeOK, HandlePush
  <2>2. ASSUME NEW r \in Compared(u)' PROVE FastForward(adv'[u][r], want'[u][r])
    <3>1. r \in Changed(adv[u], new) /\ ~(r \in plus /\ new[r] # NoSha)
      BY <2>1, <2>2 DEF Compared, Commands, Forced, Deleted
    <3>2. new[r] = NoSha \/ ~NeedsForce(u, r, new[r])
      BY <2>1, <3>1
    <3> QED BY <2>1, <3>2 DEF NeedsForce, FastForward, History
  <2> QED BY <1>2, <2>2 DEF Judged
<1>6. CASE UNCHANGED <<adv, want, force>>
  BY <1>1, <1>6
<1> QED
  BY <1>4, <1>5, <1>6
  DEF Step, RunFetches, RunPushes, Commit, CollectGarbage, HandleFetch,
      HandleEOF, LoadListPacks, LoadPack, Walk, Snapshot,
      Upload, UploadIdx, CasRefs, CasRejected, ForceRef, InitHead, Report, Die

NeverBlindInv == TypeOK /\ OnlyForcedLeft /\ \A u \in Users : Judged(u)

LEMMA NeverBlindInit == Init => NeverBlindInv
<1> SUFFICES ASSUME Init PROVE OnlyForcedLeft /\ \A u \in Users : Judged(u)
  BY TypeInit DEF NeverBlindInv
<1> QED
  BY DEF Init, UsersInit, OnlyForcedLeft, Judged, Compared, Commands, Changed

LEMMA NeverBlindStep ==
  ASSUME NeverBlindInv, [Next]_vars PROVE NeverBlindInv'
<1>1. ASSUME NEW u \in Users, Step(u) PROVE \A v \in Users : Judged(v)'
  BY <1>1, JudgedStep DEF NeverBlindInv
<1>2. CASE UNCHANGED vars
  <2>1. ASSUME NEW u \in Users PROVE Judged(u)'
    BY <1>2, SameAsked DEF vars, NeverBlindInv, Judged
  <2> QED BY <1>2, <2>1, TypeStep, OnlyForcedLeftStep DEF NeverBlindInv
<1> QED
  BY <1>1, <1>2, TypeStep, OnlyForcedLeftStep DEF NeverBlindInv, Next, Step

\* The transaction compares, and the loop writes what has a +.
LEMMA WriteCompares ==
  ASSUME NeverBlindInv, [Next]_vars, NEW r \in Refs, refs'[r] # refs[r]
  PROVE  \E u \in Users :
           /\ r \in Commands(u) /\ refs'[r] = want[u][r]
           /\ \/ at[u] = "force" /\ r \in Forced(u)
              \/ /\ at[u] = "cas" /\ old[u][r] = refs[r]
                 /\ adv[u][r] = refs[r] => FastForward(refs[r], refs'[r])
<1> USE DEF NeverBlindInv
<1>1. PICK u \in Users : CasRefs(u) \/ ForceRef(u)
  BY DEF Next, RunFetches, RunPushes, Commit, CollectGarbage, HandleList,
         HandleFetch, HandlePush, HandleEOF, LoadListPacks, LoadPack,
         Walk, Snapshot, Upload, UploadIdx, CasRejected,
         InitHead, Report, Die, vars
<1>2. CASE CasRefs(u)
  <2>1. /\ refs'[r] = IF r \in Compared(u) THEN want[u][r] ELSE refs[r]
        /\ \A q \in Compared(u) : refs[q] = old[u][q]
        /\ at[u] = "cas"
    BY <1>2 DEF CasRefs, UpdateRefsCAS, Puts, Compares
  <2>2. r \in Compared(u)
    BY <2>1
  <2>3. FastForward(adv[u][r], want[u][r])
    BY <2>2 DEF Judged
  <2> QED
    BY <2>1, <2>2, <2>3 DEF Compared
<1>3. CASE ForceRef(u)
  <2>1. PICK q \in queue[u] : refs' = [refs EXCEPT ![q] = want[u][q]]
    BY <1>3 DEF ForceRef, PutRefForce
  <2>2. q \in Forced(u)
    BY <1>3 DEF OnlyForcedLeft, ForceRef
  <2>3. q = r /\ refs'[r] = want[u][r]
    BY <2>1 DEF TypeOK, EtcdTypeOK, RefMap
  <2> QED
    BY <1>3, <2>2, <2>3 DEF Forced, ForceRef
<1> QED
  BY <1>1, <1>2, <1>3

\* Whatever other users do between a helper's snapshot and its writes, a ref
\* pushed without + is only changed from the value the snapshot has, and loses
\* no history if that is the value git was shown.
THEOREM HelperNeverBlind == Spec => NoBlindWrite
<1>1. NeverBlindInv /\ [Next]_vars => NeverBlindInv'
  BY NeverBlindStep
<1>2. NeverBlindInv /\ [Next]_vars =>
        [\A r \in Refs : refs'[r] # refs[r] =>
           \E u \in Users :
             /\ r \in Commands(u) /\ refs'[r] = want[u][r]
             /\ \/ r \in Forced(u)
                \/ /\ old[u][r] = refs[r]
                   /\ adv[u][r] = refs[r] => FastForward(refs[r], refs'[r])]_vars
  BY WriteCompares
<1> QED
  BY <1>1, <1>2, NeverBlindInit, PTL DEF Spec, NoBlindWrite

-----------------------------------------------------------------------------
(* What a push reports is what it did.                                     *)

Writing == {"force", "initHead", "report"}

\* The refs a push has written once its loop over the forced ones is done.
Written(u) == (IF allOk[u] THEN Compared(u) ELSE {}) \cup Forced(u)

Wrote(u) ==
  /\ at[u] \notin Writing => allOk[u] /\ applied[u] = {}
  /\ at[u] = "force" => applied[u] \cup queue[u] = Written(u)
  /\ at[u] \in {"initHead", "report"} => applied[u] = Written(u)

LEMMA WroteFrame ==
  ASSUME NEW v, Wrote(v), adv'[v] = adv[v], want'[v] = want[v],
         force'[v] = force[v], at'[v] = at[v], queue'[v] = queue[v],
         allOk'[v] = allOk[v], applied'[v] = applied[v]
  PROVE  Wrote(v)'
  BY SameAsked DEF Wrote, Written

\* A step that is not one of the writes, and leads to none.
LEMMA WroteNothing ==
  ASSUME TypeOK, NEW u \in Users, Wrote(u), at[u] \notin Writing,
         at'[u] \notin Writing, UNCHANGED <<allOk, applied>>
  PROVE  Wrote(u)'
  BY DEF Wrote, Writing

LEMMA WroteStep ==
  ASSUME TypeOK, NEW u \in Users, Wrote(u), Step(u)
  PROVE  Wrote(u)'
<1>1. CASE CasRefs(u) \/ CasRejected(u)
  <2>1. Commands(u)' = Commands(u) /\ Forced(u)' = Forced(u)
        /\ Compared(u)' = Compared(u)
    BY <1>1, SameAsked DEF CasRefs, CasRejected
  <2>2. allOk[u] /\ applied[u] = {}
    BY <1>1 DEF Wrote, Writing, CasRefs, CasRejected
  <2>3. /\ queue'[u] = Forced(u) /\ at'[u] = AfterCas(Forced(u))
        /\ allOk'[u] => applied'[u] = Compared(u)
        /\ ~allOk'[u] => applied'[u] = {}
    BY <1>1, <2>2 DEF TypeOK, Goto, CasRefs, CasRejected
  <2> QED
    BY <2>1, <2>3 DEF Wrote, Written, Writing, AfterCas
<1>2. CASE ForceRef(u)
  <2>1. Forced(u)' = Forced(u) /\ Compared(u)' = Compared(u) /\ allOk' = allOk
    BY <1>2, SameAsked DEF ForceRef
  <2>2. PICK r \in queue[u] : /\ applied'[u] = applied[u] \cup {r}
                              /\ queue'[u] = queue[u] \ {r}
                              /\ at'[u] = AfterCas(queue'[u])
    BY <1>2 DEF TypeOK, Goto, ForceRef
  <2>3. applied'[u] \cup queue'[u] = Written(u)'
    BY <1>2, <2>1, <2>2 DEF Wrote, Written, ForceRef
  <2> QED
    BY <2>2, <2>3 DEF Wrote, Writing, AfterCas
<1>3. CASE InitHead(u)
  BY <1>3, SameAsked DEF TypeOK, InitHead, Goto, Wrote, Written, Writing
<1>4. CASE Exit(u)
  BY <1>4 DEF TypeOK, Exit, Goto, Wrote, Writing
<1>5. CASE Commit(u) \/ CollectGarbage(u)
  BY <1>5, WroteFrame DEF Commit, CollectGarbage
<1>6. CASE HandleList(u) \/ HandleFetch(u) \/ HandlePush(u) \/ Snapshot(u)
  BY <1>6, WroteNothing
  DEF TypeOK, HandleList, HandleFetch, HandlePush, Snapshot, Goto, Writing
<1>7. CASE LoadListPacks(u) \/ LoadPack(u) \/ Upload(u) \/ UploadIdx(u)
  <2>1. PICK next : /\ Goto(u, next)
                    /\ \/ \E rest : next \in {AfterDownload(u, rest), AfterUpload(rest)}
                       \/ next = "putIdx"
    BY <1>7 DEF LoadListPacks, LoadPack, Upload, UploadIdx
  <2>2. at'[u] \notin Writing
    BY <2>1 DEF TypeOK, Goto, AfterDownload, AfterUpload, Writing
  <2> QED
    BY <1>7, <2>2, WroteNothing
    DEF LoadListPacks, LoadPack, Upload, UploadIdx, Writing
<1> QED
  BY <1>1, <1>2, <1>3, <1>4, <1>5, <1>6, <1>7
  DEF Step, RunFetches, RunPushes, HandleEOF, Walk, Report,
      Die

\* Whatever the transaction answers and whichever refs were forced, every
\* update reported ok was written by this push, and a ref reported as an
\* error it did not touch.
THEOREM ReportIsHonest == Spec => []HonestReport
<1> DEFINE Inv == TypeOK /\ \A u \in Users : Wrote(u)
<1>1. Init => Inv
  BY TypeInit DEF Init, UsersInit, Wrote, Writing
<1>2. ASSUME Inv, [Next]_vars PROVE Inv'
  <2>1. ASSUME NEW u \in Users, Step(u) PROVE \A v \in Users : Wrote(v)'
    BY <1>2, <2>1, WroteStep, OthersKeep, WroteFrame DEF Same
  <2>2. ASSUME UNCHANGED vars PROVE \A v \in Users : Wrote(v)'
    BY <1>2, <2>2, WroteFrame DEF vars
  <2> QED
    BY <1>2, <2>1, <2>2, TypeStep DEF Next, Step
<1>3. Inv => HonestReport
  BY DEF HonestReport, Wrote, Written, ReportedOk, Compared, Forced
<1>4. Inv /\ [Next]_vars => Inv'
  BY <1>2
<1> HIDE DEF Inv
<1> QED
  BY <1>1, <1>3, <1>4, PTL DEF Spec

-----------------------------------------------------------------------------
(* What etcd and S3 are together.                                          *)

\* Objects arrive, or refs move, or HEAD is chosen.
StoreStep ==
  /\ packKeys \subseteq packKeys' /\ idxKeys \subseteq idxKeys'
  /\ \/ UNCHANGED <<refs, head>>
     \/ UNCHANGED <<head, packKeys, idxKeys>>
     \/ UNCHANGED <<refs, packKeys, idxKeys>> /\ head = NoRef /\ head' \in Branches

LEMMA StoreStepRefines ==
  ASSUME TypeOK', RefsBacked', StoreStep
  PROVE  [Store!Next]_Store!storeVars
<1> USE DEF Store!Next, Store!Keep, Store!Move, Store!Choose, Store!storeVars
<1>1. CASE UNCHANGED <<refs, head>>
  <2>1. Stored \subseteq Stored'
    BY StoredGrows DEF StoreStep
  <2>2. Stored' \subseteq Commits
    BY DEF TypeOK, S3TypeOK, Stored, Whole, Pack
  <2> QED BY <1>1, <2>1, <2>2
<1>2. CASE UNCHANGED <<head, packKeys, idxKeys>>
  <2>1. Stored' = Stored
    BY <1>2 DEF Stored, Whole
  <2>2. refs' \in Store!RefMap
    BY DEF TypeOK, EtcdTypeOK, RefMap, Store!RefMap, Sha, Store!Sha
  <2>3. Store!HistoryOf(refs') \subseteq Stored
    BY <2>1 DEF RefsBacked, HistoryOf, History, Store!HistoryOf, Store!History
  <2> QED BY <1>2, <2>1, <2>2, <2>3
<1>3. CASE UNCHANGED <<refs, packKeys, idxKeys>> /\ head = NoRef /\ head' \in Branches
  <2>1. Stored' = Stored
    BY <1>3 DEF Stored, Whole
  <2> QED BY <1>3, <2>1
<1> QED BY <1>1, <1>2, <1>3 DEF StoreStep

LEMMA StoreInit == Init => Store!Init
  BY DEF Init, EtcdInit, S3Init, Store!Init, Stored, Whole, NoRefs, Store!NoRefs

LEMMA HelperStoreStep ==
  ASSUME TypeOK, NEW u \in Users, Step(u)
  PROVE  StoreStep
<1>1. packKeys \subseteq packKeys' /\ idxKeys \subseteq idxKeys'
  BY BucketGrows
<1>2. CASE CasRefs(u) \/ ForceRef(u)
  BY <1>1, <1>2 DEF CasRefs, ForceRef, StoreStep
<1>3. CASE InitHead(u)
  BY <1>1, <1>3 DEF InitHead, Named, PutHEADIfMissing, StoreStep
<1>4. CASE UNCHANGED <<refs, head>>
  BY <1>1, <1>4 DEF StoreStep
<1> QED
  BY <1>2, <1>3, <1>4
  DEF Step, RunFetches, RunPushes, Commit, CollectGarbage, HandleList,
      HandleFetch, HandlePush, HandleEOF, LoadListPacks, LoadPack, Walk,
      Snapshot, Upload, UploadIdx, CasRejected, Report, Die

\* Unless git gc packs what was never pushed, the helpers of any number of users
\* make of etcd and S3 one store of refs that only ever move onto what can be
\* read back.
THEOREM HelperIsRefStore ==
  ASSUME LocalGC # "any"
  PROVE  Spec => ImplementsRefStore
<1>1. HelperInv /\ [Next]_vars => HelperInv'
  BY HelperStep
<1>2. HelperInv /\ HelperInv' /\ [Next]_vars => [Store!Next]_Store!storeVars
  <2> SUFFICES ASSUME HelperInv, HelperInv', [Next]_vars
               PROVE  [Store!Next]_Store!storeVars
    OBVIOUS
  <2>1. StoreStep
    <3>1. CASE UNCHANGED vars
      BY <3>1 DEF vars, StoreStep
    <3> QED BY <3>1, HelperStoreStep DEF HelperInv, Next, Step
  <2> QED BY <2>1, StoreStepRefines DEF HelperInv
<1> QED
  BY <1>1, <1>2, HelperInit, StoreInit, PTL DEF Spec, ImplementsRefStore, Store!Spec
=============================================================================
