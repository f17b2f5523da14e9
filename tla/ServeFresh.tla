----------------------------- MODULE ServeFresh ----------------------------
(***************************************************************************)
(* What a server may skip, serve and let git apply: while the etcd lock    *)
(* excludes pushes from each other, the version says when a cache is       *)
(* current, on any number of servers.                                      *)
(***************************************************************************)
EXTENDS ServeBacked

USE DEF etcdVars, s3Vars, cacheVars, localVars, pushVars, historyVars,
        handlerVars

\* A request has the mutex of its server.
MuxHeld == \A c \in Clients : pc[c] \notin Quiescent => mux[srv[c]] = c

\* SyncRepo past its early return.
Syncing == {"listPacks", "download", "listRefs", "wipe", "packed", "head",
            "record"}

\* No hook dies between its CAS and its bump.
Announced == FaultAt \cap Announcing = {}
OwedInv   == Announced /\ owed => \E c \in Pushers : pc[c] \in Announcing

\* No cache has recorded a version that etcd has not reached.  What a sync
\* works towards is more than its cache has, so is what a push announced, and
\* a bump writes what nobody has seen.
Versions(c) ==
  /\ pc[c] \in Syncing => versionFile[srv[c]] < seen[c] /\ seen[c] <= version
  /\ pc[c] \in Announcing => owed
  /\ pc[c] = "bumpPut" => seen[c] = version
  /\ pc[c] = "promote" => versionFile[srv[c]] < version
VersionInv ==
  /\ \A s \in Servers : versionFile[s] <= version
  /\ \A c \in Clients : Versions(c)

\* The refs and HEAD of a cache that is up to date.
Current(s) == Eff(s) = refs /\ (head # NoRef => headFile[s] = head)
CurrentInv == ~owed => \A s \in Servers : versionFile[s] = version => Current(s)

\* How far a sync that no push has overtaken has brought its cache.
OnTime(c) == ~owed /\ seen[c] = version
RefsSynced(c) ==
  OnTime(c) =>
    /\ pc[c] \in {"wipe", "packed", "head", "record"} =>
         snap[c] = refs /\ snapHead[c] = head
    /\ pc[c] \in {"packed", "head", "record"} => looseRefs[srv[c]] = NoRefs
    /\ pc[c] \in {"head", "record"} => packedRefs[srv[c]] = refs
    /\ pc[c] = "record" /\ head # NoRef => headFile[srv[c]] = head

\* Where every bump comes, a request that began in quiet, and is past
\* SyncRepo, finds the version it synced to still there.
Synced == {"serve", "advert", "receive", "hookList", "putPack", "putIdx", "cas"}
Quiet(c) ==
  Announced /\ quiet[c] =>
    /\ ~owed
    /\ pc[c] \in Syncing => seen[c] = version
    /\ pc[c] \in Synced => versionFile[srv[c]] = version

\* Between the CAS and maybeInitHEAD the refs of the push are at its values.
Landed(c) ==
  pc[c] = "initHead" => \A r \in Commands(c) : refs[r] = want[c][r]

FreshInv ==
  /\ TypeOK /\ LockHeld /\ MuxHeld /\ VersionInv /\ CurrentInv /\ OwedInv
  /\ \A c \in Clients : RefsSynced(c) /\ Quiet(c) /\ Landed(c)

-----------------------------------------------------------------------------
(* What a step leaves alone.                                               *)

\* One server's cache.
SameCache(s) ==
  /\ packDir'[s] = packDir[s] /\ tornIdx'[s] = tornIdx[s]
  /\ packedRefs'[s] = packedRefs[s] /\ looseRefs'[s] = looseRefs[s]
  /\ headFile'[s] = headFile[s] /\ versionFile'[s] = versionFile[s]

\* The other clients' server and locals; only a CAS disturbs their quiet.
OthersStay(c) ==
  \A d \in Clients \ {c} :
    /\ srv'[d] = srv[d] /\ seen'[d] = seen[d] /\ snapHead'[d] = snapHead[d]
    /\ quiet'[d] => quiet[d]
    /\ quiet'[d] = quiet[d] \/ CasRefs(c)

LEMMA LeaveStays ==
  ASSUME TypeOK, NEW c \in Clients, Leave(c)
  PROVE  OthersStay(c) /\ srv'[c] = NoServer /\ ~quiet'[c]
  BY DEF TypeOK, Leave, OthersStay

LEMMA EndStays ==
  ASSUME TypeOK, NEW c \in Clients, EndRequest(c)
  PROVE  OthersStay(c) /\ pc'[c] = "idle" /\ ~quiet'[c]
  BY LeaveStays, EndOthersKeep DEF EndRequest

LEMMA StepOthersStay ==
  ASSUME TypeOK, NEW c \in Clients, Step(c) PROVE OthersStay(c)
<1>1. CASE HandleFetch(c) \/ HandleAdvert(c) \/ HandlePost(c)
  BY <1>1
  DEF TypeOK, HandleFetch, HandleAdvert, HandlePost, Handle, OthersStay
<1>2. CASE LockRepo(c)
  BY <1>2 DEF TypeOK, LockRepo, OthersStay
<1>3. CASE SyncRepo(c)
  <2>1. CASE GetVersion(c) \/ SyncPacks(c) \/ LoadPack(c) \/ ListRefs(c)
    BY <2>1 DEF TypeOK, GetVersion, SyncPacks, LoadPack, ListRefs, OthersStay
  <2>2. CASE SyncWipe(c) \/ SyncPackedRefs(c) \/ SyncHead(c) \/ SyncRecord(c)
    BY <2>2
    DEF TypeOK, SyncWipe, SyncPackedRefs, SyncHead, SyncRecord, OthersStay
  <2> QED
    BY <1>3, <2>1, <2>2 DEF SyncRepo
<1>4. CASE ServeFetch(c) \/ ReceiveRefused(c) \/ Promote(c) \/ CasRejected(c)
  BY <1>4, EndStays DEF ServeFetch, ReceiveRefused, Promote, CasRejected
<1>5. CASE Advertise(c) \/ ReceivePack(c)
  BY <1>5, LeaveStays DEF TypeOK, Advertise, ReceivePack, OthersStay
<1>6. CASE Hook(c)
  <2>1. CASE HookListPacks(c) \/ HookPutPack(c) \/ HookPutIdx(c)
    BY <2>1 DEF TypeOK, HookListPacks, HookPutPack, HookPutIdx, OthersStay
  <2>2. CASE CasRefs(c) \/ MaybeInitHEAD(c) \/ BumpGet(c) \/ BumpPut(c)
    BY <2>2 DEF TypeOK, CasRefs, MaybeInitHEAD, BumpGet, BumpPut, OthersStay
  <2> QED
    BY <1>4, <1>6, <2>1, <2>2 DEF Hook
<1>7. CASE Fault(c)
  BY <1>7, EndStays
  DEF Fault, Fail, TearIdx, TearRefs, TearPackedRefs, TearHead, TearVersion,
      HandlerGone, Abort, OthersStay
<1> QED
  BY <1>1, <1>2, <1>3, <1>4, <1>5, <1>6, <1>7 DEF Step, Request

\* A step writes the cache of its own server only, and that only in SyncRepo
\* and when git moves a push into place.
LEMMA StepCaches ==
  ASSUME TypeOK, NEW c \in Clients, Step(c), NEW s \in Servers,
         s # srv[c] \/ pc[c] \notin SyncSteps \cup {"promote"}
  PROVE  SameCache(s)
<1>1. CASE LoadPack(c) \/ SyncWipe(c) \/ SyncPackedRefs(c)
  BY <1>1
  DEF TypeOK, CacheTypeOK, LoadPack, SyncWipe, SyncPackedRefs, StorePack,
      WipeLooseRefs, WritePackedRefs, SyncSteps, SameCache
<1>2. CASE SyncHead(c) \/ SyncRecord(c)
  BY <1>2
  DEF TypeOK, CacheTypeOK, SyncHead, SyncRecord, WriteHead, WriteLocalVersion,
      SyncSteps, SameCache
<1>3. CASE Promote(c)
  BY <1>3 DEF TypeOK, CacheTypeOK, Promote, ApplyRefs, SameCache
<1>4. CASE TearIdx(c) \/ TearRefs(c) \/ TearPackedRefs(c) \/ TearHead(c)
           \/ TearVersion(c)
  BY <1>4
  DEF TypeOK, CacheTypeOK, TearIdx, TearRefs, TearPackedRefs, TearHead,
      TearVersion, StorePack, TearIdxFile, RemoveLooseRefs, WritePackedRefs,
      TruncateHead, WriteLocalVersion, SyncSteps, SameCache
<1>5. CASE UNCHANGED cacheVars
  BY <1>5 DEF SameCache
<1> QED
  BY <1>1, <1>2, <1>3, <1>4, <1>5
  DEF Step, HandleFetch, HandleAdvert, HandlePost, Handle, Request, LockRepo,
      SyncRepo, GetVersion, SyncPacks, ListRefs, ServeFetch, Advertise,
      ReceivePack, ReceiveRefused, Hook, HookListPacks, HookPutPack, HookPutIdx,
      CasRefs, CasRejected, MaybeInitHEAD, BumpGet, BumpPut, Fault, Fail,
      HandlerGone

-----------------------------------------------------------------------------
(* The mutex of a server.                                                  *)

\* The three ways a step of c treats the mutexes.
LEMMA StepMux ==
  ASSUME TypeOK, NEW c \in Clients, Step(c), OrphanAt = {}
  PROVE  \/ UNCHANGED <<mux, srv>> /\ pc[c] \notin Quiescent
         \/ \E s \in Servers : /\ mux[s] = NoOwner /\ srv'[c] = s
                               /\ mux' = [mux EXCEPT ![s] = c]
         \/ pc'[c] \in Quiescent /\ ReleaseMutex(c)
<1>1. CASE HandleFetch(c) \/ HandleAdvert(c) \/ HandlePost(c)
  BY <1>1 DEF TypeOK, HandleFetch, HandleAdvert, HandlePost, Handle
<1>2. CASE EndRequest(c)
  BY <1>2, EndOthersKeep DEF EndRequest, Leave, Quiescent
<1>3. CASE Advertise(c)
  BY <1>3 DEF TypeOK, Advertise, Goto, Leave, Quiescent
<1>4. CASE LockRepo(c) \/ SyncRepo(c)
  BY <1>4
  DEF LockRepo, SyncRepo, GetVersion, SyncPacks, LoadPack, ListRefs, SyncWipe,
      SyncPackedRefs, SyncHead, SyncRecord, Quiescent
<1>5. CASE ReceivePack(c) \/ Hook(c)
  BY <1>2, <1>5
  DEF ReceivePack, Hook, HookListPacks, HookPutPack, HookPutIdx, CasRefs,
      CasRejected, MaybeInitHEAD, BumpGet, BumpPut, Quiescent
<1> QED
  BY <1>1, <1>2, <1>3, <1>4, <1>5
  DEF Step, Request, ServeFetch, ReceiveRefused, Promote, Fault, Fail, TearIdx,
      TearRefs, TearPackedRefs, TearHead, TearVersion, HandlerGone, Abort

LEMMA MuxHeldStep ==
  ASSUME TypeOK, MuxHeld, NEW c \in Clients, Step(c), OrphanAt = {}
  PROVE  MuxHeld'
<1>1. \A d \in Clients \ {c} : pc'[d] = pc[d] /\ srv'[d] = srv[d]
  BY StepOthersKeep, StepOthersStay DEF OthersKeep, OthersStay
<1>2. \A d \in Clients : d # NoOwner /\ (pc[d] \notin Quiescent => srv[d] \in Servers)
  BY ServeAssumption DEF TypeOK
<1>3. CASE UNCHANGED <<mux, srv>> /\ pc[c] \notin Quiescent
  BY <1>1, <1>3 DEF MuxHeld
<1>4. ASSUME NEW s \in Servers, mux[s] = NoOwner, srv'[c] = s,
             mux' = [mux EXCEPT ![s] = c]
      PROVE  MuxHeld'
  BY <1>1, <1>2, <1>4 DEF MuxHeld, TypeOK
<1>5. CASE pc'[c] \in Quiescent /\ ReleaseMutex(c)
  BY <1>1, <1>2, <1>5 DEF MuxHeld, ReleaseMutex
<1> QED
  BY <1>3, <1>4, <1>5, StepMux

-----------------------------------------------------------------------------
(* What a step does to what all see.                                       *)

World == <<refs, head, version, owed>>

\* A ref moves, HEAD is chosen or the version is raised, by the one pusher
\* that has the lock, or nothing of this happens.
LEMMA StepWorld ==
  ASSUME FreshInv, NEW c \in Clients, Step(c)
  PROVE  \/ UNCHANGED World
         \/ /\ CasRefs(c) /\ pc[c] = "cas" /\ owed' /\ version' = version
            /\ head' = head /\ quiet' = [d \in Clients |-> FALSE]
         \/ /\ MaybeInitHEAD(c) /\ owed /\ owed' /\ version' = version
            /\ refs' = refs
         \/ /\ BumpPut(c) /\ owed /\ ~owed' /\ version' = version + 1
            /\ UNCHANGED <<refs, head, quiet>>
<1>1. CASE CasRefs(c)
  BY <1>1 DEF CasRefs
<1>2. CASE MaybeInitHEAD(c)
  BY <1>2 DEF MaybeInitHEAD, FreshInv, VersionInv, Versions, Announcing
<1>3. CASE BumpPut(c)
  BY <1>3
  DEF BumpPut, PutVersion, FreshInv, VersionInv, Versions, Announcing
<1>4. CASE HandleFetch(c) \/ HandleAdvert(c) \/ HandlePost(c) \/ Fault(c)
  BY <1>4
  DEF HandleFetch, HandleAdvert, HandlePost, Handle, Fault, Fail, TearIdx,
      TearRefs, TearPackedRefs, TearHead, TearVersion, HandlerGone, Abort,
      EndRequest, Leave, World
<1>5. CASE LockRepo(c) \/ SyncRepo(c)
  BY <1>5
  DEF LockRepo, SyncRepo, GetVersion, SyncPacks, LoadPack, ListRefs, SyncWipe,
      SyncPackedRefs, SyncHead, SyncRecord, World
<1>6. CASE ServeFetch(c) \/ Advertise(c) \/ ReceivePack(c)
             \/ ReceiveRefused(c) \/ Promote(c)
  BY <1>6
  DEF ServeFetch, Advertise, ReceivePack, ReceiveRefused, Promote, EndRequest,
      Leave, World
<1>7. CASE Hook(c)
  BY <1>1, <1>2, <1>3, <1>7
  DEF Hook, HookListPacks, HookPutPack, HookPutIdx, CasRejected, BumpGet,
      EndRequest, Leave, World
<1> QED
  BY <1>4, <1>5, <1>6, <1>7 DEF Step, Request

\* Nor does the version go down.
LEMMA VersionGrows ==
  ASSUME FreshInv, NEW c \in Clients, Step(c) PROVE version <= version'
  BY StepWorld DEF World, FreshInv, TypeOK, EtcdTypeOK

\* A client with a request sees nothing of another's step but what all see.
LEMMA OthersFrame ==
  ASSUME FreshInv, NEW c \in Clients, Step(c),
         NEW d \in Clients \ {c}, pc[d] \notin Quiescent
  PROVE  /\ pc'[d] = pc[d] /\ srv'[d] = srv[d] /\ seen'[d] = seen[d]
         /\ todo'[d] = todo[d]
         /\ snap'[d] = snap[d] /\ snapHead'[d] = snapHead[d]
         /\ adv'[d] = adv[d] /\ want'[d] = want[d]
         /\ quiet'[d] => quiet[d]
         /\ srv[d] \in Servers /\ SameCache(srv[d])
<1>1. srv[d] \in Servers
  BY DEF FreshInv, TypeOK
<1>2. srv[d] # srv[c] \/ pc[c] \in Quiescent
  BY DEF FreshInv, MuxHeld
<1>3. SameCache(srv[d])
  BY <1>1, <1>2, StepCaches DEF FreshInv, Quiescent, SyncSteps
<1> QED
  BY <1>1, <1>3, StepOthersKeep, StepOthersStay
  DEF FreshInv, OthersKeep, OthersStay

\* The lock lets one hook run at a time.
LEMMA Alone ==
  ASSUME FreshInv, NEW c \in Clients, NEW d \in Clients,
         pc[c] \in Backend, pc[d] \in Backend
  PROVE  c = d
<1>1. c \in Pushers /\ d \in Pushers
  BY PusherSteps DEF FreshInv
<1> QED
  BY <1>1 DEF FreshInv, LockHeld, Backend, HookSteps, Quiescent

\* What FreshInv says of a client holds after every step of another.
LEMMA OthersFresh ==
  ASSUME FreshInv, NEW c \in Clients, Step(c), NEW d \in Clients \ {c}
  PROVE  Versions(d)' /\ RefsSynced(d)' /\ Quiet(d)' /\ Landed(d)'
<1>1. pc'[d] = pc[d] /\ (quiet'[d] => quiet[d])
  BY StepOthersKeep, StepOthersStay DEF FreshInv, OthersKeep, OthersStay
<1>2. Versions(d) /\ RefsSynced(d) /\ Quiet(d) /\ Landed(d)
  BY DEF FreshInv, VersionInv
<1>3. Announced /\ quiet'[d] => ~owed /\ UNCHANGED World
  BY <1>1, <1>2, StepWorld DEF Quiet
<1>4. CASE pc[d] \in Quiescent
  BY <1>1, <1>2, <1>3, <1>4
  DEF Versions, RefsSynced, Quiet, Landed, Quiescent, Syncing, Announcing,
      Synced, World
<1>5. CASE pc[d] \notin Quiescent
  <2>1. /\ srv'[d] = srv[d] /\ seen'[d] = seen[d] /\ snap'[d] = snap[d]
        /\ snapHead'[d] = snapHead[d] /\ adv'[d] = adv[d] /\ want'[d] = want[d]
        /\ SameCache(srv[d])
    BY <1>5, OthersFrame
  <2>2. /\ version \in Nat /\ seen[d] \in Nat /\ srv[d] \in Servers
        /\ versionFile[srv[d]] \in Nat
    BY <1>5 DEF FreshInv, TypeOK, EtcdTypeOK, CacheTypeOK
  <2>3. Versions(d)'
    <3>1. CASE UNCHANGED World
      BY <1>1, <1>2, <2>1, <3>1 DEF World, Versions, SameCache
    <3>2. CASE CasRefs(c) /\ owed' /\ version' = version
      BY <1>1, <1>2, <2>1, <3>2 DEF Versions, SameCache
    <3>3. CASE MaybeInitHEAD(c) /\ owed' /\ version' = version
      BY <1>1, <1>2, <2>1, <3>3 DEF Versions, SameCache
    <3>4. CASE BumpPut(c) /\ version' = version + 1
      <4>1. pc[d] \notin Announcing
        BY <3>4, Alone DEF BumpPut, Announcing, Backend, HookSteps
      <4> QED
        BY <1>1, <1>2, <2>1, <2>2, <3>4, <4>1
        DEF Versions, SameCache, Announcing
    <3> QED
      BY <3>1, <3>2, <3>3, <3>4, StepWorld
  <2>4. RefsSynced(d)'
    <3>1. CASE UNCHANGED World
      BY <1>1, <1>2, <2>1, <3>1 DEF World, RefsSynced, OnTime, SameCache
    <3>2. CASE owed'
      BY <3>2 DEF RefsSynced, OnTime
    <3>3. CASE version' = version + 1
      <4>1. pc[d] \in Syncing => seen[d] # version'
        BY <1>2, <2>2, <3>3 DEF Versions
      <4> QED
        BY <1>1, <2>1, <4>1 DEF RefsSynced, OnTime, Syncing
    <3> QED
      BY <3>1, <3>2, <3>3, StepWorld
  <2>5. Quiet(d)'
    BY <1>1, <1>2, <1>3, <2>1 DEF Quiet, World, SameCache
  <2>6. Landed(d)'
    <3>1. Commands(d)' = Commands(d)
      BY <2>1 DEF Commands, Changed
    <3>2. CASE refs' = refs
      BY <1>1, <1>2, <2>1, <3>1, <3>2 DEF Landed
    <3>3. CASE CasRefs(c) /\ pc[c] = "cas"
      BY <1>1, <3>3, Alone DEF Landed, Backend, HookSteps
    <3> QED
      BY <3>2, <3>3, StepWorld DEF World
  <2> QED
    BY <2>3, <2>4, <2>5, <2>6
<1> QED
  BY <1>4, <1>5

-----------------------------------------------------------------------------
(* What a step does to the cache of its server.                            *)

\* A cache is written only while it is behind, and stays behind until the
\* sync that wrote it records what it worked towards.
LEMMA WrittenBehind ==
  ASSUME FreshInv, NEW c \in Clients, Step(c), NEW s \in Servers
  PROVE  \/ SameCache(s)
         \/ SyncRecord(c) /\ s = srv[c] /\ versionFile'[s] = seen[c]
         \/ versionFile'[s] < version
<1>1. CASE UNCHANGED cacheVars
  BY <1>1 DEF SameCache
<1>2. CASE s # srv[c]
  BY <1>2, StepCaches DEF FreshInv
<1>3. CASE s = srv[c] /\ SyncRecord(c)
  BY <1>3
  DEF SyncRecord, WriteLocalVersion, FreshInv, TypeOK, CacheTypeOK
<1>4. CASE s = srv[c] /\ pc[c] \in Syncing \cup {"promote"}
  <2>1. versionFile[s] < version /\ 0 < version
    BY <1>4
    DEF FreshInv, VersionInv, Versions, TypeOK, CacheTypeOK, EtcdTypeOK
  <2>2. CASE versionFile' = versionFile
    BY <2>1, <2>2
  <2>3. CASE TearVersion(c)
    BY <1>4, <2>1, <2>3
    DEF TearVersion, WriteLocalVersion, FreshInv, TypeOK, CacheTypeOK
  <2> QED
    BY <1>1, <1>3, <1>4, <2>2, <2>3
    DEF Step, HandleFetch, HandleAdvert, HandlePost, Handle, Request, LockRepo,
        SyncRepo, GetVersion, SyncPacks, LoadPack, ListRefs, SyncWipe,
        SyncPackedRefs, SyncHead, ServeFetch, Advertise, ReceivePack,
        ReceiveRefused, Hook, HookListPacks, HookPutPack, HookPutIdx, CasRefs,
        CasRejected, MaybeInitHEAD, BumpGet, BumpPut, Promote, Fault, Fail,
        TearIdx, TearRefs, TearPackedRefs, TearHead, HandlerGone
<1>5. CASE pc[c] \notin SyncSteps \cup {"promote"}
  BY <1>5, StepCaches DEF FreshInv
<1>6. CASE pc[c] = "getVersion"
  BY <1>1, <1>6, StepCaches
  DEF FreshInv, Step, HandleFetch, HandleAdvert, HandlePost, Handle, Request,
      LockRepo, SyncRepo, GetVersion, SyncPacks, LoadPack, ListRefs, SyncWipe,
      SyncPackedRefs, SyncHead, SyncRecord, ServeFetch, Advertise, ReceivePack,
      ReceiveRefused, Hook, HookListPacks, HookPutPack, HookPutIdx, CasRefs,
      CasRejected, MaybeInitHEAD, BumpGet, BumpPut, Promote, Fault, Fail,
      TearIdx, TearRefs, TearPackedRefs, TearHead, TearVersion, HandlerGone
<1> QED
  BY <1>2, <1>3, <1>4, <1>5, <1>6 DEF SyncSteps, Syncing

LEMMA VersionFileStep ==
  ASSUME FreshInv, NEW c \in Clients, Step(c), NEW s \in Servers
  PROVE  versionFile'[s] <= version'
<1>1. versionFile'[s] <= version
  <2>1. CASE SameCache(s)
    BY <2>1 DEF SameCache, FreshInv, VersionInv
  <2>2. CASE SyncRecord(c) /\ versionFile'[s] = seen[c]
    BY <2>2 DEF SyncRecord, FreshInv, VersionInv, Versions, Syncing
  <2>3. TypeOK'
    BY TypeStep DEF FreshInv, Next, Step
  <2>4. versionFile'[s] \in Nat /\ version \in Nat
    BY <2>3 DEF TypeOK, CacheTypeOK, FreshInv, EtcdTypeOK
  <2> QED
    BY <2>1, <2>2, <2>4, WrittenBehind
<1>2. TypeOK'
  BY TypeStep DEF FreshInv, Next, Step
<1>3. versionFile'[s] \in Nat /\ version \in Nat /\ version' \in Nat
  BY <1>2 DEF TypeOK, CacheTypeOK, FreshInv, EtcdTypeOK
<1> QED
  BY <1>1, <1>3, VersionGrows

LEMMA SameCurrent ==
  ASSUME NEW s \in Servers, Current(s), SameCache(s), UNCHANGED <<refs, head>>
  PROVE  Current(s)'
  BY DEF Current, Eff, SameCache

\* What the last file of a sync leaves behind, if no push overtook the sync.
LEMMA RecordedCurrent ==
  ASSUME FreshInv, NEW c \in Clients, SyncRecord(c), OnTime(c),
         NEW s, s = srv[c]
  PROVE  Current(s)'
<1>1. /\ pc[c] = "record" /\ refs \in RefMap
      /\ UNCHANGED <<refs, head, looseRefs, packedRefs, headFile>>
  BY DEF SyncRecord, FreshInv, TypeOK, EtcdTypeOK
<1>2. /\ looseRefs[s] = NoRefs /\ packedRefs[s] = refs
      /\ head # NoRef => headFile[s] = head
  BY <1>1 DEF FreshInv, RefsSynced
<1>3. [r \in Refs |-> IF NoRefs[r] # NoSha THEN NoRefs[r] ELSE refs[r]] = refs
  BY <1>1 DEF NoRefs, RefMap
<1>4. Eff(s)' = refs
  BY <1>1, <1>2, <1>3 DEF Eff
<1> QED
  BY <1>1, <1>2, <1>4 DEF Current

LEMMA CurrentStep ==
  ASSUME FreshInv, NEW c \in Clients, Step(c)
  PROVE  CurrentInv'
<1> SUFFICES ASSUME ~owed', NEW s \in Servers, versionFile'[s] = version'
             PROVE  Current(s)'
  BY DEF CurrentInv, Current, Eff
<1>1. version \in Nat /\ versionFile[s] \in Nat
  BY DEF FreshInv, TypeOK, EtcdTypeOK, CacheTypeOK
<1>2. CASE UNCHANGED World
  <2>1. CASE SameCache(s)
    <3>1. Current(s)
      BY <1>2, <2>1 DEF World, SameCache, FreshInv, CurrentInv
    <3> QED
      BY <1>2, <2>1, <3>1, SameCurrent DEF World
  <2>2. CASE SyncRecord(c) /\ s = srv[c] /\ versionFile'[s] = seen[c]
    BY <1>2, <2>2, RecordedCurrent DEF OnTime, World
  <2>3. CASE versionFile'[s] < version
    BY <1>1, <1>2, <2>3 DEF World
  <2> QED
    BY <2>1, <2>2, <2>3, WrittenBehind
<1>3. CASE BumpPut(c) /\ version' = version + 1
  <2>1. versionFile'[s] = versionFile[s]
    BY <1>3 DEF BumpPut
  <2>2. versionFile[s] <= version
    BY DEF FreshInv, VersionInv
  <2> QED
    BY <1>1, <1>3, <2>1, <2>2
<1> QED
  BY <1>2, <1>3, StepWorld

-----------------------------------------------------------------------------
(* What a step does for its own client.                                    *)

Own(c) == Versions(c) /\ RefsSynced(c) /\ Quiet(c) /\ Landed(c)

\* A request that is over, or has not begun.
LEMMA OverOwn ==
  ASSUME NEW c \in Clients, pc'[c] \in Quiescent, ~quiet'[c]
  PROVE  Own(c)'
  BY DEF Own, Versions, RefsSynced, Quiet, Landed, Quiescent, Syncing, Announcing

LEMMA EndOwn ==
  ASSUME FreshInv, NEW c \in Clients,
         \/ ServeFetch(c) \/ Advertise(c) \/ ReceiveRefused(c)
         \/ CasRejected(c) \/ Promote(c)
         \/ Fail(c) \/ TearIdx(c) \/ TearRefs(c) \/ TearPackedRefs(c)
         \/ TearHead(c) \/ TearVersion(c)
  PROVE  Own(c)'
<1>1. CASE EndRequest(c)
  BY <1>1, EndStays, OverOwn DEF FreshInv, Quiescent
<1>2. CASE Advertise(c)
  <2>1. pc'[c] = "ready" /\ ~quiet'[c]
    BY <1>2, LeaveStays DEF Advertise, Goto, FreshInv, TypeOK
  <2> QED
    BY <2>1, OverOwn DEF Quiescent
<1> QED
  BY <1>1, <1>2
  DEF ServeFetch, ReceiveRefused, CasRejected, Promote, Fail, TearIdx,
      TearRefs, TearPackedRefs, TearHead, TearVersion, Abort

LEMMA HandlerOwn ==
  ASSUME FreshInv, NEW c \in Clients,
         HandleFetch(c) \/ HandleAdvert(c) \/ HandlePost(c) \/ LockRepo(c)
  PROVE  Own(c)'
<1>1. PICK step \in {"getVersion", "lock"} : Goto(c, step)
  BY DEF HandleFetch, HandleAdvert, HandlePost, LockRepo, Handle
<1>2. pc'[c] \in {"getVersion", "lock"}
  BY <1>1 DEF Goto, FreshInv, TypeOK
<1>3. Announced /\ quiet'[c] => ~owed'
  <2>1. owed' = owed /\ quiet'[c] = Undisturbed
    BY DEF HandleFetch, HandleAdvert, HandlePost, LockRepo, Handle, FreshInv, TypeOK
  <2> QED
    BY <2>1 DEF FreshInv, OwedInv, Undisturbed
<1> QED
  BY <1>2, <1>3
  DEF Own, Versions, RefsSynced, Quiet, Landed, Syncing, Announcing, Synced

LEMMA GetVersionOwn ==
  ASSUME FreshInv, NEW c \in Clients, GetVersion(c) PROVE Own(c)'
<1>1. /\ srv[c] \in Servers /\ version \in Nat /\ versionFile[srv[c]] \in Nat
      /\ versionFile[srv[c]] <= version
  BY DEF GetVersion, FreshInv, VersionInv, TypeOK, Quiescent, EtcdTypeOK,
         CacheTypeOK
<1>2. UNCHANGED <<srv, version, versionFile, owed, quiet>>
  BY DEF GetVersion
<1>3. Quiet(c)
  BY DEF FreshInv
<1>4. CASE versionFile[srv[c]] = version
  <2>1. pc'[c] = Dispatch(c)
    BY <1>4 DEF GetVersion, Goto, FreshInv, TypeOK
  <2>2. pc'[c] \in {"serve", "advert", "receive"}
    BY <2>1, DispatchType
  <2> QED
    BY <1>2, <1>3, <1>4, <2>2
    DEF Own, Versions, RefsSynced, Quiet, Landed, Syncing, Announcing
<1>5. CASE versionFile[srv[c]] # version
  <2>1. pc'[c] = "listPacks" /\ seen'[c] = version
    BY <1>5 DEF GetVersion, Goto, FreshInv, TypeOK
  <2> QED
    BY <1>1, <1>2, <1>3, <1>5, <2>1
    DEF Own, Versions, RefsSynced, Quiet, Landed, Announcing, Synced
<1> QED
  BY <1>4, <1>5

\* The steps of a sync between its first and its last.
LEMMA SyncOwn ==
  ASSUME FreshInv, NEW c \in Clients,
         \/ SyncPacks(c) \/ LoadPack(c) \/ ListRefs(c)
         \/ SyncWipe(c) \/ SyncPackedRefs(c) \/ SyncHead(c)
  PROVE  Own(c)'
<1>1. /\ pc[c] \in Syncing /\ pc'[c] \in Syncing /\ srv[c] \in Servers
      /\ UNCHANGED <<srv, seen, version, versionFile, owed, quiet, refs, head>>
  BY DEF SyncPacks, LoadPack, ListRefs, SyncWipe, SyncPackedRefs, SyncHead, Goto,
         AfterDownload, Syncing, FreshInv, TypeOK, Quiescent
<1>2. Versions(c) /\ RefsSynced(c) /\ Quiet(c)
  BY DEF FreshInv, VersionInv
<1>3. Versions(c)' /\ Quiet(c)' /\ Landed(c)'
  BY <1>1, <1>2
  DEF Versions, Quiet, Landed, Syncing, Announcing, Synced
<1>4. RefsSynced(c)'
  <2>1. CASE SyncPacks(c) \/ LoadPack(c)
    BY <2>1
    DEF SyncPacks, LoadPack, Goto, AfterDownload, RefsSynced, FreshInv, TypeOK
  <2>2. CASE ListRefs(c)
    BY <2>2 DEF ListRefs, Goto, RefsSynced, FreshInv, TypeOK
  <2>3. CASE SyncWipe(c)
    BY <1>1, <1>2, <2>3
    DEF SyncWipe, WipeLooseRefs, Goto, RefsSynced, OnTime, FreshInv, TypeOK,
        CacheTypeOK
  <2>4. CASE SyncPackedRefs(c)
    BY <1>1, <1>2, <2>4
    DEF SyncPackedRefs, WritePackedRefs, Goto, RefsSynced, OnTime, FreshInv,
        TypeOK, CacheTypeOK
  <2>5. CASE SyncHead(c)
    BY <1>1, <1>2, <2>5
    DEF SyncHead, WriteHead, Goto, RefsSynced, OnTime, FreshInv, TypeOK,
        CacheTypeOK
  <2> QED
    BY <2>1, <2>2, <2>3, <2>4, <2>5
<1> QED
  BY <1>3, <1>4 DEF Own

LEMMA RecordOwn ==
  ASSUME FreshInv, NEW c \in Clients, SyncRecord(c) PROVE Own(c)'
<1>1. /\ pc[c] = "record" /\ srv[c] \in Servers
      /\ versionFile'[srv[c]] = seen[c]
      /\ UNCHANGED <<srv, version, owed, quiet>>
  BY DEF SyncRecord, WriteLocalVersion, FreshInv, TypeOK, CacheTypeOK, Quiescent
<1>2. pc'[c] = Dispatch(c)
  BY DEF SyncRecord, Goto, FreshInv, TypeOK
<1>3. pc'[c] \in {"serve", "advert", "receive"}
  BY <1>2, DispatchType
<1>4. Quiet(c)
  BY DEF FreshInv
<1> QED
  BY <1>1, <1>3, <1>4
  DEF Own, Versions, RefsSynced, Quiet, Landed, Syncing, Announcing

\* From the answer of SyncRepo to the CAS nothing is written but the bucket.
LEMMA UploadOwn ==
  ASSUME FreshInv, NEW c \in Clients,
         ReceivePack(c) \/ HookListPacks(c) \/ HookPutPack(c) \/ HookPutIdx(c)
  PROVE  Own(c)'
<1>1. /\ pc[c] \in Synced /\ pc'[c] \in Synced
      /\ UNCHANGED <<srv, version, versionFile, owed, quiet>>
  BY DEF ReceivePack, HookListPacks, HookPutPack, HookPutIdx, AfterUpload, Goto,
         Synced, FreshInv, TypeOK
<1>2. Quiet(c)
  BY DEF FreshInv
<1> QED
  BY <1>1, <1>2
  DEF Own, Versions, RefsSynced, Quiet, Landed, Syncing, Announcing, Synced

LEMMA CasOwn == ASSUME FreshInv, NEW c \in Clients, CasRefs(c) PROVE Own(c)'
<1>1. pc'[c] = "initHead" /\ owed' /\ ~quiet'[c]
  BY DEF CasRefs, Goto, FreshInv, TypeOK
<1>2. Commands(c)' = Commands(c)
  BY DEF CasRefs, Commands, Changed
<1>3. \A r \in Commands(c) : refs'[r] = want'[c][r]
  BY DEF CasRefs, UpdateRefsCAS, Puts, Commands, Changed
<1> QED
  BY <1>1, <1>2, <1>3
  DEF Own, Versions, RefsSynced, OnTime, Quiet, Landed, Syncing

LEMMA AnnounceOwn ==
  ASSUME FreshInv, NEW c \in Clients,
         MaybeInitHEAD(c) \/ BumpGet(c) \/ BumpPut(c)
  PROVE  Own(c)'
<1>1. srv[c] \in Servers /\ Versions(c) /\ Quiet(c)
  BY DEF MaybeInitHEAD, BumpGet, BumpPut, Quiescent, FreshInv, VersionInv, TypeOK
<1>2. CASE MaybeInitHEAD(c) \/ BumpGet(c)
  <2>1. /\ pc[c] \in Announcing /\ pc'[c] \in {"bumpGet", "bumpPut"}
        /\ pc'[c] = "bumpPut" => seen'[c] = version
        /\ UNCHANGED <<version, owed, quiet>>
    BY <1>2 DEF MaybeInitHEAD, BumpGet, Goto, Announcing, FreshInv, TypeOK
  <2> QED
    BY <1>1, <2>1
    DEF Own, Versions, RefsSynced, OnTime, Quiet, Landed, Syncing, Announcing,
        Synced
<1>3. CASE BumpPut(c)
  <2>1. /\ pc[c] = "bumpPut" /\ pc'[c] = "promote" /\ version' = seen[c] + 1
        /\ UNCHANGED <<srv, versionFile, quiet>>
    BY <1>3 DEF BumpPut, PutVersion, Goto, FreshInv, TypeOK
  <2>2. /\ version \in Nat /\ versionFile[srv[c]] \in Nat
        /\ versionFile[srv[c]] <= version
    BY <1>1 DEF FreshInv, VersionInv, TypeOK, EtcdTypeOK, CacheTypeOK
  <2> QED
    BY <1>1, <2>1, <2>2
    DEF Own, Versions, RefsSynced, Quiet, Landed, Syncing, Announcing, Synced
<1> QED
  BY <1>2, <1>3

-----------------------------------------------------------------------------

\* What a CAS owes, its hook still has to announce.
LEMMA OwedStep ==
  ASSUME FreshInv, Announced, OrphanAt = {}, NEW c \in Clients, Step(c), owed'
  PROVE  \E d \in Pushers : pc'[d] \in Announcing
<1>1. CASE UNCHANGED World
  <2>1. PICK d \in Pushers : pc[d] \in Announcing
    BY <1>1 DEF World, FreshInv, OwedInv
  <2>2. CASE d # c
    BY <2>1, <2>2, StepOthersKeep DEF FreshInv, OthersKeep, Clients
  <2>3. CASE d = c
    <3>1. BumpGet(c) \/ MaybeInitHEAD(c) \/ BumpPut(c)
      BY <2>1, <2>3
      DEF Announced, Announcing, Step, HandleFetch, HandleAdvert, HandlePost, Request,
          LockRepo, SyncRepo, GetVersion, SyncPacks, LoadPack, ListRefs,
          SyncWipe, SyncPackedRefs, SyncHead, SyncRecord, ServeFetch,
          Advertise, ReceivePack, ReceiveRefused, Hook, HookListPacks,
          HookPutPack, HookPutIdx, CasRefs, CasRejected, Promote, Fault, Fail,
          TearIdx, TearRefs, TearPackedRefs, TearHead, TearVersion,
          HandlerGone, Quiescent
    <3>2. ~BumpPut(c)
      BY DEF BumpPut
    <3>3. pc'[c] \in Announcing
      BY <3>1, <3>2
      DEF BumpGet, MaybeInitHEAD, Goto, Announcing, FreshInv, TypeOK
    <3> QED
      BY <2>3, <3>3
  <2> QED
    BY <2>2, <2>3
<1>2. CASE CasRefs(c) \/ MaybeInitHEAD(c)
  <2>1. c \in Pushers
    BY <1>2, PusherSteps
    DEF CasRefs, MaybeInitHEAD, Backend, HookSteps, FreshInv
  <2>2. pc'[c] \in Announcing
    BY <1>2 DEF CasRefs, MaybeInitHEAD, Goto, Announcing, FreshInv, TypeOK
  <2> QED
    BY <2>1, <2>2
<1> QED
  BY <1>1, <1>2, StepWorld

LEMMA FreshInit == Init => FreshInv
<1> SUFFICES ASSUME Init PROVE FreshInv
  OBVIOUS
<1>1. TypeOK /\ LockHeld
  BY BackedInit DEF BackedInv
<1>2. \A c \in Clients : pc[c] = "idle" /\ ~quiet[c]
  BY DEF Init
<1>3. MuxHeld
  BY <1>2 DEF MuxHeld, Quiescent
<1>4. \A c \in Clients : Own(c)
  BY <1>2
  DEF Own, Versions, RefsSynced, Quiet, Landed, Syncing, Announcing
<1>5. VersionInv
  BY <1>4 DEF Own, VersionInv, Init, CacheInit, EtcdInit
<1>6. CurrentInv
  <2>1. [r \in Refs |-> IF NoRefs[r] # NoSha THEN NoRefs[r] ELSE NoRefs[r]]
          = NoRefs
    BY DEF NoRefs
  <2>2. /\ refs = NoRefs /\ head = NoRef
        /\ \A s \in Servers : looseRefs[s] = NoRefs /\ packedRefs[s] = NoRefs
    BY DEF Init, CacheInit, EtcdInit
  <2> QED
    BY <2>1, <2>2 DEF CurrentInv, Current, Eff
<1>7. OwedInv
  BY DEF Init, OwedInv
<1> QED
  BY <1>1, <1>3, <1>4, <1>5, <1>6, <1>7 DEF Own, FreshInv

LEMMA FreshInvStep ==
  ASSUME FreshInv, [Next]_vars, OrphanAt = {}, ~Overlap
  PROVE  FreshInv'
<1>1. TypeOK' /\ LockHeld'
  BY TypeStep, LockHeldStep DEF FreshInv
<1>2. ASSUME NEW c \in Clients, Step(c) PROVE FreshInv'
  <2>1. ~HandlerGone(c)
    BY DEF HandlerGone
  <2>2. Own(c)'
    BY <1>2, <2>1, EndOwn, HandlerOwn, GetVersionOwn, SyncOwn, RecordOwn,
       UploadOwn, CasOwn, AnnounceOwn
    DEF Step, Request, SyncRepo, Hook, Fault
  <2>3. \A d \in Clients : Own(d)'
    BY <1>2, <2>2, OthersFresh DEF Own
  <2>4. MuxHeld'
    BY <1>2, MuxHeldStep DEF FreshInv
  <2>5. VersionInv'
    BY <1>2, <2>3, VersionFileStep DEF VersionInv, Own
  <2>6. CurrentInv'
    BY <1>2, CurrentStep
  <2>7. OwedInv'
    BY <1>2, OwedStep DEF OwedInv, Announced
  <2> QED
    BY <1>1, <2>3, <2>4, <2>5, <2>6, <2>7 DEF FreshInv, Own
<1>3. CASE LeaseExpire \/ UNCHANGED vars
  <2>1. /\ UNCHANGED <<refs, head, version, cacheVars, pc, srv, mux, seen, snap>>
        /\ UNCHANGED <<snapHead, adv, want, owed, quiet>>
    BY <1>3 DEF LeaseExpire, vars
  <2>2. MuxHeld' /\ VersionInv' /\ CurrentInv' /\ OwedInv'
    BY <2>1
    DEF FreshInv, MuxHeld, VersionInv, Versions, CurrentInv, Current, Eff,
        OwedInv, Announced
  <2>3. \A d \in Clients : RefsSynced(d)' /\ Quiet(d)' /\ Landed(d)'
    BY <2>1
    DEF FreshInv, RefsSynced, OnTime, Quiet, Landed, Commands, Changed, Announced
  <2> QED
    BY <1>1, <2>2, <2>3 DEF FreshInv
<1> QED
  BY <1>2, <1>3, NextSteps

LEMMA FreshInvHolds ==
  ASSUME OrphanAt = {}, ~Overlap PROVE Spec => []FreshInv
<1>1. FreshInv /\ [Next]_vars => FreshInv'
  BY FreshInvStep
<1> QED
  BY <1>1, FreshInit, PTL DEF Spec

-----------------------------------------------------------------------------
(* The theorems.                                                           *)

\* BumpVersion's read and write are two calls, but the lock keeps the pushes
\* apart: every bump raises the version.
THEOREM BumpsCount ==
  ASSUME OrphanAt = {}, ~Overlap
  PROVE  Spec => EveryBumpCounts
<1>1. ASSUME FreshInv, [Next]_vars, NEW c \in Pushers,
             pc[c] = "bumpPut", pc'[c] = "promote"
      PROVE  version' > version
  <2>1. c \in Clients /\ pc'[c] # pc[c] /\ version \in Nat
    BY <1>1 DEF Clients, FreshInv, TypeOK, EtcdTypeOK
  <2>2. Step(c)
    BY <1>1, <2>1, NextSteps, StepOthersKeep
    DEF OthersKeep, LeaseExpire, vars, FreshInv
  <2>3. ~EndRequest(c)
    BY <1>1, <2>1, EndOthersKeep DEF FreshInv
  <2>4. BumpPut(c)
    BY <1>1, <2>2, <2>3
    DEF Step, HandleFetch, HandleAdvert, HandlePost, Request, LockRepo,
        SyncRepo, GetVersion, SyncPacks, LoadPack, ListRefs, SyncWipe,
        SyncPackedRefs, SyncHead, SyncRecord, ServeFetch, Advertise,
        ReceivePack, ReceiveRefused, Hook, HookListPacks, HookPutPack,
        HookPutIdx, CasRefs, CasRejected, MaybeInitHEAD, BumpGet, Promote,
        Fault, Fail, TearIdx, TearRefs, TearPackedRefs, TearHead, TearVersion,
        HandlerGone, Abort, Quiescent
  <2>5. version' = version + 1
    BY <1>1, <2>1, <2>4
    DEF BumpPut, PutVersion, FreshInv, VersionInv, Versions
  <2> QED
    BY <2>1, <2>5
<1>2. FreshInv /\ [Next]_vars =>
        [\A c \in Pushers : pc[c] = "bumpPut" /\ pc'[c] = "promote" =>
                              version' > version]_vars
  BY <1>1
<1> QED
  BY <1>2, FreshInvHolds, PTL DEF Spec, EveryBumpCounts

\* maybeInitHEAD runs after the transaction that moved the refs, and nobody
\* moves them again before it is done: HEAD is written once, and names a
\* branch that exists.
THEOREM HeadNamesBranch ==
  ASSUME OrphanAt = {}, ~Overlap
  PROVE  Spec => HeadExists
<1>1. ASSUME FreshInv, [Next]_vars, head' # head
      PROVE  head = NoRef /\ refs[head'] # NoSha
  <2>1. PICK c \in Clients : MaybeInitHEAD(c)
    BY <1>1, NextSteps, StepWorld DEF World, LeaseExpire, vars
  <2>2. PICK r \in Named(c) : PutHEADIfMissing(r)
    BY <1>1, <2>1 DEF MaybeInitHEAD
  <2>3. head = NoRef /\ head' = r
    BY <1>1, <2>2 DEF PutHEADIfMissing
  <2>4. refs[r] = want[c][r] /\ want[c][r] # NoSha
    BY <1>1, <2>1, <2>2 DEF FreshInv, Landed, Named, MaybeInitHEAD
  <2> QED
    BY <2>3, <2>4
<1>2. FreshInv /\ [Next]_vars =>
        [head' # head => head = NoRef /\ refs[head'] # NoSha]_vars
  BY <1>1
<1> QED
  BY <1>2, FreshInvHolds, PTL DEF Spec, HeadExists

-----------------------------------------------------------------------------
(* The packs of a cache.                                                   *)

Complete(s) == HistoryOf(refs) \subseteq UNION packDir[s]

\* How far a sync that no push has overtaken has brought the packs.
PacksSynced(c) ==
  OnTime(c) =>
    /\ pc[c] = "download" =>
         HistoryOf(refs) \subseteq UNION (packDir[srv[c]] \cup (todo[c] \cap Whole))
    /\ pc[c] \in {"listRefs", "wipe", "packed", "head", "record"} =>
         Complete(srv[c])

PacksInv ==
  /\ \A s \in Servers : tornIdx[s] = {}
  /\ \A c \in Clients : PacksSynced(c)
  /\ ~owed => \A s \in Servers : versionFile[s] = version => Complete(s)

ServedInv == BackedInv /\ FreshInv /\ PacksInv

LEMMA PacksGrow ==
  ASSUME ServedInv, NEW c \in Clients, Step(c), NEW s \in Servers
  PROVE  packDir[s] \subseteq packDir'[s] /\ Whole \subseteq Whole'
<1>1. Whole \subseteq Whole'
  BY ServeStoreStep, StoredGrows DEF StoreStep
<1>2. packDir[s] \subseteq packDir'[s]
  <2>1. CASE LoadPack(c) \/ TearIdx(c)
    <3>1. PICK p : StorePack(srv[c], p) \/ packDir' = packDir
      BY <2>1 DEF LoadPack, TearIdx
    <3> QED
      BY <3>1 DEF StorePack, ServedInv, FreshInv, TypeOK, CacheTypeOK
  <2>2. CASE Promote(c)
    BY <2>2 DEF Promote, ServedInv, FreshInv, TypeOK, CacheTypeOK
  <2>3. CASE packDir' = packDir
    BY <2>3
  <2> QED
    BY <2>1, <2>2, <2>3
    DEF Step, HandleFetch, HandleAdvert, HandlePost, Handle, Request, LockRepo,
        SyncRepo, GetVersion, SyncPacks, ListRefs, SyncWipe, SyncPackedRefs,
        SyncHead, SyncRecord, ServeFetch, Advertise, ReceivePack,
        ReceiveRefused, Hook, HookListPacks, HookPutPack, HookPutIdx, CasRefs,
        CasRejected, MaybeInitHEAD, BumpGet, BumpPut, Fault, Fail, TearRefs,
        TearPackedRefs, TearHead, TearVersion, HandlerGone
<1> QED
  BY <1>1, <1>2

LEMMA NothingTorn ==
  ASSUME PacksInv, NEW c \in Clients, Step(c), "idx" \notin TornFiles
  PROVE  tornIdx' = tornIdx
  BY
  DEF Step, HandleFetch, HandleAdvert, HandlePost, Handle, Request, LockRepo,
      SyncRepo, GetVersion, SyncPacks, LoadPack, ListRefs, SyncWipe,
      SyncPackedRefs, SyncHead, SyncRecord, ServeFetch, Advertise, ReceivePack,
      ReceiveRefused, Hook, HookListPacks, HookPutPack, HookPutIdx, CasRefs,
      CasRejected, MaybeInitHEAD, BumpGet, BumpPut, Promote, Fault, Fail,
      TearIdx, TearRefs, TearPackedRefs, TearHead, TearVersion, HandlerGone

\* A sync that is on time after a step of another was so before it.
LEMMA OthersPacks ==
  ASSUME ServedInv, NEW c \in Clients, Step(c), NEW d \in Clients \ {c}
  PROVE  PacksSynced(d)'
<1> SUFFICES ASSUME OnTime(d)', pc'[d] \in Syncing PROVE PacksSynced(d)'
  BY DEF PacksSynced, Syncing
<1>1. pc[d] \in Syncing /\ pc[d] \notin Quiescent
  BY StepOthersKeep DEF ServedInv, FreshInv, OthersKeep, Syncing, Quiescent
<1>2. /\ pc'[d] = pc[d] /\ srv'[d] = srv[d] /\ seen'[d] = seen[d]
      /\ todo'[d] = todo[d] /\ packDir'[srv[d]] = packDir[srv[d]]
      /\ srv[d] \in Servers
  BY <1>1, OthersFrame DEF ServedInv, SameCache
<1>3. UNCHANGED World
  <2>1. version' # version + 1
    BY <1>1, <1>2
    DEF OnTime, ServedInv, FreshInv, VersionInv, Versions, TypeOK, EtcdTypeOK
  <2> QED
    BY <2>1, StepWorld DEF OnTime, ServedInv
<1>4. PacksSynced(d) /\ OnTime(d)
  BY <1>2, <1>3 DEF ServedInv, PacksInv, OnTime, World
<1>5. HistoryOf(refs)' = HistoryOf(refs)
  BY <1>3 DEF HistoryOf, World
<1>6. Whole \subseteq Whole'
  BY <1>2, PacksGrow
<1>7. UNION (packDir[srv[d]] \cup (todo[d] \cap Whole))
        \subseteq UNION (packDir[srv[d]] \cup (todo[d] \cap Whole'))
  BY <1>6
<1> QED
  BY <1>2, <1>4, <1>5, <1>7 DEF PacksSynced, Complete

LEMMA OwnPacks ==
  ASSUME ServedInv, NEW c \in Clients, Step(c) PROVE PacksSynced(c)'
<1>1. CASE pc'[c] \notin Syncing \/ pc'[c] = "listPacks"
  BY <1>1 DEF PacksSynced, Syncing
<1>2. CASE SyncPacks(c)
  <2> DEFINE missing == ListPacks \ packDir[srv[c]]
  <2>1. /\ pc'[c] = AfterDownload(missing) /\ todo'[c] = missing
        /\ UNCHANGED <<srv, packDir, packKeys, idxKeys, refs>>
    BY <1>2 DEF SyncPacks, Goto, ServedInv, FreshInv, TypeOK
  <2>2. Whole \subseteq packDir[srv[c]] \cup (missing \cap Whole)
    BY DEF Whole, ListPacks
  <2>3. HistoryOf(refs) \subseteq UNION Whole
    BY DEF ServedInv, BackedInv, RefsBacked, Stored
  <2>4. Whole' = Whole /\ HistoryOf(refs)' = HistoryOf(refs)
    BY <2>1 DEF Whole, HistoryOf
  <2>5. HistoryOf(refs) \subseteq UNION (packDir[srv[c]] \cup (missing \cap Whole))
    BY <2>2, <2>3
  <2>6. CASE missing = {}
    <3>1. UNION (packDir[srv[c]] \cup (missing \cap Whole)) = UNION packDir[srv[c]]
      BY <2>6
    <3> QED
      BY <2>1, <2>4, <2>5, <2>6, <3>1 DEF PacksSynced, AfterDownload, Complete
  <2>7. CASE missing # {}
    BY <2>1, <2>4, <2>5, <2>7 DEF PacksSynced, AfterDownload
  <2> QED
    BY <2>6, <2>7
<1>3. CASE LoadPack(c)
  <2>1. PICK p \in todo[c] :
          /\ IF p \in Whole THEN StorePack(srv[c], p) ELSE UNCHANGED packDir
          /\ todo' = [todo EXCEPT ![c] = @ \ {p}]
          /\ Goto(c, AfterDownload(todo[c] \ {p}))
    BY <1>3 DEF LoadPack
  <2>2. /\ pc[c] = "download" /\ srv[c] \in Servers
        /\ UNCHANGED <<refs, version, packKeys, idxKeys, srv, seen, owed>>
    BY <1>3 DEF LoadPack, ServedInv, FreshInv, TypeOK, Quiescent
  <2>3. /\ pc'[c] = AfterDownload(todo'[c]) /\ todo'[c] = todo[c] \ {p}
    BY <2>1 DEF Goto, ServedInv, FreshInv, TypeOK
  <2>4. packDir[srv[c]] \cup (todo[c] \cap Whole)
          \subseteq packDir'[srv[c]] \cup (todo'[c] \cap Whole)
    BY <2>1, <2>2, <2>3 DEF StorePack, ServedInv, FreshInv, TypeOK, CacheTypeOK
  <2>5. Whole' = Whole /\ HistoryOf(refs)' = HistoryOf(refs) /\ OnTime(c)' = OnTime(c)
    BY <2>2 DEF Whole, HistoryOf, OnTime
  <2>6. OnTime(c) =>
          HistoryOf(refs) \subseteq UNION (packDir'[srv[c]] \cup (todo'[c] \cap Whole))
    BY <2>2, <2>4 DEF ServedInv, PacksInv, PacksSynced
  <2>7. CASE todo'[c] = {}
    <3>1. UNION (packDir'[srv[c]] \cup (todo'[c] \cap Whole)) = UNION packDir'[srv[c]]
      BY <2>7
    <3> QED
      BY <2>2, <2>3, <2>5, <2>6, <2>7, <3>1
      DEF PacksSynced, AfterDownload, Complete
  <2>8. CASE todo'[c] # {}
    BY <2>2, <2>3, <2>5, <2>6, <2>8 DEF PacksSynced, AfterDownload
  <2> QED
    BY <2>7, <2>8
<1>4. CASE ListRefs(c) \/ SyncWipe(c) \/ SyncPackedRefs(c) \/ SyncHead(c)
  <2>1. /\ pc[c] \in {"listRefs", "wipe", "packed", "head"}
        /\ pc'[c] \in {"wipe", "packed", "head", "record"}
        /\ UNCHANGED <<refs, version, packDir, srv, seen, owed>>
    BY <1>4
    DEF ListRefs, SyncWipe, SyncPackedRefs, SyncHead, Goto, ServedInv, FreshInv,
        TypeOK
  <2>2. PacksSynced(c)
    BY DEF ServedInv, PacksInv
  <2> QED
    BY <2>1, <2>2 DEF PacksSynced, OnTime, Complete, HistoryOf
<1>5. CASE EndRequest(c)
  BY <1>1, <1>5, EndOthersKeep DEF ServedInv, FreshInv, Syncing
<1>6. CASE GetVersion(c) \/ SyncRecord(c)
  <2>1. PICK step \in {Dispatch(c), "listPacks"} : Goto(c, step)
    BY <1>6 DEF GetVersion, SyncRecord
  <2>2. pc'[c] = step
    BY <2>1 DEF Goto, ServedInv, FreshInv, TypeOK
  <2> QED
    BY <1>1, <2>1, <2>2, DispatchType DEF Syncing
<1>7. CASE Advertise(c) \/ HandleFetch(c) \/ HandleAdvert(c) \/ HandlePost(c)
           \/ LockRepo(c)
  <2>1. PICK step \in {"ready", "getVersion", "lock"} : Goto(c, step)
    BY <1>7
    DEF Advertise, HandleFetch, HandleAdvert, HandlePost, LockRepo, Handle
  <2>2. pc'[c] = step
    BY <2>1 DEF Goto, ServedInv, FreshInv, TypeOK
  <2> QED
    BY <1>1, <2>2 DEF Syncing
<1>8. CASE ReceivePack(c) \/ Hook(c)
  <2>1. CASE CasRejected(c)
    BY <1>5, <2>1 DEF CasRejected
  <2>2. PICK step \in Backend : Goto(c, step) \/ CasRejected(c)
    BY <1>8
    DEF ReceivePack, Hook, HookListPacks, HookPutPack, HookPutIdx, CasRefs,
        MaybeInitHEAD, BumpGet, BumpPut, AfterUpload, Backend, HookSteps
  <2> QED
    BY <1>1, <2>1, <2>2
    DEF Goto, ServedInv, FreshInv, TypeOK, Backend, HookSteps, Syncing
<1>9. CASE HandlerGone(c)
  BY <1>9
  DEF HandlerGone, ServedInv, PacksInv, PacksSynced, OnTime, Complete, HistoryOf,
      Whole
<1> QED
  BY <1>2, <1>3, <1>4, <1>5, <1>6, <1>7, <1>8, <1>9
  DEF Step, Request, SyncRepo, ServeFetch, ReceiveRefused, Promote, Fault,
      Fail, TearIdx, TearRefs, TearPackedRefs, TearHead, TearVersion, Abort

LEMMA CompleteStep ==
  ASSUME ServedInv, NEW c \in Clients, Step(c), ~owed',
         NEW s \in Servers, versionFile'[s] = version'
  PROVE  Complete(s)'
<1>1. version \in Nat /\ versionFile[s] \in Nat /\ versionFile[s] <= version
  BY DEF ServedInv, FreshInv, VersionInv, TypeOK, EtcdTypeOK, CacheTypeOK
<1>2. CASE UNCHANGED World
  <2>1. Complete(s)' = (HistoryOf(refs) \subseteq UNION packDir'[s])
    BY <1>2 DEF Complete, World, HistoryOf
  <2>2. Complete(s) => Complete(s)'
    BY <2>1, PacksGrow DEF Complete
  <2>3. CASE SameCache(s)
    BY <1>2, <2>2, <2>3 DEF SameCache, World, ServedInv, PacksInv
  <2>4. CASE SyncRecord(c) /\ s = srv[c] /\ versionFile'[s] = seen[c]
    <3>1. OnTime(c) /\ pc[c] = "record"
      BY <1>2, <2>4 DEF OnTime, World, SyncRecord
    <3> QED
      BY <2>2, <2>4, <3>1 DEF ServedInv, PacksInv, PacksSynced
  <2>5. CASE versionFile'[s] < version
    BY <1>1, <1>2, <2>5 DEF World
  <2> QED
    BY <2>3, <2>4, <2>5, WrittenBehind DEF ServedInv
<1>3. CASE BumpPut(c) /\ version' = version + 1
  <2>1. versionFile'[s] = versionFile[s]
    BY <1>3 DEF BumpPut
  <2> QED
    BY <1>1, <1>3, <2>1
<1> QED
  BY <1>2, <1>3, StepWorld DEF ServedInv

LEMMA ServedInit == Init => ServedInv
<1> SUFFICES ASSUME Init PROVE ServedInv
  OBVIOUS
<1>1. HistoryOf(refs) = {}
  BY NoRefsBacked DEF Init, EtcdInit
<1>2. PacksInv
  BY <1>1 DEF PacksInv, PacksSynced, Complete, Init, CacheInit
<1> QED
  BY <1>2, BackedInit, FreshInit DEF ServedInv

LEMMA ServedInvStep ==
  ASSUME ServedInv, [Next]_vars, OrphanAt = {}, ~Overlap,
         "putIdx" \notin FaultAt, "idx" \notin TornFiles
  PROVE  ServedInv'
<1>1. BackedInv' /\ FreshInv'
  BY BackedInvStep, FreshInvStep DEF ServedInv
<1>2. ASSUME NEW c \in Clients, Step(c) PROVE PacksInv'
  <2>1. \A s \in Servers : tornIdx'[s] = {}
    BY <1>2, NothingTorn DEF ServedInv, PacksInv
  <2>2. \A d \in Clients : PacksSynced(d)'
    BY <1>2, OwnPacks, OthersPacks
  <2>3. ~owed' => \A s \in Servers : versionFile'[s] = version' => Complete(s)'
    BY <1>2, CompleteStep
  <2> QED
    BY <2>1, <2>2, <2>3 DEF PacksInv
<1>3. CASE LeaseExpire \/ UNCHANGED vars
  <2>1. /\ UNCHANGED <<refs, version, s3Vars, packDir, tornIdx, versionFile>>
        /\ UNCHANGED <<pc, srv, seen, todo, owed>>
    BY <1>3 DEF LeaseExpire, vars
  <2>2. PacksInv'
    BY <2>1
    DEF ServedInv, PacksInv, PacksSynced, OnTime, Complete, HistoryOf, Whole
  <2> QED
    BY <1>1, <2>2 DEF ServedInv
<1> QED
  BY <1>1, <1>2, <1>3, NextSteps DEF ServedInv

LEMMA CurrentIsFresh ==
  ASSUME ServedInv, NEW s \in Servers, ~owed, versionFile[s] = version
  PROVE  Fresh(s)
<1>1. Current(s) /\ Complete(s) /\ tornIdx[s] = {}
  BY DEF ServedInv, FreshInv, CurrentInv, PacksInv
<1>2. LocalObjects(s) = UNION packDir[s]
  BY <1>1 DEF LocalObjects
<1> QED
  BY <1>1, <1>2 DEF Current, Complete, Fresh

\* SyncRepo may return at once: when every change of the refs has been
\* announced, a cache that recorded the current version has etcd's refs, its
\* HEAD and every object they reach.  A fault at any step and a file that was
\* left torn do not change that.  A hook that died between its CAS and its bump
\* leaves a change unannounced: until the next bump, nothing is said here.
THEOREM SkipIsSafe ==
  ASSUME OrphanAt = {}, ~Overlap, "putIdx" \notin FaultAt, "idx" \notin TornFiles
  PROVE  Spec => []SkipSafe
<1>1. ServedInv /\ [Next]_vars => ServedInv'
  BY ServedInvStep
<1>2. ServedInv => SkipSafe
  BY CurrentIsFresh DEF SkipSafe
<1> QED
  BY <1>1, <1>2, ServedInit, PTL DEF Spec

\* Where no hook dies between its CAS and its bump, a clone, fetch or
\* advertisement that no push overtakes is answered with the refs etcd has and
\* every object they reach.
THEOREM QuietAnswersFresh ==
  ASSUME OrphanAt = {}, ~Overlap, "putIdx" \notin FaultAt,
         "idx" \notin TornFiles, FaultAt \cap Announcing = {}
  PROVE  Spec => []FreshServe
<1>1. ServedInv /\ [Next]_vars => ServedInv'
  BY ServedInvStep
<1>2. ASSUME ServedInv, NEW c \in Clients, pc[c] \in {"serve", "advert"}, quiet[c]
      PROVE  Fresh(srv[c])
  <2>1. srv[c] \in Servers
    BY <1>2 DEF ServedInv, FreshInv, TypeOK, Quiescent
  <2>2. ~owed /\ versionFile[srv[c]] = version
    BY <1>2 DEF ServedInv, FreshInv, Quiet, Synced, Announced
  <2> QED
    BY <1>2, <2>1, <2>2, CurrentIsFresh
<1>3. ServedInv => FreshServe
  BY <1>2 DEF FreshServe
<1> QED
  BY <1>1, <1>3, ServedInit, PTL DEF Spec

-----------------------------------------------------------------------------
(* What git applies.                                                       *)

\* Where every change of the refs is announced, a push begins its work on a
\* cache that is current, and finds it so when its hook exits.
Started == SyncSteps \cup Synced
Applies(c) ==
  pc[c] \in Announcing \cup {"promote"} =>
    \A r \in Commands(c) : Eff(srv[c])[r] = adv[c][r]
PushInv ==
  \A c \in Pushers : (pc[c] \in Started => quiet[c]) /\ Applies(c)

\* What brings a request to the steps after the CAS.
LEMMA AfterCas ==
  ASSUME FreshInv, NEW c \in Clients, Step(c), OrphanAt = {},
         pc'[c] \in Announcing \cup {"promote"}
  PROVE  CasRefs(c) \/ MaybeInitHEAD(c) \/ BumpGet(c) \/ BumpPut(c)
<1> DEFINE Before == Quiescent \cup {"lock"} \cup SyncSteps \cup Synced
<1> SUFFICES ASSUME ~CasRefs(c), ~MaybeInitHEAD(c), ~BumpGet(c), ~BumpPut(c)
             PROVE  pc'[c] \in Before
  BY DEF Announcing, Quiescent, SyncSteps, Synced
<1>1. CASE EndRequest(c)
  BY <1>1, EndOthersKeep DEF FreshInv, Quiescent
<1>2. CASE \E step \in Before : Goto(c, step)
  BY <1>2 DEF Goto, FreshInv, TypeOK
<1>3. CASE HandleFetch(c) \/ HandleAdvert(c) \/ HandlePost(c) \/ LockRepo(c)
           \/ Advertise(c)
  <2>1. "lock" \in Before /\ "getVersion" \in Before /\ "ready" \in Before
    BY DEF SyncSteps, Quiescent
  <2> HIDE DEF Before
  <2> QED
    BY <1>2, <1>3, <2>1
    DEF HandleFetch, HandleAdvert, HandlePost, Handle, LockRepo, Advertise
<1>4. CASE GetVersion(c) \/ SyncRecord(c)
  <2>1. Dispatch(c) \in Before /\ "listPacks" \in Before
    BY DispatchType DEF SyncSteps, Synced
  <2> HIDE DEF Before
  <2> QED
    BY <1>2, <1>4, <2>1 DEF GetVersion, SyncRecord
<1>5. CASE SyncPacks(c) \/ LoadPack(c)
  <2>1. \A rest : AfterDownload(rest) \in Before
    BY DEF SyncSteps, AfterDownload
  <2> HIDE DEF Before
  <2> QED
    BY <1>2, <1>5, <2>1 DEF SyncPacks, LoadPack
<1>6. CASE ListRefs(c) \/ SyncWipe(c) \/ SyncPackedRefs(c) \/ SyncHead(c)
  <2>1. {"wipe", "packed", "head", "record"} \subseteq Before
    BY DEF SyncSteps
  <2> HIDE DEF Before
  <2> QED
    BY <1>2, <1>6, <2>1 DEF ListRefs, SyncWipe, SyncPackedRefs, SyncHead
<1>7. CASE ReceivePack(c) \/ HookListPacks(c) \/ HookPutPack(c) \/ HookPutIdx(c)
  <2>1. /\ {"hookList", "putIdx"} \subseteq Before
        /\ \A rest : AfterUpload(rest) \in Before
    BY DEF Synced, AfterUpload
  <2> HIDE DEF Before
  <2> QED
    BY <1>2, <1>7, <2>1 DEF ReceivePack, HookListPacks, HookPutPack, HookPutIdx
<1> HIDE DEF Before
<1> QED
  BY <1>1, <1>3, <1>4, <1>5, <1>6, <1>7
  DEF Step, Request, SyncRepo, ServeFetch, ReceiveRefused, Hook, CasRejected,
      Promote, Fault, Fail, TearIdx, TearRefs, TearPackedRefs, TearHead,
      TearVersion, HandlerGone, Abort

LEMMA AppliesStep ==
  ASSUME FreshInv, PushInv, Announced, OrphanAt = {}, NEW c \in Clients, Step(c),
         NEW d \in Pushers, pc'[d] \in Announcing \cup {"promote"}
  PROVE  Applies(d)'
<1>0. d \in Clients /\ pc'[d] \notin Quiescent
  BY DEF Clients, Announcing, Quiescent
<1>1. CASE d # c
  <2>1. pc'[d] = pc[d]
    BY <1>0, <1>1, StepOthersKeep DEF FreshInv, OthersKeep
  <2>2. /\ srv'[d] = srv[d] /\ SameCache(srv[d])
        /\ adv'[d] = adv[d] /\ want'[d] = want[d]
    BY <1>0, <1>1, <2>1, OthersFrame
  <2>3. Commands(d)' = Commands(d) /\ Eff(srv[d])' = Eff(srv[d])
    BY <2>2 DEF Commands, Changed, Eff, SameCache
  <2> QED
    BY <2>1, <2>2, <2>3 DEF PushInv, Applies
<1>2. CASE d = c
  <2>1. CasRefs(c) \/ MaybeInitHEAD(c) \/ BumpGet(c) \/ BumpPut(c)
    BY <1>2, AfterCas
  <2>2. UNCHANGED <<srv, adv, want, looseRefs, packedRefs>>
    BY <2>1 DEF CasRefs, MaybeInitHEAD, BumpGet, BumpPut
  <2>3. Commands(c)' = Commands(c) /\ Eff(srv[c])' = Eff(srv[c])
    BY <2>2 DEF Commands, Changed, Eff
  <2>4. \A r \in Commands(c) : Eff(srv[c])[r] = adv[c][r]
    <3>1. CASE CasRefs(c)
      <4>1. pc[c] = "cas" /\ quiet[c] /\ srv[c] \in Servers
        BY <1>2, <3>1
        DEF CasRefs, PushInv, Started, Synced, FreshInv, TypeOK, Quiescent
      <4>2. ~owed /\ versionFile[srv[c]] = version
        BY <4>1 DEF FreshInv, Quiet, Synced
      <4>3. Eff(srv[c]) = refs
        BY <4>1, <4>2 DEF FreshInv, CurrentInv, Current
      <4> QED
        BY <3>1, <4>3 DEF CasRefs, UpdateRefsCAS, Compares
    <3>2. CASE MaybeInitHEAD(c) \/ BumpGet(c) \/ BumpPut(c)
      BY <1>2, <3>2 DEF MaybeInitHEAD, BumpGet, BumpPut, PushInv, Applies, Announcing
    <3> QED
      BY <2>1, <3>1, <3>2
  <2> QED
    BY <1>2, <2>2, <2>3, <2>4 DEF Applies
<1> QED
  BY <1>1, <1>2

\* A push that starts its sync has the lock, so nobody is between the CAS and
\* the bump.
LEMMA StartedStep ==
  ASSUME FreshInv, PushInv, NEW c \in Clients, Step(c), OrphanAt = {},
         NEW d \in Pushers, pc'[d] \in Started
  PROVE  quiet'[d]
<1>0. d \in Clients /\ pc'[d] \notin Quiescent
  BY DEF Clients, Started, SyncSteps, Synced, Quiescent
<1>1. CASE d # c
  <2>1. pc'[d] = pc[d] /\ quiet[d]
    BY <1>0, <1>1, StepOthersKeep DEF FreshInv, OthersKeep, PushInv
  <2>2. ~CasRefs(c)
    <3>1. ASSUME CasRefs(c) PROVE FALSE
      <4>1. c \in Pushers /\ pc[c] = "cas"
        BY <3>1, PusherSteps DEF CasRefs, FreshInv, Backend, HookSteps
      <4> QED
        BY <1>0, <1>1, <2>1, <4>1
        DEF FreshInv, LockHeld, Started, SyncSteps, Synced, Quiescent
    <3> QED
      BY <3>1
  <2> QED
    BY <1>0, <1>1, <2>1, <2>2, StepOthersStay DEF FreshInv, OthersStay
<1>2. CASE d = c
  <2>1. CASE LockRepo(c)
    <3>1. lock = NoOwner /\ quiet'[c] = Undisturbed
      BY <2>1 DEF LockRepo, AcquireLock, FreshInv, TypeOK
    <3>2. \A p \in Pushers : pc[p] \in Announcing => lock = p
      BY DEF FreshInv, LockHeld, Announcing, Quiescent
    <3> QED
      BY <1>2, <3>1, <3>2, OwnerAssumption DEF Undisturbed
  <2>2. CASE pc[c] \in Started /\ quiet' = quiet
    BY <1>2, <2>2 DEF PushInv
  <2>3. CASE EndRequest(c)
    BY <1>0, <1>2, <2>3, EndOthersKeep DEF FreshInv, Quiescent
  <2>4. CASE HandleFetch(c) \/ HandleAdvert(c) \/ HandlePost(c) \/ Advertise(c)
    <3>1. ~HandleFetch(c)
      BY <1>2, ServeAssumption DEF HandleFetch
    <3>2. Goto(c, "lock") \/ Goto(c, "ready")
      BY <2>4, <3>1 DEF HandleAdvert, HandlePost, Handle, Advertise
    <3> QED
      BY <1>2, <3>2 DEF Goto, FreshInv, TypeOK, Started, SyncSteps, Synced
  <2>5. CASE CasRefs(c) \/ MaybeInitHEAD(c) \/ BumpGet(c) \/ BumpPut(c)
    <3>1. PICK step \in Announcing \cup {"promote"} : Goto(c, step)
      BY <2>5 DEF CasRefs, MaybeInitHEAD, BumpGet, BumpPut, Announcing
    <3> QED
      BY <1>2, <3>1
      DEF Goto, FreshInv, TypeOK, Started, SyncSteps, Synced, Announcing
  <2> QED
    BY <2>1, <2>2, <2>3, <2>4, <2>5
    DEF Started, SyncSteps, Synced, Step, Request, SyncRepo, GetVersion,
        SyncPacks, LoadPack, ListRefs, SyncWipe, SyncPackedRefs, SyncHead,
        SyncRecord, ServeFetch, ReceivePack, ReceiveRefused, Hook,
        HookListPacks, HookPutPack, HookPutIdx, CasRejected, Promote, Fault,
        Fail, TearIdx, TearRefs, TearPackedRefs, TearHead, TearVersion,
        HandlerGone, Abort
<1> QED
  BY <1>1, <1>2

LEMMA PushInvStep ==
  ASSUME FreshInv, PushInv, [Next]_vars, OrphanAt = {}, Announced
  PROVE  PushInv'
<1>1. ASSUME NEW c \in Clients, Step(c) PROVE PushInv'
  <2>1. \A d \in Pushers : pc'[d] \in Started => quiet'[d]
    BY <1>1, StartedStep
  <2>2. \A d \in Pushers : Applies(d)'
    BY <1>1, AppliesStep DEF Applies
  <2> QED
    BY <2>1, <2>2 DEF PushInv
<1>2. CASE LeaseExpire \/ UNCHANGED vars
  BY <1>2
  DEF LeaseExpire, vars, PushInv, Applies, Commands, Changed, Eff
<1> QED
  BY <1>1, <1>2, NextSteps

\* A push that etcd accepted is one git applies: the cache of the server that
\* runs the hook still has every ref of the push at its advertised value when
\* the hook exits.  This takes that no hook dies with its CAS unannounced: a
\* server would go on serving and comparing against the old refs.
THEOREM AcceptedIsApplied ==
  ASSUME OrphanAt = {}, ~Overlap, FaultAt \cap Announcing = {}
  PROVE  Spec => []AcceptedApplies
<1>1. FreshInv /\ PushInv /\ [Next]_vars => FreshInv' /\ PushInv'
  BY FreshInvStep, PushInvStep DEF Announced
<1>2. FreshInv /\ PushInv => AcceptedApplies
  BY DEF PushInv, Applies, AcceptedApplies
<1>3. Init => PushInv
  BY DEF Init, PushInv, Applies, Started, SyncSteps, Synced, Announcing, Clients
<1> QED
  BY <1>1, <1>2, <1>3, FreshInit, PTL DEF Spec
=============================================================================
