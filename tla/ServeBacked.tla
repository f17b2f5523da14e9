----------------------------- MODULE ServeBacked ---------------------------
(***************************************************************************)
(* While the lock is exclusive and no hook dies between the two PUTs of a  *)
(* pack, every ref in etcd is backed by packs that can be read from S3.    *)
(***************************************************************************)
EXTENDS ServeProofs

USE DEF etcdVars, s3Vars, cacheVars, localVars, pushVars, historyVars,
        handlerVars

\* A pusher past AcquireLock owns the lock.
LockHeld ==
  \A c \in Pushers : pc[c] \notin Quiescent \cup {"lock"} => lock = c

\* Every value a sync, git or a push could turn into a ref is backed, and a
\* pack that is listed is whole or in the hands of the hook uploading it.
CachesBacked ==
  \A s \in Servers : /\ HistoryOf(packedRefs[s]) \subseteq Stored
                     /\ HistoryOf(looseRefs[s]) \subseteq Stored
                     /\ packDir[s] \subseteq Whole
SnapsBacked == \A c \in Clients : HistoryOf(snap[c]) \subseteq Stored
HalfOwned ==
  \A p \in ListPacks \ Whole : \E c \in Clients : pc[c] = "putIdx" /\ up[c] = p

\* What a push still needs is in its quarantine until that is uploaded.
Uploading == {"putPack", "putIdx"}
Uploaded  == {"cas", "initHead", "bumpGet", "bumpPut", "promote"}
PushBacked(c) ==
  /\ pc[c] = "putIdx" => up[c] \in packKeys
  /\ pc[c] \in Uploading => Incoming(c) \subseteq Whole \cup todo[c]
  /\ pc[c] \in Uploaded => Incoming(c) \subseteq Whole
  /\ pc[c] \in Backend => Needed(c) \subseteq Stored \cup Quarantine(c)

BackedInv ==
  /\ TypeOK /\ LockHeld
  /\ RefsBacked /\ CachesBacked /\ SnapsBacked /\ HalfOwned
  /\ \A c \in Clients : PushBacked(c)

-----------------------------------------------------------------------------
(* Mutual exclusion.                                                       *)

\* A step of one client's request leaves the others' locals alone.
OthersKeep(c) ==
  \A d \in Clients \ {c} :
    /\ pc'[d] = pc[d] /\ up'[d] = up[d] /\ todo'[d] = todo[d]
    /\ snap'[d] = snap[d] /\ adv'[d] = adv[d] /\ want'[d] = want[d]

Step(c) ==
  HandleFetch(c) \/ HandleAdvert(c) \/ HandlePost(c) \/ Request(c) \/ Fault(c)

LEMMA EndOthersKeep ==
  ASSUME TypeOK, NEW c \in Clients, EndRequest(c)
  PROVE  /\ OthersKeep(c) /\ pc'[c] = "idle" /\ snap'[c] = NoRefs
  BY DEF TypeOK, EndRequest, Leave, Goto, OthersKeep

LEMMA StepOthersKeep ==
  ASSUME TypeOK, NEW c \in Clients, Step(c) PROVE OthersKeep(c)
<1>1. CASE HandleFetch(c) \/ HandleAdvert(c) \/ HandlePost(c)
  BY <1>1
  DEF TypeOK, HandleFetch, HandleAdvert, HandlePost, Handle, Goto, OthersKeep
<1>2. CASE LockRepo(c)
  BY <1>2 DEF TypeOK, LockRepo, Goto, OthersKeep
<1>3. CASE SyncRepo(c)
  <2>1. CASE GetVersion(c) \/ SyncPacks(c) \/ LoadPack(c) \/ ListRefs(c)
    BY <2>1
    DEF TypeOK, GetVersion, SyncPacks, LoadPack, ListRefs, Goto, OthersKeep
  <2>2. CASE SyncWipe(c) \/ SyncPackedRefs(c) \/ SyncHead(c) \/ SyncRecord(c)
    BY <2>2
    DEF TypeOK, SyncWipe, SyncPackedRefs, SyncHead, SyncRecord, Goto, OthersKeep
  <2> QED
    BY <1>3, <2>1, <2>2 DEF SyncRepo
<1>4. CASE ServeFetch(c) \/ ReceiveRefused(c) \/ Promote(c) \/ CasRejected(c)
  BY <1>4, EndOthersKeep DEF ServeFetch, ReceiveRefused, Promote, CasRejected
<1>5. CASE Advertise(c) \/ ReceivePack(c)
  BY <1>5 DEF TypeOK, Advertise, Leave, ReceivePack, Goto, OthersKeep
<1>6. CASE Hook(c)
  <2>1. CASE HookListPacks(c) \/ HookPutPack(c) \/ HookPutIdx(c)
    BY <2>1 DEF TypeOK, HookListPacks, HookPutPack, HookPutIdx, Goto, OthersKeep
  <2>2. CASE CasRefs(c) \/ MaybeInitHEAD(c) \/ BumpGet(c) \/ BumpPut(c)
    BY <2>2 DEF TypeOK, CasRefs, MaybeInitHEAD, BumpGet, BumpPut, Goto, OthersKeep
  <2> QED
    BY <1>4, <1>6, <2>1, <2>2 DEF Hook
<1>7. CASE Fault(c)
  BY <1>7, EndOthersKeep
  DEF Fault, Fail, TearIdx, TearRefs, TearPackedRefs, TearHead, TearVersion,
      HandlerGone, Abort, OthersKeep
<1> QED
  BY <1>1, <1>2, <1>3, <1>4, <1>5, <1>6, <1>7 DEF Step, Request

\* The three ways a step of c treats the lock.
LEMMA StepLock ==
  ASSUME TypeOK, LockHeld, NEW c \in Pushers, Step(c), OrphanAt = {}
  PROVE  \/ lock' = lock /\ (pc[c] \in Quiescent => pc'[c] = "lock")
         \/ lock = NoOwner /\ lock' = c
         \/ pc'[c] \in Quiescent /\ (lock' = lock \/ lock = c)
<1>0. c \in Clients /\ c \notin Fetchers
  BY ServeAssumption DEF Clients
<1>1. CASE HandleFetch(c) \/ HandleAdvert(c) \/ HandlePost(c)
  BY <1>0, <1>1
  DEF TypeOK, HandleFetch, HandleAdvert, HandlePost, Handle, Goto
<1>2. CASE LockRepo(c)
  BY <1>2 DEF LockRepo, AcquireLock
<1>3. CASE SyncRepo(c)
  BY <1>3
  DEF SyncRepo, GetVersion, SyncPacks, LoadPack, ListRefs, SyncWipe,
      SyncPackedRefs, SyncHead, SyncRecord, Quiescent
<1>4. CASE ServeFetch(c) \/ ReceiveRefused(c) \/ Promote(c) \/ CasRejected(c)
  BY <1>0, <1>4, EndOthersKeep
  DEF ServeFetch, ReceiveRefused, Promote, CasRejected, Unlock, Quiescent
<1>5. CASE Advertise(c)
  BY <1>0, <1>5 DEF TypeOK, Advertise, Unlock, Goto, Quiescent
<1>6. CASE ReceivePack(c)
  BY <1>6 DEF ReceivePack, Quiescent
<1>7. CASE Hook(c)
  BY <1>4, <1>7
  DEF Hook, HookListPacks, HookPutPack, HookPutIdx, CasRefs, MaybeInitHEAD,
      BumpGet, BumpPut, Quiescent
<1>8. CASE Fault(c)
  BY <1>0, <1>8, EndOthersKeep
  DEF Fault, Fail, TearIdx, TearRefs, TearPackedRefs, TearHead, TearVersion,
      HandlerGone, Abort, Unlock, Abandon, Quiescent
<1> QED
  BY <1>1, <1>2, <1>3, <1>4, <1>5, <1>6, <1>7, <1>8 DEF Step, Request

LEMMA FetcherKeepsLock ==
  ASSUME TypeOK, LockHeld, NEW c \in Fetchers, Step(c), OrphanAt = {}
  PROVE  lock' = lock
<1>0. c \in Clients /\ c \notin Pushers /\ lock # c
  BY ServeAssumption, OwnerAssumption DEF Clients, TypeOK, EtcdTypeOK
<1>1. pc[c] \in {"idle", "serve"} \cup SyncSteps
  BY DEF TypeOK
<1>2. CASE HandleFetch(c) \/ HandleAdvert(c) \/ HandlePost(c)
  BY <1>2 DEF HandleFetch, HandleAdvert, HandlePost, Handle
<1>3. ~LockRepo(c)
  BY <1>1 DEF LockRepo, SyncSteps
<1>4. CASE SyncRepo(c)
  BY <1>4
  DEF SyncRepo, GetVersion, SyncPacks, LoadPack, ListRefs, SyncWipe,
      SyncPackedRefs, SyncHead, SyncRecord
<1>5. CASE ServeFetch(c) \/ Advertise(c) \/ ReceivePack(c)
             \/ ReceiveRefused(c) \/ Promote(c)
  BY <1>0, <1>5
  DEF ServeFetch, Advertise, ReceivePack, ReceiveRefused, Promote, Unlock
<1>6. CASE Hook(c)
  BY <1>0, <1>6
  DEF Hook, HookListPacks, HookPutPack, HookPutIdx, CasRefs, CasRejected,
      MaybeInitHEAD, BumpGet, BumpPut, Unlock
<1>7. CASE Fault(c)
  BY <1>0, <1>7
  DEF Fault, Fail, TearIdx, TearRefs, TearPackedRefs, TearHead, TearVersion,
      HandlerGone, Abort, Unlock, Abandon
<1> QED
  BY <1>2, <1>3, <1>4, <1>5, <1>6, <1>7 DEF Step, Request

LEMMA NextSteps ==
  ASSUME [Next]_vars
  PROVE  (\E c \in Clients : Step(c)) \/ LeaseExpire \/ UNCHANGED vars
  BY DEF Next, Step

LEMMA LockHeldStep ==
  ASSUME TypeOK, LockHeld, [Next]_vars, OrphanAt = {}, ~Overlap
  PROVE  LockHeld'
<1>1. ASSUME NEW c \in Pushers, Step(c) PROVE LockHeld'
  <2>0. c \in Clients
    BY DEF Clients
  <2>1. \A d \in Pushers : d # c => pc'[d] = pc[d]
    BY <1>1, <2>0, StepOthersKeep DEF OthersKeep, Clients
  <2>2. CASE lock' = lock /\ (pc[c] \in Quiescent => pc'[c] = "lock")
    <3>1. CASE pc[c] = "lock"
      <4>1. pc'[c] \in Quiescent \cup {"lock"} \/ lock' = c
        BY <1>1, <3>1, <2>0, EndOthersKeep
        DEF Step, HandleFetch, HandleAdvert, HandlePost, Request, LockRepo,
            AcquireLock, SyncRepo, GetVersion, SyncPacks, LoadPack, ListRefs,
            SyncWipe, SyncPackedRefs, SyncHead, SyncRecord, ServeFetch,
            Advertise, ReceivePack, ReceiveRefused, Hook, HookListPacks,
            HookPutPack, HookPutIdx, CasRefs, CasRejected, MaybeInitHEAD,
            BumpGet, BumpPut, Promote, Fault, Fail, TearIdx, TearRefs,
            TearPackedRefs, TearHead, TearVersion, HandlerGone, Abort,
            Quiescent
      <4> QED
        BY <2>1, <2>2, <4>1 DEF LockHeld
    <3>2. CASE pc[c] \in Quiescent
      BY <2>1, <2>2, <3>2 DEF LockHeld
    <3>3. CASE pc[c] \notin Quiescent \cup {"lock"}
      BY <2>1, <2>2, <3>3 DEF LockHeld
    <3> QED
      BY <3>1, <3>2, <3>3
  <2>3. CASE lock = NoOwner /\ lock' = c
    BY <2>1, <2>3, OwnerAssumption DEF LockHeld
  <2>4. CASE pc'[c] \in Quiescent /\ (lock' = lock \/ lock = c)
    BY <2>1, <2>4 DEF LockHeld
  <2> QED
    BY <1>1, <2>2, <2>3, <2>4, StepLock
<1>2. ASSUME NEW c \in Fetchers, Step(c) PROVE LockHeld'
  <2>1. \A d \in Pushers : pc'[d] = pc[d]
    BY <1>2, StepOthersKeep, ServeAssumption DEF OthersKeep, Clients
  <2> QED
    BY <1>2, <2>1, FetcherKeepsLock DEF LockHeld
<1>3. CASE LeaseExpire
  BY <1>3, OwnerAssumption DEF LeaseExpire, Expire, LockHeld
<1>4. CASE UNCHANGED vars
  BY <1>4 DEF vars, LockHeld
<1> QED
  BY <1>1, <1>2, <1>3, <1>4, NextSteps DEF Clients

-----------------------------------------------------------------------------
(* What the bucket has only grows.                                         *)

LEMMA StoredGrows ==
  ASSUME packKeys \subseteq packKeys', idxKeys \subseteq idxKeys'
  PROVE  Whole \subseteq Whole' /\ Stored \subseteq Stored'
  BY DEF Whole, Stored

LEMMA WholeIsStored == ASSUME NEW p \in Whole PROVE p \subseteq Stored
  BY DEF Stored

LEMMA NoRefsBacked == HistoryOf(NoRefs) = {}
  BY DEF HistoryOf, History, NoRefs

LEMMA SameHistory ==
  ASSUME NEW m, NEW n, \A r \in Refs : m[r] = n[r]
  PROVE  HistoryOf(m) = HistoryOf(n)
  BY DEF HistoryOf

\* The push of a client whose request and locals stay as they are.
LEMMA PushFrame ==
  ASSUME NEW d, PushBacked(d), packKeys \subseteq packKeys',
         idxKeys \subseteq idxKeys', pc'[d] = pc[d], up'[d] = up[d],
         todo'[d] = todo[d], adv'[d] = adv[d], want'[d] = want[d]
  PROVE  PushBacked(d)'
<1>1. Commands(d)' = Commands(d)
  BY DEF Commands, Changed
<1>2. Needed(d)' = Needed(d)
  BY <1>1 DEF Needed
<1>3. Quarantine(d)' = Quarantine(d) /\ Incoming(d)' = Incoming(d)
  BY <1>2 DEF Quarantine, Incoming, HistoryOf
<1> QED
  BY <1>2, <1>3, StoredGrows DEF PushBacked

LEMMA NotPushing == ASSUME NEW d, pc'[d] \notin Backend PROVE PushBacked(d)'
  BY DEF PushBacked, Backend, HookSteps, Uploading, Uploaded

\* What a push needs is stored once its pack is.
LEMMA NeededStored ==
  ASSUME NEW c, PushBacked(c), pc[c] \in Uploaded
  PROVE  Needed(c) \subseteq Stored
<1>1. Needed(c) \subseteq Stored \cup Quarantine(c)
  BY DEF PushBacked, Uploaded, Backend, HookSteps
<1>2. Quarantine(c) = {} \/ Quarantine(c) \in Whole
  BY DEF PushBacked, Incoming
<1> QED
  BY <1>1, <1>2, WholeIsStored

\* A step of c that touches neither the bucket nor the caches' refs and packs
\* nor the refs in etcd, and is not in the backend afterwards.
LEMMA IdleStep ==
  ASSUME BackedInv, NEW c \in Clients, Step(c), UNCHANGED s3Vars,
         UNCHANGED <<refs, packDir, packedRefs, looseRefs>>,
         pc[c] # "putIdx", pc'[c] \notin Backend,
         snap'[c] = snap[c] \/ snap'[c] = NoRefs
  PROVE  /\ RefsBacked' /\ CachesBacked' /\ SnapsBacked' /\ HalfOwned'
         /\ \A d \in Clients : PushBacked(d)'
<1>1. OthersKeep(c)
  BY StepOthersKeep DEF BackedInv
<1>2. Whole' = Whole /\ Stored' = Stored /\ ListPacks' = ListPacks
  BY DEF Whole, Stored, ListPacks
<1>3. RefsBacked'
  BY <1>2 DEF BackedInv, RefsBacked, HistoryOf
<1>4. CachesBacked'
  BY <1>2 DEF BackedInv, CachesBacked, HistoryOf
<1>5. SnapsBacked'
  <2> SUFFICES ASSUME NEW d \in Clients PROVE HistoryOf(snap'[d]) \subseteq Stored
    BY <1>2 DEF SnapsBacked, HistoryOf
  <2>1. snap'[d] = snap[d] \/ snap'[d] = NoRefs
    BY <1>1 DEF OthersKeep
  <2> QED
    BY <2>1, NoRefsBacked DEF BackedInv, SnapsBacked
<1>6. HalfOwned'
  BY <1>1, <1>2 DEF BackedInv, HalfOwned, OthersKeep
<1>7. ASSUME NEW d \in Clients PROVE PushBacked(d)'
  BY <1>1, NotPushing, PushFrame DEF BackedInv, OthersKeep
<1> QED
  BY <1>3, <1>4, <1>5, <1>6, <1>7

\* The same for a step within the backend after the upload.
LEMMA UploadedStep ==
  ASSUME BackedInv, NEW c \in Clients, Step(c), UNCHANGED s3Vars,
         UNCHANGED <<packDir, packedRefs, looseRefs, snap>>,
         pc[c] \in Uploaded, pc'[c] \in Uploaded,
         UNCHANGED <<adv, want>>
  PROVE  /\ CachesBacked' /\ SnapsBacked' /\ HalfOwned'
         /\ \A d \in Clients : PushBacked(d)'
<1>1. OthersKeep(c)
  BY StepOthersKeep DEF BackedInv
<1>2. Whole' = Whole /\ Stored' = Stored /\ ListPacks' = ListPacks
  BY DEF Whole, Stored, ListPacks
<1>3. CachesBacked' /\ SnapsBacked'
  BY <1>2 DEF BackedInv, CachesBacked, SnapsBacked, HistoryOf
<1>4. HalfOwned'
  BY <1>1, <1>2 DEF BackedInv, HalfOwned, OthersKeep, Uploaded
<1>5. PushBacked(c)'
  <2>1. Commands(c)' = Commands(c)
    BY DEF Commands, Changed
  <2>2. Needed(c)' = Needed(c)
    BY <2>1 DEF Needed
  <2>3. Quarantine(c)' = Quarantine(c) /\ Incoming(c)' = Incoming(c)
    BY <2>2 DEF Quarantine, Incoming, HistoryOf
  <2>4. PushBacked(c)
    BY DEF BackedInv
  <2> QED
    BY <1>2, <2>2, <2>3, <2>4
    DEF PushBacked, Uploaded, Uploading, Backend, HookSteps
<1>6. ASSUME NEW d \in Clients PROVE PushBacked(d)'
  BY <1>1, <1>5, PushFrame DEF BackedInv, OthersKeep
<1> QED
  BY <1>3, <1>4, <1>6

-----------------------------------------------------------------------------
(* The steps.                                                              *)

AllBacked == /\ RefsBacked /\ CachesBacked /\ SnapsBacked /\ HalfOwned
             /\ \A d \in Clients : PushBacked(d)

LEMMA HandlerBacked ==
  ASSUME BackedInv, NEW c \in Clients, Step(c),
         \/ HandleFetch(c) \/ HandleAdvert(c) \/ HandlePost(c) \/ LockRepo(c)
         \/ GetVersion(c) \/ SyncPacks(c) \/ SyncHead(c) \/ SyncRecord(c)
  PROVE  AllBacked'
<1>1. /\ UNCHANGED s3Vars /\ UNCHANGED <<refs, packDir, packedRefs, looseRefs>>
      /\ pc[c] # "putIdx" /\ pc'[c] \notin Backend
      /\ snap'[c] = snap[c] \/ snap'[c] = NoRefs
  <2>1. CASE HandleFetch(c) \/ HandleAdvert(c) \/ HandlePost(c) \/ LockRepo(c)
    BY <2>1
    DEF HandleFetch, HandleAdvert, HandlePost, Handle, LockRepo, Goto,
        Quiescent, Backend, HookSteps, BackedInv, TypeOK
  <2>2. CASE GetVersion(c) \/ SyncPacks(c)
    BY <2>2, DispatchType
    DEF GetVersion, SyncPacks, AfterDownload, Goto, Backend, HookSteps,
        BackedInv, TypeOK
  <2>3. CASE SyncHead(c) \/ SyncRecord(c)
    BY <2>3, DispatchType
    DEF SyncHead, SyncRecord, Goto, Backend, HookSteps, BackedInv, TypeOK
  <2> QED
    BY <2>1, <2>2, <2>3
<1> QED
  BY <1>1, IdleStep DEF AllBacked

LEMMA EndBacked ==
  ASSUME BackedInv, NEW c \in Clients, Step(c), EndRequest(c),
         UNCHANGED s3Vars, pc[c] # "putIdx",
         UNCHANGED <<refs, packDir, packedRefs, looseRefs>>
  PROVE  AllBacked'
<1>1. pc'[c] \notin Backend /\ snap'[c] = NoRefs
  BY EndOthersKeep DEF BackedInv, Backend, HookSteps
<1> QED
  BY <1>1, IdleStep DEF AllBacked

LEMMA AnswerBacked ==
  ASSUME BackedInv, NEW c \in Clients, Step(c), "putIdx" \notin FaultAt,
         \/ ServeFetch(c) \/ Advertise(c) \/ ReceiveRefused(c)
         \/ CasRejected(c) \/ Fail(c) \/ TearHead(c) \/ TearVersion(c)
  PROVE  AllBacked'
<1>1. CASE ServeFetch(c) \/ ReceiveRefused(c) \/ CasRejected(c)
  BY <1>1, EndBacked DEF ServeFetch, ReceiveRefused, CasRejected
<1>2. CASE Fail(c) \/ TearHead(c) \/ TearVersion(c)
  BY <1>2, EndBacked DEF Fail, TearHead, TearVersion, Abort
<1>3. CASE Advertise(c)
  <2>1. /\ UNCHANGED s3Vars /\ UNCHANGED <<refs, packDir, packedRefs, looseRefs>>
        /\ pc[c] # "putIdx" /\ pc'[c] \notin Backend /\ snap'[c] = NoRefs
    BY <1>3 DEF Advertise, Leave, Goto, Backend, HookSteps, BackedInv, TypeOK
  <2> QED
    BY <2>1, IdleStep DEF AllBacked
<1> QED
  BY <1>1, <1>2, <1>3

\* Steps that write the refs or packs of one cache: what they write is backed.
LEMMA CacheStep ==
  ASSUME BackedInv, NEW c \in Clients, Step(c), UNCHANGED s3Vars,
         refs' = refs, pc[c] # "putIdx", pc'[c] \notin Backend,
         snap'[c] \in {snap[c], NoRefs, refs},
         CachesBacked'
  PROVE  AllBacked'
<1>1. OthersKeep(c)
  BY StepOthersKeep DEF BackedInv
<1>2. Whole' = Whole /\ Stored' = Stored /\ ListPacks' = ListPacks
  BY DEF Whole, Stored, ListPacks
<1>3. RefsBacked'
  BY <1>2 DEF BackedInv, RefsBacked, HistoryOf
<1>4. SnapsBacked'
  <2> SUFFICES ASSUME NEW d \in Clients PROVE HistoryOf(snap'[d]) \subseteq Stored
    BY <1>2 DEF SnapsBacked, HistoryOf
  <2>1. snap'[d] \in {snap[d], NoRefs, refs}
    BY <1>1 DEF OthersKeep
  <2> QED
    BY <2>1, NoRefsBacked DEF BackedInv, SnapsBacked, RefsBacked
<1>5. HalfOwned'
  BY <1>1, <1>2 DEF BackedInv, HalfOwned, OthersKeep
<1>6. ASSUME NEW d \in Clients PROVE PushBacked(d)'
  BY <1>1, NotPushing, PushFrame DEF BackedInv, OthersKeep
<1> QED
  BY <1>3, <1>4, <1>5, <1>6 DEF AllBacked

LEMMA SyncBacked ==
  ASSUME BackedInv, NEW c \in Clients, Step(c),
         \/ LoadPack(c) \/ ListRefs(c) \/ SyncWipe(c) \/ SyncPackedRefs(c)
         \/ TearIdx(c) \/ TearRefs(c) \/ TearPackedRefs(c)
  PROVE  AllBacked'
<1>0. /\ srv[c] \in Servers /\ pc[c] \in SyncSteps
      /\ c \in Clients /\ TypeOK
  BY
  DEF LoadPack, ListRefs, SyncWipe, SyncPackedRefs, TearIdx, TearRefs,
      TearPackedRefs, SyncSteps, Quiescent, BackedInv, TypeOK
<1>1. pc[c] # "putIdx" /\ pc[c] \notin Backend
  BY <1>0 DEF SyncSteps, Backend, HookSteps
<1>2. UNCHANGED s3Vars /\ refs' = refs
  BY
  DEF LoadPack, ListRefs, SyncWipe, SyncPackedRefs, TearIdx, TearRefs,
      TearPackedRefs
<1>3. Whole' = Whole /\ Stored' = Stored
  BY <1>2 DEF Whole, Stored
<1>4. pc'[c] \notin Backend /\ snap'[c] \in {snap[c], NoRefs, refs}
  <2>1. CASE TearIdx(c) \/ TearRefs(c) \/ TearPackedRefs(c)
    BY <1>0, <2>1, EndOthersKeep
    DEF TearIdx, TearRefs, TearPackedRefs, Abort, Backend, HookSteps
  <2>2. CASE LoadPack(c) \/ ListRefs(c) \/ SyncWipe(c) \/ SyncPackedRefs(c)
    BY <1>0, <2>2
    DEF LoadPack, ListRefs, SyncWipe, SyncPackedRefs, AfterDownload, Goto,
        Backend, HookSteps, TypeOK
  <2> QED
    BY <2>1, <2>2
<1>5. CachesBacked'
  <2>0. CachesBacked /\ CacheTypeOK
    BY DEF BackedInv, TypeOK
  <2>1. CASE LoadPack(c) \/ TearIdx(c)
    <3>1. packedRefs' = packedRefs /\ looseRefs' = looseRefs
      BY <2>1 DEF LoadPack, TearIdx
    <3>2. packDir' = packDir \/ \E p \in Whole : StorePack(srv[c], p)
      BY <2>1 DEF LoadPack, TearIdx
    <3>3. \A s \in Servers : packDir'[s] \subseteq Whole
      BY <1>0, <2>0, <3>2 DEF CachesBacked, CacheTypeOK, StorePack
    <3> QED
      BY <1>3, <2>0, <3>1, <3>3 DEF CachesBacked, HistoryOf
  <2>2. CASE ListRefs(c)
    BY <1>3, <2>0, <2>2 DEF ListRefs, CachesBacked, HistoryOf
  <2>3. CASE SyncWipe(c)
    <3>1. packedRefs' = packedRefs /\ packDir' = packDir
      BY <2>3 DEF SyncWipe
    <3>2. \A s \in Servers : looseRefs'[s] = looseRefs[s] \/ looseRefs'[s] = NoRefs
      BY <2>0, <2>3 DEF SyncWipe, WipeLooseRefs, CacheTypeOK
    <3>3. \A s \in Servers : HistoryOf(looseRefs'[s]) \subseteq Stored
      BY <2>0, <3>2, NoRefsBacked DEF CachesBacked
    <3> QED
      BY <1>3, <2>0, <3>1, <3>3 DEF CachesBacked, HistoryOf
  <2>4. CASE SyncPackedRefs(c) \/ TearPackedRefs(c)
    <3>1. looseRefs' = looseRefs /\ packDir' = packDir
      BY <2>4 DEF SyncPackedRefs, TearPackedRefs
    <3>2. \A s \in Servers : packedRefs'[s] \in {packedRefs[s], snap[c], NoRefs}
      BY <2>0, <2>4
      DEF SyncPackedRefs, TearPackedRefs, WritePackedRefs, CacheTypeOK
    <3>3. \A s \in Servers : HistoryOf(packedRefs'[s]) \subseteq Stored
      BY <2>0, <3>2, NoRefsBacked DEF CachesBacked, BackedInv, SnapsBacked
    <3> QED
      BY <1>3, <2>0, <3>1, <3>3 DEF CachesBacked, HistoryOf
  <2>5. CASE TearRefs(c)
    <3>1. packedRefs' = packedRefs /\ packDir' = packDir
      BY <2>5 DEF TearRefs
    <3>2. PICK gone \in SUBSET Refs : RemoveLooseRefs(srv[c], gone)
      BY <2>5 DEF TearRefs
    <3>3. \A s \in Servers, r \in Refs : looseRefs'[s][r] \in {looseRefs[s][r], NoSha}
      BY <2>0, <3>2 DEF RemoveLooseRefs, CacheTypeOK, RefMap
    <3>4. \A s \in Servers : HistoryOf(looseRefs'[s]) \subseteq HistoryOf(looseRefs[s])
      BY <3>3 DEF HistoryOf, History
    <3> QED
      BY <1>3, <2>0, <3>1, <3>4 DEF CachesBacked, HistoryOf
  <2> QED
    BY <2>1, <2>2, <2>3, <2>4, <2>5
<1> QED
  BY <1>1, <1>2, <1>4, <1>5, CacheStep

\* git's connectivity check, against a cache that is backed.
LEMMA ReceiveBacked ==
  ASSUME BackedInv, NEW c \in Clients, Step(c), ReceivePack(c)
  PROVE  AllBacked'
<1>1. OthersKeep(c)
  BY StepOthersKeep DEF BackedInv
<1>2. Whole' = Whole /\ Stored' = Stored /\ ListPacks' = ListPacks
  BY DEF ReceivePack, Whole, Stored, ListPacks
<1>3. RefsBacked' /\ CachesBacked' /\ SnapsBacked'
  BY <1>2
  DEF ReceivePack, BackedInv, RefsBacked, CachesBacked, SnapsBacked, HistoryOf
<1>4. HalfOwned'
  BY <1>1, <1>2 DEF ReceivePack, BackedInv, HalfOwned, OthersKeep
<1>5. srv[c] \in Servers
  BY DEF ReceivePack, BackedInv, TypeOK, Quiescent
<1>6. HistoryOf(Eff(srv[c])) \subseteq Stored
  <2>1. HistoryOf(Eff(srv[c])) \subseteq
          HistoryOf(looseRefs[srv[c]]) \cup HistoryOf(packedRefs[srv[c]])
    BY DEF HistoryOf, Eff
  <2> QED
    BY <1>5, <2>1 DEF BackedInv, CachesBacked
<1>7. LocalObjects(srv[c]) \subseteq Stored
  BY <1>5 DEF BackedInv, CachesBacked, LocalObjects, Stored
<1>8. Needed(c) \subseteq Stored \cup Quarantine(c)
  BY <1>6, <1>7 DEF ReceivePack, Connected
<1>9. PushBacked(c)'
  <2>1. Needed(c)' = Needed(c) /\ Quarantine(c)' = Quarantine(c)
    BY DEF ReceivePack, Needed, Quarantine, Commands, Changed, HistoryOf
  <2>2. pc'[c] = "hookList"
    BY DEF ReceivePack, Goto, BackedInv, TypeOK
  <2> QED
    BY <1>2, <1>8, <2>1, <2>2 DEF PushBacked, Uploading, Uploaded
<1>10. ASSUME NEW d \in Clients PROVE PushBacked(d)'
  BY <1>1, <1>9, PushFrame DEF BackedInv, OthersKeep, ReceivePack
<1> QED
  BY <1>3, <1>4, <1>10 DEF AllBacked

\* Under the lock a listed pack is whole: nobody else is between two PUTs.
LEMMA ListedIsWhole ==
  ASSUME BackedInv, NEW c \in Clients, pc[c] = "hookList"
  PROVE  ListPacks \subseteq Whole
<1> SUFFICES ASSUME NEW p \in ListPacks, p \notin Whole PROVE FALSE
  OBVIOUS
<1>1. PICK d \in Clients : pc[d] = "putIdx"
  BY DEF BackedInv, HalfOwned
<1>2. c \in Pushers /\ d \in Pushers
  BY <1>1, PusherSteps DEF BackedInv, Backend, HookSteps
<1>3. lock = c /\ lock = d
  BY <1>1, <1>2 DEF BackedInv, LockHeld, Quiescent
<1> QED
  BY <1>1, <1>3

\* What a push needs does not change while its maps stay.
LEMMA PushStays ==
  ASSUME NEW c, adv' = adv, want' = want
  PROVE  Needed(c)' = Needed(c) /\ Quarantine(c)' = Quarantine(c)
         /\ Incoming(c)' = Incoming(c)
  BY DEF Incoming, Needed, Quarantine, Commands, Changed, HistoryOf

LEMMA HookListBacked ==
  ASSUME BackedInv, NEW c \in Clients, Step(c), HookListPacks(c)
  PROVE  AllBacked'
<1>1. OthersKeep(c)
  BY StepOthersKeep DEF BackedInv
<1>2. Whole' = Whole /\ Stored' = Stored /\ ListPacks' = ListPacks
  BY DEF HookListPacks, Whole, Stored, ListPacks
<1>3. RefsBacked' /\ CachesBacked' /\ SnapsBacked'
  BY <1>2
  DEF HookListPacks, BackedInv, RefsBacked, CachesBacked, SnapsBacked, HistoryOf
<1>4. HalfOwned'
  BY <1>1, <1>2 DEF HookListPacks, BackedInv, HalfOwned, OthersKeep
<1>5. ListPacks \subseteq Whole
  BY ListedIsWhole DEF HookListPacks
<1>6. /\ todo'[c] = (Incoming(c) \cup packDir[srv[c]]) \ ListPacks
      /\ pc'[c] = AfterUpload(todo'[c])
  BY DEF HookListPacks, Goto, BackedInv, TypeOK
<1>7. Incoming(c) \subseteq Whole \cup todo'[c]
  BY <1>5, <1>6
<1>8. Needed(c) \subseteq Stored \cup Quarantine(c)
  BY DEF HookListPacks, BackedInv, PushBacked, Backend, HookSteps
<1>9. PushBacked(c)'
  <2>1. Needed(c)' = Needed(c) /\ Quarantine(c)' = Quarantine(c)
        /\ Incoming(c)' = Incoming(c)
    BY PushStays DEF HookListPacks
  <2>2. CASE todo'[c] = {}
    BY <1>2, <1>6, <1>7, <1>8, <2>1, <2>2
    DEF PushBacked, AfterUpload, Uploading, Uploaded
  <2>3. CASE todo'[c] # {}
    BY <1>2, <1>6, <1>7, <1>8, <2>1, <2>3
    DEF PushBacked, AfterUpload, Uploading, Uploaded
  <2> QED
    BY <2>2, <2>3
<1>10. ASSUME NEW d \in Clients PROVE PushBacked(d)'
  BY <1>1, <1>9, PushFrame DEF BackedInv, OthersKeep, HookListPacks
<1> QED
  BY <1>3, <1>4, <1>10 DEF AllBacked

LEMMA HookPutPackBacked ==
  ASSUME BackedInv, NEW c \in Clients, Step(c), HookPutPack(c)
  PROVE  AllBacked'
<1>1. OthersKeep(c)
  BY StepOthersKeep DEF BackedInv
<1>2. PICK p \in todo[c] : /\ packKeys' = packKeys \cup {p}
                           /\ idxKeys' = idxKeys
                           /\ up'[c] = p
  BY DEF HookPutPack, PutPackKey, BackedInv, TypeOK
<1>3. Whole \subseteq Whole' /\ Stored \subseteq Stored'
  BY <1>2, StoredGrows
<1>4. pc'[c] = "putIdx" /\ pc[c] = "putPack" /\ todo' = todo
  BY DEF HookPutPack, Goto, BackedInv, TypeOK
<1>5. RefsBacked' /\ CachesBacked' /\ SnapsBacked'
  BY <1>3
  DEF HookPutPack, BackedInv, RefsBacked, CachesBacked, SnapsBacked, HistoryOf
<1>6. HalfOwned'
  <2> SUFFICES ASSUME NEW q \in ListPacks', q \notin Whole'
               PROVE  \E d \in Clients : pc'[d] = "putIdx" /\ up'[d] = q
    BY DEF HalfOwned
  <2>1. CASE q = p
    BY <1>2, <1>4, <2>1
  <2>2. CASE q # p
    <3>1. q \in ListPacks \ Whole
      BY <1>2, <1>3, <2>2 DEF ListPacks
    <3>2. PICK d \in Clients : pc[d] = "putIdx" /\ up[d] = q
      BY <3>1 DEF BackedInv, HalfOwned
    <3> QED
      BY <1>1, <1>4, <3>2 DEF OthersKeep
  <2> QED
    BY <2>1, <2>2
<1>7. PushBacked(c)'
  <2>1. Needed(c)' = Needed(c) /\ Quarantine(c)' = Quarantine(c)
        /\ Incoming(c)' = Incoming(c)
    BY PushStays DEF HookPutPack
  <2>2. PushBacked(c)
    BY DEF BackedInv
  <2> QED
    BY <1>2, <1>3, <1>4, <2>1, <2>2
    DEF PushBacked, Uploading, Uploaded, Backend, HookSteps
<1>8. ASSUME NEW d \in Clients PROVE PushBacked(d)'
  BY <1>1, <1>2, <1>7, PushFrame DEF BackedInv, OthersKeep, HookPutPack
<1> QED
  BY <1>5, <1>6, <1>8 DEF AllBacked

LEMMA HookPutIdxBacked ==
  ASSUME BackedInv, NEW c \in Clients, Step(c), HookPutIdx(c)
  PROVE  AllBacked'
<1>1. OthersKeep(c)
  BY StepOthersKeep DEF BackedInv
<1>2. /\ idxKeys' = idxKeys \cup {up[c]} /\ packKeys' = packKeys
      /\ pc[c] = "putIdx" /\ todo'[c] = todo[c] \ {up[c]}
      /\ pc'[c] = AfterUpload(todo'[c])
  BY DEF HookPutIdx, PutIdxKey, Goto, BackedInv, TypeOK
<1>3. Whole \subseteq Whole' /\ Stored \subseteq Stored'
  BY <1>2, StoredGrows
<1>4. up[c] \in Whole'
  BY <1>2 DEF Whole, BackedInv, PushBacked
<1>5. RefsBacked' /\ CachesBacked' /\ SnapsBacked'
  BY <1>3
  DEF HookPutIdx, BackedInv, RefsBacked, CachesBacked, SnapsBacked, HistoryOf
<1>6. HalfOwned'
  <2> SUFFICES ASSUME NEW q \in ListPacks', q \notin Whole'
               PROVE  \E d \in Clients : pc'[d] = "putIdx" /\ up'[d] = q
    BY DEF HalfOwned
  <2>1. q # up[c] /\ q \in ListPacks \ Whole
    BY <1>2, <1>3, <1>4 DEF ListPacks
  <2>2. PICK d \in Clients : pc[d] = "putIdx" /\ up[d] = q
    BY <2>1 DEF BackedInv, HalfOwned
  <2> QED
    BY <1>1, <2>1, <2>2 DEF OthersKeep
<1>7. PushBacked(c)'
  <2>1. Needed(c)' = Needed(c) /\ Quarantine(c)' = Quarantine(c)
        /\ Incoming(c)' = Incoming(c)
    BY PushStays DEF HookPutIdx
  <2>2. PushBacked(c)
    BY DEF BackedInv
  <2>3. Incoming(c) \subseteq Whole' \cup todo'[c]
    BY <1>2, <1>3, <1>4, <2>2 DEF PushBacked, Uploading
  <2>4. Needed(c) \subseteq Stored' \cup Quarantine(c)
    BY <1>2, <1>3, <2>2 DEF PushBacked, Backend, HookSteps
  <2>5. CASE todo'[c] = {}
    BY <1>2, <2>1, <2>3, <2>4, <2>5
    DEF PushBacked, AfterUpload, Uploading, Uploaded
  <2>6. CASE todo'[c] # {}
    BY <1>2, <2>1, <2>3, <2>4, <2>6
    DEF PushBacked, AfterUpload, Uploading, Uploaded
  <2> QED
    BY <2>5, <2>6
<1>8. ASSUME NEW d \in Clients PROVE PushBacked(d)'
  BY <1>1, <1>2, <1>7, PushFrame DEF BackedInv, OthersKeep, HookPutIdx
<1> QED
  BY <1>5, <1>6, <1>8 DEF AllBacked

LEMMA CasBacked ==
  ASSUME BackedInv, NEW c \in Clients, Step(c), CasRefs(c)
  PROVE  AllBacked'
<1>1. pc[c] \in Uploaded /\ pc'[c] \in Uploaded
  BY DEF CasRefs, Goto, Uploaded, BackedInv, TypeOK
<1>2. Needed(c) \subseteq Stored
  BY <1>1, NeededStored DEF BackedInv
<1>3. RefsBacked'
  <2>1. HistoryOf(refs') \subseteq HistoryOf(refs) \cup Needed(c)
    BY DEF CasRefs, UpdateRefsCAS, Puts, HistoryOf, Needed, Commands
  <2>2. Stored' = Stored
    BY DEF CasRefs, Stored, Whole
  <2> QED
    BY <1>2, <2>1, <2>2 DEF BackedInv, RefsBacked, HistoryOf
<1> QED
  BY <1>1, <1>3, UploadedStep DEF AllBacked, CasRefs

LEMMA AnnounceBacked ==
  ASSUME BackedInv, NEW c \in Clients, Step(c),
         MaybeInitHEAD(c) \/ BumpGet(c) \/ BumpPut(c)
  PROVE  AllBacked'
<1>1. /\ pc[c] \in Uploaded /\ pc'[c] \in Uploaded /\ UNCHANGED s3Vars
      /\ UNCHANGED <<refs, packDir, packedRefs, looseRefs, snap, adv, want>>
  BY DEF MaybeInitHEAD, BumpGet, BumpPut, Goto, Uploaded, BackedInv, TypeOK
<1>2. RefsBacked'
  BY <1>1 DEF BackedInv, RefsBacked, Stored, Whole, HistoryOf
<1> QED
  BY <1>1, <1>2, UploadedStep DEF AllBacked

LEMMA PromoteBacked ==
  ASSUME BackedInv, NEW c \in Clients, Step(c), Promote(c)
  PROVE  AllBacked'
<1>1. /\ pc[c] = "promote" /\ pc'[c] \notin Backend /\ snap'[c] = NoRefs
      /\ UNCHANGED s3Vars /\ refs' = refs /\ srv[c] \in Servers
  BY EndOthersKeep
  DEF Promote, BackedInv, TypeOK, Backend, HookSteps, Quiescent
<1>2. Whole' = Whole /\ Stored' = Stored
  BY <1>1 DEF Stored, Whole
<1>3. Needed(c) \subseteq Stored /\ Incoming(c) \subseteq Whole
  BY <1>1, NeededStored DEF BackedInv, PushBacked, Uploaded
<1>4. CachesBacked'
  <2>1. PICK done \in SUBSET Commands(c) : ApplyRefs(srv[c], done, want[c])
    BY DEF Promote
  <2>2. ASSUME NEW s \in Servers PROVE packDir'[s] \subseteq Whole
    BY <1>1, <1>3, <2>2 DEF Promote, BackedInv, CachesBacked, TypeOK, CacheTypeOK
  <2>3. ASSUME NEW s \in Servers PROVE HistoryOf(looseRefs'[s]) \subseteq Stored
    <3>1. HistoryOf(looseRefs'[s]) \subseteq HistoryOf(looseRefs[s]) \cup Needed(c)
      BY <1>1, <2>1
      DEF ApplyRefs, HistoryOf, Needed, BackedInv, TypeOK, CacheTypeOK
    <3> QED
      BY <1>3, <3>1 DEF BackedInv, CachesBacked
  <2>4. ASSUME NEW s \in Servers PROVE HistoryOf(packedRefs'[s]) \subseteq Stored
    <3>1. HistoryOf(packedRefs'[s]) \subseteq HistoryOf(packedRefs[s])
      BY <1>1, <2>1
      DEF ApplyRefs, HistoryOf, History, BackedInv, TypeOK, CacheTypeOK
    <3> QED
      BY <3>1 DEF BackedInv, CachesBacked
  <2> QED
    BY <1>2, <2>2, <2>3, <2>4 DEF CachesBacked, HistoryOf
<1> QED
  BY <1>1, <1>4, CacheStep

LEMMA BackedStep ==
  ASSUME BackedInv, [Next]_vars,
         OrphanAt = {}, ~Overlap, "putIdx" \notin FaultAt
  PROVE  AllBacked'
<1>1. ASSUME NEW c \in Clients, Step(c) PROVE AllBacked'
  <2>1. ~HandlerGone(c)
    BY DEF HandlerGone
  <2> QED
    BY <1>1, <2>1, HandlerBacked, AnswerBacked, SyncBacked, ReceiveBacked,
       HookListBacked, HookPutPackBacked, HookPutIdxBacked, CasBacked,
       AnnounceBacked, PromoteBacked
    DEF Step, Request, SyncRepo, Hook, Fault
<1>2. CASE LeaseExpire \/ UNCHANGED vars
  <2>1. /\ UNCHANGED s3Vars
        /\ UNCHANGED <<refs, packDir, packedRefs, looseRefs>>
        /\ UNCHANGED <<pc, up, todo, snap, adv, want>>
    BY <1>2 DEF LeaseExpire, vars
  <2>2. Whole' = Whole /\ Stored' = Stored /\ ListPacks' = ListPacks
    BY <2>1 DEF Whole, Stored, ListPacks
  <2>3. RefsBacked' /\ CachesBacked' /\ SnapsBacked' /\ HalfOwned'
    BY <2>1, <2>2
    DEF BackedInv, RefsBacked, CachesBacked, SnapsBacked, HalfOwned, HistoryOf
  <2>4. \A d \in Clients : PushBacked(d)'
    BY <2>1, PushFrame DEF BackedInv
  <2> QED
    BY <2>3, <2>4 DEF AllBacked
<1> QED
  BY <1>1, <1>2, NextSteps

LEMMA BackedInit == Init => BackedInv
<1> SUFFICES ASSUME Init PROVE BackedInv
  OBVIOUS
<1>1. TypeOK
  BY TypeInit
<1>2. \A c \in Clients : pc[c] = "idle"
  BY DEF Init
<1>3. LockHeld
  BY <1>2 DEF LockHeld, Clients, Quiescent
<1>4. RefsBacked /\ CachesBacked /\ SnapsBacked
  BY NoRefsBacked
  DEF Init, EtcdInit, CacheInit, RefsBacked, CachesBacked, SnapsBacked
<1>5. HalfOwned
  BY DEF Init, S3Init, HalfOwned, ListPacks
<1>6. \A c \in Clients : PushBacked(c)
  BY <1>2 DEF PushBacked, Uploading, Uploaded, Backend, HookSteps
<1> QED
  BY <1>1, <1>3, <1>4, <1>5, <1>6 DEF BackedInv

LEMMA BackedInvStep ==
  ASSUME BackedInv, [Next]_vars,
         OrphanAt = {}, ~Overlap, "putIdx" \notin FaultAt
  PROVE  BackedInv'
<1>1. TypeOK'
  BY TypeStep DEF BackedInv
<1>2. LockHeld'
  BY LockHeldStep DEF BackedInv
<1>3. AllBacked'
  BY BackedStep
<1> QED
  BY <1>1, <1>2, <1>3 DEF BackedInv, AllBacked

\* As long as the etcd lock excludes (no lease expires under a live push, no
\* hook outlives its handler) and no hook dies with one of a pack's two keys
\* written, everything a ref in etcd reaches can be read from the bucket:
\* under every other failure, on any number of servers.
THEOREM EveryRefBacked ==
  ASSUME OrphanAt = {}, ~Overlap, "putIdx" \notin FaultAt
  PROVE  Spec => []RefsBacked
<1>1. BackedInv /\ [Next]_vars => BackedInv'
  BY BackedInvStep
<1>2. BackedInv => RefsBacked
  BY DEF BackedInv
<1> QED
  BY <1>1, <1>2, BackedInit, PTL DEF Spec

-----------------------------------------------------------------------------
(* What etcd and S3 are together.                                          *)

\* Objects arrive, or refs move, or HEAD is chosen.
StoreStep ==
  /\ packKeys \subseteq packKeys' /\ idxKeys \subseteq idxKeys'
  /\ \/ UNCHANGED <<refs, head>>
     \/ UNCHANGED <<head, packKeys, idxKeys>>
     \/ UNCHANGED <<refs, packKeys, idxKeys>> /\ head = NoRef /\ head' \in Branches

LEMMA StoreStepRefines ==
  ASSUME TypeOK', RefsBacked', StoreStep
  PROVE  [Store!Next]_Store!storeVars
<1> USE DEF Store!Next, Store!Keep, Store!Move, Store!Choose, Store!storeVars
<1>1. CASE UNCHANGED <<refs, head>>
  <2>1. Stored \subseteq Stored'
    BY StoredGrows DEF StoreStep
  <2>2. Stored' \subseteq Commits
    BY DEF TypeOK, S3TypeOK, Stored, Whole, Pack
  <2> QED BY <1>1, <2>1, <2>2
<1>2. CASE UNCHANGED <<head, packKeys, idxKeys>>
  <2>1. Stored' = Stored
    BY <1>2 DEF Stored, Whole
  <2>2. refs' \in Store!RefMap
    BY DEF TypeOK, EtcdTypeOK, RefMap, Store!RefMap, Sha, Store!Sha
  <2>3. Store!HistoryOf(refs') \subseteq Stored
    BY <2>1 DEF RefsBacked, HistoryOf, History, Store!HistoryOf, Store!History
  <2> QED BY <1>2, <2>1, <2>2, <2>3
<1>3. CASE UNCHANGED <<refs, packKeys, idxKeys>> /\ head = NoRef /\ head' \in Branches
  <2>1. Stored' = Stored
    BY <1>3 DEF Stored, Whole
  <2> QED BY <1>3, <2>1
<1> QED BY <1>1, <1>2, <1>3 DEF StoreStep

LEMMA StoreInit == Init => Store!Init
  BY DEF Init, EtcdInit, S3Init, Store!Init, Stored, Whole, NoRefs, Store!NoRefs

LEMMA ServeStoreStep ==
  ASSUME NEW c \in Clients, Step(c)
  PROVE  StoreStep
<1>1. CASE HookPutPack(c) \/ HookPutIdx(c)
  BY <1>1 DEF HookPutPack, HookPutIdx, PutPackKey, PutIdxKey, StoreStep
<1>2. CASE CasRefs(c)
  BY <1>2 DEF CasRefs, StoreStep
<1>3. CASE MaybeInitHEAD(c)
  BY <1>3 DEF MaybeInitHEAD, Named, PutHEADIfMissing, StoreStep
<1>4. CASE UNCHANGED <<refs, head, packKeys, idxKeys>>
  BY <1>4 DEF StoreStep
<1> QED
  BY <1>1, <1>2, <1>3, <1>4
  DEF Step, HandleFetch, HandleAdvert, HandlePost, Handle, Request, LockRepo,
      SyncRepo, GetVersion, SyncPacks, LoadPack, ListRefs, SyncWipe,
      SyncPackedRefs, SyncHead, SyncRecord, ServeFetch, Advertise, ReceivePack,
      ReceiveRefused, Hook, HookListPacks, CasRejected, BumpGet, BumpPut,
      Promote, Fault, Fail, TearIdx, TearRefs, TearPackedRefs, TearHead,
      TearVersion, HandlerGone

\* Under the conditions of EveryRefBacked, any number of servers make of etcd
\* and S3 one store of refs that only ever move onto what can be read back.
THEOREM ServersAreRefStore ==
  ASSUME OrphanAt = {}, ~Overlap, "putIdx" \notin FaultAt
  PROVE  Spec => ImplementsRefStore
<1>1. BackedInv /\ [Next]_vars => BackedInv'
  BY BackedInvStep
<1>2. BackedInv' /\ [Next]_vars => [Store!Next]_Store!storeVars
  <2> SUFFICES ASSUME BackedInv', [Next]_vars
               PROVE  [Store!Next]_Store!storeVars
    OBVIOUS
  <2>1. StoreStep
    <3>1. CASE LeaseExpire \/ UNCHANGED vars
      BY <3>1 DEF LeaseExpire, vars, StoreStep
    <3> QED BY <3>1, ServeStoreStep, NextSteps
  <2> QED BY <2>1, StoreStepRefines DEF BackedInv
<1> QED
  BY <1>1, <1>2, BackedInit, StoreInit, PTL DEF Spec, ImplementsRefStore, Store!Spec
=============================================================================
