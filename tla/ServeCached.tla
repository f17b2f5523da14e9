----------------------------- MODULE ServeCached ---------------------------
(***************************************************************************)
(* A server is only a cache, whatever crashes, hangs up or expires: what   *)
(* it has in its main store, the bucket has.                               *)
(***************************************************************************)
EXTENDS ServeBacked

USE DEF etcdVars, s3Vars, cacheVars, localVars, pushVars, historyVars,
        handlerVars

\* A hook that has not uploaded a pack of its quarantine has it on its list,
\* and the index of a pack never gets to the bucket before the pack.
Listed(c) ==
  /\ pc[c] = "putIdx" => up[c] \in packKeys
  /\ pc[c] \in Uploading => Incoming(c) \subseteq packKeys \cup todo[c]
  /\ pc[c] \in Uploaded => Incoming(c) \subseteq packKeys

CachedInv ==
  /\ TypeOK /\ ServerIsCache
  /\ idxKeys \subseteq packKeys
  /\ \A c \in Clients : Listed(c)

LEMMA ListedFrame ==
  ASSUME NEW d, Listed(d), packKeys \subseteq packKeys', pc'[d] = pc[d],
         up'[d] = up[d], todo'[d] = todo[d], adv'[d] = adv[d], want'[d] = want[d]
  PROVE  Listed(d)'
<1>1. Commands(d)' = Commands(d)
  BY DEF Commands, Changed
<1>2. Needed(d)' = Needed(d)
  BY <1>1 DEF Needed
<1>3. Incoming(d)' = Incoming(d)
  BY <1>2 DEF Quarantine, Incoming, HistoryOf
<1> QED
  BY <1>3 DEF Listed

LEMMA NotListed == ASSUME NEW d, pc'[d] \notin Backend PROVE Listed(d)'
  BY DEF Listed, Backend, HookSteps, Uploading, Uploaded

\* The index of a pack is put after the pack.
LEMMA KeysStep ==
  ASSUME CachedInv, NEW c \in Clients, Step(c)
  PROVE  packKeys \subseteq packKeys' /\ idxKeys' \subseteq packKeys'
<1>1. CASE HookPutPack(c)
  BY <1>1 DEF HookPutPack, PutPackKey, CachedInv
<1>2. CASE HookPutIdx(c)
  BY <1>2 DEF HookPutIdx, PutIdxKey, CachedInv, Listed
<1>3. CASE UNCHANGED s3Vars
  BY <1>3 DEF CachedInv
<1> QED
  BY <1>1, <1>2, <1>3
  DEF Step, HandleFetch, HandleAdvert, HandlePost, Handle, Request, LockRepo,
      SyncRepo, GetVersion, SyncPacks, LoadPack, ListRefs, SyncWipe,
      SyncPackedRefs, SyncHead, SyncRecord, ServeFetch, Advertise, ReceivePack,
      ReceiveRefused, Hook, HookListPacks, CasRefs, CasRejected, MaybeInitHEAD,
      BumpGet, BumpPut, Promote, Fault, Fail, TearIdx, TearRefs,
      TearPackedRefs, TearHead, TearVersion, HandlerGone

\* A pack gets into a main store from the bucket, or from a quarantine that
\* the hook has uploaded.
LEMMA CacheFills ==
  ASSUME CachedInv, NEW c \in Clients, Step(c) PROVE ServerIsCache'
<1>1. ASSUME NEW p \in Whole, NEW s, StorePack(s, p) PROVE ServerIsCache'
  BY <1>1, KeysStep
  DEF StorePack, Whole, CachedInv, ServerIsCache, TypeOK, CacheTypeOK
<1>2. CASE LoadPack(c) \/ TearIdx(c)
  <2>1. PICK p : (p \in Whole /\ StorePack(srv[c], p)) \/ packDir' = packDir
    BY <1>2 DEF LoadPack, TearIdx
  <2> QED
    BY <1>1, <2>1, KeysStep DEF CachedInv, ServerIsCache
<1>3. CASE Promote(c)
  <2>1. Incoming(c) \subseteq packKeys
    BY <1>3 DEF Promote, CachedInv, Listed, Uploaded
  <2> QED
    BY <1>3, <2>1, KeysStep
    DEF Promote, CachedInv, ServerIsCache, TypeOK, CacheTypeOK
<1>4. CASE packDir' = packDir
  BY <1>4, KeysStep DEF CachedInv, ServerIsCache
<1> QED
  BY <1>2, <1>3, <1>4
  DEF Step, HandleFetch, HandleAdvert, HandlePost, Handle, Request, LockRepo,
      SyncRepo, GetVersion, SyncPacks, ListRefs, SyncWipe, SyncPackedRefs,
      SyncHead, SyncRecord, ServeFetch, Advertise, ReceivePack, ReceiveRefused,
      Hook, HookListPacks, HookPutPack, HookPutIdx, CasRefs, CasRejected,
      MaybeInitHEAD, BumpGet, BumpPut, Fault, Fail, TearRefs, TearPackedRefs,
      TearHead, TearVersion, HandlerGone

\* The list of a hook, step by step.
LEMMA ListedStep ==
  ASSUME CachedInv, NEW c \in Clients, Step(c) PROVE Listed(c)'
<1>0. Listed(c) /\ packKeys \subseteq packKeys'
  BY KeysStep DEF CachedInv
<1>1. CASE HookListPacks(c)
  <2> DEFINE fresh == (Incoming(c) \cup packDir[srv[c]]) \ ListPacks
  <2>1. /\ todo'[c] = fresh /\ pc'[c] = AfterUpload(fresh)
        /\ UNCHANGED <<packKeys, adv, want>>
    BY <1>1 DEF HookListPacks, Goto, CachedInv, TypeOK
  <2>2. Incoming(c) \subseteq packKeys \cup fresh
    BY DEF CachedInv, ListPacks
  <2>3. Incoming(c)' = Incoming(c)
    BY <2>1, PushStays
  <2>4. CASE fresh = {}
    BY <2>1, <2>2, <2>3, <2>4 DEF Listed, AfterUpload, Uploading, Uploaded
  <2>5. CASE fresh # {}
    BY <2>1, <2>2, <2>3, <2>5 DEF Listed, AfterUpload, Uploading, Uploaded
  <2> QED
    BY <2>4, <2>5
<1>2. CASE HookPutPack(c)
  <2>1. PICK p \in todo[c] : packKeys' = packKeys \cup {p} /\ up'[c] = p
    BY <1>2 DEF HookPutPack, PutPackKey, CachedInv, TypeOK
  <2>2. pc'[c] = "putIdx" /\ pc[c] = "putPack" /\ UNCHANGED <<todo, adv, want>>
    BY <1>2 DEF HookPutPack, Goto, CachedInv, TypeOK
  <2>3. Incoming(c)' = Incoming(c)
    BY <2>2, PushStays
  <2> QED
    BY <1>0, <2>1, <2>2, <2>3 DEF Listed, Uploading, Uploaded
<1>3. CASE HookPutIdx(c)
  <2>1. /\ pc[c] = "putIdx" /\ todo'[c] = todo[c] \ {up[c]}
        /\ pc'[c] = AfterUpload(todo'[c]) /\ UNCHANGED <<packKeys, adv, want>>
    BY <1>3 DEF HookPutIdx, PutIdxKey, Goto, CachedInv, TypeOK
  <2>2. Incoming(c)' = Incoming(c)
    BY <2>1, PushStays
  <2>3. Incoming(c) \subseteq packKeys \cup todo'[c]
    BY <1>0, <2>1 DEF Listed, Uploading
  <2>4. CASE todo'[c] = {}
    BY <2>1, <2>2, <2>3, <2>4 DEF Listed, AfterUpload, Uploading, Uploaded
  <2>5. CASE todo'[c] # {}
    BY <2>1, <2>2, <2>3, <2>5 DEF Listed, AfterUpload, Uploading, Uploaded
  <2> QED
    BY <2>4, <2>5
<1>4. CASE CasRefs(c) \/ MaybeInitHEAD(c) \/ BumpGet(c) \/ BumpPut(c)
  <2>1. /\ pc[c] \in Uploaded /\ pc'[c] \in Uploaded /\ UNCHANGED <<adv, want>>
    BY <1>4
    DEF CasRefs, MaybeInitHEAD, BumpGet, BumpPut, Goto, Uploaded, CachedInv,
        TypeOK
  <2>2. Incoming(c)' = Incoming(c)
    BY <2>1, PushStays
  <2> QED
    BY <1>0, <2>1, <2>2 DEF Listed, Uploading, Uploaded
<1>5. CASE HandlerGone(c)
  BY <1>0, <1>5, ListedFrame DEF HandlerGone
<1>6. CASE EndRequest(c)
  BY <1>6, EndOthersKeep, NotListed DEF CachedInv, Backend, HookSteps
<1>7. CASE ReceivePack(c)
  <2>1. pc'[c] = "hookList"
    BY <1>7 DEF ReceivePack, Goto, CachedInv, TypeOK
  <2> QED
    BY <2>1 DEF Listed, Uploading, Uploaded
<1>8. CASE HandleFetch(c) \/ HandleAdvert(c) \/ HandlePost(c) \/ LockRepo(c)
           \/ Advertise(c)
  <2>1. PICK step \in {"lock", "getVersion", "ready"} : Goto(c, step)
    BY <1>8
    DEF HandleFetch, HandleAdvert, HandlePost, Handle, LockRepo, Advertise
  <2> QED
    BY <2>1, NotListed DEF Goto, CachedInv, TypeOK, Backend, HookSteps
<1>9. CASE SyncRepo(c)
  <2>1. PICK step \in SyncSteps \cup {Dispatch(c)} : Goto(c, step)
    BY <1>9
    DEF SyncRepo, GetVersion, SyncPacks, LoadPack, ListRefs, SyncWipe,
        SyncPackedRefs, SyncHead, SyncRecord, AfterDownload, SyncSteps
  <2>2. step \notin Backend
    BY DispatchType DEF SyncSteps, Backend, HookSteps
  <2> QED
    BY <2>1, <2>2, NotListed DEF Goto, CachedInv, TypeOK
<1> QED
  BY <1>1, <1>2, <1>3, <1>4, <1>5, <1>6, <1>7, <1>8, <1>9
  DEF Step, Request, ServeFetch, ReceiveRefused, Hook, CasRejected, Promote,
      Fault, Fail, TearIdx, TearRefs, TearPackedRefs, TearHead, TearVersion,
      Abort

\* A server is only a cache: a pack in its main store is in the bucket, on
\* any number of servers, with leases that expire under live pushes, hooks
\* that outlive their handler and a failure at any step.
THEOREM ServersOnlyCache == Spec => []ServerIsCache
<1>1. Init => CachedInv
  <2> SUFFICES ASSUME Init PROVE CachedInv
    OBVIOUS
  <2>1. \A c \in Clients : Listed(c)
    BY DEF Init, Listed, Uploading, Uploaded
  <2> QED
    BY <2>1, TypeInit DEF Init, S3Init, CacheInit, ServerIsCache, CachedInv
<1>2. ASSUME CachedInv, [Next]_vars PROVE CachedInv'
  <2>1. TypeOK'
    BY <1>2, TypeStep DEF CachedInv
  <2>2. ASSUME NEW c \in Clients, Step(c) PROVE CachedInv'
    <3>1. \A d \in Clients : Listed(d)'
      BY <1>2, <2>2, ListedStep, KeysStep, StepOthersKeep, ListedFrame
      DEF CachedInv, OthersKeep
    <3> QED
      BY <1>2, <2>1, <2>2, <3>1, KeysStep, CacheFills DEF CachedInv
  <2>3. CASE LeaseExpire \/ UNCHANGED vars
    <3>1. UNCHANGED <<packKeys, idxKeys, packDir, pc, up, todo, adv, want>>
      BY <2>3 DEF LeaseExpire, vars
    <3>2. \A d \in Clients : Listed(d)'
      BY <1>2, <3>1, ListedFrame DEF CachedInv
    <3> QED
      BY <1>2, <2>1, <3>1, <3>2 DEF CachedInv, ServerIsCache
  <2> QED
    BY <1>2, <2>2, <2>3, NextSteps
<1>3. CachedInv => ServerIsCache
  BY DEF CachedInv
<1>4. CachedInv /\ [Next]_vars => CachedInv'
  BY <1>2
<1> QED
  BY <1>1, <1>3, <1>4, PTL DEF Spec
=============================================================================
