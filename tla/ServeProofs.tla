----------------------------- MODULE ServeProofs ---------------------------
(***************************************************************************)
(* Theorems about Serve, for every number of servers, pushers, fetchers,   *)
(* refs and commits.                                                       *)
(***************************************************************************)
EXTENDS Serve, TLAPS

USE DEF etcdVars, s3Vars, cacheVars, localVars, pushVars, historyVars,
        handlerVars

LEMMA NoRefsType == NoRefs \in RefMap
  BY DEF NoRefs, RefMap, Sha

LEMMA EffType == ASSUME CacheTypeOK, NEW s \in Servers PROVE Eff(s) \in RefMap
  BY DEF CacheTypeOK, Eff, RefMap

LEMMA PutsType ==
  ASSUME EtcdTypeOK, NEW rs \in SUBSET Refs, NEW new \in RefMap, Puts(rs, new)
  PROVE  refs' \in RefMap
  BY DEF EtcdTypeOK, Puts, RefMap

LEMMA TypeInit == Init => TypeOK
<1> SUFFICES ASSUME Init PROVE TypeOK
  OBVIOUS
<1>1. EtcdTypeOK
  BY NoRefsType DEF Init, EtcdInit, EtcdTypeOK, Head
<1>2. S3TypeOK
  BY DEF Init, S3Init, S3TypeOK
<1>3. CacheTypeOK
  BY NoRefsType DEF Init, CacheInit, CacheTypeOK, Head
<1>4. /\ snap \in [Clients -> RefMap] /\ adv \in [Clients -> RefMap]
      /\ want \in [Clients -> RefMap] /\ snapHead \in [Clients -> Head]
  BY NoRefsType DEF Init, Head
<1>5. todo \in [Clients -> SUBSET Pack] /\ up \in [Clients -> Pack]
  BY DEF Init, Pack
<1>6. pc \in [Clients -> Steps] /\ \A c \in Clients : pc[c] \in Quiescent
  BY DEF Init, Steps, Quiescent
<1>7. \A c \in Fetchers : pc[c] = "idle"
  BY DEF Init, Clients
<1> QED
  BY <1>1, <1>2, <1>3, <1>4, <1>5, <1>6, <1>7 DEF Init, TypeOK

LEMMA LeaveType ==
  ASSUME TypeOK, NEW c \in Clients, Leave(c)
  PROVE  /\ req' \in [Clients -> {"none", "fetch", "advert", "post"}]
         /\ srv' \in [Clients -> Servers \cup {NoServer}]
         /\ \A d \in Clients : d # c => srv'[d] = srv[d]
         /\ mux' \in [Servers -> Clients \cup {NoOwner}]
         /\ seen' \in [Clients -> Nat]
         /\ todo' \in [Clients -> SUBSET Pack]
         /\ up' \in [Clients -> Pack]
         /\ snap' \in [Clients -> RefMap]
         /\ snapHead' \in [Clients -> Head]
         /\ owed' \in BOOLEAN
         /\ quiet' \in [Clients -> BOOLEAN]
  BY NoRefsType DEF TypeOK, Leave, ReleaseMutex, Head, Pack

LEMMA DispatchType ==
  ASSUME NEW c
  PROVE  /\ Dispatch(c) \in {"serve", "advert", "receive"}
         /\ Dispatch(c) \in Steps \ Quiescent
         /\ req[c] = "fetch" => Dispatch(c) = "serve"
  BY DEF Dispatch, Steps, Quiescent

LEMMA EndRequestType ==
  ASSUME TypeOK, NEW c \in Clients, EndRequest(c), EtcdTypeOK', S3TypeOK',
         CacheTypeOK'
  PROVE  TypeOK'
<1>1. pc' = [pc EXCEPT ![c] = "idle"] /\ pc' \in [Clients -> Steps]
  BY DEF EndRequest, Goto, TypeOK, Steps, Quiescent
<1>2. adv' \in [Clients -> RefMap] /\ want' \in [Clients -> RefMap]
  BY NoRefsType DEF EndRequest, TypeOK
<1>3. \A d \in Clients : pc'[d] \notin Quiescent => srv'[d] \in Servers
  BY <1>1, LeaveType DEF EndRequest, TypeOK, Quiescent
<1>4. \A d \in Fetchers : pc'[d] # "idle" =>
        req'[d] = "fetch" /\ pc'[d] \in SyncSteps \cup {"serve"}
  BY <1>1 DEF EndRequest, Leave, TypeOK, Clients
<1> QED
  BY <1>1, <1>2, <1>3, <1>4, LeaveType DEF EndRequest, TypeOK

LEMMA HandleType ==
  ASSUME TypeOK, NEW c \in Clients, NEW kind \in {"fetch", "advert", "post"},
         NEW step \in Steps, Handle(c, kind, step),
         adv' \in [Clients -> RefMap], want' \in [Clients -> RefMap],
         c \in Fetchers => kind = "fetch" /\ step \in SyncSteps
  PROVE  TypeOK'
<1>1. EtcdTypeOK' /\ S3TypeOK' /\ CacheTypeOK'
  BY DEF TypeOK, Handle, EtcdTypeOK, S3TypeOK, CacheTypeOK
<1>2. \A d \in Fetchers : pc'[d] # "idle" =>
        req'[d] = "fetch" /\ pc'[d] \in SyncSteps \cup {"serve"}
  BY DEF TypeOK, Handle, Goto, Clients
<1>3. /\ mux' \in [Servers -> Clients \cup {NoOwner}]
      /\ srv' \in [Clients -> Servers \cup {NoServer}]
      /\ \A d \in Clients : pc'[d] \notin Quiescent => srv'[d] \in Servers
  BY DEF TypeOK, Handle, Goto
<1>4. quiet' \in [Clients -> BOOLEAN]
  BY DEF TypeOK, Handle, Undisturbed
<1> QED
  BY <1>1, <1>2, <1>3, <1>4 DEF TypeOK, Handle, Goto

LEMMA TypeHandler ==
  ASSUME TypeOK, NEW c \in Clients,
         HandleFetch(c) \/ HandleAdvert(c) \/ HandlePost(c) \/ LockRepo(c)
  PROVE  TypeOK'
<1>1. CASE HandleFetch(c)
  BY <1>1, HandleType DEF HandleFetch, Steps, SyncSteps, TypeOK
<1>2. CASE HandleAdvert(c)
  BY <1>2, HandleType, ServeAssumption, NoRefsType DEF HandleAdvert, Steps, TypeOK
<1>3. CASE HandlePost(c)
  <2>1. c \notin Fetchers
    BY <1>3 DEF HandlePost, TypeOK, SyncSteps
  <2> QED
    BY <1>3, <2>1, HandleType DEF HandlePost, Steps, TypeOK
<1>4. CASE LockRepo(c)
  <2>1. S3TypeOK' /\ CacheTypeOK'
    BY <1>4 DEF TypeOK, LockRepo, S3TypeOK, CacheTypeOK
  <2>2. c \in Pushers
    BY <1>4 DEF TypeOK, LockRepo, Clients, SyncSteps
  <2>3. EtcdTypeOK'
    BY <1>4, <2>2 DEF TypeOK, LockRepo, AcquireLock, EtcdTypeOK
  <2>4. quiet' \in [Clients -> BOOLEAN]
    BY <1>4 DEF TypeOK, LockRepo, Undisturbed
  <2> QED
    BY <1>4, <2>1, <2>2, <2>3, <2>4, ServeAssumption
    DEF TypeOK, LockRepo, Goto, Steps, SyncSteps, Quiescent
<1> QED
  BY <1>1, <1>2, <1>3, <1>4

\* A request that goes on to a further step.
LEMMA StepType ==
  ASSUME TypeOK, NEW c \in Clients, pc[c] \notin Quiescent,
         NEW step \in Steps \ Quiescent, Goto(c, step),
         c \in Fetchers => step \in SyncSteps \cup {"serve"},
         UNCHANGED <<req, srv, mux, adv, want>>,
         EtcdTypeOK', S3TypeOK', CacheTypeOK',
         seen' \in [Clients -> Nat], todo' \in [Clients -> SUBSET Pack],
         up' \in [Clients -> Pack], snap' \in [Clients -> RefMap],
         snapHead' \in [Clients -> Head], owed' \in BOOLEAN,
         quiet' \in [Clients -> BOOLEAN]
  PROVE  TypeOK'
<1>1. pc' \in [Clients -> Steps]
  BY DEF Goto, TypeOK
<1>2. \A d \in Clients : pc'[d] \notin Quiescent => srv'[d] \in Servers
  BY DEF Goto, TypeOK
<1>3. \A d \in Fetchers : pc'[d] # "idle" =>
          req'[d] = "fetch" /\ pc'[d] \in SyncSteps \cup {"serve"}
  BY DEF Goto, TypeOK, Clients, Quiescent
<1> QED
  BY <1>1, <1>2, <1>3 DEF TypeOK

LEMMA TypeSync ==
  ASSUME TypeOK, NEW c \in Clients, SyncRepo(c) PROVE TypeOK'
<1>1. CASE GetVersion(c)
  <2>1. EtcdTypeOK' /\ S3TypeOK' /\ CacheTypeOK'
    BY <1>1 DEF TypeOK, GetVersion, EtcdTypeOK, S3TypeOK, CacheTypeOK
  <2>2. pc[c] \notin Quiescent /\ (c \in Fetchers => req[c] = "fetch")
    BY <1>1 DEF GetVersion, Quiescent, TypeOK
  <2>3. seen' \in [Clients -> Nat]
    BY <1>1 DEF GetVersion, TypeOK, EtcdTypeOK
  <2>4. CASE Goto(c, Dispatch(c))
    BY <1>1, <2>1, <2>2, <2>3, <2>4, DispatchType, StepType DEF GetVersion, TypeOK
  <2>5. CASE Goto(c, "listPacks")
    <3>1. "listPacks" \in Steps \ Quiescent /\ "listPacks" \in SyncSteps
      BY DEF Steps, Quiescent, SyncSteps
    <3> QED
      BY <1>1, <2>1, <2>2, <2>3, <2>5, <3>1, StepType DEF GetVersion, TypeOK
  <2> QED
    BY <1>1, <2>4, <2>5 DEF GetVersion
<1>2. CASE SyncPacks(c)
  <2>1. EtcdTypeOK' /\ S3TypeOK' /\ CacheTypeOK'
    BY <1>2 DEF TypeOK, SyncPacks, EtcdTypeOK, S3TypeOK, CacheTypeOK
  <2> QED
    BY <1>2, <2>1
    DEF TypeOK, SyncPacks, AfterDownload, Goto, Steps, SyncSteps, Quiescent,
        ListPacks, S3TypeOK
<1>3. CASE LoadPack(c)
  <2>1. EtcdTypeOK' /\ S3TypeOK' /\ CacheTypeOK'
    BY <1>3 DEF TypeOK, LoadPack, StorePack, EtcdTypeOK, S3TypeOK, CacheTypeOK,
                Steps, SyncSteps, Quiescent
  <2> QED
    BY <1>3, <2>1
    DEF TypeOK, LoadPack, AfterDownload, Goto, Steps, SyncSteps, Quiescent
<1>4. CASE ListRefs(c)
  <2>1. EtcdTypeOK' /\ S3TypeOK' /\ CacheTypeOK'
    BY <1>4 DEF TypeOK, ListRefs, EtcdTypeOK, S3TypeOK, CacheTypeOK
  <2> QED
    BY <1>4, <2>1
    DEF TypeOK, ListRefs, Goto, Steps, SyncSteps, Quiescent, EtcdTypeOK
<1>5. CASE SyncWipe(c)
  <2>1. EtcdTypeOK' /\ S3TypeOK' /\ CacheTypeOK'
    BY <1>5, NoRefsType
    DEF TypeOK, SyncWipe, WipeLooseRefs, EtcdTypeOK, S3TypeOK, CacheTypeOK
  <2> QED
    BY <1>5, <2>1 DEF TypeOK, SyncWipe, Goto, Steps, SyncSteps, Quiescent
<1>6. CASE SyncPackedRefs(c)
  <2>1. EtcdTypeOK' /\ S3TypeOK' /\ CacheTypeOK'
    BY <1>6
    DEF TypeOK, SyncPackedRefs, WritePackedRefs, EtcdTypeOK, S3TypeOK, CacheTypeOK
  <2> QED
    BY <1>6, <2>1 DEF TypeOK, SyncPackedRefs, Goto, Steps, SyncSteps, Quiescent
<1>7. CASE SyncHead(c)
  <2>1. EtcdTypeOK' /\ S3TypeOK' /\ CacheTypeOK'
    BY <1>7
    DEF TypeOK, SyncHead, WriteHead, EtcdTypeOK, S3TypeOK, CacheTypeOK
  <2> QED
    BY <1>7, <2>1 DEF TypeOK, SyncHead, Goto, Steps, SyncSteps, Quiescent
<1>8. CASE SyncRecord(c)
  <2>1. EtcdTypeOK' /\ S3TypeOK' /\ CacheTypeOK'
    BY <1>8
    DEF TypeOK, SyncRecord, WriteLocalVersion, EtcdTypeOK, S3TypeOK, CacheTypeOK
  <2> QED
    BY <1>8, <2>1, DispatchType, NoRefsType
    DEF TypeOK, SyncRecord, Goto, Steps, SyncSteps, Quiescent, Head
<1> QED
  BY <1>1, <1>2, <1>3, <1>4, <1>5, <1>6, <1>7, <1>8 DEF SyncRepo

LEMMA PusherSteps ==
  ASSUME TypeOK, NEW c \in Clients,
         pc[c] \in {"ready", "lock", "advert", "receive"} \cup Backend
  PROVE  c \in Pushers /\ c \notin Fetchers
  BY DEF TypeOK, Clients, SyncSteps, Backend, HookSteps

LEMMA TypeServe ==
  ASSUME TypeOK, NEW c \in Clients,
         \/ ServeFetch(c) \/ Advertise(c) \/ ReceivePack(c) \/ ReceiveRefused(c)
  PROVE  TypeOK'
<1>1. CASE ServeFetch(c)
  <2>1. EtcdTypeOK' /\ S3TypeOK' /\ CacheTypeOK'
    BY <1>1 DEF TypeOK, ServeFetch, EtcdTypeOK, S3TypeOK, CacheTypeOK
  <2> QED
    BY <1>1, <2>1, EndRequestType DEF ServeFetch
<1>2. CASE Advertise(c)
  <2>1. S3TypeOK' /\ CacheTypeOK'
    BY <1>2 DEF TypeOK, Advertise, S3TypeOK, CacheTypeOK
  <2>2. EtcdTypeOK'
    BY <1>2 DEF TypeOK, Advertise, Unlock, EtcdTypeOK
  <2>3. adv' \in [Clients -> RefMap] /\ want' \in [Clients -> RefMap]
    BY <1>2, EffType DEF TypeOK, Advertise, Quiescent
  <2>4. pc' = [pc EXCEPT ![c] = "ready"] /\ pc' \in [Clients -> Steps]
    BY <1>2 DEF Advertise, Goto, TypeOK, Steps, Quiescent
  <2>5. \A d \in Clients : pc'[d] \notin Quiescent => srv'[d] \in Servers
    BY <1>2, <2>4, LeaveType DEF Advertise, TypeOK, Quiescent
  <2>6. \A d \in Fetchers : pc'[d] # "idle" =>
          req'[d] = "fetch" /\ pc'[d] \in SyncSteps \cup {"serve"}
    BY <1>2, <2>4, PusherSteps DEF Advertise, Leave, TypeOK, Clients
  <2> QED
    BY <1>2, <2>1, <2>2, <2>3, <2>4, <2>5, <2>6, LeaveType DEF Advertise, TypeOK
<1>3. CASE ReceivePack(c)
  <2>1. EtcdTypeOK' /\ S3TypeOK' /\ CacheTypeOK'
    BY <1>3 DEF TypeOK, ReceivePack, EtcdTypeOK, S3TypeOK, CacheTypeOK
  <2>2. c \notin Fetchers
    BY <1>3, PusherSteps DEF ReceivePack
  <2> QED
    BY <1>3, <2>1, <2>2
    DEF TypeOK, ReceivePack, Goto, Steps, Backend, HookSteps, Quiescent
<1>4. CASE ReceiveRefused(c)
  <2>1. EtcdTypeOK' /\ S3TypeOK' /\ CacheTypeOK'
    BY <1>4 DEF TypeOK, ReceiveRefused, Unlock, EtcdTypeOK, S3TypeOK, CacheTypeOK
  <2> QED
    BY <1>4, <2>1, EndRequestType DEF ReceiveRefused
<1> QED
  BY <1>1, <1>2, <1>3, <1>4

LEMMA QuarantineType ==
  ASSUME TypeOK, NEW c \in Clients
  PROVE  Quarantine(c) \in Pack /\ Incoming(c) \subseteq Pack
<1>1. \A r \in Refs : History(want[c][r]) \subseteq Commits
  BY ReachAssumption DEF TypeOK, RefMap, Sha, History
<1>2. Commands(c) \subseteq Refs
  BY DEF Commands, Changed
<1>3. Quarantine(c) \in Pack
  BY <1>1, <1>2 DEF Quarantine, Needed, Pack
<1> QED
  BY <1>3 DEF Incoming

LEMMA TypeHook ==
  ASSUME TypeOK, NEW c \in Clients, Hook(c) PROVE TypeOK'
<1> USE DEF HookSteps, Backend
<1>0. pc[c] \in HookSteps /\ c \notin Fetchers /\ pc[c] \notin Quiescent
  BY PusherSteps
  DEF Hook, HookListPacks, HookPutPack, HookPutIdx, CasRefs, CasRejected,
      MaybeInitHEAD, BumpGet, BumpPut, Quiescent
<1>s. Backend \subseteq Steps \ Quiescent
  BY DEF Steps, Quiescent
<1>1. CASE HookListPacks(c)
  <2>1. EtcdTypeOK' /\ S3TypeOK' /\ CacheTypeOK'
    BY <1>1 DEF TypeOK, HookListPacks, EtcdTypeOK, S3TypeOK, CacheTypeOK
  <2>2. srv[c] \in Servers
    BY <1>0 DEF TypeOK
  <2>3. (Incoming(c) \cup packDir[srv[c]]) \ ListPacks \in SUBSET Pack
    BY <2>2, QuarantineType DEF TypeOK, CacheTypeOK
  <2>4. todo' \in [Clients -> SUBSET Pack]
    BY <1>1, <2>3 DEF HookListPacks, TypeOK
  <2>5. PICK step \in {"cas", "putPack"} : Goto(c, step)
    BY <1>1 DEF HookListPacks, AfterUpload
  <2> QED
    BY <1>0, <1>1, <1>s, <2>1, <2>4, <2>5, StepType DEF HookListPacks, TypeOK
<1>2. CASE HookPutPack(c)
  <2>1. EtcdTypeOK' /\ S3TypeOK' /\ CacheTypeOK'
    BY <1>2
    DEF TypeOK, HookPutPack, PutPackKey, EtcdTypeOK, S3TypeOK, CacheTypeOK
  <2>2. up' \in [Clients -> Pack]
    BY <1>2 DEF HookPutPack, TypeOK
  <2> QED
    BY <1>0, <1>2, <1>s, <2>1, <2>2, StepType DEF HookPutPack, TypeOK
<1>3. CASE HookPutIdx(c)
  <2>1. EtcdTypeOK' /\ S3TypeOK' /\ CacheTypeOK'
    BY <1>3
    DEF TypeOK, HookPutIdx, PutIdxKey, EtcdTypeOK, S3TypeOK, CacheTypeOK
  <2>2. up' \in [Clients -> Pack] /\ todo' \in [Clients -> SUBSET Pack]
    BY <1>3 DEF HookPutIdx, TypeOK, Pack
  <2>3. PICK step \in {"cas", "putPack"} : Goto(c, step)
    BY <1>3 DEF HookPutIdx, AfterUpload
  <2> QED
    BY <1>0, <1>3, <1>s, <2>1, <2>2, <2>3, StepType DEF HookPutIdx, TypeOK
<1>4. CASE CasRefs(c)
  <2>1. S3TypeOK' /\ CacheTypeOK'
    BY <1>4 DEF TypeOK, CasRefs, S3TypeOK, CacheTypeOK
  <2>2. refs' \in RefMap
    <3>1. Commands(c) \in SUBSET Refs
      BY DEF Commands, Changed
    <3>2. Puts(Commands(c), want[c])
      BY <1>4 DEF CasRefs, UpdateRefsCAS
    <3> QED
      BY <3>1, <3>2, PutsType DEF TypeOK
  <2>3. EtcdTypeOK'
    BY <1>4, <2>2 DEF TypeOK, CasRefs, EtcdTypeOK
  <2> QED
    BY <1>0, <1>4, <1>s, <2>1, <2>3, StepType DEF CasRefs, TypeOK
<1>5. CASE CasRejected(c)
  <2>1. EtcdTypeOK' /\ S3TypeOK' /\ CacheTypeOK'
    BY <1>5 DEF TypeOK, CasRejected, Unlock, EtcdTypeOK, S3TypeOK, CacheTypeOK
  <2> QED
    BY <1>5, <2>1, EndRequestType DEF CasRejected
<1>6. CASE MaybeInitHEAD(c)
  <2>1. S3TypeOK' /\ CacheTypeOK'
    BY <1>6 DEF TypeOK, MaybeInitHEAD, S3TypeOK, CacheTypeOK
  <2>2. EtcdTypeOK'
    BY <1>6
    DEF TypeOK, MaybeInitHEAD, Named, PutHEADIfMissing, EtcdTypeOK, Head
  <2> QED
    BY <1>0, <1>6, <1>s, <2>1, <2>2, StepType DEF MaybeInitHEAD, TypeOK
<1>7. CASE BumpGet(c)
  <2>1. EtcdTypeOK' /\ S3TypeOK' /\ CacheTypeOK'
    BY <1>7 DEF TypeOK, BumpGet, EtcdTypeOK, S3TypeOK, CacheTypeOK
  <2>2. seen' \in [Clients -> Nat]
    BY <1>7 DEF BumpGet, TypeOK, EtcdTypeOK
  <2> QED
    BY <1>0, <1>7, <1>s, <2>1, <2>2, StepType DEF BumpGet, TypeOK
<1>8. CASE BumpPut(c)
  <2>1. EtcdTypeOK' /\ S3TypeOK' /\ CacheTypeOK'
    BY <1>8 DEF TypeOK, BumpPut, PutVersion, EtcdTypeOK, S3TypeOK, CacheTypeOK
  <2>2. seen' \in [Clients -> Nat]
    BY <1>8 DEF BumpPut, TypeOK
  <2> QED
    BY <1>0, <1>8, <1>s, <2>1, <2>2, StepType DEF BumpPut, TypeOK
<1> QED
  BY <1>1, <1>2, <1>3, <1>4, <1>5, <1>6, <1>7, <1>8 DEF Hook

LEMMA TypePromote ==
  ASSUME TypeOK, NEW c \in Clients, Promote(c) PROVE TypeOK'
<1>1. EtcdTypeOK' /\ S3TypeOK'
  BY DEF TypeOK, Promote, Unlock, EtcdTypeOK, S3TypeOK
<1>2. packDir' \in [Servers -> SUBSET Pack]
  BY QuarantineType DEF TypeOK, CacheTypeOK, Promote
<1>3. looseRefs' \in [Servers -> RefMap] /\ packedRefs' \in [Servers -> RefMap]
  <2>1. PICK done : ApplyRefs(srv[c], done, want[c])
    BY DEF Promote
  <2>2. srv[c] \in Servers
    BY DEF Promote, TypeOK, Quiescent
  <2>3. /\ looseRefs[srv[c]] \in RefMap /\ packedRefs[srv[c]] \in RefMap
        /\ want[c] \in RefMap
    BY <2>2 DEF TypeOK, CacheTypeOK
  <2>4. [r \in Refs |-> IF r \in done THEN want[c][r]
                        ELSE looseRefs[srv[c]][r]] \in RefMap
    BY <2>3 DEF RefMap
  <2>5. [r \in Refs |-> IF r \in done /\ want[c][r] = NoSha THEN NoSha
                        ELSE packedRefs[srv[c]][r]] \in RefMap
    BY <2>3 DEF RefMap, Sha
  <2> QED
    BY <2>1, <2>4, <2>5 DEF ApplyRefs, TypeOK, CacheTypeOK
<1>4. CacheTypeOK'
  BY <1>2, <1>3 DEF Promote, TypeOK, CacheTypeOK
<1> QED
  BY <1>1, <1>4, EndRequestType DEF Promote

LEMMA AbortType ==
  ASSUME TypeOK, NEW c \in Clients, Abort(c), UNCHANGED <<refs, head, version>>,
         S3TypeOK', CacheTypeOK'
  PROVE  TypeOK'
<1>1. EtcdTypeOK'
  BY DEF TypeOK, Abort, Unlock, Abandon, EtcdTypeOK
<1> QED
  BY <1>1, EndRequestType DEF Abort

LEMMA TypeFault ==
  ASSUME TypeOK, NEW c \in Clients, Fault(c) PROVE TypeOK'
<1>1. CASE Fail(c)
  <2>1. S3TypeOK' /\ CacheTypeOK'
    BY <1>1 DEF TypeOK, Fail, S3TypeOK, CacheTypeOK
  <2> QED
    BY <1>1, <2>1, AbortType DEF Fail
<1>2. CASE TearIdx(c)
  <2>0. PICK p \in Pack : StorePack(srv[c], p) /\ TearIdxFile(srv[c], p)
    BY <1>2 DEF TearIdx, TypeOK
  <2>1. S3TypeOK' /\ CacheTypeOK'
    BY <1>2, <2>0
    DEF TypeOK, TearIdx, StorePack, TearIdxFile, S3TypeOK, CacheTypeOK
  <2> QED
    BY <1>2, <2>1, AbortType DEF TearIdx
<1>3. CASE TearRefs(c) \/ TearPackedRefs(c)
  <2>1. looseRefs' \in [Servers -> RefMap]
    <3>1. CASE TearRefs(c)
      <4>1. PICK gone \in SUBSET Refs : RemoveLooseRefs(srv[c], gone)
        BY <3>1 DEF TearRefs
      <4>2. \A map \in RefMap :
              [r \in Refs |-> IF r \in gone THEN NoSha ELSE map[r]] \in RefMap
        BY DEF RefMap, Sha
      <4> QED
        BY <4>1, <4>2 DEF TypeOK, CacheTypeOK, RemoveLooseRefs
    <3>2. CASE TearPackedRefs(c)
      BY <3>2 DEF TypeOK, CacheTypeOK, TearPackedRefs
    <3> QED
      BY <1>3, <3>1, <3>2
  <2>2. packedRefs' \in [Servers -> RefMap]
    BY <1>3, NoRefsType
    DEF TypeOK, CacheTypeOK, TearRefs, TearPackedRefs, WritePackedRefs
  <2>3. S3TypeOK' /\ CacheTypeOK'
    BY <1>3, <2>1, <2>2
    DEF TypeOK, TearRefs, TearPackedRefs, S3TypeOK, CacheTypeOK
  <2> QED
    BY <1>3, <2>3, AbortType DEF TearRefs, TearPackedRefs
<1>4. CASE TearHead(c)
  <2>1. S3TypeOK' /\ CacheTypeOK'
    BY <1>4 DEF TypeOK, TearHead, TruncateHead, S3TypeOK, CacheTypeOK, Head
  <2> QED
    BY <1>4, <2>1, AbortType DEF TearHead
<1>5. CASE TearVersion(c)
  <2>1. S3TypeOK' /\ CacheTypeOK'
    BY <1>5 DEF TypeOK, TearVersion, WriteLocalVersion, S3TypeOK, CacheTypeOK
  <2> QED
    BY <1>5, <2>1, AbortType DEF TearVersion
<1>6. CASE HandlerGone(c)
  <2>1. S3TypeOK' /\ CacheTypeOK'
    BY <1>6 DEF TypeOK, HandlerGone, S3TypeOK, CacheTypeOK
  <2>2. EtcdTypeOK'
    BY <1>6 DEF TypeOK, HandlerGone, Unlock, Abandon, EtcdTypeOK
  <2>3. mux' \in [Servers -> Clients \cup {NoOwner}]
    BY <1>6 DEF HandlerGone, ReleaseMutex, TypeOK
  <2> QED
    BY <1>6, <2>1, <2>2, <2>3 DEF HandlerGone, TypeOK
<1> QED
  BY <1>1, <1>2, <1>3, <1>4, <1>5, <1>6 DEF Fault

LEMMA TypeExpire == ASSUME TypeOK, LeaseExpire PROVE TypeOK'
<1>1. EtcdTypeOK' /\ S3TypeOK' /\ CacheTypeOK'
  BY DEF LeaseExpire, Expire, TypeOK, EtcdTypeOK, S3TypeOK, CacheTypeOK
<1> QED
  BY <1>1 DEF LeaseExpire, TypeOK

LEMMA TypeStutter == ASSUME TypeOK, UNCHANGED vars PROVE TypeOK'
  BY DEF vars, TypeOK, EtcdTypeOK, S3TypeOK, CacheTypeOK

LEMMA TypeStep == TypeOK /\ [Next]_vars => TypeOK'
<1> SUFFICES ASSUME TypeOK, [Next]_vars PROVE TypeOK'
  OBVIOUS
<1>1. ASSUME NEW c \in Clients,
             HandleFetch(c) \/ HandleAdvert(c) \/ HandlePost(c)
      PROVE  TypeOK'
  BY <1>1, TypeHandler
<1>2. ASSUME NEW c \in Clients, Request(c) PROVE TypeOK'
  BY <1>2, TypeHandler, TypeSync, TypeServe, TypeHook, TypePromote DEF Request
<1>3. ASSUME NEW c \in Clients, Fault(c) PROVE TypeOK'
  BY <1>3, TypeFault
<1> QED
  BY <1>1, <1>2, <1>3, TypeExpire, TypeStutter DEF Next

\* Every handler, sync, hook and failure step leaves every key, file and
\* local of the right type; in particular HEAD only ever names a branch, and
\* a fetch never gets to the lock or the hook.
THEOREM TypeCorrect == Spec => []TypeOK
  BY TypeInit, TypeStep, PTL DEF Spec

-----------------------------------------------------------------------------

\* A ref that does not move has not gone backwards.
LEMMA StayIsFastForward ==
  ASSUME EtcdTypeOK, NEW r \in Refs PROVE FastForward(refs[r], refs[r])
<1>1. refs[r] = NoSha \/ refs[r] \in Commits
  BY DEF EtcdTypeOK, RefMap, Sha
<1> QED
  BY <1>1, ReachAssumption DEF FastForward, History

\* No step but the transaction of casRefs writes a ref.
LEMMA OnlyCasWritesRefs ==
  ASSUME [Next]_vars, refs' # refs
  PROVE  \E c \in Clients : CasRefs(c)
<1>1. ASSUME NEW c \in Clients, SyncRepo(c) PROVE refs' = refs
  BY <1>1
  DEF SyncRepo, GetVersion, SyncPacks, LoadPack, ListRefs, SyncWipe,
      SyncPackedRefs, SyncHead, SyncRecord
<1>2. ASSUME NEW c \in Clients, Hook(c) PROVE refs' = refs \/ CasRefs(c)
  BY <1>2
  DEF Hook, HookListPacks, HookPutPack, HookPutIdx, CasRejected,
      MaybeInitHEAD, BumpGet, BumpPut
<1>3. ASSUME NEW c \in Clients, Request(c) PROVE refs' = refs \/ CasRefs(c)
  BY <1>1, <1>2, <1>3
  DEF Request, LockRepo, ServeFetch, Advertise, ReceivePack, ReceiveRefused,
      Promote
<1>4. ASSUME NEW c \in Clients, Fault(c) PROVE refs' = refs
  BY <1>4
  DEF Fault, Fail, TearIdx, TearRefs, TearPackedRefs, TearHead, TearVersion,
      HandlerGone
<1>5. ASSUME NEW c \in Clients,
             HandleFetch(c) \/ HandleAdvert(c) \/ HandlePost(c)
      PROVE  refs' = refs
  BY <1>5 DEF HandleFetch, HandleAdvert, HandlePost, Handle
<1>6. LeaseExpire => refs' = refs
  BY DEF LeaseExpire
<1>7. UNCHANGED vars => refs' = refs
  BY DEF vars
<1> QED
  BY <1>3, <1>4, <1>5, <1>6, <1>7 DEF Next

\* The transaction of casRefs moves a ref from the value the pusher was shown
\* to the value it wants, or leaves it.
LEMMA CasMoves ==
  ASSUME TypeOK, NEW c \in Clients, CasRefs(c), NEW r \in Refs
  PROVE  \/ refs'[r] = refs[r]
         \/ adv[c][r] = refs[r] /\ want[c][r] = refs'[r]
  BY DEF CasRefs, UpdateRefsCAS, Compares, Puts, Changed, Commands

\* A ref loses history only through a push whose pusher was shown the very
\* value that is lost: the compares of UpdateRefsCAS alone give this, with no
\* help from the lock, the caches or the order of the other steps, and under
\* every failure the model has.
THEOREM NoSilentRewind == Spec => FastForwardOnly
<1>1. ASSUME TypeOK, [Next]_vars, NEW r \in Refs,
             ~FastForward(refs[r], refs'[r])
      PROVE  \E c \in Pushers : /\ pc[c] = "cas"
                                /\ adv[c][r] = refs[r]
                                /\ want[c][r] = refs'[r]
  <2>1. refs'[r] # refs[r]
    BY <1>1, StayIsFastForward DEF TypeOK
  <2>2. PICK c \in Clients : CasRefs(c)
    BY <1>1, <2>1, OnlyCasWritesRefs
  <2>3. pc[c] = "cas" /\ c \in Pushers
    BY <1>1, <2>2, PusherSteps DEF CasRefs, Backend, HookSteps
  <2> QED
    BY <1>1, <2>1, <2>2, <2>3, CasMoves
<1>2. TypeOK /\ [Next]_vars =>
        [\A r \in Refs : ~FastForward(refs[r], refs'[r]) =>
           \E c \in Pushers : /\ pc[c] = "cas"
                              /\ adv[c][r] = refs[r]
                              /\ want[c][r] = refs'[r]]_vars
  BY <1>1
<1> QED
  BY <1>2, TypeCorrect, PTL DEF Spec, FastForwardOnly
=============================================================================
