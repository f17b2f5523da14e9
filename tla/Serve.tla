-------------------------------- MODULE Serve ------------------------------
(***************************************************************************)
(* `ogorod serve` on several hosts, with the pre-receive hook, over the    *)
(* shared etcd keys and pack area.  A request is one HTTP request and the  *)
(* git processes and the hook it starts; pc[c] names the call the request  *)
(* of client c makes next.  `ogorod serve-thin` takes the same steps in    *)
(* the same order, but those of SyncRepo in a child of the git process     *)
(* (wrap.go): there a sync can outlive its handler too.                    *)
(*                                                                         *)
(* A git push is two requests: info/refs gives the pusher adv[c], and the  *)
(* POST asks for the refs to become want[c].  Between the two the pusher   *)
(* is "ready"; any server may get the POST.                                *)
(***************************************************************************)
EXTENDS Etcd, S3, Cache

CONSTANTS
  Fetchers,  \* the git clients that clone and fetch; Pushers are the others
  NoServer,  \* srv of a client with no request
  FaultAt,   \* the steps at which a request may fail
  TornFiles, \* what a failing sync may leave half written, or half removed
  OrphanAt,  \* the steps at which the HTTP handler may be gone before git is
  Overlap,   \* TRUE when a lease may expire under a live push
  MaxVersion \* bound: no push starts at this version

Clients == Pushers \cup Fetchers

SyncSteps == {"getVersion", "listPacks", "download", "listRefs", "wipe",
              "packed", "head", "record"}
HookSteps == {"hookList", "putPack", "putIdx", "cas", "initHead", "bumpGet",
              "bumpPut"}
Backend   == HookSteps \cup {"promote"}
InChild   == Backend \cup SyncSteps
Quiescent == {"idle", "ready"}
Steps     == Quiescent \cup {"lock", "serve", "advert", "receive"}
                       \cup SyncSteps \cup Backend

ASSUME ServeAssumption ==
  /\ Pushers \cap Fetchers = {}
  /\ NoServer \notin Servers
  /\ NoOwner \notin Clients /\ DeadSession \notin Clients
  /\ FaultAt \subseteq Steps \ Quiescent
  /\ TornFiles \subseteq {"idx", "refs", "packed-refs", "HEAD", ".ogorod-version"}
  /\ OrphanAt \subseteq InChild
  /\ Overlap \in BOOLEAN
  /\ MaxVersion \in Nat

VARIABLES
  pc,        \* the next call of each client's request
  req,       \* what was requested
  srv,       \* the server that got it
  mux,       \* server.repoMux: whose request is inside on each server
  seen,      \* the version GetVersion returned
  todo,      \* packs still to download, or to upload
  up,        \* the pack between its two PUTs, {} when none
  snap,      \* what ListRefs returned
  snapHead,  \* and the HEAD entry of it
  adv,       \* the refs advertised to a pusher
  want,      \* the refs its push asks for
  owed,      \* history: refs changed in etcd and no version bump since
  quiet      \* history: no hook was between its CAS and its bump when the
             \* request began, or got the lock, and no ref changed since

localVars   == <<seen, todo, up, snap, snapHead>>
pushVars    == <<adv, want>>
historyVars == <<owed, quiet>>
handlerVars == <<req, srv, mux>>

vars == <<refs, head, version, lock, packKeys, idxKeys, packDir, tornIdx,
          packedRefs, looseRefs, headFile, versionFile, pc, req, srv, mux,
          seen, todo, up, snap, snapHead, adv, want, owed, quiet>>

TypeOK ==
  /\ EtcdTypeOK /\ S3TypeOK /\ CacheTypeOK
  /\ pc \in [Clients -> Steps]
  /\ req \in [Clients -> {"none", "fetch", "advert", "post"}]
  /\ srv \in [Clients -> Servers \cup {NoServer}]
  /\ \A c \in Clients : pc[c] \notin Quiescent => srv[c] \in Servers
  /\ \A c \in Fetchers : pc[c] # "idle" =>
       req[c] = "fetch" /\ pc[c] \in SyncSteps \cup {"serve"}
  /\ mux \in [Servers -> Clients \cup {NoOwner}]
  /\ seen \in [Clients -> Nat]
  /\ todo \in [Clients -> SUBSET Pack]
  /\ up \in [Clients -> Pack]
  /\ snap \in [Clients -> RefMap]
  /\ snapHead \in [Clients -> Head]
  /\ adv \in [Clients -> RefMap]
  /\ want \in [Clients -> RefMap]
  /\ owed \in BOOLEAN
  /\ quiet \in [Clients -> BOOLEAN]

Init ==
  /\ EtcdInit /\ S3Init /\ CacheInit
  /\ pc = [c \in Clients |-> "idle"]
  /\ req = [c \in Clients |-> "none"]
  /\ srv = [c \in Clients |-> NoServer]
  /\ mux = [s \in Servers |-> NoOwner]
  /\ seen = [c \in Clients |-> 0]
  /\ todo = [c \in Clients |-> {}]
  /\ up = [c \in Clients |-> {}]
  /\ snap = [c \in Clients |-> NoRefs]
  /\ snapHead = [c \in Clients |-> NoRef]
  /\ adv = [c \in Clients |-> NoRefs]
  /\ want = [c \in Clients |-> NoRefs]
  /\ owed = FALSE
  /\ quiet = [c \in Clients |-> FALSE]

Goto(c, step) == pc' = [pc EXCEPT ![c] = step]

\* What handleInner does once SyncRepo has returned.
Dispatch(c) == CASE req[c] = "fetch"  -> "serve"
                 [] req[c] = "advert" -> "advert"
                 [] OTHER             -> "receive"

-----------------------------------------------------------------------------
(* The handler.  A request arrives when it gets the in-process mutex.      *)

\* No hook is between its CAS and its bump.
Announcing  == {"initHead", "bumpGet", "bumpPut"}
Undisturbed == \A p \in Pushers : pc[p] \notin Announcing

Handle(c, kind, step) ==
  /\ \E s \in Servers :
       /\ mux[s] = NoOwner
       /\ mux' = [mux EXCEPT ![s] = c]
       /\ srv' = [srv EXCEPT ![c] = s]
  /\ req' = [req EXCEPT ![c] = kind]
  /\ Goto(c, step)
  /\ quiet' = [quiet EXCEPT ![c] = Undisturbed]
  /\ UNCHANGED <<etcdVars, s3Vars, cacheVars, localVars, owed>>

HandleFetch(c) ==
  /\ pc[c] = "idle" /\ c \in Fetchers
  /\ Handle(c, "fetch", "getVersion")
  /\ UNCHANGED pushVars

HandleAdvert(c) ==
  /\ pc[c] \in Quiescent /\ c \in Pushers
  /\ adv' = [adv EXCEPT ![c] = NoRefs]
  /\ want' = [want EXCEPT ![c] = NoRefs]
  /\ Handle(c, "advert", "lock")

\* git sends commands for refs that differ, never an empty list.
HandlePost(c) ==
  /\ pc[c] = "ready" /\ version < MaxVersion
  /\ \E new \in RefMap :
       /\ new # adv[c]
       /\ want' = [want EXCEPT ![c] = new]
  /\ Handle(c, "post", "lock")
  /\ UNCHANGED adv

LockRepo(c) ==
  /\ pc[c] = "lock"
  /\ AcquireLock(c)
  /\ Goto(c, "getVersion")
  /\ quiet' = [quiet EXCEPT ![c] = Undisturbed]
  /\ UNCHANGED <<refs, head, version, s3Vars, cacheVars, handlerVars,
                 localVars, pushVars, owed>>

ReleaseMutex(c) ==
  mux' = [s \in Servers |-> IF mux[s] = c THEN NoOwner ELSE mux[s]]

\* The end of a request: mutex and locals are gone; the lock is its
\* caller's.
Leave(c) ==
  /\ req' = [req EXCEPT ![c] = "none"]
  /\ srv' = [srv EXCEPT ![c] = NoServer]
  /\ ReleaseMutex(c)
  /\ seen' = [seen EXCEPT ![c] = 0]
  /\ todo' = [todo EXCEPT ![c] = {}]
  /\ up' = [up EXCEPT ![c] = {}]
  /\ snap' = [snap EXCEPT ![c] = NoRefs]
  /\ snapHead' = [snapHead EXCEPT ![c] = NoRef]
  /\ quiet' = [quiet EXCEPT ![c] = FALSE]
  /\ owed' = owed

\* The pusher is done with its advertisement too.
EndRequest(c) ==
  /\ Leave(c)
  /\ Goto(c, "idle")
  /\ adv' = [adv EXCEPT ![c] = NoRefs]
  /\ want' = [want EXCEPT ![c] = NoRefs]

-----------------------------------------------------------------------------
(* SyncRepo.                                                               *)

GetVersion(c) ==
  /\ pc[c] = "getVersion"
  /\ IF versionFile[srv[c]] = version
       THEN Goto(c, Dispatch(c)) /\ UNCHANGED seen
       ELSE Goto(c, "listPacks") /\ seen' = [seen EXCEPT ![c] = version]
  /\ UNCHANGED <<etcdVars, s3Vars, cacheVars, handlerVars, todo, up, snap,
                 snapHead, pushVars, historyVars>>

AfterDownload(rest) == IF rest = {} THEN "listRefs" ELSE "download"

\* loadPacksIntoLocal: both files must be there for a pack to be skipped.
SyncPacks(c) ==
  /\ pc[c] = "listPacks"
  /\ LET missing == ListPacks \ packDir[srv[c]] IN
       /\ todo' = [todo EXCEPT ![c] = missing]
       /\ Goto(c, AfterDownload(missing))
  /\ UNCHANGED <<etcdVars, s3Vars, cacheVars, handlerVars, seen, up, snap,
                 snapHead, pushVars, historyVars>>

\* A pack one of whose keys does not answer is passed over.
LoadPack(c) ==
  /\ pc[c] = "download"
  /\ \E p \in todo[c] :
       /\ IF p \in Whole THEN StorePack(srv[c], p) ELSE UNCHANGED packDir
       /\ todo' = [todo EXCEPT ![c] = @ \ {p}]
       /\ Goto(c, AfterDownload(todo[c] \ {p}))
  /\ UNCHANGED <<etcdVars, s3Vars, tornIdx, packedRefs, looseRefs, headFile,
                 versionFile, handlerVars, seen, up, snap, snapHead, pushVars,
                 historyVars>>

ListRefs(c) ==
  /\ pc[c] = "listRefs"
  /\ snap' = [snap EXCEPT ![c] = refs]
  /\ snapHead' = [snapHead EXCEPT ![c] = head]
  /\ Goto(c, "wipe")
  /\ UNCHANGED <<etcdVars, s3Vars, cacheVars, handlerVars, seen, todo, up,
                 pushVars, historyVars>>

SyncWipe(c) ==
  /\ pc[c] = "wipe"
  /\ WipeLooseRefs(srv[c])
  /\ Goto(c, "packed")
  /\ UNCHANGED <<etcdVars, s3Vars, packDir, tornIdx, packedRefs, headFile,
                 versionFile, handlerVars, localVars, pushVars, historyVars>>

SyncPackedRefs(c) ==
  /\ pc[c] = "packed"
  /\ WritePackedRefs(srv[c], snap[c])
  /\ Goto(c, "head")
  /\ UNCHANGED <<etcdVars, s3Vars, packDir, tornIdx, looseRefs, headFile,
                 versionFile, handlerVars, localVars, pushVars, historyVars>>

SyncHead(c) ==
  /\ pc[c] = "head"
  /\ WriteHead(srv[c], snapHead[c])
  /\ Goto(c, "record")
  /\ UNCHANGED <<etcdVars, s3Vars, packDir, tornIdx, packedRefs, looseRefs,
                 versionFile, handlerVars, localVars, pushVars, historyVars>>

\* A SyncRepo that records the version of the moment it ends.
SyncRecordLatest(c) ==
  /\ pc[c] = "record"
  /\ WriteLocalVersion(srv[c], version)
  /\ Goto(c, Dispatch(c))
  /\ seen' = [seen EXCEPT ![c] = 0]
  /\ snap' = [snap EXCEPT ![c] = NoRefs]
  /\ snapHead' = [snapHead EXCEPT ![c] = NoRef]
  /\ UNCHANGED <<etcdVars, s3Vars, packDir, tornIdx, packedRefs, looseRefs,
                 headFile, handlerVars, todo, up, pushVars, historyVars>>

\* SyncRepo returns: its locals are gone.
SyncRecord(c) ==
  /\ pc[c] = "record"
  /\ WriteLocalVersion(srv[c], seen[c])
  /\ Goto(c, Dispatch(c))
  /\ seen' = [seen EXCEPT ![c] = 0]
  /\ snap' = [snap EXCEPT ![c] = NoRefs]
  /\ snapHead' = [snapHead EXCEPT ![c] = NoRef]
  /\ UNCHANGED <<etcdVars, s3Vars, packDir, tornIdx, packedRefs, looseRefs,
                 headFile, handlerVars, todo, up, pushVars, historyVars>>

SyncRepo(c) ==
  \/ GetVersion(c) \/ SyncPacks(c) \/ LoadPack(c) \/ ListRefs(c)
  \/ SyncWipe(c) \/ SyncPackedRefs(c) \/ SyncHead(c) \/ SyncRecord(c)

-----------------------------------------------------------------------------
(* git http-backend, and the hook.                                         *)

\* git upload-pack answers, and the handler returns.
ServeFetch(c) ==
  /\ pc[c] = "serve"
  /\ EndRequest(c)
  /\ UNCHANGED <<etcdVars, s3Vars, cacheVars>>

\* git receive-pack --advertise-refs answers; the deferred Unlock runs.
Advertise(c) ==
  /\ pc[c] = "advert"
  /\ adv' = [adv EXCEPT ![c] = Eff(srv[c])]
  /\ Unlock(c)
  /\ Leave(c)
  /\ Goto(c, "ready")
  /\ UNCHANGED <<refs, head, version, s3Vars, cacheVars, want>>

Commands(c) == Changed(adv[c], want[c])

\* The incoming pack: what the new values reach and the advertised do not.
Needed(c)     == UNION {History(want[c][r]) : r \in Commands(c)}
Quarantine(c) == Needed(c) \ HistoryOf(adv[c])
Incoming(c)   == {Quarantine(c)} \ {{}}

\* git's connectivity check: new values must be complete, with what the
\* repository's own refs reach taken to be complete.
Connected(c) == Needed(c) \subseteq
  Quarantine(c) \cup LocalObjects(srv[c]) \cup HistoryOf(Eff(srv[c]))

ReceivePack(c) ==
  /\ pc[c] = "receive" /\ Connected(c)
  /\ Goto(c, "hookList")
  /\ UNCHANGED <<etcdVars, s3Vars, cacheVars, handlerVars, localVars,
                 pushVars, historyVars>>

\* git refuses the push.
ReceiveRefused(c) ==
  /\ pc[c] = "receive" /\ ~Connected(c)
  /\ Unlock(c)
  /\ EndRequest(c)
  /\ UNCHANGED <<refs, head, version, s3Vars, cacheVars>>

AfterUpload(rest) == IF rest = {} THEN "cas" ELSE "putPack"

\* An uploadNewPacks that looks in the main store only.
HookListMainStore(c) ==
  /\ pc[c] = "hookList"
  /\ LET fresh == packDir[srv[c]] \ ListPacks IN
       /\ todo' = [todo EXCEPT ![c] = fresh]
       /\ Goto(c, AfterUpload(fresh))
  /\ UNCHANGED <<etcdVars, s3Vars, cacheVars, handlerVars, seen, up, snap,
                 snapHead, pushVars, historyVars>>

\* uploadNewPacks: the quarantine and the main store, minus what is listed.
HookListPacks(c) ==
  /\ pc[c] = "hookList"
  /\ LET fresh == (Incoming(c) \cup packDir[srv[c]]) \ ListPacks IN
       /\ todo' = [todo EXCEPT ![c] = fresh]
       /\ Goto(c, AfterUpload(fresh))
  /\ UNCHANGED <<etcdVars, s3Vars, cacheVars, handlerVars, seen, up, snap,
                 snapHead, pushVars, historyVars>>

HookPutPack(c) ==
  /\ pc[c] = "putPack"
  /\ \E p \in todo[c] : PutPackKey(p) /\ up' = [up EXCEPT ![c] = p]
  /\ Goto(c, "putIdx")
  /\ UNCHANGED <<etcdVars, cacheVars, handlerVars, seen, todo, snap, snapHead,
                 pushVars, historyVars>>

HookPutIdx(c) ==
  /\ pc[c] = "putIdx"
  /\ PutIdxKey(up[c])
  /\ todo' = [todo EXCEPT ![c] = @ \ {up[c]}]
  /\ up' = [up EXCEPT ![c] = {}]
  /\ Goto(c, AfterUpload(todo[c] \ {up[c]}))
  /\ UNCHANGED <<etcdVars, cacheVars, handlerVars, seen, snap, snapHead,
                 pushVars, historyVars>>

\* casRefs, the transaction that succeeds.
CasRefs(c) ==
  /\ pc[c] = "cas"
  /\ UpdateRefsCAS(Commands(c), adv[c], want[c])
  /\ Goto(c, "initHead")
  /\ owed' = TRUE
  /\ quiet' = [d \in Clients |-> FALSE]
  /\ UNCHANGED <<head, version, lock, s3Vars, cacheVars, handlerVars,
                 localVars, pushVars>>

\* The one that fails: the hook exits non-zero and git rejects the push.
CasRejected(c) ==
  /\ pc[c] = "cas" /\ ~Compares(Commands(c), adv[c])
  /\ Unlock(c)
  /\ EndRequest(c)
  /\ UNCHANGED <<refs, head, version, s3Vars, cacheVars>>

\* A maybeInitHEAD that takes any ref.
NamedAnyRef(c) == {r \in Commands(c) : want[c][r] # NoSha}

\* One that does not skip deletions.
NamedDeletedToo(c) == Commands(c) \cap Branches

\* The refs maybeInitHEAD stops at, whichever comes first on stdin.
Named(c) == {r \in Commands(c) \cap Branches : want[c][r] # NoSha}

\* A hook that ends with maybeInitHEAD and never bumps.
MaybeInitHEADLast(c) ==
  /\ pc[c] = "initHead"
  /\ IF Named(c) = {} THEN UNCHANGED head
                      ELSE \E r \in Named(c) : PutHEADIfMissing(r)
  /\ Goto(c, "promote")
  /\ UNCHANGED <<refs, version, lock, s3Vars, cacheVars, handlerVars,
                 localVars, pushVars, historyVars>>

MaybeInitHEAD(c) ==
  /\ pc[c] = "initHead"
  /\ IF Named(c) = {} THEN UNCHANGED head
                      ELSE \E r \in Named(c) : PutHEADIfMissing(r)
  /\ Goto(c, "bumpGet")
  /\ UNCHANGED <<refs, version, lock, s3Vars, cacheVars, handlerVars,
                 localVars, pushVars, historyVars>>

BumpGet(c) ==
  /\ pc[c] = "bumpGet"
  /\ seen' = [seen EXCEPT ![c] = version]
  /\ Goto(c, "bumpPut")
  /\ UNCHANGED <<etcdVars, s3Vars, cacheVars, handlerVars, todo, up, snap,
                 snapHead, pushVars, historyVars>>

BumpPut(c) ==
  /\ pc[c] = "bumpPut"
  /\ PutVersion(seen[c] + 1)
  /\ seen' = [seen EXCEPT ![c] = 0]
  /\ Goto(c, "promote")
  /\ owed' = FALSE
  /\ UNCHANGED <<refs, head, lock, s3Vars, cacheVars, handlerVars, todo, up,
                 snap, snapHead, pushVars, quiet>>

Hook(c) ==
  \/ HookListPacks(c) \/ HookPutPack(c) \/ HookPutIdx(c) \/ CasRefs(c)
  \/ CasRejected(c) \/ MaybeInitHEAD(c) \/ BumpGet(c) \/ BumpPut(c)

\* The hook has exited with 0: git moves the quarantined pack into the main
\* store, then applies the commands one by one.  One is refused when the ref
\* is not at its old value, or for reasons of git's own (deleting the branch
\* HEAD names, a directory in the way).
Promote(c) ==
  /\ pc[c] = "promote"
  /\ packDir' = [packDir EXCEPT ![srv[c]] = @ \cup Incoming(c)]
  /\ \E done \in SUBSET {r \in Commands(c) : Eff(srv[c])[r] = adv[c][r]} :
       ApplyRefs(srv[c], done, want[c])
  /\ Unlock(c)
  /\ EndRequest(c)
  /\ UNCHANGED <<refs, head, version, s3Vars, tornIdx, headFile, versionFile>>

-----------------------------------------------------------------------------
(* What goes wrong.                                                        *)

\* A request fails: S3, etcd or the disk reports an error, or a process
\* dies.  A deferred Unlock runs, or cannot because the client is gone.
Abort(c) == EndRequest(c) /\ (Unlock(c) \/ Abandon(c))

Fail(c) ==
  /\ pc[c] \in FaultAt
  /\ Abort(c)
  /\ UNCHANGED <<refs, head, version, s3Vars, cacheVars>>

\* os.WriteFile truncates, then writes: a failure in between leaves a short
\* file.  A short .idx is a pack git cannot open, a short packed-refs has no
\* refs, a short HEAD names nothing, a short .ogorod-version reads as 0.
\* os.RemoveAll takes one file after the other.
TearIdx(c) ==
  /\ pc[c] = "download" /\ "idx" \in TornFiles
  /\ \E p \in todo[c] \cap Whole : StorePack(srv[c], p) /\ TearIdxFile(srv[c], p)
  /\ Abort(c)
  /\ UNCHANGED <<refs, head, version, s3Vars, packedRefs, looseRefs, headFile,
                 versionFile>>

TearRefs(c) ==
  /\ pc[c] = "wipe" /\ "refs" \in TornFiles
  /\ \E gone \in SUBSET Refs : RemoveLooseRefs(srv[c], gone)
  /\ Abort(c)
  /\ UNCHANGED <<refs, head, version, s3Vars, packDir, tornIdx, packedRefs,
                 headFile, versionFile>>

TearPackedRefs(c) ==
  /\ pc[c] = "packed" /\ "packed-refs" \in TornFiles
  /\ WritePackedRefs(srv[c], NoRefs)
  /\ Abort(c)
  /\ UNCHANGED <<refs, head, version, s3Vars, packDir, tornIdx, looseRefs,
                 headFile, versionFile>>

TearHead(c) ==
  /\ pc[c] = "head" /\ "HEAD" \in TornFiles /\ snapHead[c] # NoRef
  /\ TruncateHead(srv[c])
  /\ Abort(c)
  /\ UNCHANGED <<refs, head, version, s3Vars, packDir, tornIdx, packedRefs,
                 looseRefs, versionFile>>

TearVersion(c) ==
  /\ pc[c] = "record" /\ ".ogorod-version" \in TornFiles
  /\ WriteLocalVersion(srv[c], 0)
  /\ Abort(c)
  /\ UNCHANGED <<refs, head, version, s3Vars, packDir, tornIdx, packedRefs,
                 looseRefs, headFile>>

\* The handler is gone (its client hung up, or the server died) while the
\* receive-pack it started, and the hook under it, run on: exec's kill
\* reaches git http-backend only.  In thin mode the wrapper runs on too: its
\* sync has a context of its own.  (One that syncs for an advertisement does
\* as one that syncs for a fetch, and has nobody to advertise to.)
HandlerGone(c) ==
  /\ pc[c] \in OrphanAt /\ mux[srv[c]] = c
  /\ req[c] = "advert" => pc[c] \notin SyncSteps
  /\ ReleaseMutex(c)
  /\ Unlock(c) \/ Abandon(c)
  /\ UNCHANGED <<refs, head, version, s3Vars, cacheVars, pc, req, srv,
                 localVars, pushVars, historyVars>>

LeaseExpire ==
  /\ lock = DeadSession \/ (Overlap /\ lock # NoOwner)
  /\ Expire
  /\ UNCHANGED <<refs, head, version, s3Vars, cacheVars, pc, handlerVars,
                 localVars, pushVars, historyVars>>

-----------------------------------------------------------------------------

Request(c) ==
  \/ LockRepo(c) \/ SyncRepo(c) \/ ServeFetch(c) \/ Advertise(c)
  \/ ReceivePack(c) \/ ReceiveRefused(c) \/ Hook(c) \/ Promote(c)

Fault(c) ==
  \/ Fail(c) \/ TearIdx(c) \/ TearRefs(c) \/ TearPackedRefs(c)
  \/ TearHead(c) \/ TearVersion(c) \/ HandlerGone(c)

Next ==
  \/ \E c \in Clients :
       \/ HandleFetch(c) \/ HandleAdvert(c) \/ HandlePost(c)
       \/ Request(c) \/ Fault(c)
  \/ LeaseExpire

Spec == Init /\ [][Next]_vars

\* A request that can go on does.  The lock needs strong fairness: etcd hands
\* it over in the order of the waiters' keys.  A lease that is not kept
\* alive expires.
Fairness ==
  /\ \A c \in Clients : WF_vars(Request(c)) /\ SF_vars(LockRepo(c))
  /\ WF_vars(LeaseExpire)

FairSpec == Spec /\ Fairness

-----------------------------------------------------------------------------
(* Properties.                                                             *)

\* uploadNewPacks before casRefs, pack key before idx key, and the lock
\* around both: everything a ref in etcd reaches can be read from the packs
\* on S3, at every moment, whichever server took the push.
RefsBacked == HistoryOf(refs) \subseteq Stored

\* What a cache holds when its refs are exactly etcd's and complete.
Fresh(s) ==
  /\ Eff(s) = refs
  /\ head # NoRef => headFile[s] = head
  /\ HistoryOf(refs) \subseteq LocalObjects(s)

\* SyncRepo's early return: once every change of the refs has been followed
\* by a bump, a cache that recorded the current version has nothing to sync.
\* A hook that died between its CAS and its bump is excused until the next
\* bump, whoever's it is, and not after it.
SkipSafe == ~owed => \A s \in Servers : versionFile[s] = version => Fresh(s)

\* Where no hook dies between the CAS and the bump: a clone or fetch, or an
\* advertisement, that no push overtakes is answered with the refs etcd has
\* and with every object they reach, even after syncs that raced with pushes
\* or died half way left the cache as they did.  (Where one does die there it
\* is false: from its CAS to the next bump every current cache is stale.)
FreshServe ==
  \A c \in Clients : pc[c] \in {"serve", "advert"} /\ quiet[c] => Fresh(srv[c])

\* A push etcd accepted is one git accepts: whichever server advertised, the
\* server that runs the hook still has every ref of the push at its
\* advertised value when the hook exits.
AcceptedApplies ==
  \A c \in Pushers : pc[c] = "promote" =>
    \A r \in Commands(c) : Eff(srv[c])[r] = adv[c][r]

\* UpdateRefsCAS: a ref of etcd moves to a value that does not contain the
\* old one only when a pusher was shown such an old value and wanted that,
\* whatever happened to locks, caches and other pushes in between.
FastForwardOnly ==
  [][\A r \in Refs : ~FastForward(refs[r], refs'[r]) =>
       \E c \in Pushers : /\ pc[c] = "cas"
                          /\ adv[c][r] = refs[r]
                          /\ want[c][r] = refs'[r]]_vars

\* maybeInitHEAD: HEAD is written once, and names a branch that exists.
HeadExists ==
  [][head' # head => head = NoRef /\ refs[head'] # NoSha]_vars

\* A server is only a cache: a pack in its main store has its .pack key in
\* the bucket, whatever crashed, hung up or expired while it got there.
ServerIsCache == \A s \in Servers : packDir[s] \subseteq packKeys

\* BumpVersion, a read and then a write: every bump raises the version, so that
\* two pushes never announce themselves with one number, of which a server
\* that syncs between them would see the first only.
EveryBumpCounts ==
  [][\A c \in Pushers :
       pc[c] = "bumpPut" /\ pc'[c] = "promote" => version' > version]_vars

\* No request waits for ever: not for the lock of a push that failed, of one
\* whose client hung up, or behind pushes that keep coming.
EveryRequestEnds ==
  \A c \in Clients : pc[c] \notin Quiescent ~> pc[c] \in Quiescent

\* Where no hook dies between the CAS and the bump, every change of the refs
\* is announced to the other servers.
EveryChangeAnnounced == owed ~> ~owed

-----------------------------------------------------------------------------
(* What the README says and the code does not do.                          *)

\* "Diffs the local cache's objects/pack/ against S3 to find newly-arrived
\* packs from this push.  Uploads them": both keys of the incoming pack are
\* there before a ref moves.
PushUploaded ==
  \A c \in Pushers : pc[c] = "cas" => Incoming(c) \subseteq Whole

-----------------------------------------------------------------------------

Store == INSTANCE RefStore WITH stored <- Stored

\* Whatever servers, caches, hooks and locks do, etcd and S3 together are a
\* RefStore.
ImplementsRefStore == Store!Spec
=============================================================================
