# A TLA+ model of ogorod

ogorod is a self-hosted git whose state lives outside of git: refs, HEAD, a version and a lock in
etcd, packs in an S3 bucket. Everything else is a cache or a client: servers that can be thrown away
and a remote helper that runs on the developer's machine. What can go wrong is therefore in the
order of requests to two stores that share no transaction, made by processes that die between any
two of them. This directory models that.

All paths below are those of the repository; `x.go:n` is a line of the modelled commit.

## 1. Inventory

| component | source | state it keeps | operations |
|---|---|---|---|
| etcd client | `etcd.go` | `/ogorod/refs/<repo>/*` (HEAD included), `/ogorod/version/<repo>`, `/ogorod/lock/<repo>` | `ListRefs`, `UpdateRefsCAS`, `PutRefForce`, `PutHEADIfMissing`, `GetVersion`, `BumpVersion` (read, then write), `AcquireLock`/`Unlock`; `DeleteRef` has no caller |
| S3 client | `s3.go` | `<repo>/packs/pack-<sha>.{pack,idx}`, legacy `<repo>/objects/<sha>` | `ListPacks`, `GetPack`, `PutPack`; loose: `Get`, `ListAll`, `Delete`; `Put`, `Has`, `DeletePack` have no caller |
| cache and sync | `sync.go`, `pack.go` | a bare repository per server and repository: packs, packed-refs, loose refs, HEAD, `.ogorod-version` | `ensureBareRepo`, `SyncRepo` |
| fat server | `serve.go` | `repoMux`, one mutex per repository | one handler: mutex, etcd lock if it is a push, `SyncRepo`, `git http-backend` |
| hook | `hook.go` | none | `uploadNewPacks`, `casRefs`, `maybeInitHEAD`, `BumpVersion` |
| thin server, wrapper | `serve_thin.go`, `wrap.go` | `repoMux`; a directory of PATH wrappers | as the fat server, but `SyncRepo` runs in a child of the git process |
| remote helper | `helper.go` | the user's own repository | `list`, `fetch`, `push` batches |
| repack, gc | `pack.go`, `gc.go` | the loose area of S3 | list, read, pack, delete |
| configuration | `env.go` | none | `loadEnv`: precedence of variables |
| entry point, exceptions | `main.go`, `throw.go` | none | argv dispatch, panic and recover |

How they interact. A push to a server is two HTTP requests. Each takes the mutex, then the etcd
lock, brings the cache up to date, runs git, and releases both. git receive-pack runs the hook as a
process of its own; the hook uploads the incoming pack (from git's quarantine) and whatever else S3
lacks, moves the refs in one etcd transaction, initialises HEAD and bumps the version; then git
moves the quarantined pack into the cache and updates the cache's refs. A fetch takes the mutex
only. Servers see each other through etcd and S3 alone, and a sync is skipped when the cache's
`.ogorod-version` equals etcd's. The helper does its own list, download, upload and transaction,
with no lock and no version.

What is hard, and what makes each component correct:

* **Two stores, no common transaction.** Refs may only name objects that can be read back from S3,
  whoever dies when. (`RefsBacked`)
* **The skip of a sync.** Version and refs are separate keys, so a cache at the current version must
  be current, as soon as what changed is announced. (`SkipSafe`, `EveryBumpCounts`,
  `EveryChangeAnnounced`)
* **Syncs without the lock.** Fetches sync while pushes run; half-done syncs leave a mixed cache.
  (`FreshServe`, where every hook gets to its bump; packs are listed before refs, see the
  disagreements)
* **Leftovers.** Loose refs of an earlier push, half-uploaded packs, torn files, locks of the dead.
  (`AcceptedApplies`, `EveryRequestEnds`, `ServerIsCache`, refuted: `PushUploaded`)
* **No lost push.** What protects history is the compare, not the lock: the lock is released between
  the advertisement and the POST, its lease can expire, and the helper takes none.
  (`FastForwardOnly`, `NoBlindWrite`, and `NoLostUpdate` across the modes; refuted:
  `NonFastForwardFails`)
* **Answers.** A push that git calls rejected, or updated, should have been. (`HonestReport`,
  `HelperHonest`)
* **What each side leaves out of an upload.** (`RefsBacked`, `FetchFindsAll`)
* **Who deletes.** gc and repack take no lock and work from lists that age while they work.
  (`RepackLosesNothing`, `FetchMissesOnlyRaced`, `RefsReadable`, which a plain `gc` refutes)
* **Processes.** A request is a handler, a goroutine, and a chain of processes that share pipes and
  find each other by environment variables; a kill reaches only the first of them. (`SyncedOnce`,
  `NoReentry`, `SameStores`, `WholeAnswer`, `EveryBackendEnds`, refuted: `ServerSurvives`)

`PROJECT.json` has every hazard with its line and the properties that watch it.

## 2. Modules

```
Git ── Etcd ──┐
  ├─── S3 ────┼── Serve ──────┬── MCServe                   (TLC)
  └─── Cache ─┘    │          └── ServeProofs ── ServeBacked ─┬─ ServeFresh   (TLAPS)
                   │                                          └─ ServeCached  (TLAPS)
     Etcd, S3 ── Helper ──────┬── MCHelper                  (TLC)
                   │          └── HelperProofs              (TLAPS)
          S3 ── Loose, Helper ── Maintenance ── MCMaintenance   (TLC)
                   │                     └───── MaintenanceProofs (TLAPS)
       Serve (EXTENDS), Helper (INSTANCE) ── Cluster ─┬─ MCCluster (TLC)
             ServeProofs, HelperProofs ───────────────┴─ ClusterProofs (TLAPS)
Git ── RefStore          (the abstract store: INSTANCE in Serve and Helper)
Env ── Backend ──────────────┬── MCBackend                  (TLC)
                             └── BackendProofs              (TLAPS)
```

**Git** has the data. A commit stands for itself and for the trees and blobs it introduces, and
`Reach[c]` is what `childHashes` leads to from it. A pack is the set of commits in it: git names a
pack after its contents, so equal sets are equal names. A ref map is a function from ref names to
commits or `NoSha`, the code's `""`.

**Etcd** has the keys, and one operator per etcd request. `UpdateRefsCAS(rs, old, new)` is the
transaction that succeeds, `~Compares(rs, old)` the one that fails. The lock is its owner:
`AcquireLock` waits for it to be free, and a key that nobody will delete belongs to `DeadSession`
until the lease runs out (`Expire`).

**S3** has the two keys of each pack. `ListPacks` is their union, because the code returns a base
name for either suffix; `Whole` are those that can be downloaded; `Stored` is what is in them.

**Cache** has the files of every server's bare repository and the functions that write them. `Eff` is
git's view of the refs: loose before packed.

**Serve** is fat mode: any number of servers, pushers and fetchers. `pc[c]` names the next call of
client `c`'s request, and each action is the code between two effects others can see:

| code | actions |
|---|---|
| `handleInner`, mutex and lock | `HandleFetch`, `HandleAdvert`, `HandlePost` (arrive: the mutex is taken), `LockRepo` |
| `SyncRepo` | `GetVersion` (with the early return), `SyncPacks`, `LoadPack` (one per pack), `ListRefs`, `SyncWipe`, `SyncPackedRefs`, `SyncHead`, `SyncRecord` |
| git, external | `ServeFetch`, `Advertise`, `ReceivePack`/`ReceiveRefused` (connectivity check), `Promote` (after the hook: quarantine into the store, commands one by one, any of which git may refuse) |
| `hookMain` | `HookListPacks`, `HookPutPack`, `HookPutIdx`, `CasRefs`/`CasRejected`, `MaybeInitHEAD`, `BumpGet`, `BumpPut` |
| a throw, a kill, a full disk | `Fail` (at the steps in `FaultAt`), `TearIdx`, `TearRefs`, `TearPackedRefs`, `TearHead`, `TearVersion` (what is in `TornFiles` may be left half written, or half removed) |
| the client hangs up, the server dies | `HandlerGone`: mutex and lock go, receive-pack and the hook run on; in thin mode, where the sync is in that child too, so does a sync (`OrphanAt`) |
| etcd | `LeaseExpire`: a dead session's key, or with `Overlap` a live one's |

A failed request's deferred `Unlock` either reaches etcd or, its context being cancelled, does not
(`Unlock` or `Abandon`). `owed` and `quiet` are history variables: no guard reads them. `owed` is true
from a change of the refs to the next bump, whoever makes it; `quiet[c]` while no hook was between
its CAS and its bump when the request began (`Undisturbed`), or got the lock, and no ref has changed
since. A hook that has died there is not one that is between the two: such a request is quiet.

**Helper** is helper mode: users with their own repositories, one helper process each at a time.
`at[u]` is its next step. `Snapshot` is the `ListRefs` of `runPushes`, apart from the one of `list`;
`Walk` is that of `runFetches`, to its end or to a missing object (`Fetched` says which: either way the
process ends); `NewObjects` is the walk of `uploadReachable`, as the least set that holds the root, if it is open,
and with a commit all its open parents; open is what the repository has and `StopAt` does not. git's own part
(which updates it sends, and which of them it thinks need a `+`) is `HandlePush`/`NeedsForce`;
`Commit` and `CollectGarbage` are what users do between commands. `Exchange` says whether two users
can have a commit in common that did not go through the remote, `LocalGC` when users run `git gc`:
never, when all they have is pushed, or at any time (see the disagreements).

**RefStore** is what etcd and S3 promise together: a map of refs that moves only to complete
histories (`Move`: those of one transaction together, those a helper forces one by one), objects that
arrive and stay (`Keep`), a HEAD that is chosen once (`Choose`).
`Serve` and `Helper` instantiate it with `stored <- Stored` and claim `Store!Spec` as
`ImplementsRefStore`: between the upload and the compare there may be any number of steps of
others, and no step of either module shows as anything but one of these three.

**Cluster** runs both over the same keys: it extends `Serve`, and `H` is `Helper` with the same
etcd and S3 variables and its own for the rest. A step is one of either side; `HelperStep` changes
refs and HEAD and nobody announces either, so both set `owed` and end what is `quiet`. git and go-git never produce the same pack for the
same commits, so the two sides make different commits (`Made`).

**Loose** has the one key per object of the legacy area, which today only shrinks. **Maintenance**
extends `Helper` with it and with jobs: `Gc` is `gcMain` (refs, then the walk of `walkReachableS3`
object by object, then the list, then each delete), `Repack` is `repackMain` (list, a read per
object, the two PUTs, a delete per object listed). Any number of them run, `Stop` ends one anywhere, and
the operator starts another. Its users are `Helper`'s, but a fetch also asks S3 for what the packs
lack (`GetLoose`, `GetMissing`, and `WalkFetched` when it lacks nothing). A member of `Commits` is any object here. `Careful` stands for an
operator who runs `gc` only while no push runs, no other job does, and no packed object needs
a loose one (`GcAllowed`), and `repack` only when no `gc` runs or was stopped half way
(`RepackAllowed`).

**Env** is `env.go` and the functions of `serve.go`, `serve_thin.go` and `wrap.go` that build and
scrub environments, as functions on records. **Backend** is what happens around git in one server
process, fat or thin:

| code | actions |
|---|---|
| `serveMain`, `serveThinMain`, `installPathWrappers` | `Boot` |
| `repoLock`, `handleInner` up to the dispatch | `Enter`, `Prepare` (stores, lock and sync, any of which may throw) |
| `dispatchToBackend[Thin]` | `Start`, `StartFails`, `Wait`; the goroutine on stderr: `Drain`, `Panic`; the one os/exec starts for the request's body: `Feed` |
| `parseAndStreamCGIResponse` | `ReadHeaders`, `Stream` |
| `wrapMain`, `doSync`, `scrubEnv` | `Wrap` |
| `hookMain`'s `loadEnv`, git's own children | `RunChildren` |
| git, os/exec, the kernel (external) | `BackendRuns`, `WriteOut`, `WriteErr`, `Ends`, `Kill`, `HangUp` |

`top` is the process the handler started and may kill, `at` is how far the processes below it are:
they survive the kill. A pipe holds `Cap` chunks, and a write to a full one waits; who writes to a
pipe of a server that is down dies. `stdin` is the copy of the body to git's standard input: it ends
with the body, with the last process that could read it, or with the client, and `Wait` waits for it.
The body's own chunks are not counted.

## 3. Runs

Each run's bounds are in its `.cfg`. There are two commits, the second on top of the first; that
gives a creation, a fast-forward, a rewind and a deletion. `find_overwrite` has a third, beside the
second, for updates that diverge. `MaxVersion` is the only bound in a
guard: no push starts at that version, so with 2 there are a first push, a second one that meets the
caches, packs and loose refs of the first, and all that run at the same time as these.

| run | instance | shows |
|---|---|---|
| `serve_core` | 2 servers, 2 pushers, 1 fetcher, 2 commits, 1 ref; failures that leave nothing half done outside of the cache, and in it torn packed-refs, HEAD and version files and a half-removed `refs/` | `RefsBacked`, `SkipSafe`, `FreshServe`, `AcceptedApplies`, `FastForwardOnly`, `EveryBumpCounts`, `ImplementsRefStore` |
| `serve_refs` | 2 servers, 1 pusher, 2 commits, a branch and a tag; failures everywhere but between the two PUTs, the same torn files | `TypeOK`, `RefsBacked`, `SkipSafe` (with hooks that die between CAS and bump, and pushes after them), `HeadExists` |
| `serve_chaos` | 2 servers, 2 pushers; failures where they hurt, torn indexes, orphaned hooks and (thin mode) orphaned syncs, leases that expire under live pushes | `ServerIsCache`, `FastForwardOnly`: what holds with no lock at all |
| `serve_live` | 2 servers, 2 pushers, 1 fetcher, fairness, failures before the CAS | `EveryRequestEnds`, `EveryChangeAnnounced` |
| `helper_core` | 2 users, 2 commits, 1 ref; helpers that die anywhere it matters, `git gc` of what is pushed | `RefsBacked`, `FetchFindsAll`, `HonestReport`, `ImplementsRefStore`, `NoBlindWrite` |
| `cluster` | 1 server, 1 pusher, 1 user of the helper, whose commit follows the pusher's, a branch that moves and a tag that is created; a helper that dies between its two PUTs, a sync that fails half way | `RefsBacked`, `SkipSafe`, `HelperHonest`, `ImplementsRefStore`, `NoLostUpdate` |
| `maintenance` | 1 user, 2 jobs, 2 objects in a line, every legacy bucket that holds the refs' histories, a careful operator | `MaintenanceTypeOK`, `RefsReadable`, `FetchMissesOnlyRaced`, `RepackLosesNothing` |
| `backend` | fat and thin, 4 environments and paths, 2 requests (a fetch or a push, and a file), pipes of one chunk, fairness | `BackendTypeOK`, `SyncedOnce`, `NoReentry`, `SameStores`, `WholeAnswer`, `EveryBackendEnds` |

Two servers are enough for every question of `Serve`: what one server does to another goes through etcd
and S3, and a third would only see the same keys. Two pushers are needed for the compare, the lock
and the version; one suffices to leave half-done work and come back to it. Symmetry is used between
servers and between clients of a kind, in the runs without liveness.

One user and two jobs are enough in `maintenance`: jobs meet each other through the keys, and a user
meets each of them; two objects in a line are a parent that a packed child hides. In `cluster` one
client of each kind is enough for one to overtake the other, and one server for the helper to change
the refs under its cache. The tag lets pushes change two refs at once, and a helper write HEAD late,
after a server push has bumped; `TagStays`, a constraint, bounds what is pushed to it (it is created,
with `c1`, and stays), because with all tags the instance does not end in time. Servers beside each
other, and fetchers, are in the `serve_*` runs. `backend` needs a pipe that can be
full (one chunk), answers and error output that are longer than it, and a second request for the
mutex and for what a panic does to others; its environments put every tier of `loadEnv` under or over another one, with
the wrappers behind git on the path, before it, and not there, an empty list of endpoints and a missing secret. It stops
when its two requests are over, so deadlock is not checked there; `EveryBackendEnds` says what
must not stop. (`find_crash` is the same with one request.)

`backend` assumes that every process, goroutine and handler is scheduled (`WF` of `HandlerStep`,
`ProcessStep`, `Drain` and `Panic`, `Feed`), and that calls to the stores have a result. Processes may
still block in a write, which no fairness helps. Clients read until they hang up, which they need
never do, and send the body they announced, or hang up: the server has no timeout for one that does
neither, and would wait for it holding the mutex.

`serve_live` assumes that a request that can take a step takes one (`WF` of `Request`: handlers and
git are processes nobody suspends, and every call has a result), that etcd hands the lock over to
each waiter in turn (`SF` of `LockRepo`: `concurrency.Mutex` queues by key revision), and that a
lease that is not kept alive ends (`WF` of `LeaseExpire`: `etcd.go:169`, TTL 60). Clients need not send requests. The
in-process mutex needs no fairness because a request exists from the moment it gets it; how
`sync.Mutex` chooses among waiters is not modelled.

### Disagreements

Four runs look for a state or step that a comment or a document of the repository says cannot be.
TLC finds each.

| run | property | the code |
|---|---|---|
| `find_half_upload` | `PushUploaded` (`README.md:151-153`) | after a death between the PUTs, the retried push skips the half-uploaded pack and moves the refs |
| `find_gc` | `RefsReadable` (`gc.go:73-74`) | after a push onto a loose history, a plain `gc` cannot see past the packed commit and deletes the loose one below it |
| `find_overwrite` | `NonFastForwardFails` (`README.md:185-187`) | the helper compares against refs it re-reads after git judged the push by `list`: a push in between is overwritten without `+` |
| `find_crash` | `ServerSurvives` (`STYLE.md:37`) | `cmd.Wait` closes the stderr pipe under the goroutine that reads it; its throw is not caught and ends the server |

Others that have no run of their own, all visible in the modules:

* A failure after the CAS makes git report a rejected push whose refs have moved (`hook.go:67`
  against `README.md:158`; `Fail` at `"bumpGet"` in `Serve`). The version has not moved, so servers
  whose cache is at it keep answering with the old refs until some push bumps: `FreshServe`, which
  `serve_core` has for hooks that do not die there, is false with `FaultAt = {"bumpGet"}`.
* Packs are listed before refs (`sync.go:39`), and a fetch holds no lock: it can be served refs
  without their objects while a push completes. `FreshServe` says `quiet` for that reason.
* After a `git gc` that packs what was never pushed the helper takes local packs for remote ones,
  uploads nothing and moves the ref (`pack.go:168-174`; `LocalGC = "any"` refutes `RefsBacked`).
* What `find_overwrite` shows is also why `NoBlindWrite` and `NoLostUpdate` are as weak as they are:
  they have one exception for it, a value that was not on the helper's list yet and is in its
  snapshot. Of a value that is on both, the helper loses no history without a `+`.
* "The three modes interoperate" (`README.md:140-142`): a helper push does not bump the version, and
  servers whose recorded version is current skip the sync (`sync.go:30-33`), so they keep serving
  the old refs until somebody pushes to a server: with a fetcher `FreshServe` is false in `Cluster`, and
  `SkipSafe`, which that run checks, speaks of the time after the next bump. A push to
  such a server fails its compare, or is taken by etcd and then refused by git, so `AcceptedApplies` is not
  among that run's properties either.
* In thin mode the wrapper takes the repository's name from the last component of the path
  (`wrap.go:78`): for `user/repo`, which `serve.go:153` allows, it syncs `repo` into the cache of
  `user/repo`. With a name of two components TLC refutes `SyncedOnce`; the theorem about it has
  the assumption that names have one.
* Refs of `a/b` are listed as refs of `a` (`etcd.go:45`).
* A handler that throws while it streams never calls `cmd.Wait`: the goroutine of `CommandContext`
  keeps the command and its pipes alive, so git's service may block in a write for good
  (`Abandoned`; `EveryBackendEnds` excepts it). What `http.Error` then writes goes into a body
  whose status was sent as 200.
* A thin sync that outlives its handler can record a version with the refs of another moment
  (`SkipSafe` fails with `OrphanAt = {"getVersion"}`).
* The lock covers one HTTP request and not the push (`serve.go:130-137`; `ReleaseMutex` and `Unlock`
  in `Advertise`); the version can regress when a lease expires under a live push (`etcd.go:148`;
  `EveryBumpCounts` fails with `Overlap = TRUE`); a torn index is never downloaded again
  (`pack.go:159`; `TearIdx`).
* Deletions are reported ok by the helper whatever became of their transaction (`helper.go:384`;
  `HonestReport` leaves them out); it initialises HEAD after a failed transaction
  (`helper.go:371`).
* repack deletes what it listed and not what it packed (`pack.go:29-31` says otherwise);
  `RepackLosesNothing` shows that this loses nothing as long as nobody writes loose objects.
* `README.md:99-104` describes a directory of symlinks for every helper; the code installs one
  wrapper, `git`, and `Env` has that.

## 4. Proofs

TLC checks the instances above. TLAPS proves, for every value of the constants that the `ASSUME`s
of the modules allow:

| theorem | module | assumes | shows |
|---|---|---|---|
| `TypeCorrect` | ServeProofs | | `Spec => []TypeOK` |
| `NoSilentRewind` | ServeProofs | | `Spec => FastForwardOnly` |
| `EveryRefBacked` | ServeBacked | `OrphanAt = {}`, `~Overlap`, `"putIdx" \notin FaultAt` | `Spec => []RefsBacked` |
| `ServersAreRefStore` | ServeBacked | as `EveryRefBacked` | `Spec => ImplementsRefStore` |
| `SkipIsSafe` | ServeFresh | as `EveryRefBacked`, `"idx" \notin TornFiles` | `Spec => []SkipSafe` |
| `QuietAnswersFresh` | ServeFresh | as `SkipIsSafe`, no fault between the transaction and the bump | `Spec => []FreshServe` |
| `AcceptedIsApplied` | ServeFresh | `OrphanAt = {}`, `~Overlap`, no fault between the transaction and the bump | `Spec => []AcceptedApplies` |
| `BumpsCount` | ServeFresh | `OrphanAt = {}`, `~Overlap` | `Spec => EveryBumpCounts` |
| `HeadNamesBranch` | ServeFresh | `OrphanAt = {}`, `~Overlap` | `Spec => HeadExists` |
| `ServersOnlyCache` | ServeCached | | `Spec => []ServerIsCache` |
| `HelperTypeCorrect` | HelperProofs | | `Spec => []TypeOK` |
| `HelperRefBacked` | HelperProofs | `LocalGC # "any"` | `Spec => []RefsBacked` |
| `NoFetchMisses` | HelperProofs | `LocalGC # "any"` | `Spec => []FetchFindsAll` |
| `HelperNeverBlind` | HelperProofs | | `Spec => NoBlindWrite` |
| `HelperIsRefStore` | HelperProofs | `LocalGC # "any"` | `Spec => ImplementsRefStore` |
| `ReportIsHonest` | HelperProofs | | `Spec => []HonestReport` |
| `RepackKeepsAll` | MaintenanceProofs | | `MaintenanceSpec => RepackLosesNothing` |
| `MaintenanceTypeCorrect` | MaintenanceProofs | | `MaintenanceSpec => []MaintenanceTypeOK` |
| `RefsStayReadable` | MaintenanceProofs | `Careful`, `LocalGC = "never"` | `MaintenanceSpec => []RefsReadable` |
| `FetchMissesOnlyBehindDelete` | MaintenanceProofs | `Careful`, `LocalGC = "never"` | `MaintenanceSpec => []FetchMissesOnlyRaced` |
| `NobodyLosesUpdates` | ClusterProofs | | `ClusterSpec => NoLostUpdate` |
| `BackendTypeCorrect` | BackendProofs | | `Spec => []BackendTypeOK` |
| `OneSetOfStores` | BackendProofs | | `Spec => []SameStores` |
| `AnswersAreWhole` | BackendProofs | | `Spec => []WholeAnswer` |
| `OneSyncEach` | BackendProofs | `Len(Repo) = 1` | `Spec => []SyncedOnce` |
| `WrapperNotReentered` | BackendProofs | | `Spec => []NoReentry` |

None of the assumptions can be dropped: with `OrphanAt <- Backend`, with `Overlap = TRUE` or with
`FaultAt = {"putIdx"}` alone, on two servers and two pushers, and with `LocalGC = "any"` in the helper,
TLC finds a ref whose objects are not on S3 within a few thousand states. With `Len(Repo) = 2` it
finds the wrapper syncing another repository than the one git serves. In `ServeFresh`, too, TLC breaks
each property without its assumptions: an orphaned hook or a lease that expires under a push breaks
`SkipSafe`, `AcceptedApplies` and `EveryBumpCounts` (and the latter `HeadExists`); a torn index breaks
`SkipSafe` and `FreshServe`, and a hook that dies between its two PUTs breaks `SkipSafe`; a hook that
dies between its transaction and its bump breaks `AcceptedApplies` and `FreshServe`. Without `Careful` it is
`find_gc` that breaks `RefsReadable`.

**`NoSilentRewind`** needs no more than the types: only `CasRefs` writes refs, and it compares every
ref it writes with what the pusher was shown (`adv`). It holds
with leases that expire under live pushes and hooks that outlive their handlers, so it is the
compare, and not the lock, that protects history in fat mode.

**`EveryRefBacked`** is about the one hazard the two stores make: the refs move in etcd after a
receive-pack has looked at the cache and a hook has looked at S3. `RefsBacked` is not inductive: a
push relies on the cache it was checked against, on the listing the hook made, and on nobody else
being half way through a pack in that listing. `BackedInv` adds

* `LockHeld`: a pusher past `AcquireLock` owns the lock. Mutual exclusion is what makes the next
  conjunct useful, and the two assumptions on orphans and leases are what it costs;
* `HalfOwned`: a listed pack that is not whole belongs to a hook between its two PUTs. With
  `LockHeld`, what a hook lists is whole (`ListedIsWhole`), so skipping it loses nothing;
* `CachesBacked`, `SnapsBacked`: whatever git finds in a cache, and whatever a sync is about to write
  there, is backed; hence what the connectivity check lets pass needs only the quarantine
  (`ReceiveBacked`);
* `PushBacked`: from `pre-receive` on, what the push needs is on S3 or in the quarantine; until the
  upload ends, the quarantine is whole on S3 or still to be uploaded; afterwards it is whole.

`LockHeldStep` proves the first conjunct, `BackedStep` the others, with a lemma per kind of step.
Torn files, lost syncs, deaths at any other point and leases of the dead are all allowed.

**`SkipIsSafe`, `QuietAnswersFresh`, `AcceptedIsApplied`, `BumpsCount` and `HeadNamesBranch`** are about
one number. A cache records the version that its sync began with, not the one at its end, and a push
writes refs, HEAD and version by three calls; so that number must mean something although nothing
else holds the two stores together. `FreshInv` is what it means:

* `VersionInv`: no cache has recorded a version that etcd has not reached, a sync works towards one its
  cache does not have, and between its read and its write nobody else bumps (`LockHeld`);
* `CurrentInv`: when every change has been announced, a cache at the current version has etcd's refs and
  HEAD. `RefsSynced` carries this through the four writes of a sync that nothing overtakes: the loose
  refs go before the packed ones come, and the version last;
* `MuxHeld`: nobody else writes the cache under a request, which is what makes the previous one stable;
* `Quiet`, `Landed`: where every bump comes, what began in quiet finds its version still there; and until
  HEAD is written the refs are those of the push.

That is enough for the bump and for HEAD. `ServedInv` adds the objects: what a sync in time with etcd has
in its cache and on its list holds the histories of etcd's refs (`PacksSynced`), for which it takes
`BackedInv` and indexes that are whole. `PushInv` adds the push: changes are unannounced only while some
hook is between its transaction and its bump, so a push past its sync began in quiet, and from the
transaction on the cache has its refs at the advertised values (`Applies`). Failures at any other
step, torn packed-refs and version files, and leases of the dead are allowed.

**`ServersOnlyCache`** assumes nothing. `Listed`: a hook has what is in its quarantine on its list until
S3 has it, and a pack goes to the bucket before its index, so what git promotes afterwards is there.

**`HelperRefBacked`** has neither lock nor an order of uploads to rely on: users upload at the same
time, die with packs half uploaded, and stop their walks at what they believe S3 has. `HelperInv`
says that S3 is complete (`StoreSound`: what a whole pack holds has all it reaches in whole packs;
an index never goes before its pack), that what a user takes to be remote is (`ViewBacked`: what local packs hold
is in whole packs on S3, `adv` and `old` are backed), and that each ref leaves the queue with its history on S3
or in the pack under way (`PushBacked`, `UpBacked`). `UploadComplete` is the heart: a walk that
stops at objects whose histories are on S3 finds, with these, the whole history of its root. It rests on the leastness of
`Reach` (`ParentsAssumption`), because the walk goes by parents and the promise by reachability.
`LocalGC # "any"` is used in one place: `git gc` is the only step that can put into `objects/pack` what
S3 does not have, and a `git gc` of pushed objects does not.

**`NoFetchMisses`** uses `Loaded` of the same invariant: the packs loaded and the whole ones to load
hold all that `list` printed, because they are listed later than the refs (the server does it the
other way round, see the disagreements) and packs are never deleted.

**`HelperNeverBlind`** needs `OnlyForcedLeft`: when the loop over forced refs starts, nothing else is
left in the queue; and `Judged`: whatever git asks for without a `+` contains what the list had. The
compare is with the snapshot, so the two together say nothing of a value that came between list and
snapshot, and that is what `find_overwrite` finds.

**`ReportIsHonest`** needs `Wrote`: which refs a push has written at each step of the queue, the forced
ones one by one and the others all or none.

**`HelperIsRefStore`** and **`ServersAreRefStore`** are refinements: `HelperInv` and `BackedInv` give
what a single step needs, namely that the refs a transaction moves have their histories in whole
packs before it. `StoreStep` is what the step then is to etcd and S3, one of three shapes, and
`StoreStepRefines` maps each to a step of `RefStore` or to a stutter.

**`NobodyLosesUpdates`** is about both modes at once, with every failure of either: neither lock nor
announcement is needed, only that the hook compares with what its pusher was shown, and the helper
with its snapshot. `ClusterInv` has the types of both sides and, of `HelperProofs`, `NeverBlindInv`:
`OnlyForcedLeft` and `Judged`. `HP` is `HelperProofs` with
`Cluster`'s variables, so its lemmas hold of `H` (`SameStep`); a server's step leaves a user's
variables alone, and a user's step a server's. `HelperMoves` is what a user can do to one ref.

**`RepackKeepsAll`** needs, for a repack, how far it has brought what is left of the objects it
listed (`RepackInv`): read, then in a pack whose index is missing, then stored. What makes it
inductive beside other jobs and users is that they all go one way (`Onward`): nothing is written to
the loose area any more and nothing is taken out of the packs. So an object `repackMain` could not
read and deletes all the same was gone already; a `Put` that came back would break the proof at
that point.

**`RefsStayReadable`** is the hardest: gc and repack hold no lock, and users push while they work.
`RefsReadable` alone says nothing of what a push is about to make a ref reach. `ReadableInv` is about
`Needed`, the histories of the `Seeds`: what is packed, what the refs have, and what a push has in its
snapshot, where its walks stop. All of it is `Readable`. For each user, `PusherInv` is what `HelperInv` says
of the packs, with old tips that may be loose (`Known`): what left the queue is known or under way, and
a half-uploaded pack has the parents of all it holds or they are known. For each job, `JobInv` has

* `WalkInv`: all seeds, and all parents of what a gc has seen, are walked or to be walked, and nothing of
  it is broken. What comes in meanwhile is packed, and stands on seeds;
* `SweepInv`: nothing that is needed is left to be deleted;
* `PackInv`: while a repack runs, no object lacks its parents. With that a pack of what it has read
  breaks nothing.

`AloneInv` (a gc runs alone) is the part of `Careful` that has to last. A user's step is summarised by
what it `Brings`: objects whose parents are seeds or come along, and new seeds among these. The proofs
about jobs see that and not the sixteen actions. **`FetchMissesOnlyBehindDelete`** adds `FetchInv`: as
long as nothing was deleted since the list, what it printed is in what the fetch has loaded, will load or
can ask for. TLC has checked both invariants on the instance of `maintenance`.

**`OneSetOfStores`** is about the round trip through the environment: what `backendEnv` writes,
`loadEnv` must read back as the same configuration, whatever the inherited variables say and after
`scrubEnv` and `setupPath` (`BackendEnvCarries`, `LoadEnvBack`, `SetupCarries`). `StoresInv` carries it
along every process below a handler (`CarriedOn`). It needs a server that knows its stores, which is
why `ServerOK` has that a server which is up resolved them all. The assumptions on the constants
(`EnvAssumption`, `BackendAssumption`) say that directories differ and that no value is mistaken for
an unset variable.

**`AnswersAreWhole`** adds `Answered`: past the body the pipe is at its end, and nobody writes behind
it, because the processes that could have ended. **`OneSyncEach`** adds `SyncedSoFar`: in thin
mode nothing has synced before the wrapper, and in fat mode the wrapper is not found on any path.

**`WrapperNotReentered`** adds `Scrubbed`: the path of every process is a list of directories, and the
service's does not begin with the wrapper's. git's own exec-path in front of it is one half of that
(`ScrubbedEnv`), and that `scrubEnv` takes out the `GIT_EXEC_PATH` which would replace it; the other is
that what `stripPathEntry` leaves is a path at all. Its loop is a recursive function, and `StripType` is
an induction over it: `Rounds` has that the function exists up to any length, and `SetInduction` is
induction as a statement about sets of numbers, from the least element of the rest (`WFMin`).

Model-checked only: liveness (`serve_live`, `EveryBackendEnds`; liveness and `ENABLED` are beyond the
prover); and in `Cluster`, `RefsBacked`, `SkipSafe`, `HelperHonest` and `ImplementsRefStore` across the
modes (each mode has its own theorem of them, except that the helper has no `SkipSafe`). No module declares a RECURSIVE operator: `NewObjects`
is a least closed set, so that theorems about it need no induction.

## 5. What is left out

* One repository. Names with a slash, URL parsing and key prefixes are not modelled; what goes wrong
  with them is listed above.
* Listing S3 is one step (S3 lists are strongly consistent; pages are not modelled), and so is a GET or a PUT.
* Inside a pack or an object: deltas, encodings, hashes, submodules. A walk reaches what `Reach` says;
  breadth-first order is not modelled.
* Servers beside gc and repack: they never read the loose area, so they do not serve what only it
  has.
* The text of URLs, endpoint lists and headers: a URL is a record, a list of endpoints a set.
  What is in a request's body, and how git alternates between reading it and writing its answer: that
  a copy of it runs, and that `cmd.Wait` waits for that, is modelled.
* In the helper: a push whose source is not a ref, and a torn local index, both of which throw.
* git gives up on commits it does not like for reasons of its own only where the model says so
  (`ReceiveRefused`, `Promote`, `NeedsForce`).
* How etcd queues the waiters of the lock and `sync.Mutex` its own: fairness stands for both.
* argv, logging, and the flags of the commands.

## 6. Plan

What would come next, in order of what matters to somebody who runs ogorod:

1. `RefsBacked` and `ImplementsRefStore` for `Cluster`: a listed pack that is not whole may then be a
   user's, which `HalfOwned` has to allow.
2. **RepoLock**: the etcd mutex as its queue of keys with leases, implementing the lock that `Etcd`
   takes for granted; with the in-process mutex in front of it.
3. **Walk**: the breadth-first walks as steps, against the closure that `Helper` uses.
4. **RepoNames**: two repositories whose names are a prefix of each other, in etcd and in thin mode.
