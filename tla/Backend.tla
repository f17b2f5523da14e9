------------------------------ MODULE Backend ------------------------------
(***************************************************************************)
(* One server process, fat (serve.go) or thin (serve_thin.go), and the     *)
(* processes it starts: git http-backend, the wrapper that answers to the  *)
(* name git in thin mode (wrap.go), the git service itself and its         *)
(* children.  What a request does to the refs is Serve's subject; this     *)
(* module is about environments, pipes, exits and the end of a request.    *)
(*                                                                         *)
(* A pipe holds at most Cap chunks; who writes to a full one waits.  The   *)
(* processes below the one that the server started survive it.             *)
(***************************************************************************)
EXTENDS Env, Naturals

CONSTANTS
  Requests,      \* the requests, all for one repository
  Kinds,         \* what each may be: "fetch", "push" or "file" (dumb HTTP)
  Repo,          \* the repository's name, a sequence of path components
  Environments,  \* the environments a server may be started with
  GitDir,        \* where the real git is
  Cap, OutChunks, ErrChunks   \* bounds: a pipe, an answer, what goes to stderr

ASSUME BackendAssumption ==
  /\ Kinds \subseteq [Requests -> {"fetch", "push", "file"}]
  /\ Repo \in Seq(STRING) /\ Repo # <<>>
  /\ \A e \in Environments : DOMAIN e = Variables /\ e.PATH \in Seq(Dirs) \ {<<>>}
  /\ {Cap, OutChunks, ErrChunks} \subseteq Nat /\ Cap > 0

VARIABLES
  mode,     \* "fat" or "thin"
  status,   \* of the server: "boot", "up", "down"
  senv,     \* its environment
  cfg,      \* what it made of that (server.env)
  kind,     \* of each request
  hand,     \* each handler: "idle", "prepare", "start", "headers", "stream",
            \* "wait", "done", or "failed" (answered with an error)
  client,   \* each client: "reading" or "gone"
  top,      \* each process that a handler started: "none", "running", "ok",
            \* "fail" or "killed"
  at,       \* how far the processes below it are: "none", "backend",
            \* "wrap", "service", "file", "gone"
  env,      \* their environment
  ran,      \* what the service's own git children were: "no", "git", "wrap"
  synced,   \* the repositories that were synced for each request, in order
  used,     \* the configurations with which its stores were opened
  out, err,           \* chunks in the pipes
  outLeft, errLeft,   \* chunks still to come
  drain,    \* each goroutine that copies stderr: "off", "on", "eof", "torn"
  stdin     \* and each that copies a request's body to git's standard input:
            \* "off" or "on"

serverVars == <<mode, status, senv, cfg, kind>>
treeVars == <<at, env, ran, outLeft, errLeft>>
syncVars == <<synced, used>>
vars == <<serverVars, hand, client, top, treeVars, syncVars, out, err, drain, stdin>>

Final == {"done", "failed"}

\* Which git a PATH finds.  Every directory here holds one.
FindsWrapper(path) == Head(path) = BinDir

\* newEtcdClient: clientv3.New refuses an empty list of endpoints.
CanConnect(config) == config # NoConfig /\ config.etcd # {}

-----------------------------------------------------------------------------
(* The server.                                                             *)

Init ==
  /\ mode \in {"fat", "thin"} /\ status = "boot"
  /\ senv \in Environments /\ cfg = NoConfig
  /\ kind \in Kinds
  /\ hand = [r \in Requests |-> "idle"]
  /\ client = [r \in Requests |-> "reading"]
  /\ top = [r \in Requests |-> "none"]
  /\ at = [r \in Requests |-> "none"]
  /\ env = [r \in Requests |-> Nothing]
  /\ ran = [r \in Requests |-> "no"]
  /\ synced = [r \in Requests |-> <<>>]
  /\ used = [r \in Requests |-> {}]
  /\ out = [r \in Requests |-> 0] /\ err = [r \in Requests |-> 0]
  /\ outLeft = [r \in Requests |-> 0] /\ errLeft = [r \in Requests |-> 0]
  /\ drain = [r \in Requests |-> "off"] /\ stdin = [r \in Requests |-> "off"]

\* installPathWrappers.  A wrapper that an earlier start has left on the path
\* answers git --exec-path with an error: it has no OGOROD_REAL_GIT.
CanInstall == ~FindsWrapper(senv.PATH)
Installed  == [senv EXCEPT !.OGOROD_REAL_GIT = GitDir, !.OGOROD_THIN_BIN_DIR = BinDir]

\* serveMain and serveThinMain.
Boot ==
  /\ status = "boot"
  /\ senv' = IF mode = "thin" THEN Installed ELSE senv
  /\ cfg' = loadEnv(senv')
  /\ status' = IF cfg' = NoConfig \/ (mode = "thin" /\ ~CanInstall) THEN "down" ELSE "up"
  /\ UNCHANGED <<mode, kind, hand, client, top, treeVars, syncVars, out, err, drain, stdin>>

\* repoLock.
Enter(r) ==
  /\ status = "up" /\ hand[r] = "idle"
  /\ \A other \in Requests : hand[other] \in {"idle"} \cup Final
  /\ hand' = [hand EXCEPT ![r] = "prepare"]
  /\ UNCHANGED <<serverVars, client, top, treeVars, syncVars, out, err, drain, stdin>>

\* A handler opens its stores and syncs: fat always, thin for the lock only.
Prepare(r) ==
  /\ status = "up" /\ hand[r] = "prepare"
  /\ LET opens == mode = "fat" \/ kind[r] = "push"
     IN  \/ /\ opens => CanConnect(cfg)
            /\ used' = IF opens THEN [used EXCEPT ![r] = @ \cup {cfg}] ELSE used
            /\ synced' = IF mode = "fat" THEN [synced EXCEPT ![r] = Append(@, Repo)]
                         ELSE synced
            /\ hand' = [hand EXCEPT ![r] = "start"]
         \* ensureBareRepo throws, or etcd, S3 or the lock.
         \/ /\ hand' = [hand EXCEPT ![r] = "failed"]
            /\ UNCHANGED syncVars
  /\ UNCHANGED <<serverVars, client, top, treeVars, out, err, drain, stdin>>

-----------------------------------------------------------------------------
(* Handler: dispatchToBackend and parseAndStreamCGIResponse.               *)

BackendEnv ==
  setupPath(IF mode = "fat" THEN backendEnv(senv.PATH, Repo, cfg)
            ELSE backendEnvThin(senv.PATH, Repo, cfg, senv.OGOROD_REAL_GIT))

\* The goroutine os/exec starts for a body that is no file.  (That of a GET,
\* which has none, ends at once.)
Copies(r) ==
  stdin' = IF kind[r] = "file" THEN stdin ELSE [stdin EXCEPT ![r] = "on"]

\* A dispatchToBackend whose stderr nobody reads before Wait.
StartNoDrain(r) ==
  /\ status = "up" /\ hand[r] = "start"
  /\ hand' = [hand EXCEPT ![r] = "headers"]
  /\ top' = [top EXCEPT ![r] = "running"]
  /\ at' = [at EXCEPT ![r] = "backend"]
  /\ env' = [env EXCEPT ![r] = BackendEnv]
  /\ Copies(r)
  /\ UNCHANGED <<serverVars, client, ran, syncVars, out, err, outLeft, errLeft, drain>>

\* No pipe is left to open, or no process to start.
StartFails(r) ==
  /\ status = "up" /\ hand[r] = "start"
  /\ hand' = [hand EXCEPT ![r] = "failed"]
  /\ UNCHANGED <<serverVars, client, top, treeVars, syncVars, out, err, drain, stdin>>

\* git http-backend, found on the server's own PATH.  A wrapper that a fat
\* server finds there has no OGOROD_REAL_GIT and stops.
Start(r) ==
  /\ status = "up" /\ hand[r] = "start"
  /\ hand' = [hand EXCEPT ![r] = "headers"]
  /\ IF FindsWrapper(senv.PATH)
       THEN /\ top' = [top EXCEPT ![r] = "fail"]
            /\ at' = [at EXCEPT ![r] = "gone"]
       ELSE /\ top' = [top EXCEPT ![r] = "running"]
            /\ at' = [at EXCEPT ![r] = "backend"]
  /\ env' = [env EXCEPT ![r] = BackendEnv]
  /\ drain' = [drain EXCEPT ![r] = "on"] /\ Copies(r)
  /\ UNCHANGED <<serverVars, client, ran, syncVars, out, err, outLeft, errLeft>>

\* Both of a pipe's ends that write are closed, and it is empty.
AtEOF(r) == out[r] = 0 /\ at[r] = "gone"

\* The header, or Throw(io.EOF).
ReadHeaders(r) ==
  /\ status = "up" /\ hand[r] = "headers"
  /\ \/ /\ out[r] > 0
        /\ out' = [out EXCEPT ![r] = @ - 1]
        /\ hand' = [hand EXCEPT ![r] = "stream"]
     \/ /\ AtEOF(r)
        /\ hand' = [hand EXCEPT ![r] = "failed"]
        /\ UNCHANGED out
  /\ UNCHANGED <<serverVars, client, top, treeVars, syncVars, err, drain, stdin>>

\* io.Copy(w, br), which throws when w is a connection that is gone.
StreamChunk(r) ==
  /\ hand[r] = "stream" /\ out[r] > 0
  /\ out' = [out EXCEPT ![r] = @ - 1]
  /\ hand' = [hand EXCEPT ![r] = IF client[r] = "gone" THEN "failed" ELSE @]

\* A Stream that ends with the process instead of the pipe.
StreamToExit(r) ==
  /\ status = "up"
  /\ \/ StreamChunk(r)
     \/ /\ hand[r] = "stream" /\ top[r] # "running"
        /\ hand' = [hand EXCEPT ![r] = "wait"]
        /\ UNCHANGED out
  /\ UNCHANGED <<serverVars, client, top, treeVars, syncVars, err, drain, stdin>>

Stream(r) ==
  /\ status = "up"
  /\ \/ StreamChunk(r)
     \/ /\ hand[r] = "stream" /\ AtEOF(r)
        /\ hand' = [hand EXCEPT ![r] = "wait"]
        /\ UNCHANGED out
  /\ UNCHANGED <<serverVars, client, top, treeVars, syncVars, err, drain, stdin>>

\* The copy ends with the body, which the service reads, or with the last
\* process that could; or the client is gone.  (What fits into the pipe is
\* copied before that; nobody can tell.)
Feed(r) ==
  /\ status = "up" /\ stdin[r] = "on"
  /\ at[r] \in {"service", "gone"} \/ client[r] = "gone"
  /\ stdin' = [stdin EXCEPT ![r] = "off"]
  /\ UNCHANGED <<serverVars, hand, client, top, treeVars, syncVars, out, err, drain>>

\* cmd.Wait waits for the process and for the copy of the body, but not for the
\* goroutine that copies stderr, whose pipe it closes as soon as the process
\* has ended, read to the end or not.  It reports how the process ended, or
\* that the body broke off.
Wait(r) ==
  /\ status = "up" /\ hand[r] = "wait" /\ top[r] # "running" /\ stdin[r] = "off"
  /\ \/ /\ top[r] = "ok"
        /\ hand' = [hand EXCEPT ![r] = "done"]
     \/ /\ top[r] # "ok" \/ client[r] = "gone"
        /\ hand' = [hand EXCEPT ![r] = "failed"]
  /\ drain' = [drain EXCEPT ![r] = IF @ = "on" THEN "torn" ELSE @]
  /\ UNCHANGED <<serverVars, client, top, treeVars, syncVars, out, err, stdin>>

\* The goroutine that copies stderr, to its end.
Drain(r) ==
  /\ status = "up" /\ drain[r] = "on"
  /\ \/ /\ err[r] > 0
        /\ err' = [err EXCEPT ![r] = @ - 1]
        /\ UNCHANGED drain
     \/ /\ err[r] = 0 /\ at[r] = "gone"
        /\ drain' = [drain EXCEPT ![r] = "eof"]
        /\ UNCHANGED err
  /\ UNCHANGED <<serverVars, hand, client, top, treeVars, syncVars, out, stdin>>

\* Its Throw2, outside any Try, when the pipe was closed before that.
Panic(r) ==
  /\ status = "up" /\ drain[r] = "torn"
  /\ status' = "down"
  /\ UNCHANGED <<mode, senv, cfg, kind, hand, client, top, treeVars, syncVars, out,
                 err, drain, stdin>>

\* The client hangs up.  Before git was started that is one more way for
\* Prepare to throw, after the last of the answer it makes no difference.
HangUp(r) ==
  /\ client[r] = "reading" /\ hand[r] \in {"headers", "stream"}
  /\ client' = [client EXCEPT ![r] = "gone"]
  /\ UNCHANGED <<serverVars, hand, top, treeVars, syncVars, out, err, drain, stdin>>

\* exec.CommandContext: the request's context ends with the client or with the
\* handler, and takes the process that was started with it, not the others.
Kill(r) ==
  /\ status = "up" /\ top[r] = "running"
  /\ client[r] = "gone" \/ hand[r] \in Final
  /\ top' = [top EXCEPT ![r] = "killed"]
  /\ \/ UNCHANGED at
     \/ at[r] = "backend" /\ at' = [at EXCEPT ![r] = "gone"]
  /\ UNCHANGED <<serverVars, hand, client, env, ran, outLeft, errLeft, syncVars,
                 out, err, drain, stdin>>

-----------------------------------------------------------------------------
(* The processes.                                                          *)

\* The last of them exits, and takes the one that waits for it along.
Exit(r, how) ==
  /\ at' = [at EXCEPT ![r] = "gone"]
  /\ top' = [top EXCEPT ![r] = IF @ = "running" THEN how ELSE @]

\* http-backend sends the header and then runs git upload-pack or git
\* receive-pack, or sends a file.  Or it dies before that.
BackendRuns(r) ==
  /\ at[r] = "backend"
  /\ \/ /\ out[r] < Cap
        /\ out' = [out EXCEPT ![r] = @ + 1]
        /\ at' = [at EXCEPT ![r] = IF kind[r] = "file" THEN "file"
                                   ELSE IF FindsWrapper(env[r].PATH) THEN "wrap"
                                   ELSE "service"]
        /\ \E o \in {0, OutChunks}, e \in {0, ErrChunks} :
             /\ outLeft' = [outLeft EXCEPT ![r] = o]
             /\ errLeft' = [errLeft EXCEPT ![r] = e]
        /\ UNCHANGED top
     \/ /\ Exit(r, "fail")
        /\ UNCHANGED <<out, outLeft, errLeft>>
  /\ UNCHANGED <<serverVars, hand, client, env, ran, syncVars, err, drain, stdin>>

\* doSync: filepath.Base of the repository's directory.
Base(repo) == <<repo[Len(repo)]>>

\* wrapMain, for upload-pack and receive-pack.
Wrap(r) ==
  /\ at[r] = "wrap"
  /\ LET config == loadEnv(env[r])
     IN  \/ /\ CanConnect(config)
            /\ synced' = [synced EXCEPT ![r] = Append(@, Base(Repo))]
            /\ used' = [used EXCEPT ![r] = @ \cup {config}]
            /\ at' = [at EXCEPT ![r] = "service"]
            /\ env' = [env EXCEPT ![r] = setupPath(scrubEnv(@))]
            /\ UNCHANGED top
         \/ /\ Exit(r, "fail")
            /\ UNCHANGED <<syncVars, env>>
  /\ UNCHANGED <<serverVars, hand, client, ran, out, err, outLeft, errLeft, drain, stdin>>

\* The service's children: gits of its own, and the hook for a push.
RunChildren(r) ==
  /\ at[r] = "service" /\ ran[r] = "no"
  /\ ran' = [ran EXCEPT ![r] = IF FindsWrapper(env[r].PATH) THEN "wrap" ELSE "git"]
  /\ LET config == loadEnv(env[r])
     IN  used' = IF kind[r] = "push" /\ CanConnect(config)
                   THEN [used EXCEPT ![r] = @ \cup {config}] ELSE used
  /\ UNCHANGED <<serverVars, hand, client, top, at, env, synced, out, err, outLeft,
                 errLeft, drain, stdin>>

Writing(r) == at[r] \in {"service", "file"}

\* A server that is down has closed its ends: who writes then dies.
WriteOut(r) ==
  /\ Writing(r) /\ outLeft[r] > 0
  /\ \/ /\ status = "up" /\ out[r] < Cap
        /\ out' = [out EXCEPT ![r] = @ + 1]
        /\ outLeft' = [outLeft EXCEPT ![r] = @ - 1]
        /\ UNCHANGED <<at, top>>
     \/ /\ status = "down"
        /\ Exit(r, "fail")
        /\ UNCHANGED <<out, outLeft>>
  /\ UNCHANGED <<serverVars, hand, client, env, ran, errLeft, syncVars, err, drain, stdin>>

\* A pipe without a bound.
WriteErrAlways(r) ==
  /\ Writing(r) /\ errLeft[r] > 0
  /\ err' = [err EXCEPT ![r] = @ + 1]
  /\ errLeft' = [errLeft EXCEPT ![r] = @ - 1]
  /\ UNCHANGED <<serverVars, hand, client, top, at, env, ran, outLeft, syncVars,
                 out, drain, stdin>>

WriteErr(r) ==
  /\ Writing(r) /\ errLeft[r] > 0
  /\ \/ /\ status = "up" /\ err[r] < Cap
        /\ err' = [err EXCEPT ![r] = @ + 1]
        /\ errLeft' = [errLeft EXCEPT ![r] = @ - 1]
        /\ UNCHANGED <<at, top>>
     \/ /\ status = "down"
        /\ Exit(r, "fail")
        /\ UNCHANGED <<err, errLeft>>
  /\ UNCHANGED <<serverVars, hand, client, env, ran, outLeft, syncVars, out, drain, stdin>>

Ends(r) ==
  /\ Writing(r) /\ outLeft[r] = 0 /\ errLeft[r] = 0
  /\ at[r] = "service" => ran[r] # "no"
  /\ Exit(r, "ok") \/ Exit(r, "fail")
  /\ UNCHANGED <<serverVars, hand, client, env, ran, syncVars, out, err, outLeft,
                 errLeft, drain, stdin>>

-----------------------------------------------------------------------------
HandlerStep(r) ==
  \/ Enter(r) \/ Prepare(r) \/ Start(r) \/ StartFails(r)
  \/ ReadHeaders(r) \/ Stream(r) \/ Wait(r)

ProcessStep(r) ==
  \/ BackendRuns(r) \/ Wrap(r) \/ RunChildren(r) \/ WriteOut(r) \/ WriteErr(r)
  \/ Ends(r)

GoroutineStep(r) == Drain(r) \/ Panic(r) \/ Feed(r) \/ Kill(r)

Next ==
  \/ Boot
  \/ \E r \in Requests : \/ HandlerStep(r) \/ ProcessStep(r) \/ GoroutineStep(r)
                         \/ HangUp(r)

Spec == Init /\ [][Next]_vars

\* Every process and goroutine is scheduled, and a waiting handler gets the
\* mutex.  Clients read their answers, and send what they announced or hang up:
\* the server has no timeout for one that does neither.
FairSpec ==
  /\ Spec
  /\ \A r \in Requests : /\ WF_vars(HandlerStep(r)) /\ WF_vars(ProcessStep(r))
                         /\ WF_vars(Drain(r) \/ Panic(r)) /\ WF_vars(Feed(r))

-----------------------------------------------------------------------------
(* Properties.                                                             *)

\* Pipes stay within their size.
BackendTypeOK ==
  /\ mode \in {"fat", "thin"} /\ status \in {"boot", "up", "down"}
  /\ hand \in [Requests -> {"idle", "prepare", "start", "headers", "stream", "wait"}
                           \cup Final]
  /\ client \in [Requests -> {"reading", "gone"}]
  /\ top \in [Requests -> {"none", "running", "ok", "fail", "killed"}]
  /\ at \in [Requests -> {"none", "backend", "wrap", "service", "file", "gone"}]
  /\ ran \in [Requests -> {"no", "git", "wrap"}]
  /\ out \in [Requests -> 0..Cap] /\ err \in [Requests -> 0..Cap]
  /\ outLeft \in [Requests -> 0..OutChunks] /\ errLeft \in [Requests -> 0..ErrChunks]
  /\ drain \in [Requests -> {"off", "on", "eof", "torn"}]
  /\ stdin \in [Requests -> {"off", "on"}]

\* serve.go, wrap.go: git's service runs after exactly one sync, of the
\* request's repository: by the handler in fat mode, by the wrapper in thin
\* mode, which PATH lookup must find exactly there.
SyncedOnce ==
  \A r \in Requests : at[r] = "service" => synced[r] = <<Repo>>

\* scrubEnv: no git that the service itself runs is the wrapper.
NoReentry == \A r \in Requests : ran[r] # "wrap"

\* env.go, backendEnv: whichever variables the server was configured by, and
\* whatever others lie about, the wrapper and the hook open the stores that
\* the server uses.
SameStores == \A r \in Requests : used[r] \subseteq {cfg}

\* parseAndStreamCGIResponse, cmd.Wait: a request that ends without an error
\* has passed on everything git wrote, and git succeeded.
WholeAnswer ==
  \A r \in Requests : hand[r] = "done" => top[r] = "ok" /\ AtEOF(r)

\* A handler that ended before Wait, because of the client or of an answer
\* without a header, leaves the pipes open with nobody to read them.
Abandoned(r) == hand[r] = "failed" /\ top[r] \in {"running", "killed"}

\* dispatchToBackend: no pipe that fills up, client that hangs up or process
\* that dies keeps a handler (and the mutex it holds) for ever, and the
\* processes of a request whose client stays end as well.
EveryBackendEnds ==
  \A r \in Requests :
    /\ hand[r] # "idle" ~> (hand[r] \in Final \/ status = "down")
    /\ at[r] # "none" ~> (at[r] = "gone" \/ Abandoned(r))

\* STYLE.md, on goroutines: a server that is up is not brought down by a
\* request.
ServerSurvives == [][status = "up" => status' = "up"]_vars
=============================================================================
