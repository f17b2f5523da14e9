---------------------------- MODULE BackendProofs --------------------------
(***************************************************************************)
(* Proofs about Backend, for any environments, pipes, requests and modes:  *)
(* SameStores, SyncedOnce for names of one component, WholeAnswer, and     *)
(* NoReentry.                                                              *)
(***************************************************************************)
EXTENDS Backend, TLAPS, WellFoundedInduction

-----------------------------------------------------------------------------
(* Environments: what a server hands down is what a child reads.           *)

\* The variables that backendEnv sets for loadEnv, and the one it must not.
Carries(e, c) ==
  /\ e.OGOROD_ETCD_ENDPOINTS = IF c.etcd = {} THEN Unset ELSE c.etcd
  /\ e.ETCDCTL_ENDPOINTS = Unset
  /\ e.OGOROD_S3_ENDPOINT = c.s3
  /\ e.OGOROD_S3_ACCESS_KEY = c.access
  /\ e.OGOROD_S3_SECRET_KEY = c.secret
  /\ e.OGOROD_S3_BUCKET = c.bucket

\* What loadEnv returns, when it returns.
Loaded(c) ==
  /\ c = [etcd |-> c.etcd, s3 |-> c.s3, access |-> c.access,
          secret |-> c.secret, bucket |-> c.bucket]
  /\ Unset \notin {c.etcd, c.s3, c.access, c.secret, c.bucket}

LEMMA LoadEnvLoads ==
  ASSUME NEW e, loadEnv(e) # NoConfig PROVE Loaded(loadEnv(e))
<1> DEFINE c == Resolved(e)
<1>1. /\ loadEnv(e) = c
      /\ Unset \notin {c.etcd, c.s3, c.access, c.secret}
  BY DEF loadEnv
<1>2. c = [etcd |-> c.etcd, s3 |-> c.s3, access |-> c.access,
           secret |-> c.secret, bucket |-> c.bucket]
  BY DEF Resolved
<1>3. c.bucket # Unset
  BY EnvAssumption DEF Resolved, OrElse
<1> QED BY <1>1, <1>2, <1>3 DEF Loaded

\* The round trip: a child of the server reads the server's configuration, or
\* nothing at all.
LEMMA LoadEnvBack ==
  ASSUME NEW e, NEW c, Loaded(c), Carries(e, c)
  PROVE  loadEnv(e) \in {c, NoConfig}
<1>1. /\ Resolved(e).s3 = c.s3 /\ Resolved(e).access = c.access
      /\ Resolved(e).secret = c.secret /\ Resolved(e).bucket = c.bucket
  BY DEF Resolved, OrElse, Loaded, Carries
<1>2. CASE c.etcd = {}
  <2>1. Resolved(e).etcd = Unset
    BY <1>2 DEF Resolved, OrElse, Carries
  <2> QED BY <2>1 DEF loadEnv
<1>3. CASE c.etcd # {}
  <2>1. Resolved(e).etcd = c.etcd
    BY <1>3 DEF Resolved, OrElse, Carries, Loaded
  <2>2. Resolved(e) = [etcd |-> Resolved(e).etcd, s3 |-> Resolved(e).s3,
                       access |-> Resolved(e).access,
                       secret |-> Resolved(e).secret, bucket |-> Resolved(e).bucket]
    BY DEF Resolved
  <2>3. Resolved(e) = c
    BY <1>1, <2>1, <2>2 DEF Loaded
  <2> QED BY <2>3 DEF loadEnv
<1> QED BY <1>2, <1>3

LEMMA BackendEnvCarries ==
  ASSUME NEW path, NEW repo, NEW c
  PROVE  /\ Carries(backendEnv(path, repo, c), c)
         /\ backendEnv(path, repo, c).PATH = path
         /\ backendEnv(path, repo, c).GIT_EXEC_PATH = Unset
         /\ DOMAIN backendEnv(path, repo, c) = Variables
  BY DEF Carries, backendEnv, Nothing, Variables

LEMMA BackendEnvThinCarries ==
  ASSUME NEW path, NEW repo, NEW c, NEW git
  PROVE  /\ Carries(backendEnvThin(path, repo, c, git), c)
         /\ backendEnvThin(path, repo, c, git).PATH = <<BinDir>> \o path
         /\ backendEnvThin(path, repo, c, git).GIT_EXEC_PATH = <<BinDir, RealExec>>
         /\ DOMAIN backendEnvThin(path, repo, c, git) = Variables
  BY DEF Carries, backendEnv, backendEnvThin, Nothing, Variables

\* Neither git nor the wrapper touches those variables.
LEMMA SetupCarries ==
  ASSUME NEW e, NEW c, DOMAIN e = Variables, Carries(e, c)
  PROVE  /\ Carries(setupPath(e), c) /\ DOMAIN setupPath(e) = Variables
         /\ Carries(scrubEnv(e), c) /\ DOMAIN scrubEnv(e) = Variables
  BY DEF Carries, setupPath, scrubEnv, Variables

-----------------------------------------------------------------------------
(* The inductive invariant.                                                *)

Alive == {"backend", "wrap", "service", "file"}

\* A server that takes requests knows its stores; one that boots has none.
ServerOK ==
  /\ DOMAIN senv = Variables /\ senv.PATH \in Seq(Dirs)
  /\ status = "up" => Loaded(cfg)
  /\ status = "boot" => \A r \in Requests : hand[r] = "idle"
  /\ \A f \in {env, synced, used} : DOMAIN f = Requests

\* What runs below a handler carries the server's configuration.
CarriedOn(r) ==
  /\ hand[r] \in {"idle", "prepare", "start"} => at[r] = "none"
  /\ hand[r] = "idle" => used[r] = {}
  /\ hand[r] # "idle" => Loaded(cfg)
  /\ at[r] \in Alive => Carries(env[r], cfg) /\ DOMAIN env[r] = Variables
  /\ used[r] \subseteq {cfg}

\* Nobody writes behind the end of the answer, and an exit is final.
Answered(r) ==
  /\ hand[r] \in {"wait", "done"} => AtEOF(r)
  /\ hand[r] = "done" => top[r] = "ok"

\* The handler syncs before it starts git in fat mode, and only the wrapper
\* does in thin mode, which finds it behind http-backend and nowhere else.
SyncedSoFar(r) ==
  /\ at[r] = "backend" => (FindsWrapper(env[r].PATH) <=> mode = "thin")
  /\ at[r] = "wrap" => mode = "thin"
  /\ mode = "fat" /\ hand[r] \in {"idle", "prepare"} => synced[r] = <<>>
  /\ mode = "fat" /\ (hand[r] = "start" \/ at[r] # "none") => synced[r] = <<Repo>>
  /\ mode = "thin" /\ at[r] \in {"none", "backend", "wrap"} => synced[r] = <<>>
  /\ at[r] = "service" => synced[r] = <<Repo>>

\* Paths are lists of directories.  The wrapper is not on the service's, and so
\* not what the service finds by the name git.
Scrubbed(r) ==
  /\ at[r] \in Alive => env[r].PATH \in Seq(Dirs)
  /\ at[r] = "service" => ~FindsWrapper(env[r].PATH)
  /\ ran[r] # "wrap"

StoresInv ==
  /\ BackendTypeOK /\ ServerOK
  /\ \A r \in Requests : CarriedOn(r)

-----------------------------------------------------------------------------
(* Types.                                                                  *)

StatesOK ==
  /\ mode \in {"fat", "thin"} /\ status \in {"boot", "up", "down"}
  /\ hand \in [Requests -> {"idle", "prepare", "start", "headers", "stream", "wait"}
                           \cup Final]
  /\ client \in [Requests -> {"reading", "gone"}]
  /\ top \in [Requests -> {"none", "running", "ok", "fail", "killed"}]
  /\ at \in [Requests -> {"none", "backend", "wrap", "service", "file", "gone"}]
  /\ ran \in [Requests -> {"no", "git", "wrap"}]
  /\ drain \in [Requests -> {"off", "on", "eof", "torn"}]
  /\ stdin \in [Requests -> {"off", "on"}]

PipesOK ==
  /\ out \in [Requests -> 0..Cap] /\ err \in [Requests -> 0..Cap]
  /\ outLeft \in [Requests -> 0..OutChunks] /\ errLeft \in [Requests -> 0..ErrChunks]

LEMMA Bounds == {Cap, OutChunks, ErrChunks} \subseteq Nat /\ Cap > 0
  BY BackendAssumption

LEMMA TypeParts == BackendTypeOK <=> StatesOK /\ PipesOK
  BY DEF BackendTypeOK, StatesOK, PipesOK

LEMMA InitType == Init => BackendTypeOK
  BY BackendAssumption, Bounds DEF Init, BackendTypeOK, Final

LEMMA NextStates == StatesOK /\ [Next]_vars => StatesOK'
<1> SUFFICES ASSUME StatesOK, [Next]_vars PROVE StatesOK'
  OBVIOUS
<1> USE DEF StatesOK, Final
<1>1. CASE Boot
  BY <1>1 DEF Boot, treeVars
<1>2. ASSUME NEW r \in Requests, HandlerStep(r) PROVE StatesOK'
  <2>1. CASE Enter(r)
    BY <2>1 DEF Enter, serverVars, treeVars
  <2>2. CASE Prepare(r)
    BY <2>2 DEF Prepare, serverVars, treeVars
  <2>3. CASE Start(r)
    <3>1. stdin' \in [Requests -> {"off", "on"}]
      BY <2>3 DEF Start, Copies
    <3>2. /\ UNCHANGED <<mode, status, client, ran>>
          /\ hand' = [hand EXCEPT ![r] = "headers"]
          /\ drain' = [drain EXCEPT ![r] = "on"]
          /\ \E how \in {"fail", "running"} : top' = [top EXCEPT ![r] = how]
          /\ \E far \in {"gone", "backend"} : at' = [at EXCEPT ![r] = far]
      BY <2>3 DEF Start, serverVars
    <3> QED BY <3>1, <3>2
  <2>4. CASE ReadHeaders(r)
    <3>1. /\ UNCHANGED <<mode, status, client, top, at, ran, drain, stdin>>
          /\ \E step \in {"stream", "failed"} : hand' = [hand EXCEPT ![r] = step]
      BY <2>4 DEF ReadHeaders, serverVars, treeVars
    <3> QED BY <3>1
  <2>5. CASE Stream(r)
    BY <2>5 DEF Stream, StreamChunk, serverVars, treeVars
  <2>6. CASE Wait(r)
    BY <2>6 DEF Wait, serverVars, treeVars
  <2>7. CASE StartFails(r)
    BY <2>7 DEF StartFails, serverVars, treeVars
  <2> QED BY <1>2, <2>1, <2>2, <2>3, <2>4, <2>5, <2>6, <2>7 DEF HandlerStep
<1>3. ASSUME NEW r \in Requests, ProcessStep(r) PROVE StatesOK'
  <2>1. CASE BackendRuns(r)
    BY <2>1 DEF BackendRuns, Exit, serverVars
  <2>2. CASE Wrap(r)
    BY <2>2 DEF Wrap, Exit, serverVars
  <2>3. CASE RunChildren(r)
    BY <2>3 DEF RunChildren, serverVars
  <2>4. CASE WriteOut(r)
    <3>1. /\ UNCHANGED <<mode, status, hand, client, ran, drain, stdin>>
          /\ UNCHANGED <<at, top>> \/ Exit(r, "ok") \/ Exit(r, "fail")
      BY <2>4 DEF WriteOut, serverVars
    <3> QED BY <3>1 DEF Exit
  <2>5. CASE WriteErr(r)
    <3>1. /\ UNCHANGED <<mode, status, hand, client, ran, drain, stdin>>
          /\ UNCHANGED <<at, top>> \/ Exit(r, "ok") \/ Exit(r, "fail")
      BY <2>5 DEF WriteErr, serverVars
    <3> QED BY <3>1 DEF Exit
  <2>6. CASE Ends(r)
    <3>1. /\ UNCHANGED <<mode, status, hand, client, ran, drain, stdin>>
          /\ UNCHANGED <<at, top>> \/ Exit(r, "ok") \/ Exit(r, "fail")
      BY <2>6 DEF Ends, serverVars
    <3> QED BY <3>1 DEF Exit
  <2> QED BY <1>3, <2>1, <2>2, <2>3, <2>4, <2>5, <2>6 DEF ProcessStep
<1>4. ASSUME NEW r \in Requests, GoroutineStep(r) PROVE StatesOK'
  <2>1. CASE Drain(r)
    BY <2>1 DEF Drain, serverVars, treeVars
  <2>2. CASE Panic(r)
    BY <2>2 DEF Panic, treeVars
  <2>3. CASE Kill(r)
    BY <2>3 DEF Kill, serverVars
  <2>4. CASE Feed(r)
    BY <2>4 DEF Feed, serverVars, treeVars
  <2> QED BY <1>4, <2>1, <2>2, <2>3, <2>4 DEF GoroutineStep
<1>5. ASSUME NEW r \in Requests, HangUp(r) PROVE StatesOK'
  BY <1>5 DEF HangUp, serverVars, treeVars
<1>6. CASE UNCHANGED vars
  BY <1>6 DEF vars, serverVars, treeVars
<1> QED BY <1>1, <1>2, <1>3, <1>4, <1>5, <1>6 DEF Next

LEMMA NextPipes == PipesOK /\ [Next]_vars => PipesOK'
<1> SUFFICES ASSUME PipesOK, [Next]_vars PROVE PipesOK'
  OBVIOUS
<1> USE Bounds DEF PipesOK
<1>1. ASSUME NEW r \in Requests, ReadHeaders(r) \/ Stream(r) PROVE PipesOK'
  <2>1. /\ UNCHANGED <<err, outLeft, errLeft>>
        /\ UNCHANGED out \/ (out[r] > 0 /\ out' = [out EXCEPT ![r] = @ - 1])
    BY <1>1 DEF ReadHeaders, Stream, StreamChunk, treeVars
  <2> QED BY <2>1
<1>2. ASSUME NEW r \in Requests, Drain(r) PROVE PipesOK'
  <2>1. /\ UNCHANGED <<out, outLeft, errLeft>>
        /\ UNCHANGED err \/ (err[r] > 0 /\ err' = [err EXCEPT ![r] = @ - 1])
    BY <1>2 DEF Drain, treeVars
  <2> QED BY <2>1
<1>4. ASSUME NEW r \in Requests, WriteOut(r) PROVE PipesOK'
  <2>1. /\ UNCHANGED <<err, errLeft>>
        /\ \/ UNCHANGED <<out, outLeft>>
           \/ /\ out[r] < Cap /\ out' = [out EXCEPT ![r] = @ + 1]
              /\ outLeft[r] > 0 /\ outLeft' = [outLeft EXCEPT ![r] = @ - 1]
    BY <1>4 DEF WriteOut
  <2> QED BY <2>1
<1>5. ASSUME NEW r \in Requests, WriteErr(r) PROVE PipesOK'
  <2>1. /\ UNCHANGED <<out, outLeft>>
        /\ \/ UNCHANGED <<err, errLeft>>
           \/ /\ err[r] < Cap /\ err' = [err EXCEPT ![r] = @ + 1]
              /\ errLeft[r] > 0 /\ errLeft' = [errLeft EXCEPT ![r] = @ - 1]
    BY <1>5 DEF WriteErr
  <2> QED BY <2>1
<1>6. ASSUME NEW r \in Requests, BackendRuns(r) PROVE PipesOK'
  <2>1. /\ UNCHANGED err
        /\ \/ UNCHANGED <<out, outLeft, errLeft>>
           \/ /\ out[r] < Cap /\ out' = [out EXCEPT ![r] = @ + 1]
              /\ \E o \in {0, OutChunks}, e \in {0, ErrChunks} :
                   /\ outLeft' = [outLeft EXCEPT ![r] = o]
                   /\ errLeft' = [errLeft EXCEPT ![r] = e]
    BY <1>6 DEF BackendRuns
  <2> QED BY <2>1
<1>3. CASE UNCHANGED <<out, err, outLeft, errLeft>>
  BY <1>3
<1> QED
  BY <1>1, <1>2, <1>3, <1>4, <1>5, <1>6
  DEF Next, HandlerStep, ProcessStep, GoroutineStep, Boot, Enter, Prepare, Start,
      StartFails, Feed, Wait, Panic, Kill, HangUp, Wrap, RunChildren, Ends, vars, treeVars

LEMMA NextType == BackendTypeOK /\ [Next]_vars => BackendTypeOK'
  BY NextStates, NextPipes DEF BackendTypeOK, StatesOK, PipesOK

\* Pipes stay within their bound, and every field within its values.
THEOREM BackendTypeCorrect == Spec => []BackendTypeOK
  BY InitType, NextType, PTL DEF Spec

-----------------------------------------------------------------------------
(* The server: what it boots with, it keeps.                               *)

LEMMA InitServer == Init => ServerOK
<1> SUFFICES ASSUME Init PROVE ServerOK
  OBVIOUS
<1>1. DOMAIN senv = Variables /\ senv.PATH \in Seq(Dirs)
  BY BackendAssumption DEF Init
<1> QED BY <1>1 DEF Init, ServerOK

LEMMA NextServer == ServerOK /\ [Next]_vars => ServerOK'
<1> SUFFICES ASSUME ServerOK, [Next]_vars PROVE ServerOK'
  OBVIOUS
<1>1. CASE Boot
  <2>1. DOMAIN senv' = Variables /\ senv'.PATH = senv.PATH
    BY <1>1 DEF Boot, Installed, ServerOK, Variables
  <2>2. status' = "up" => Loaded(cfg')
    BY <1>1, LoadEnvLoads DEF Boot
  <2> QED BY <1>1, <2>1, <2>2 DEF Boot, ServerOK, treeVars, syncVars
<1>2. CASE UNCHANGED <<serverVars, hand, env, synced, used>>
  BY <1>2 DEF ServerOK, serverVars
<1> QED
  BY <1>1, <1>2
  DEF ServerOK, Next, HandlerStep, ProcessStep, GoroutineStep, Enter,
      Prepare, Start, StartFails, Feed, ReadHeaders, Stream, Wait, BackendRuns, Wrap, RunChildren,
      WriteOut, WriteErr, Ends, Drain, Panic, Kill, HangUp, vars, treeVars,
      serverVars, syncVars

-----------------------------------------------------------------------------
(* What runs below a handler carries the server's configuration.           *)

LEMMA BackendEnvIs ==
  ASSUME ServerOK, mode \in {"fat", "thin"}
  PROVE  /\ Carries(BackendEnv, cfg) /\ DOMAIN BackendEnv = Variables
         /\ BackendEnv.PATH \in Seq(Dirs)
         /\ FindsWrapper(BackendEnv.PATH) <=> mode = "thin"
<1> DEFINE fat  == backendEnv(senv.PATH, Repo, cfg)
           thin == backendEnvThin(senv.PATH, Repo, cfg, senv.OGOROD_REAL_GIT)
           e == IF mode = "fat" THEN fat ELSE thin
<1>1. /\ Carries(e, cfg) /\ DOMAIN e = Variables
      /\ e.PATH = IF mode = "fat" THEN senv.PATH ELSE <<BinDir>> \o senv.PATH
      /\ e.GIT_EXEC_PATH = IF mode = "fat" THEN Unset ELSE <<BinDir, RealExec>>
  <2>1. /\ Carries(fat, cfg) /\ DOMAIN fat = Variables
        /\ fat.PATH = senv.PATH /\ fat.GIT_EXEC_PATH = Unset
    BY BackendEnvCarries
  <2>2. /\ Carries(thin, cfg) /\ DOMAIN thin = Variables
        /\ thin.PATH = <<BinDir>> \o senv.PATH
        /\ thin.GIT_EXEC_PATH = <<BinDir, RealExec>>
    BY BackendEnvThinCarries
  <2> HIDE DEF fat, thin
  <2> QED BY <2>1, <2>2
<1>2. BackendEnv = setupPath(e)
  BY DEF BackendEnv
<1> HIDE DEF e
<1>3. Carries(setupPath(e), cfg) /\ DOMAIN setupPath(e) = Variables
  BY <1>1, SetupCarries
<1>4. setupPath(e).PATH = IF mode = "fat" THEN <<RealExec>> \o senv.PATH
                          ELSE <<BinDir, RealExec>> \o (<<BinDir>> \o senv.PATH)
  <2>1. <<BinDir, RealExec>> \in Seq(Dirs)
    BY EnvAssumption
  <2>2. <<BinDir, RealExec>> # Unset
    BY <2>1, EnvAssumption
  <2> QED BY <1>1, <2>2 DEF setupPath, Variables
<1>5. Head(<<RealExec>> \o senv.PATH) = RealExec
  BY EnvAssumption DEF ServerOK
<1>6. Head(<<BinDir, RealExec>> \o (<<BinDir>> \o senv.PATH)) = BinDir
  BY EnvAssumption DEF ServerOK
<1>7. FindsWrapper(setupPath(e).PATH) <=> mode = "thin"
  BY <1>4, <1>5, <1>6, EnvAssumption DEF FindsWrapper
<1>8. setupPath(e).PATH \in Seq(Dirs)
  BY <1>4, EnvAssumption DEF ServerOK
<1> QED BY <1>2, <1>3, <1>7, <1>8

LEMMA InitCarried == Init => \A r \in Requests : CarriedOn(r)
  BY DEF Init, CarriedOn, Alive

LEMMA NextCarried ==
  ASSUME BackendTypeOK, ServerOK, NEW q \in Requests, CarriedOn(q), [Next]_vars
  PROVE  CarriedOn(q)'
<1> USE DEF CarriedOn, Alive
<1>1. CASE Boot
  BY <1>1 DEF Boot, ServerOK, treeVars, syncVars
<1>2. ASSUME NEW r \in Requests, HandlerStep(r) PROVE CarriedOn(q)'
  <2>0. DOMAIN hand = Requests /\ DOMAIN at = Requests
    BY DEF BackendTypeOK
  <2>1. CASE Enter(r)
    BY <2>0, <2>1 DEF Enter, ServerOK, serverVars, treeVars, syncVars
  <2>2. CASE Prepare(r)
    BY <2>0, <2>2 DEF Prepare, ServerOK, serverVars, treeVars, syncVars
  <2>3. CASE Start(r)
    <3>1. Carries(BackendEnv, cfg) /\ DOMAIN BackendEnv = Variables
      BY BackendEnvIs DEF BackendTypeOK
    <3> QED BY <2>0, <2>3, <3>1 DEF Start, ServerOK, serverVars, syncVars
  <2>4. CASE ReadHeaders(r)
    BY <2>0, <2>4 DEF ReadHeaders, serverVars, treeVars, syncVars
  <2>5. CASE Stream(r)
    BY <2>0, <2>5 DEF Stream, StreamChunk, serverVars, treeVars, syncVars
  <2>6. CASE Wait(r)
    BY <2>0, <2>6 DEF Wait, serverVars, treeVars, syncVars
  <2>7. CASE StartFails(r)
    BY <2>0, <2>7 DEF StartFails, serverVars, treeVars, syncVars
  <2> QED BY <1>2, <2>1, <2>2, <2>3, <2>4, <2>5, <2>6, <2>7 DEF HandlerStep
<1>3. ASSUME NEW r \in Requests, ProcessStep(r) PROVE CarriedOn(q)'
  <2>0. DOMAIN at = Requests
    BY DEF BackendTypeOK
  <2>1. CASE BackendRuns(r)
    BY <2>0, <2>1 DEF BackendRuns, Exit, serverVars, syncVars
  <2>2. CASE Wrap(r)
    <3>1. CanConnect(loadEnv(env[r])) /\ Carries(env[r], cfg) /\ Loaded(cfg)
          => loadEnv(env[r]) = cfg
      BY LoadEnvBack DEF CanConnect
    <3>2. Carries(env[r], cfg) /\ DOMAIN env[r] = Variables
          => /\ Carries(setupPath(scrubEnv(env[r])), cfg)
             /\ DOMAIN setupPath(scrubEnv(env[r])) = Variables
      BY SetupCarries
    <3>3. /\ at[r] = "wrap" /\ UNCHANGED <<hand, cfg>>
          /\ \/ /\ CanConnect(loadEnv(env[r]))
                /\ used' = [used EXCEPT ![r] = @ \cup {loadEnv(env[r])}]
                /\ at' = [at EXCEPT ![r] = "service"]
                /\ env' = [env EXCEPT ![r] = setupPath(scrubEnv(@))]
             \/ at' = [at EXCEPT ![r] = "gone"] /\ UNCHANGED <<used, env>>
      BY <2>2 DEF Wrap, Exit, serverVars, syncVars
    <3>4. CASE r = q
      <4>1. Carries(env[r], cfg) /\ DOMAIN env[r] = Variables /\ Loaded(cfg)
        BY <3>3, <3>4
      <4> QED BY <2>0, <3>1, <3>2, <3>3, <3>4, <4>1 DEF ServerOK
    <3> QED BY <2>0, <3>3, <3>4 DEF ServerOK
  <2>3. CASE RunChildren(r)
    <3>1. CanConnect(loadEnv(env[r])) /\ Carries(env[r], cfg) /\ Loaded(cfg)
          => loadEnv(env[r]) = cfg
      BY LoadEnvBack DEF CanConnect
    <3> QED BY <2>0, <2>3, <3>1 DEF RunChildren, ServerOK, serverVars
  <2>4. CASE WriteOut(r) \/ WriteErr(r) \/ Ends(r)
    BY <2>0, <2>4 DEF WriteOut, WriteErr, Ends, Writing, Exit, serverVars, syncVars
  <2> QED BY <1>3, <2>1, <2>2, <2>3, <2>4 DEF ProcessStep
<1>4. ASSUME NEW r \in Requests, GoroutineStep(r) \/ HangUp(r) PROVE CarriedOn(q)'
  <2>0. DOMAIN at = Requests
    BY DEF BackendTypeOK
  <2> QED
    BY <1>4, <2>0
    DEF GoroutineStep, Drain, Panic, Feed, Kill, HangUp, serverVars, treeVars, syncVars
<1>5. CASE UNCHANGED vars
  BY <1>5 DEF vars, serverVars, treeVars, syncVars
<1> QED BY <1>1, <1>2, <1>3, <1>4, <1>5 DEF Next

LEMMA StoresFollow ==
  /\ Init => StoresInv
  /\ StoresInv /\ [Next]_vars => StoresInv'
  BY InitType, InitServer, InitCarried, NextType, NextServer, NextCarried
  DEF StoresInv

\* Whatever the environment a server was started in, the wrapper and the hook
\* open the stores that the server itself uses (env.go, backendEnv).
THEOREM OneSetOfStores == Spec => []SameStores
<1>1. StoresInv => SameStores
  BY DEF StoresInv, CarriedOn, SameStores
<1> QED BY StoresFollow, <1>1, PTL DEF Spec

-----------------------------------------------------------------------------
(* Answers.                                                                *)

LEMMA InitAnswered == Init => \A r \in Requests : Answered(r)
  BY DEF Init, Answered

LEMMA NextAnswered ==
  ASSUME BackendTypeOK, NEW q \in Requests, CarriedOn(q), Answered(q), [Next]_vars
  PROVE  Answered(q)'
<1> USE DEF Answered, AtEOF
<1>0. /\ DOMAIN hand = Requests /\ DOMAIN at = Requests /\ DOMAIN top = Requests
      /\ DOMAIN out = Requests
  BY DEF BackendTypeOK
<1>1. CASE Boot
  BY <1>1 DEF Boot, treeVars
<1>2. ASSUME NEW r \in Requests, HandlerStep(r) PROVE Answered(q)'
  <2>1. CASE Enter(r) \/ Prepare(r) \/ StartFails(r)
    BY <1>0, <2>1 DEF Enter, Prepare, StartFails, treeVars
  <2>2. CASE Start(r)
    BY <1>0, <2>2 DEF Start
  <2>3. CASE ReadHeaders(r)
    BY <1>0, <2>3 DEF ReadHeaders, treeVars
  <2>4. CASE Stream(r)
    BY <1>0, <2>4 DEF Stream, StreamChunk, treeVars
  <2>5. CASE Wait(r)
    BY <1>0, <2>5 DEF Wait, treeVars
  <2> QED BY <1>2, <2>1, <2>2, <2>3, <2>4, <2>5 DEF HandlerStep
<1>3. ASSUME NEW r \in Requests, ProcessStep(r) PROVE Answered(q)'
  <2>1. CASE BackendRuns(r)
    BY <1>0, <2>1 DEF BackendRuns, Exit
  <2>2. CASE Wrap(r) \/ RunChildren(r)
    BY <1>0, <2>2 DEF Wrap, RunChildren, Exit
  <2>3. CASE WriteOut(r)
    BY <1>0, <2>3 DEF WriteOut, Writing, Exit
  <2>4. CASE WriteErr(r) \/ Ends(r)
    BY <1>0, <2>4 DEF WriteErr, Ends, Exit
  <2> QED BY <1>3, <2>1, <2>2, <2>3, <2>4 DEF ProcessStep
<1>4. ASSUME NEW r \in Requests, GoroutineStep(r) \/ HangUp(r) PROVE Answered(q)'
  BY <1>0, <1>4 DEF GoroutineStep, Drain, Panic, Feed, Kill, HangUp, treeVars
<1>5. CASE UNCHANGED vars
  BY <1>5 DEF vars, treeVars
<1> QED BY <1>1, <1>2, <1>3, <1>4, <1>5 DEF Next

\* A handler that reports no error has sent all that git wrote, and git has
\* succeeded (parseAndStreamCGIResponse, cmd.Wait).
THEOREM AnswersAreWhole == Spec => []WholeAnswer
<1> DEFINE Inv == StoresInv /\ \A r \in Requests : Answered(r)
<1>1. Init => Inv
  BY StoresFollow, InitAnswered
<1>2. Inv /\ [Next]_vars => Inv'
  BY StoresFollow, NextAnswered DEF StoresInv
<1>3. Inv => WholeAnswer
  BY DEF Answered, WholeAnswer
<1> QED BY <1>1, <1>2, <1>3, PTL DEF Spec

-----------------------------------------------------------------------------
(* One sync for each request.                                              *)

LEMMA InitSynced == Init => \A r \in Requests : SyncedSoFar(r)
  BY DEF Init, SyncedSoFar

LEMMA NextSynced ==
  ASSUME BackendTypeOK, ServerOK, NEW q \in Requests, CarriedOn(q), SyncedSoFar(q),
         Len(Repo) = 1, [Next]_vars
  PROVE  SyncedSoFar(q)'
<1> USE DEF SyncedSoFar
<1>0. /\ DOMAIN hand = Requests /\ DOMAIN at = Requests /\ DOMAIN env = Requests
      /\ DOMAIN synced = Requests /\ mode \in {"fat", "thin"}
  BY DEF BackendTypeOK, ServerOK
<1>1. CASE Boot
  BY <1>1 DEF Boot, treeVars, syncVars
<1>2. ASSUME NEW r \in Requests, HandlerStep(r) PROVE SyncedSoFar(q)'
  <2>1. CASE Enter(r)
    BY <1>0, <2>1 DEF Enter, serverVars, treeVars, syncVars
  <2>2. CASE Prepare(r)
    <3>1. Append(<<>>, Repo) = <<Repo>>
      OBVIOUS
    <3> QED BY <1>0, <2>2, <3>1 DEF Prepare, CarriedOn, serverVars, treeVars, syncVars
  <2>3. CASE Start(r)
    <3>1. FindsWrapper(BackendEnv.PATH) <=> mode = "thin"
      BY <1>0, BackendEnvIs
    <3> QED BY <1>0, <2>3, <3>1 DEF Start, CarriedOn, serverVars, syncVars
  <2>4. CASE StartFails(r) \/ ReadHeaders(r) \/ Stream(r) \/ Wait(r)
    BY <1>0, <2>4
    DEF StartFails, ReadHeaders, Stream, StreamChunk, Wait, serverVars, treeVars, syncVars
  <2> QED BY <1>2, <2>1, <2>2, <2>3, <2>4 DEF HandlerStep
<1>3. ASSUME NEW r \in Requests, ProcessStep(r) PROVE SyncedSoFar(q)'
  <2>1. CASE BackendRuns(r)
    BY <1>0, <2>1 DEF BackendRuns, Exit, serverVars, syncVars
  <2>2. CASE Wrap(r)
    <3>1. Append(<<>>, Base(Repo)) = <<Repo>>
      BY BackendAssumption DEF Base
    <3> QED BY <1>0, <2>2, <3>1 DEF Wrap, Exit, serverVars, syncVars
  <2>3. CASE RunChildren(r) \/ WriteOut(r) \/ WriteErr(r) \/ Ends(r)
    BY <1>0, <2>3
    DEF RunChildren, WriteOut, WriteErr, Ends, Writing, Exit, serverVars, syncVars
  <2> QED BY <1>3, <2>1, <2>2, <2>3 DEF ProcessStep
<1>4. ASSUME NEW r \in Requests, GoroutineStep(r) \/ HangUp(r) PROVE SyncedSoFar(q)'
  BY <1>0, <1>4
  DEF GoroutineStep, Drain, Panic, Feed, Kill, HangUp, serverVars, treeVars, syncVars
<1>5. CASE UNCHANGED vars
  BY <1>5 DEF vars, serverVars, treeVars, syncVars
<1> QED BY <1>1, <1>2, <1>3, <1>4, <1>5 DEF Next

\* git's service runs after one sync of the request's repository, by whichever
\* of the handler and the wrapper the mode has for it, when the repository's
\* name is one path component: of a longer one, the wrapper sees the last.
THEOREM OneSyncEach == ASSUME Len(Repo) = 1 PROVE Spec => []SyncedOnce
<1> DEFINE Inv == StoresInv /\ \A r \in Requests : SyncedSoFar(r)
<1>1. Init => Inv
  BY StoresFollow, InitSynced
<1>2. Inv /\ [Next]_vars => Inv'
  BY StoresFollow, NextSynced DEF StoresInv
<1>3. Inv => SyncedOnce
  BY DEF SyncedSoFar, SyncedOnce
<1> QED BY <1>1, <1>2, <1>3, PTL DEF Spec

-----------------------------------------------------------------------------
(* What scrubEnv leaves of a PATH.                                         *)

\* Induction on the members of a set of numbers.
LEMMA SetInduction ==
  ASSUME NEW T \in SUBSET Nat, 0 \in T, \A n \in T : n + 1 \in T
  PROVE  T = Nat
<1> SUFFICES ASSUME Nat \ T # {} PROVE FALSE
  OBVIOUS
<1>1. IsWellFoundedOn(OpToRel(<, Nat), Nat)
  BY NatLessThanWellFounded
<1>2. PICK least \in Nat \ T : \A n \in Nat \ T : ~(<<n, least>> \in OpToRel(<, Nat))
  BY <1>1, WFMin
<1>3. \A n \in Nat \ T : ~(n < least)
  BY <1>2 DEF OpToRel
<1>4. least # 0 /\ least - 1 \in Nat /\ least - 1 < least
  OBVIOUS
<1> QED BY <1>3, <1>4

\* What the loop has kept after the first n entries, f being what it had kept
\* before, and the runs of its first m rounds.
After(path, entry, f, n) ==
  IF n = 0 THEN <<>>
  ELSE IF path[n] = entry THEN f[n - 1] ELSE Append(f[n - 1], path[n])

Rounds(path, entry, m) ==
  {f \in [0..m -> Seq(Dirs \ {entry})] :
     \A n \in 0..m : f[n] = After(path, entry, f, n)}

LEMMA AppendStays ==
  ASSUME NEW X, NEW s \in Seq(X), NEW x \in X PROVE Append(s, x) \in Seq(X)
  OBVIOUS

LEMMA OneMoreRound ==
  ASSUME NEW path \in Seq(Dirs), NEW entry, NEW m \in Nat, m + 1 <= Len(path),
         NEW f \in Rounds(path, entry, m)
  PROVE  Rounds(path, entry, m + 1) # {}
<1> DEFINE S == Seq(Dirs \ {entry})
           last == After(path, entry, f, m + 1)
           g == [n \in 0..(m + 1) |-> IF n = m + 1 THEN last ELSE f[n]]
<1>1. f \in [0..m -> S] /\ \A n \in 0..m : f[n] = After(path, entry, f, n)
  BY DEF Rounds
<1>2. last \in S
  <2>1. f[m] \in S /\ path[m + 1] \in Dirs
    BY <1>1
  <2>2. last = IF path[m + 1] = entry THEN f[m] ELSE Append(f[m], path[m + 1])
    BY DEF After
  <2> HIDE DEF last
  <2>3. CASE path[m + 1] = entry
    BY <2>1, <2>2, <2>3
  <2>4. CASE path[m + 1] # entry
    <3>1. path[m + 1] \in Dirs \ {entry}
      BY <2>1, <2>4
    <3>2. Append(f[m], path[m + 1]) \in S
      BY <2>1, <3>1, AppendStays
    <3> QED BY <2>2, <2>4, <3>2
  <2> QED BY <2>3, <2>4
<1> HIDE DEF last, S
<1>3. g \in [0..(m + 1) -> S]
  BY <1>1, <1>2
<1>4. ASSUME NEW n \in 0..(m + 1) PROVE g[n] = After(path, entry, g, n)
  <2>1. CASE n = m + 1
    <3>1. g[n] = last /\ n # 0 /\ n - 1 \in 0..m /\ n - 1 # m + 1
      BY <2>1
    <3>2. g[n - 1] = f[n - 1]
      BY <3>1
    <3> HIDE DEF g
    <3> QED BY <2>1, <3>1, <3>2 DEF After, last
  <2>2. CASE n # m + 1
    <3>1. n \in 0..m /\ g[n] = f[n]
      BY <2>2
    <3>2. n # 0 => g[n - 1] = f[n - 1]
      BY <3>1
    <3> HIDE DEF g
    <3> QED BY <1>1, <3>1, <3>2 DEF After
  <2> QED BY <2>1, <2>2
<1> QED BY <1>3, <1>4 DEF Rounds, S

LEMMA AllRounds ==
  ASSUME NEW path \in Seq(Dirs), NEW entry
  PROVE  Rounds(path, entry, Len(path)) # {}
<1> DEFINE T == {m \in Nat : m <= Len(path) => Rounds(path, entry, m) # {}}
<1>1. 0 \in T
  <2>1. [n \in 0..0 |-> <<>>] \in Rounds(path, entry, 0)
    BY DEF Rounds, After
  <2> QED BY <2>1
<1>2. ASSUME NEW m \in T PROVE m + 1 \in T
  <2> SUFFICES ASSUME m + 1 <= Len(path)
               PROVE  Rounds(path, entry, m + 1) # {}
    OBVIOUS
  <2>1. m \in Nat /\ m <= Len(path)
    OBVIOUS
  <2>2. PICK f : f \in Rounds(path, entry, m)
    BY <2>1
  <2> QED BY <2>1, <2>2, OneMoreRound
<1>3. T \in SUBSET Nat
  OBVIOUS
<1> HIDE DEF T
<1>4. T = Nat
  BY <1>1, <1>2, <1>3, SetInduction
<1> QED BY <1>4 DEF T

\* stripPathEntry returns a list of directories that does not hold the entry.
LEMMA StripType ==
  ASSUME NEW path \in Seq(Dirs), NEW entry
  PROVE  stripPathEntry(path, entry) \in Seq(Dirs \ {entry})
<1> DEFINE kept == CHOOSE k : k = [n \in 0..Len(path) |-> After(path, entry, k, n)]
<1>1. PICK f : f \in Rounds(path, entry, Len(path))
  BY AllRounds
<1>2. f = [n \in 0..Len(path) |-> After(path, entry, f, n)]
  BY <1>1 DEF Rounds
<1>3. kept = [n \in 0..Len(path) |-> After(path, entry, kept, n)]
  BY <1>2
<1>4. stripPathEntry(path, entry) = kept[Len(path)]
  BY DEF stripPathEntry, After
<1> HIDE DEF kept
<1> DEFINE U == {n \in Nat : n <= Len(path) => kept[n] \in Seq(Dirs \ {entry})}
<1>5. 0 \in U
  <2>1. kept[0] = After(path, entry, kept, 0)
    BY <1>3
  <2>2. kept[0] \in Seq(Dirs \ {entry})
    BY <2>1 DEF After
  <2> QED BY <2>2
<1>6. ASSUME NEW n \in U PROVE n + 1 \in U
  <2> SUFFICES ASSUME n + 1 <= Len(path) PROVE kept[n + 1] \in Seq(Dirs \ {entry})
    OBVIOUS
  <2>1. kept[n] \in Seq(Dirs \ {entry}) /\ path[n + 1] \in Dirs
    OBVIOUS
  <2>2. kept[n + 1] = After(path, entry, kept, n + 1)
    BY <1>3
  <2>3. kept[n + 1] = IF path[n + 1] = entry THEN kept[n]
                      ELSE Append(kept[n], path[n + 1])
    BY <2>2 DEF After
  <2> QED BY <2>1, <2>3, AppendStays
<1>7. U \in SUBSET Nat
  OBVIOUS
<1> HIDE DEF U
<1>8. U = Nat
  BY <1>5, <1>6, <1>7, SetInduction
<1>9. Len(path) \in U
  BY <1>8
<1> QED BY <1>4, <1>9 DEF U

\* The environment in which the wrapper runs the real git: git puts its own
\* exec-path in front, and the wrapper's directory is on it no more.
LEMMA ScrubbedEnv ==
  ASSUME NEW e, DOMAIN e = Variables, e.PATH \in Seq(Dirs)
  PROVE  /\ setupPath(scrubEnv(e)).PATH \in Seq(Dirs)
         /\ ~FindsWrapper(setupPath(scrubEnv(e)).PATH)
<1> DEFINE stripped == stripPathEntry(e.PATH, e.OGOROD_THIN_BIN_DIR)
<1>1. stripped \in Seq(Dirs)
  <2>1. stripped \in Seq(Dirs \ {e.OGOROD_THIN_BIN_DIR})
    BY StripType
  <2> HIDE DEF stripped
  <2> QED BY <2>1
<1>2. /\ DOMAIN scrubEnv(e) = Variables /\ scrubEnv(e).PATH = stripped
      /\ scrubEnv(e).GIT_EXEC_PATH = Unset
  BY DEF scrubEnv, Variables
<1> HIDE DEF stripped
<1>3. setupPath(scrubEnv(e)).PATH = <<RealExec>> \o stripped
  BY <1>2 DEF setupPath, Variables
<1>4. /\ <<RealExec>> \o stripped \in Seq(Dirs)
      /\ Head(<<RealExec>> \o stripped) = RealExec
  BY <1>1, EnvAssumption
<1> QED BY <1>3, <1>4, EnvAssumption DEF FindsWrapper

-----------------------------------------------------------------------------
(* The wrapper does not call itself.                                       *)

LEMMA InitScrubbed == Init => \A r \in Requests : Scrubbed(r)
  BY DEF Init, Scrubbed, Alive

LEMMA NextScrubbed ==
  ASSUME BackendTypeOK, ServerOK, NEW q \in Requests, CarriedOn(q), Scrubbed(q),
         [Next]_vars
  PROVE  Scrubbed(q)'
<1> USE DEF Scrubbed, Alive
<1>0. /\ DOMAIN at = Requests /\ DOMAIN env = Requests /\ DOMAIN ran = Requests
      /\ mode \in {"fat", "thin"}
  BY DEF BackendTypeOK, ServerOK
<1>1. CASE Boot
  BY <1>1 DEF Boot, treeVars
<1>2. ASSUME NEW r \in Requests, HandlerStep(r) PROVE Scrubbed(q)'
  <2>1. CASE Start(r)
    <3>1. BackendEnv.PATH \in Seq(Dirs)
      BY <1>0, BackendEnvIs
    <3> QED BY <1>0, <2>1, <3>1 DEF Start
  <2>2. CASE UNCHANGED treeVars
    BY <2>2 DEF treeVars, FindsWrapper
  <2> QED BY <1>2, <2>1, <2>2
    DEF HandlerStep, Enter, Prepare, StartFails, ReadHeaders, Stream, StreamChunk, Wait
<1>3. ASSUME NEW r \in Requests, ProcessStep(r) PROVE Scrubbed(q)'
  <2>1. CASE BackendRuns(r)
    BY <1>0, <2>1 DEF BackendRuns, Exit
  <2>2. CASE Wrap(r)
    <3>1. /\ at[r] = "wrap" /\ UNCHANGED ran
          /\ \/ /\ at' = [at EXCEPT ![r] = "service"]
                /\ env' = [env EXCEPT ![r] = setupPath(scrubEnv(@))]
             \/ at' = [at EXCEPT ![r] = "gone"] /\ UNCHANGED env
      BY <2>2 DEF Wrap, Exit
    <3>2. CASE r = q
      <4>1. DOMAIN env[r] = Variables /\ env[r].PATH \in Seq(Dirs)
        BY <3>1, <3>2 DEF CarriedOn
      <4>2. /\ setupPath(scrubEnv(env[r])).PATH \in Seq(Dirs)
            /\ ~FindsWrapper(setupPath(scrubEnv(env[r])).PATH)
        BY <4>1, ScrubbedEnv
      <4> QED BY <1>0, <3>1, <3>2, <4>2
    <3> QED BY <1>0, <3>1, <3>2
  <2>3. CASE RunChildren(r)
    BY <1>0, <2>3 DEF RunChildren
  <2>4. CASE WriteOut(r) \/ WriteErr(r) \/ Ends(r)
    BY <1>0, <2>4 DEF WriteOut, WriteErr, Ends, Writing, Exit
  <2> QED BY <1>3, <2>1, <2>2, <2>3, <2>4 DEF ProcessStep
<1>4. ASSUME NEW r \in Requests, GoroutineStep(r) \/ HangUp(r) PROVE Scrubbed(q)'
  BY <1>0, <1>4 DEF GoroutineStep, Drain, Panic, Feed, Kill, HangUp, treeVars
<1>5. CASE UNCHANGED vars
  BY <1>5 DEF vars, treeVars
<1> QED BY <1>1, <1>2, <1>3, <1>4, <1>5 DEF Next

\* No git that git's service runs is the wrapper again (wrap.go, scrubEnv),
\* whatever directories the server's own PATH names.
THEOREM WrapperNotReentered == Spec => []NoReentry
<1> DEFINE Inv == StoresInv /\ \A r \in Requests : Scrubbed(r)
<1>1. Init => Inv
  BY StoresFollow, InitScrubbed
<1>2. Inv /\ [Next]_vars => Inv'
  BY StoresFollow, NextScrubbed DEF StoresInv
<1>3. Inv => NoReentry
  BY DEF Scrubbed, NoReentry
<1> QED BY <1>1, <1>2, <1>3, PTL DEF Spec
=============================================================================
