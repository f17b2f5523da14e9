--------------------------------- MODULE Env -------------------------------
(***************************************************************************)
(* Environments: how a process finds the stores in its own (env.go), what  *)
(* the servers hand to git http-backend (serve.go, serve_thin.go), and     *)
(* what the wrapper takes out again (wrap.go).                             *)
(*                                                                         *)
(* An environment is a function of the variables' names; the code treats   *)
(* an empty variable as one that is not set.  PATH and GIT_EXEC_PATH are   *)
(* sequences of directories, a list of endpoints is the set of those in it *)
(* that are not blank, a URL is a record.                                  *)
(***************************************************************************)
EXTENDS Naturals, Sequences

CONSTANTS
  Unset,         \* the value of a variable that is not set, or empty
  NoConfig,      \* loadEnv throws
  DefaultBucket, \* "ogorod"
  Dirs,          \* directories that can be on a path
  BinDir,        \* serve-thin's --bin-dir, which holds the wrapper
  RealExec       \* git's compiled-in exec-path

ASSUME EnvAssumption ==
  /\ {BinDir, RealExec} \subseteq Dirs /\ BinDir # RealExec
  /\ Unset \notin Seq(Dirs) \cup {DefaultBucket}

Variables == {"PATH", "GIT_EXEC_PATH", "OGOROD_REAL_GIT", "OGOROD_THIN_BIN_DIR",
  "OGOROD_REPO", "OGOROD_ETCD_ENDPOINTS", "ETCDCTL_ENDPOINTS",
  "OGOROD_S3_URL", "MC_HOST", "OGOROD_S3_ENDPOINT", "AWS_ENDPOINT_URL_S3",
  "AWS_ENDPOINT_URL", "OGOROD_S3_ACCESS_KEY", "AWS_ACCESS_KEY_ID",
  "OGOROD_S3_SECRET_KEY", "AWS_SECRET_ACCESS_KEY", "OGOROD_S3_BUCKET"}

Nothing == [v \in Variables |-> Unset]

-----------------------------------------------------------------------------
(* env.go.                                                                 *)

\* lookup and orElse: the first that is set.
OrElse(value, fallback) == IF value # Unset THEN value ELSE fallback

NoURL == [endpoint |-> Unset, access |-> Unset, secret |-> Unset]

\* parseS3URL: all three parts, or none.
parseS3URL(url) ==
  IF url = Unset THEN NoURL
  ELSE IF Unset \in {url.access, url.secret} THEN NoURL ELSE url

\* OGOROD_S3_URL, or an MC_HOST_<alias> when that one does not parse.
Compound(env) ==
  LET url == parseS3URL(env.OGOROD_S3_URL)
  IN  IF url.endpoint # Unset THEN url ELSE parseS3URL(env.MC_HOST)

\* Field by field: OGOROD_*, the compound, AWS_*.  The endpoints of etcd may
\* be the empty set: "," is not empty, and splits into nothing.
Resolved(env) ==
  [etcd   |-> OrElse(env.OGOROD_ETCD_ENDPOINTS, env.ETCDCTL_ENDPOINTS),
   s3     |-> OrElse(env.OGOROD_S3_ENDPOINT,
                OrElse(Compound(env).endpoint,
                  OrElse(env.AWS_ENDPOINT_URL_S3, env.AWS_ENDPOINT_URL))),
   access |-> OrElse(env.OGOROD_S3_ACCESS_KEY,
                OrElse(Compound(env).access, env.AWS_ACCESS_KEY_ID)),
   secret |-> OrElse(env.OGOROD_S3_SECRET_KEY,
                OrElse(Compound(env).secret, env.AWS_SECRET_ACCESS_KEY)),
   bucket |-> OrElse(env.OGOROD_S3_BUCKET, DefaultBucket)]

loadEnv(env) ==
  LET cfg == Resolved(env)
  IN  IF Unset \in {cfg.etcd, cfg.s3, cfg.access, cfg.secret}
        THEN NoConfig ELSE cfg

-----------------------------------------------------------------------------
(* What git http-backend is started with.  Nothing of the server's own     *)
(* environment is inherited.                                               *)

\* A backendEnv that leaves out the bucket.
BackendEnvNoBucket(path, repo, cfg) ==
  [Nothing EXCEPT
     !.PATH = path,
     !.OGOROD_S3_ENDPOINT = cfg.s3,
     !.OGOROD_S3_ACCESS_KEY = cfg.access,
     !.OGOROD_S3_SECRET_KEY = cfg.secret,
     !.OGOROD_ETCD_ENDPOINTS = IF cfg.etcd = {} THEN Unset ELSE cfg.etcd,
     !.OGOROD_REPO = repo]

backendEnv(path, repo, cfg) ==
  [Nothing EXCEPT
     !.PATH = path,
     !.OGOROD_S3_ENDPOINT = cfg.s3,
     !.OGOROD_S3_ACCESS_KEY = cfg.access,
     !.OGOROD_S3_SECRET_KEY = cfg.secret,
     !.OGOROD_S3_BUCKET = cfg.bucket,
     !.OGOROD_ETCD_ENDPOINTS = IF cfg.etcd = {} THEN Unset ELSE cfg.etcd,
     !.OGOROD_REPO = repo]

\* A backendEnvThin that relies on PATH alone.
BackendEnvPathOnly(path, repo, cfg, realGit) ==
  [backendEnv(path, repo, cfg) EXCEPT
     !.PATH = <<BinDir>> \o path,
     !.OGOROD_REAL_GIT = realGit,
     !.OGOROD_THIN_BIN_DIR = BinDir]

backendEnvThin(path, repo, cfg, realGit) ==
  [backendEnv(path, repo, cfg) EXCEPT
     !.PATH = <<BinDir>> \o path,
     !.GIT_EXEC_PATH = <<BinDir, RealExec>>,
     !.OGOROD_REAL_GIT = realGit,
     !.OGOROD_THIN_BIN_DIR = BinDir]

\* git puts its exec-path in front of PATH before it runs anything.
setupPath(env) ==
  [env EXCEPT !.PATH =
     (IF env.GIT_EXEC_PATH = Unset THEN <<RealExec>> ELSE env.GIT_EXEC_PATH) \o @]

\* The path without the entry, wherever it stands.
stripPathEntry(path, entry) ==
  LET kept[n \in 0..Len(path)] ==
        IF n = 0 THEN <<>>
        ELSE IF path[n] = entry THEN kept[n - 1]
        ELSE Append(kept[n - 1], path[n])
  IN  kept[Len(path)]

\* A scrubEnv for PATH only.
ScrubPathOnly(env) ==
  [env EXCEPT !.PATH = stripPathEntry(@, env.OGOROD_THIN_BIN_DIR)]

\* The wrapper is only ever run with OGOROD_THIN_BIN_DIR set.
scrubEnv(env) ==
  [env EXCEPT !.GIT_EXEC_PATH = Unset,
              !.PATH = stripPathEntry(@, env.OGOROD_THIN_BIN_DIR)]
=============================================================================
