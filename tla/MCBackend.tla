------------------------------ MODULE MCBackend ----------------------------
(***************************************************************************)
(* Instances of Backend for TLC.                                           *)
(***************************************************************************)
EXTENDS Backend

CONSTANTS r1, r2, RealGitDir

Name == <<"a">>

PathDirs == {RealGitDir, BinDir, RealExec}

\* One request for a service, one for a file.
TwoKinds == {[r \in Requests |-> IF r = r1 THEN k ELSE "file"] : k \in {"fetch", "push"}}

OneKind == {[r \in Requests |-> "fetch"]}

URL(e, a, k) == [endpoint |-> e, access |-> a, secret |-> k]

\* By MC_HOST_<alias>, under an OGOROD_S3_URL that has no secret, a secret and
\* a bucket of ogorod's own, and over AWS's names.
ByMinio(path) ==
  [Nothing EXCEPT
     !.PATH = path, !.OGOROD_ETCD_ENDPOINTS = {"e1"}, !.ETCDCTL_ENDPOINTS = {"e2"},
     !.OGOROD_S3_URL = URL("s2", "a2", Unset), !.MC_HOST = URL("s1", "a1", "k1"),
     !.OGOROD_S3_SECRET_KEY = "k2", !.OGOROD_S3_BUCKET = "b",
     !.AWS_ENDPOINT_URL = "s3", !.AWS_ACCESS_KEY_ID = "a3"]

\* By AWS's names alone; with "," for the list of endpoints; without a secret.
ByAws(path) ==
  [Nothing EXCEPT
     !.PATH = path, !.ETCDCTL_ENDPOINTS = {"e1"}, !.AWS_ENDPOINT_URL_S3 = "s1",
     !.AWS_ACCESS_KEY_ID = "a1", !.AWS_SECRET_ACCESS_KEY = "k1"]

NoEndpoints(path) == [ByAws(path) EXCEPT !.ETCDCTL_ENDPOINTS = {}]
NoSecret(path)    == [ByAws(path) EXCEPT !.AWS_SECRET_ACCESS_KEY = Unset]

\* On a path with the wrappers behind git, before it, and without them.
SomeEnvironments ==
  {ByMinio(<<RealGitDir, BinDir>>), ByAws(<<BinDir, RealGitDir>>),
   NoEndpoints(<<RealGitDir>>), NoSecret(<<RealGitDir>>)}

OneEnvironment == {ByAws(<<RealGitDir>>)}
=============================================================================
