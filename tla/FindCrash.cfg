CONSTANTS
  r1 = r1
  r2 = r2
  RealGitDir = RealGitDir
  Requests = {r1}
  Kinds <- OneKind
  Repo <- Name
  Environments <- OneEnvironment
  GitDir = RealGitDir
  Dirs <- PathDirs
  BinDir = BinDir
  RealExec = RealExec
  Unset = Unset
  NoConfig = NoConfig
  DefaultBucket = "ogorod"
  Cap = 1
  OutChunks = 1
  ErrChunks = 2
SPECIFICATION FairSpec
CHECK_DEADLOCK FALSE
PROPERTY ServerSurvives
