CONSTANTS
  c1 = c1
  c2 = c2
  f1 = f1
  main = main
  tag = tag
  p1 = p1
  s1 = s1
  u1 = u1
  Commits = {c1, c2}
  Refs = {main, tag}
  Branches = {main}
  NoSha = NoSha
  NoRef = NoRef
  Reach <- Line
  Parents <- LineParents
  Pushers = {p1}
  Fetchers = {}
  Servers = {s1}
  NoOwner = NoOwner
  DeadSession = DeadSession
  NoServer = NoServer
  FaultAt = {"wipe"}
  TornFiles = {}
  OrphanAt = {}
  Overlap = FALSE
  MaxVersion = 2
  Users = {u1}
  HelperFaultAt = {"putIdx"}
  Made = {c2}
SPECIFICATION ClusterSpec
CONSTRAINT TagStays
INVARIANTS RefsBacked SkipSafe HelperHonest
PROPERTIES ImplementsRefStore NoLostUpdate
