CONSTANTS
  c1 = c1
  c2 = c2
  c3 = c3
  main = main
  tag = tag
  p1 = p1
  p2 = p2
  f1 = f1
  s1 = s1
  s2 = s2
  Commits = {c1}
  Refs = {main}
  Branches = {main}
  NoSha = NoSha
  NoRef = NoRef
  Reach <- Chain
  Pushers = {p1, p2}
  Fetchers = {f1}
  Servers = {s1, s2}
  NoOwner = NoOwner
  DeadSession = DeadSession
  NoServer = NoServer
  FaultAt = {"lock", "serve", "receive", "cas"}
  TornFiles = {}
  OrphanAt = {}
  Overlap = FALSE
  MaxVersion = 1
SPECIFICATION FairSpec
PROPERTIES EveryRequestEnds EveryChangeAnnounced
