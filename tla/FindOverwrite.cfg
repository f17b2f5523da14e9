CONSTANTS
  c1 = c1
  c2 = c2
  c3 = c3
  main = main
  tag = tag
  u1 = u1
  u2 = u2
  Commits = {c1, c2, c3}
  Refs = {main}
  Branches = {main}
  NoSha = NoSha
  NoRef = NoRef
  Reach <- Fork
  Parents <- ForkParents
  Pushers = {}
  NoOwner = NoOwner
  DeadSession = DeadSession
  Users = {u1, u2}
  LocalGC = "never"
  Exchange = FALSE
  FaultAt = {}
SPECIFICATION Spec
SYMMETRY UserSymmetry
PROPERTY NonFastForwardFails
