CONSTANTS
  c1 = c1
  c2 = c2
  main = main
  u1 = u1
  j1 = j1
  j2 = j2
  Commits = {c1, c2}
  Refs = {main}
  Branches = {main}
  NoSha = NoSha
  NoRef = NoRef
  Reach <- Line
  Parents <- LineParents
  Pushers = {}
  NoOwner = NoOwner
  DeadSession = DeadSession
  Users = {u1}
  LocalGC = "never"
  Exchange = FALSE
  FaultAt = {}
  Jobs = {j1, j2}
  Careful = TRUE
SPECIFICATION MaintenanceSpec
SYMMETRY JobSymmetry
INVARIANTS MaintenanceTypeOK RefsReadable FetchMissesOnlyRaced
PROPERTY RepackLosesNothing
