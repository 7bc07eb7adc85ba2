SPECIFICATION Spec
CONSTANTS
  Key = {k1, k2}
  Capacity = 1
  Client = {c1}
  Slot = {s1}
  TTL = {1, 2}
  Unencodable = {}
  CleanupOn = FALSE
  GCOn = FALSE
  MaxGCCycles = 0
  ColdFaults = TRUE
  MayClose = FALSE
  MaxNow = 2
  MaxVersions = 3
  MaxRestarts = 0
  MaxLag = 2
INVARIANTS
  FailedColdWriteOnlyMisses
