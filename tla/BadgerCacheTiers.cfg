SPECIFICATION Spec
CONSTANTS
  Key = {k1, k2}
  Capacity = 1
  Client = {c1}
  Slot = {s1}
  TTL = {1, 2}
  Unencodable = {k2}
  CleanupOn = TRUE
  GCOn = FALSE
  MaxGCCycles = 0
  ColdFaults = FALSE
  MayClose = FALSE
  MaxNow = 2
  MaxVersions = 2
  MaxRestarts = 1
  MaxLag = 1
INVARIANTS
  OnlyTheLatestIsServed
  UncontendedSetIsKept
PROPERTIES
  CleanupDeletesOnlyExpired
