SPECIFICATION FairSpec
CONSTANTS
  Key = {k1}
  Capacity = 1
  Client = {c1}
  Slot = {s1}
  TTL = {1}
  Unencodable = {}
  CleanupOn = TRUE
  GCOn = TRUE
  MaxGCCycles = 2
  ColdFaults = TRUE
  MayClose = TRUE
  MaxNow = 1
  MaxVersions = 1
  MaxRestarts = 1
  MaxLag = 1
INVARIANTS
  NoWorkerOutlivesClose
PROPERTIES
  CallsReturn
  CloseCompletes
