SPECIFICATION Spec
CONSTANTS
  Key = {k1}
  Capacity = 2
  Client = {c1, c2}
  Slot = {s1, s2}
  TTL = {1, 2}
  Unencodable = {}
  CleanupOn = FALSE
  GCOn = FALSE
  MaxGCCycles = 0
  ColdFaults = FALSE
  MayClose = FALSE
  MaxNow = 2
  MaxVersions = 2
  MaxRestarts = 0
  MaxLag = 1
SYMMETRY Symmetry
INVARIANTS
  TypeOK
  NeverServedPastItsLifetime
  OnlyTheLatestIsServed
PROPERTIES
  ImplementsContract
