SPECIFICATION Spec
CONSTANTS
  Reader = {r1, r2}
  Path = {p}
  NoStore = {}
  Site = {s1, s2}
  BriefModes = {FALSE}
  BypassModes = {FALSE}
  EmptyModes = {FALSE}
  EnableCache = TRUE
  TTL = 1
  MaxLag = 0
  MaxWork = 1
  MaxNow = 2
  MaxChanges = 0
  MaxFetches = 1
SYMMETRY ReaderSymmetry
INVARIANTS BodiesMatchTheirUrl
