SPECIFICATION Spec
CONSTANTS
  Reader = {r1, r2}
  Path = {p}
  NoStore = {}
  Site = {s}
  BriefModes = {FALSE}
  BypassModes = {FALSE}
  EmptyModes = {FALSE}
  EnableCache = TRUE
  TTL = 1
  MaxLag = 0
  MaxWork = 1
  MaxNow = 4
  MaxChanges = 1
  MaxFetches = 2
SYMMETRY ReaderSymmetry
INVARIANTS HeldIsRecent
