SPECIFICATION FairSpec
CONSTANTS
  Reader = {r1, r2}
  Path = {p, bare}
  NoStore = {bare}
  Site = {s}
  BriefModes = {TRUE, FALSE}
  BypassModes = {TRUE, FALSE}
  EmptyModes = {FALSE}
  EnableCache = TRUE
  TTL = 1
  MaxLag = 0
  MaxWork = 1
  MaxNow = 1
  MaxChanges = 0
  MaxFetches = 1
INVARIANTS TypeOK RepliesFollowOwnQuery StoredFeedsAreRaw
PROPERTIES EveryRequestAnswered
