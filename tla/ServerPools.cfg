SPECIFICATION FairSpec
CONSTANTS
  Fan = {f1}
  Kinds <- MCKinds
  Slots = 2
  Caller = {c1}
  Token = {t1}
  Checked = {}
  TokenTTL = 0
  MaxWork = 0
  MaxNow = 1
  MaxKeys = 1
  MayPanic = TRUE
  MayLeave = {f1}
INVARIANTS
  TypeOK
  CleanExit
  StoredFeedsFollowTheList
PROPERTIES
  PoolsEnd
