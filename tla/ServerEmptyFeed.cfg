SPECIFICATION Spec
CONSTANTS
  Fan = {f1}
  Kinds <- MCKinds
  Slots = 2
  Caller = {}
  Token = {t1}
  Checked = {}
  TokenTTL = 1
  MaxWork = 1
  MaxNow = 0
  MaxKeys = 0
  MayPanic = TRUE
  MayLeave = {f1}
INVARIANT
  EmptyFeedsAreNotStored
