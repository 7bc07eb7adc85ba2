SPECIFICATION Spec
CONSTANTS
  Feeds = Feeds
  Tokens = Tokens
  alpha = alpha
  beta = beta
  broken = broken
  Source <- MCSource
  Nothing = Nothing
  Queries <- MCQueries
  Limits <- MCLimits
  Pattern <- MCPattern
  Broken = {broken}
  Absent = Absent
  Now = 10
  Second = 10
  Range64 = 200
  MaxItems = 3
  Phrases <- MCPhrases
  Nows <- MCNows
  Caller = {c1, c2, c3}
  Token = {t1}
  Checked = {t1}
  TokenTTL = 1
  MaxWork = 1
  MaxNow = 4
  MaxKeys = 1
SYMMETRY CallerSymmetry
CHECK_DEADLOCK FALSE
INVARIANTS
  LimitKeepsNewest
  BothFiltersAgree
  WindowsErrByLeavingOut
  CollectFillsToLimit
  MonthsAgoSpanMonths
  PeriodsFollowTheCalendar
  WeekdaysFollowTheCalendar
  OutdatedTokensDie
  CheckedTokensAreUsable
PROPERTIES
  SharedSliceKeepsItems
