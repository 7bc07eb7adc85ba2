SPECIFICATION FairSpec
CONSTANTS
  Call = {c1, c2}
  Host = {h, k}
  Configured = {k}
  Cost = 2
  Burst = 2
  MaxRetries = 1
  BaseDelay = 1
  MaxDelay = 3
  RetryAfter <- MCRetryAfter
  IdleUntil = 0
INVARIANTS TypeOK WithinBurst ConfiguredHostKeepsRate RetriesAreBoundedAndSpaced RetryAfterHoldsUpToTheCap
PROPERTIES CallsEnd
