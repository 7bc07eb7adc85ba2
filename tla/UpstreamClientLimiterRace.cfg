SPECIFICATION Spec
CONSTANTS
  Call = {c1, c2}
  Host = {h}
  Configured = {}
  Cost = 2
  Burst = 2
  MaxRetries = 1
  BaseDelay = 1
  MaxDelay = 2
  RetryAfter <- NoRetryAfter
  IdleUntil = 0
INVARIANTS DefaultHostKeepsRate
