SPECIFICATION GuardedFairSpec
CONSTANTS
  Caller = {c1, c2}
  failure_threshold = 2
  open_duration = 2
  U32_MAX = 4
  U64_MAX = 7
  max_attempts = 4
  initial_backoff = 2
  multiplier = 4
  max_backoff = 3
  call_timeout = 1
INVARIANTS
  TripsAtThreshold
  GivesUpAfterLastAttempt
PROPERTIES
  ClosesAfterRecovery
  BackoffNeverShrinks
  RetryReturns
