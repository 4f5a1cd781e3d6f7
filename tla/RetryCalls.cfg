SPECIFICATION FairSpec
CONSTANTS
  Calls = {c1}
  retryMaxAttempts = 3
  retryInitialBackoff = 100
  retryBackoffFactor = 2
  retryMaxBackoff = 300
INVARIANTS
  TypeOK
  OnlyTransientRetried
  GivesUpOnlyWhenDue
  CancelStopsRetries
  BackoffSchedule
PROPERTY EveryCallReturns
