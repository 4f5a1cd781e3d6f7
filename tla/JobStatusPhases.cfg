SPECIFICATION Spec
CONSTANTS
  Calls = {c1}
  retryMaxAttempts = 1
  retryInitialBackoff = 100
  retryBackoffFactor = 2
  retryMaxBackoff = 2000
  Kinds = {"mpijob", "jobset", "job"}
  BackoffLimit = 3
  Rejections = {"Forbidden", "TooManyRequests"}
  NetFaults = {"NetPermanent"}
  MaxChecks = 1
  None = None
INVARIANT PhaseAsDocumented
CHECK_DEADLOCK FALSE
