SPECIFICATION FairSpec
CONSTANTS
  Calls = {c1}
  retryMaxAttempts = 1
  retryInitialBackoff = 100
  retryBackoffFactor = 2
  retryMaxBackoff = 2000
  Kinds = {"mpijob", "jobset", "job"}
  BackoffLimit = 3
  Rejections = {"Forbidden", "TooManyRequests"}
  NetFaults = {"NetPermanent"}
  MaxChecks = 2
  None = None
INVARIANTS
  TypeOK
  FinishedIsReported
  SuccessIsFinal
PROPERTY EveryCheckAnswered
CHECK_DEADLOCK FALSE
