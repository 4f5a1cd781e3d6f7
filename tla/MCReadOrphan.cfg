SPECIFICATION Spec
CONSTANTS
  r1 = r1
  r2 = r2
  Calls = {r1, r2, cleaner}
  retryMaxAttempts = 1
  retryInitialBackoff = 100
  retryBackoffFactor = 2
  retryMaxBackoff = 2000
  Rejections = {"Forbidden", "TooManyRequests"}
  CommitErrors = {"Timeout"}
  NetFaults = {"NetPermanent"}
  Reads = {r1, r2}
  Cleaner = cleaner
  None = None
  PVCConfigured = TRUE
  CleanerEnabled = FALSE
  MaxCrashes = 1
  Ops <- PodOps
  Leftovers <- OneRead
  Asked <- SomeAsked
  MountPath <- Mount
INVARIANT ReadLeavesNoPod
CHECK_DEADLOCK FALSE
