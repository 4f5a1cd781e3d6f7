SPECIFICATION Spec
CONSTANTS
  Calls = {c1, c2}
  retryMaxAttempts = 1
  retryInitialBackoff = 100
  retryBackoffFactor = 2
  retryMaxBackoff = 2000
  Ops = {"create"}
  Rejections = {"Forbidden", "TooManyRequests"}
  CommitErrors = {"Timeout"}
  NetFaults = {"NetPermanent"}
  DefaultNamespace = "default"
  BadNamespace = "Bad_NS"
  None = None
  Kinds = {"mpijob"}
  Names = {n1, n2}
  MaxCrashes = 1
  Namespaces = {"default"}
INVARIANT GaugeCountsActiveJobs
CHECK_DEADLOCK FALSE
