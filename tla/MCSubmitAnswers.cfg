SPECIFICATION FairSpec
CONSTANTS
  Calls = {c1, c2}
  retryMaxAttempts = 1
  retryInitialBackoff = 100
  retryBackoffFactor = 2
  retryMaxBackoff = 2000
  Ops = {"create"}
  Rejections = {"Forbidden", "TooManyRequests"}
  CommitErrors = {"Timeout"}
  NetFaults = {"NetPermanent"}
  DefaultNamespace = "default"
  BadNamespace = "Bad_NS"
  None = None
  Kinds = {"jobset"}
  Names = {n1}
  MaxCrashes = 1
  Namespaces = {"default"}
PROPERTY EveryCallAnswered
CHECK_DEADLOCK FALSE
