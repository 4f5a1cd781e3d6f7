SPECIFICATION Spec
CONSTANTS
  Calls = {c1, c2}
  retryMaxAttempts = 1
  retryInitialBackoff = 100
  retryBackoffFactor = 2
  retryMaxBackoff = 2000
  Ops = {"create"}
  Rejections = {"Forbidden", "TooManyRequests"}
  CommitErrors = {"Timeout"}
  NetFaults = {"NetPermanent"}
  DefaultNamespace = "default"
  BadNamespace = "Bad_NS"
  None = None
  Kinds = {"mpijob", "job"}
  Names = {n1, n2}
  MaxCrashes = 1
  Namespaces = {"default"}
SYMMETRY Symmetric
INVARIANTS
  TypeOK
  AtMostOneJobPerCall
  SuccessNamesOwnJob
  ErrorsAreTruthful
  GaugeCountsOnlyMade
PROPERTY PromiseKept
CHECK_DEADLOCK FALSE
