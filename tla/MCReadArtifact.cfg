SPECIFICATION FairSpec
CONSTANTS
  r1 = r1
  r2 = r2
  Calls = {r1, r2, cleaner}
  retryMaxAttempts = 1
  retryInitialBackoff = 100
  retryBackoffFactor = 2
  retryMaxBackoff = 2000
  Rejections = {"Timeout"}
  CommitErrors = {"Timeout"}
  NetFaults = {"NetPermanent"}
  Reads = {r1, r2}
  Cleaner = cleaner
  None = None
  PVCConfigured = TRUE
  CleanerEnabled = TRUE
  MaxCrashes = 1
  Ops <- PodOps
  Leftovers <- OrTwoToSweep
  Asked <- SomeAsked
  MountPath <- Mount
INVARIANTS
  TypeOK
  NoOrphanWithoutTrouble
  SweepReportIsTrue
  SweepReclaimsOrphans
PROPERTIES
  ContentOnlyFromSucceeded
  EveryReadEnds
CHECK_DEADLOCK FALSE
