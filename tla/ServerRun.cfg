SPECIFICATION FairSpec
CONSTANTS
  Calls = {c1, c2}
  Probes = {p1}
  MaxSignals = 2
INVARIANTS
  TypeOK
  ShutdownIsClean
  NothingCutShort
  CountersCoverAnswers
PROPERTIES
  ShutdownEnds
  HangUpEnds
CHECK_DEADLOCK FALSE
