SPECIFICATION Spec
CONSTANTS
  MaxConditions = 3
  MaxSegments = 4
  MaxChars = 5
  MaxCode = 4
  MaxReplicas = 3
  RandomDelimiters = {"CPPEOF_1", "CPPEOF_2"}
INVARIANTS
  LastTrueDecides
  AcceptedIsInsideUnlessLinked
  LinesAreCounted
  ClientIsConsistent
  CodeArrivesAsExpanded
  RanksFitTheSlots
  EveryReplicaHasItsIndex
  ResultsAreReadable
