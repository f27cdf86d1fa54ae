SPECIFICATION FairSpec
CHECK_DEADLOCK FALSE
CONSTANTS
  UnitCount = 2
  None = None
  MaxDrifts = 1
  MaxCrashes = 2
  Runners <- AllRunners
  Tree <- Trees
  Drifts <- SomeDrifts
INVARIANTS
  MeasuredAsDeclared
  LatestResumable
PROPERTIES
  EveryUnitOnce
  EventuallySummarised
