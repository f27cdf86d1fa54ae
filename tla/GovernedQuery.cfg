SPECIFICATION FairSpec
CHECK_DEADLOCK FALSE
CONSTANTS
  None = None
  Protocols <- AllProtocols
  Contents = {"old", "new", "other", "bare"}
  Profiles <- RowProfiles
  ResultRows <- GovernedRows
  WrongDigest = WrongDigest
  MaxRuns = 2
  MaxCrashes = 1
  MaxRewrites = 1
INVARIANTS
  AcceptedIsOneExecution
  ApprovedIsLegal
  LatestVerifies
  FrozenResultIsOfSnapshot
PROPERTIES
  SoundLoopPublishes
