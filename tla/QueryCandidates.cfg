SPECIFICATION LineageSpec
CONSTANTS
  NoOperator = 0
  NoField = "none"
  NoSnapshot = "default"
  Catalog <- PeopleAndSites
  Tables <- SmallTables
  Rank <- CellRank
  MaxRank = 8
  Plans <- TracedPlans
  Specs <- KeySpecs
  Refreshed <- LaterTables
  NoSpec = NoSpec
CHECK_DEADLOCK FALSE
INVARIANTS
  CandidatesAgree
  ExecutedAsValidated
  AcceptedIsCaptured
  UnmaskedIdentitiesAreSources
