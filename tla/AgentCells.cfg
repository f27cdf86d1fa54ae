SPECIFICATION FairSpec
CONSTANTS
  c1 = c1
  c2 = c2
  None = None
  Cells = {c1, c2}
  Unauthorized = {c1}
  Mode <- Modes
  Configs <- RunConfigs
  Retries = 1
  Verdicts = {"ACCEPT", "REJECT"}
  MaxCrashes = 2
INVARIANTS
  BilledIsLogged
PROPERTIES
  AnswerStands
  EventuallyReported
