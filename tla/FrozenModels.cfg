SPECIFICATION Spec
CONSTANTS
  None = None
  Models <- MCModels
  Runs <- MCRuns
  CheckpointRuns <- MCCheckpointRuns
  Checkpoints <- MCCheckpoints
  Configurations <- MCConfigurations
  Regimes <- MCRegimes
  Primary <- MCPrimary
  Requests <- MCRequests
INVARIANTS
  EvaluatedIsDeployed
  ScoredIsAuthorized
  PassBeatsEveryFixed
  DecidedIsLegal
  ChoiceSurvivesTightening
CHECK_DEADLOCK FALSE
