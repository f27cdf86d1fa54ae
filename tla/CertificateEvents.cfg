SPECIFICATION FairRecorderSpec
CONSTANTS
  OperatorId = {"a", "b", "c", "d", "left", "right", "join"}
  NoOperator = "none"
  Plan <- FourSourcePlan
CHECK_DEADLOCK FALSE
PROPERTIES
  RecorderIsAnExecution
  LogAccepted
