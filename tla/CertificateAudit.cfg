SPECIFICATION AuditSpec
CONSTANTS
  OperatorId = {"scan", "scan2", "join", "mask"}
  NoOperator = "none"
  MaxFaults = 1
  Plan <- JoinPlan
CHECK_DEADLOCK FALSE
INVARIANTS
  ParallelismAccepted
  AcceptedOrder
PROPERTY ReplayIsAnExecution
