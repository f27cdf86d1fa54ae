SPECIFICATION Spec
CHECK_DEADLOCK FALSE
CONSTANTS
  None = None
  Log <- Bits
  Full = 2
  HashedWidth = 2
  FixedWidth = 1
  Setup = 4
  Unit = 4
  Workloads <- AllWorkloads
  Payloads <- AllPayloads
INVARIANTS
  ChosenIsLegal
  MatchMonotone
  ConservativeOutside
