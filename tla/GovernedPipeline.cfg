SPECIFICATION UnitSpec
CONSTANTS
  None = None
  Values = {v1, v2, v3}
  v1 = v1
  v2 = v2
  v3 = v3
  Units <- MCUnits
  KeyDomain = 2
  MaxBlocks = 2
INVARIANTS
  NoStatementFails
  SameAnswer
  WorkAsDeclared
CHECK_DEADLOCK FALSE
