SPECIFICATION Spec
CONSTANTS
  Active <- MCActive
  SpiMayFail = FALSE
  StatesIn2 <- MCStates
  LevelsIn2 <- MCLevels
  Registers7 <- MCRegisters7
  Requests <- MCRequests
  MaxPending = 0
  MaxReaders = 0
  PdTypes <- MCPdTypes
CONSTRAINT OneMessage
INVARIANTS
  ShadowsMatchChip
  DetachedIsPoweredDown
PROPERTIES
  PowerRoleHasAuthor
