SPECIFICATION FairCycleSpec
CONSTANTS
  Active <- MCActive
  SpiMayFail = TRUE
  StatesIn2 <- MCStates
  LevelsIn2 <- MCLevels
  Registers7 <- MCRegisters7
  Requests <- MCRequests
  MaxPending = 0
  MaxReaders = 0
  PdTypes <- MCPdTypes
  MaxCycles = 1
PROPERTIES
  HandlersReturn
  PowerDownCompletes
CHECK_DEADLOCK FALSE
