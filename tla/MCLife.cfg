SPECIFICATION CycleSpec
CONSTANTS
  Active <- MCActive
  SpiMayFail = FALSE
  StatesIn2 <- MCStates
  LevelsIn2 <- MCLevels
  Registers7 <- MCRegisters7
  Requests <- MCRequests
  MaxPending = 0
  MaxReaders = 0
  PdTypes <- MCPdTypes
  MaxCycles = 2
CONSTRAINT Sequential
INVARIANTS
  InterruptStaysOff
  BackInStep
  ToggleAcrossPower
  SourceIsPowered
CHECK_DEADLOCK FALSE
