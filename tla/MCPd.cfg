SPECIFICATION CycleSpec
CONSTANTS
  Active <- MCActive
  SpiMayFail = TRUE
  StatesIn2 <- MCStates
  LevelsIn2 <- MCLevels
  Registers7 <- MCRegisters7
  Requests <- MCRequests
  MaxPending = 0
  MaxReaders = 1
  PdTypes <- MCPdTypes
  MaxCycles = 2
INVARIANTS
  TypeOK
  LockDiscipline
  SuccessIsOwnAnswer
  AnswerNeedsD0
PROPERTIES
  OrphanedByFailedWrite
  OrphanedForGood
CHECK_DEADLOCK FALSE
