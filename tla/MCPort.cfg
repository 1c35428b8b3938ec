SPECIFICATION Spec
CONSTANTS
  Active <- MCActive
  SpiMayFail = FALSE
  StatesIn2 <- MCStates
  LevelsIn2 <- MCLevels
  Registers7 <- MCRegisters7
  Requests <- MCRequests
  MaxPending = 1
  MaxReaders = 0
  PdTypes <- MCPdTypes
CONSTRAINT Sequential
INVARIANTS
  ClientsKnowPort
  AnswersAreWhole
  AcknowledgedIsStored
  KnowledgeInv
