SPECIFICATION SetupSpec
CONSTANTS
  Sizes <- MCSizes
  spi1 = spi1
  spi2 = spi2
  NoSpi = NoSpi
  Connections <- MCConnections
  ResourceLists <- MCResourceLists
  MaxCycles = 2
INVARIANTS
  UsedIsMade
  TargetIsCurrent
  ReportsBeforeInterrupts
  QuietDuringEntry
  RunningInStep
  CalibrationIsTheFiles
CHECK_DEADLOCK FALSE
