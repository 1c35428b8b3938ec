SPECIFICATION SetupSpec
CONSTANTS
  Sizes <- MCSizes
  spi1 = spi1
  spi2 = spi2
  NoSpi = NoSpi
  Connections <- MCConnections
  ResourceLists <- MCResourceLists
  MaxCycles = 1
INVARIANTS
  CalibratedMeansCalibrated
CHECK_DEADLOCK FALSE
