SPECIFICATION Spec
CONSTANTS
  c1 = c1
  c2 = c2
  Callers <- MCCallers
  Registers <- MCRegisters
  Volatile <- MCVolatile
  Values <- MCValues
  MaxWritten = 1
INVARIANTS
  TypeOK
  OnlyWritesLeaveMemory
PROPERTIES
  ReadPersists
  ImplementsRegisterFile
