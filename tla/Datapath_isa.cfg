CONSTANTS
  XLEN = 16
  Programs <- AllPrograms
  Operands <- Pairs
  First = 21
  Second = 10
  MemorySize = 12
  Bytes <- StartBytes
SPECIFICATION Spec
INVARIANTS TypeOK ImmediateSurvives
PROPERTY ImplementsRv64
CHECK_DEADLOCK FALSE
