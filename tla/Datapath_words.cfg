CONSTANTS
  XLEN = 16
  Programs <- WordPrograms
  Operands <- Pairs
  First = 21
  Second = 10
  MemorySize = 12
  Bytes <- StartBytes
SPECIFICATION Spec
INVARIANT WordsWritten
CHECK_DEADLOCK FALSE
