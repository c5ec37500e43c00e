CONSTANTS
  Limbs = 3
  Batch = 2
  MemBatch = 3
  SizeLimit = 4
  Base = 3
  MemSize = 9
  InitMem <- ExtremeOperands
  LoadAddrs <- OperandAddrs
  ResultAddrs <- OverSecondOperand
  Sizes = {0, 2, 3}
  Stores <- OneStore
  Interruptible = FALSE
SPECIFICATION Spec
INVARIANTS TypeOK CarriesExact
PROPERTIES KeepsPromise StallEnds
