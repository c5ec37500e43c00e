CONSTANTS
  Limbs = 3
  Batch = 2
  MemBatch = 1
  SizeLimit = 4
  Base = 2
  MemSize = 12
  InitMem <- LargestOperands
  LoadAddrs = {0}
  ResultAddrs <- BehindOperands
  Sizes = {0, 1, 2}
  Stores = {}
  Interruptible = TRUE
SPECIFICATION Spec
INVARIANTS IndexSafe
