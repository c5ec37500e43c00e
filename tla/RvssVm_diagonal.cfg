CONSTANTS
  Limbs = 2
  Batch = 1
  MemBatch = 1
  SizeLimit = 3
  Base = 3
  MemSize = 8
  Regs = {"x1"}
  Programs <- TwoSizes
  DataSection <- Operands
  Limit = 3
  Commands = {"run", "step", "undo", "stop"}
  Patient = TRUE
  MaxRetired = 3
SPECIFICATION Spec
INVARIANT DiagonalRange
