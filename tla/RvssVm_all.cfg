CONSTANTS
  Limbs = 2
  Batch = 2
  MemBatch = 2
  SizeLimit = 3
  Base = 3
  MemSize = 8
  Regs = {"x1"}
  Programs <- AllPrograms
  DataSection <- Operands
  Limit = 0
  Commands = {"run", "step", "undo", "stop", "reset", "load"}
  Patient = FALSE
  MaxRetired = 2
SPECIFICATION Spec
CONSTRAINT DiagonalBound
INVARIANTS TypeOK RetiredCoversUndo
PROPERTY ThreadReturns
