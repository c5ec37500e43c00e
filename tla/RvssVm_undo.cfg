CONSTANTS
  Limbs = 1
  Batch = 1
  MemBatch = 1
  SizeLimit = 2
  Base = 4
  MemSize = 4
  Regs = {"x1", "x2"}
  Programs <- MultiplyProgram
  DataSection <- Operands
  Limit = 5
  Commands = {"step", "undo", "reset"}
  Patient = TRUE
  MaxRetired = 3
SPECIFICATION DocsSpec
PROPERTY UndoReverts
