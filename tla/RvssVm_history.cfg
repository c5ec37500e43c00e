CONSTANTS
  Limbs = 1
  Batch = 1
  MemBatch = 1
  SizeLimit = 2
  Base = 4
  MemSize = 4
  Regs = {"x1", "x2"}
  Programs <- RecordedPrograms
  DataSection <- Operands
  Limit = 2
  Commands = {"debug", "step", "undo", "redo", "stop", "break", "reset"}
  Patient = TRUE
  MaxRetired = 3
SPECIFICATION Spec
INVARIANT RetiredCoversUndo
PROPERTIES KeepsHistory KeepsPast
