CONSTANTS
  Kinds = {"plain", "read", "last"}
  Limit = 2
  MaxInput = 1
  Clobbers = FALSE
SPECIFICATION Spec
PROPERTIES ExitEnds
CHECK_DEADLOCK FALSE
