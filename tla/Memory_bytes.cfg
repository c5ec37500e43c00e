CONSTANTS
  Wrap = 5
  MemorySize = 4
  BlockSize = 3
  Byte = {0, 1, 2}
  Widths = {1, 2, 4}
  Values <- StoredValues
  ConfigSizes = {3, 4}
SPECIFICATION Spec
INVARIANT TypeOK
PROPERTY KeepsBytes
