CONSTANTS
  Sources <- SmallFiles
  DataStart = 64
  BranchReach = 8
  JumpReach = 16
  Page = 16
  Pages = 16
  MaxBreakpoints = 2
  MaxLoads = 2
SPECIFICATION Spec
INVARIANTS TypeOK LabelsResolve TextComplete DataAtLabels AddressesLoaded LineMapExact ReferencesEncoded
PROPERTY AssemblyEnds
CHECK_DEADLOCK FALSE
