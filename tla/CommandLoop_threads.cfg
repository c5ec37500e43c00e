CONSTANTS
  Kinds = {"plain", "read", "exit", "throw", "last", "break"}
  Limit = 2
  MaxInput = 2
  Clobbers = TRUE
SPECIFICATION Spec
INVARIANTS TypeOK FlagTracksThread HistoryAlone LaunchSafe NoLostWakeup
PROPERTY MainReturns
CHECK_DEADLOCK FALSE
