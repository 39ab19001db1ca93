CONSTANTS
  Depth = 9
  Yellow = 6
  Red = 4
  Scenarios <- BreakInHandler
SPECIFICATION Spec
INVARIANT BreakTransparent
CHECK_DEADLOCK FALSE
