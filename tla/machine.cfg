CONSTANTS
  Depth = 9
  Yellow = 6
  Red = 4
  Scenarios <- All
SPECIFICATION FairSpec
INVARIANTS TypeOK RequestsSeen
PROPERTIES ContextRestored UserConfined Progress
CHECK_DEADLOCK FALSE
