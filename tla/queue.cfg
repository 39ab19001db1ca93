SPECIFICATION Spec
CONSTANTS
  UNITS = {u1, u2, u3}
  NoUnit = NoUnit
  StepUnit = u1
  NOQUEUE_WAIT = 2
  Delays = {0, 2}
  RtMod = 4
  BreakAfterDevice = FALSE
INVARIANTS TypeOK QueueConsistent GlobalTimeTrue
PROPERTY AgendaSpec
SYMMETRY Symmetry
