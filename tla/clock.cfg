SPECIFICATION Spec
CONSTANTS
  UNITS = {a, b, c}
  Tick = Tick
  Hz = 3
  TickSize = 1
  Ticks = {0, 1, 2}
  Delays = {4}
  MaxTickWait = 1
INVARIANTS TypeOK OneList CoschedConsistent RemnantScheduled
PROPERTY TickExact
SYMMETRY Symmetry
