SPECIFICATION FairSpec
CONSTANTS
  UNITS = {u1, u2, u3}
  NoUnit = NoUnit
  StepUnit = u1
  NOQUEUE_WAIT = 2
  Delays = {0, 1}
  RtMod = 2
  BreakAfterDevice = FALSE
PROPERTIES StopHonoured EventFires
