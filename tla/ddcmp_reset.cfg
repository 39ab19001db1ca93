SPECIFICATION Spec
CONSTANTS
  A = A
  B = B
  Station <- TwoStations
  Modulus = 256
  Pool = 8
  Scenarios <- Clears
  MaxXmt = 2
  MaxRcv = 2
  MaxWire = 2
  MaxCalls = 30
  WriteFails = TRUE
INVARIANT NoControlQueued
CHECK_DEADLOCK FALSE
