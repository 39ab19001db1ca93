SPECIFICATION Spec
CONSTANTS
  A = A
  B = B
  Station <- TwoStations
  Modulus = 256
  Pool = 7
  Scenarios <- Faults
  MaxXmt = 3
  MaxRcv = 2
  MaxWire = 2
  MaxCalls = 30
  WriteFails = FALSE
INVARIANTS TypeOK Accounted Agreement NeverExhausted
PROPERTY Reliable
SYMMETRY Mirror
CHECK_DEADLOCK FALSE
