SPECIFICATION FairSpec
CONSTANTS
  A = A
  B = B
  Station <- TwoStations
  Modulus = 256
  Pool = 8
  Scenarios <- Breaks
  MaxXmt = 2
  MaxRcv = 1
  MaxWire = 2
  MaxCalls = 30
  WriteFails = FALSE
PROPERTIES Delivered Completed
CHECK_DEADLOCK FALSE
