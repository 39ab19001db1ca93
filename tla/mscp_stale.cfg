CONSTANTS
  NPkts = 6
  MaxCr = 14
  CmdRing = 2
  RspRing = 2
  Present = {0, 1}
  Htmo = 2
  Scenarios <- Cut
SPECIFICATION Spec
INVARIANT OwnData
CHECK_DEADLOCK FALSE
