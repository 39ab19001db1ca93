SPECIFICATION FairSpec
CONSTANTS
  Sessions <- PanelSessions
  LowSize = 8
  Banks = 2
  FirstReg = 12
  LastReg = 14
  PCReg = 13
  NXM = {6}
  InvalidSR = 9
INVARIANTS TypeOK AddressSequence HaltShowsPC
PROPERTIES StartsAtLoaded HaltStopsInstructions PowerOffExits
CHECK_DEADLOCK FALSE
