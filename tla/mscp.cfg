CONSTANTS
  NPkts = 6
  MaxCr = 14
  CmdRing = 2
  RspRing = 2
  Present = {0, 1}
  Htmo = 2
  Scenarios <- AllPrograms
SPECIFICATION FairSpec
INVARIANTS TypeOK Accounted OneAnswer CreditsConserved WorkScheduled NoLostInterrupt TimerWhenIdle
PROPERTIES UnitOrder Answered
CHECK_DEADLOCK FALSE
