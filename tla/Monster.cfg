SPECIFICATION FairSpec
CONSTANTS
  Tickets <- MCTickets
  MaxChains = 1
  Cap = 1
  Chase = 1
  BeArm = 1
  BeFloor = 0
  TrailStart = 2
  TrailGap = 1
  MaxPeak = 2
  LossHalt = 1
  ProfitLock = 1
  GiveStart = 1
  GiveBack = 1
  MaxSlips = 1
INVARIANTS ExposureBounded LossBounded OneSide
PROPERTIES StopNeverLoosened LegsAdopted
CHECK_DEADLOCK FALSE
