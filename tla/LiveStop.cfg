SPECIFICATION LiveFairSpec
CONSTANTS
  SlDist = 180
  TpDist = 300
  ArmBuffer = 15
  BeTrigger = 25
  TrailGap = 20
  MinStep = 1
  MaxJump = 250
  Rung1 = 50
  Rung2 = 60
  Lock2 = 40
  Rung3 = 100
  Lock3 = 80
  FollowGap = 20
  Hold = 2
  Probe = 3
  StopsLevel = 0
  TstopFav = 10
  Level1 = 2
  Level2 = 39
  Level3 = 79
  Prices <- MCPrices
INVARIANT PeakSurvives
PROPERTIES LegalRungRests BrokerStopKeeps LoserTimedOut
CHECK_DEADLOCK FALSE
