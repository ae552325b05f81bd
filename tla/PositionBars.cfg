SPECIFICATION PositionSpec
CONSTANTS
  SlDist = 36
  TpDist = 60
  ArmBuffer = 3
  BeTrigger = 5
  TrailGap = 4
  MinStep = 1
  MaxJump = 50
  Rung1 = 10
  Rung2 = 12
  Lock2 = 8
  Rung3 = 20
  Lock3 = 16
  FollowGap = 4
  Hold = 2
  Prices <- MCLegPrices
  NoParent = NoParent
  BoostPrices <- MCBoostPrices
  BoostTp = 30
  Hard <- MCHard
  Arm <- MCArm
  Floor <- MCFloor
  Gap <- MCGap
  Ride = TRUE
  Pullback = TRUE
  Tolerance = 8
  Patience = 2
INVARIANTS NoPhantomLock RungHeld LossBounded ArmedRallyNeverLoses
CHECK_DEADLOCK FALSE
