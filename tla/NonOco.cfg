SPECIFICATION FairSpec
CONSTANTS
  NCandles = 2
  Sl = 2
  LockAt = 2
  LockTo = 1
  Target = 3
  TrailDist = 1
  MaxPeak = 5
  OppositeCandles = 2
  Flips = TRUE
  MaxChain = 2
  StopOnLoss = TRUE
  MaxEntries = 7
  MaxSlips = 2
PROPERTIES ImplementsChain StopOneWay FlatAtNight
CHECK_DEADLOCK FALSE
