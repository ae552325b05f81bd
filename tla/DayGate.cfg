SPECIFICATION FairSpec
CONSTANTS
  LossStop = 1
  ProfitStop = 1
  MaxPnl = 1
  MaxDays = 2
  MaxSlips = 2
  MaxCrashes = 1
INVARIANT DoneMeansFlat
PROPERTIES StopsHold FridayFlat
CHECK_DEADLOCK FALSE
