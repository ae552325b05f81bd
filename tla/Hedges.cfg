SPECIFICATION FairSpec
CONSTANTS
  Prices <- MCPrices
  Anchors <- MCAnchors
  Plans <- MCPlans
  Slips <- MCSlips
  Offsets <- MCOffsets
  Trigger = 40
  Interval = 80
  Tol = 3
  Activation = 20
  Gap = 50
  MaxBoosts = 2
INVARIANTS NoLoneLeftover OneFleet
PROPERTIES BoostStopOneWay OrphansGo
CHECK_DEADLOCK FALSE
