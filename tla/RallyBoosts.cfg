SPECIFICATION FairRally
CONSTANTS
  MidPrices <- MCPrices
  RallyArm = 5
  RescueArm = 10
  HoldTicks = 3
  FleetSize = 2
  RallySl = 13
INVARIANT OneFleetALeg
PROPERTY CapHolds
CHECK_DEADLOCK FALSE
