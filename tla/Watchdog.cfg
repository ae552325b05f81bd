SPECIFICATION WatchFairSpec
CONSTANTS
  Pids = {1, 2}
  MaxSelfRestarts = 2
  LadderSteps = 1
  MaxCommits = 2
INVARIANTS OneTrader OneTryPerCommit
PROPERTIES HungReplaced RunawayStops
CHECK_DEADLOCK FALSE
