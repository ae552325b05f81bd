SPECIFICATION FairSpec
CONSTANTS
  Cap = 4
  FailStop = 2
  LossStop = 3
  ProfitStop = 2
  Base = 1
  Need = 1
  Results <- MCResults
  MaxEntries = 6
  MaxRestarts = 2
  MaxSlips = 1
INVARIANTS LossBounded BudgetEarned
PROPERTIES ImplementsChain FlatAtNight
CHECK_DEADLOCK FALSE
