SPECIFICATION FairSpec
CONSTANTS
  Labels = {"A1"}
  DueHour <- MCDue
  EodHour = 1
  MaxDays = 2
  MaxTickets = 2
  MaxRetries = 0
  Confirmed = {}
  Commands = {}
  Faults = {"crash", "query", "refuse"}
INVARIANT TwinRolesDiffer
PROPERTY EodFlat
CHECK_DEADLOCK FALSE
