SPECIFICATION Spec
CONSTANTS
  Labels = {"A1"}
  DueHour <- MCDue
  EodHour = 1
  MaxDays = 1
  MaxTickets = 3
  MaxRetries = 1
  Confirmed = {"A1"}
  Commands = {"pause", "resume", "flatten"}
  Faults = {"partial","answer","refuse"}
INVARIANTS OnePlacementPerDay AllManaged TrackedIsReal
CHECK_DEADLOCK FALSE
