SPECIFICATION FairSpec
CONSTANTS
  Engines <- MCEngines
  Texts <- MCTexts
  MaxSent = 3
  MaxDays = 2
  MaxCrashes = 2
INVARIANT SwitchIsNewest
PROPERTY Delivered
CHECK_DEADLOCK FALSE
