SPECIFICATION FairSpec
CONSTANTS
  Repairs = {}
  Blocks = {a, b}
  None = None
  MaxHeight = 3
  KeepRecent = 1
  MaxCrashes = 2
  MaxExports = 1
  MaxRounds = 2
PROPERTY
  CatchesUp
CHECK_DEADLOCK FALSE
