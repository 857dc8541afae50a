SPECIFICATION FairSpec
CONSTANTS
  Repairs = {"signer", "evmAccount"}
  Blocks = {a, b}
  None = None
  MaxHeight = 3
  KeepRecent = 1
  MaxCrashes = 2
  MaxExports = 1
  MaxRounds = 2
INVARIANTS
  TypeOK
  CommittedAreDecided
  ExportsAsked
PROPERTY
  CatchesUp
CHECK_DEADLOCK FALSE
