SPECIFICATION FairTestnetSpec
CONSTANTS
  Validators <- TwoValidators
  Accounts = {1, 2, 3}
  GenesisStake <- OneStake
  NoInfo = NoInfo
  NoGenesis = NoGenesis
  Unit = 10
  CommissionDiv = 4
  MaxValidators = 2
  PowerReduction = 1
  MinSelfDelegation = 1
  MaxEntries = 2
  MaxHeight = 3
  MaxMsgs = 0
  Amounts = {2}
  Fee = 5
  VoteShares = {23}
  AllowLists <- NoList
  CloseMayFail = TRUE
  NoAddress = NoAddress
  TestnetTokens = 9
  AccountFlags <- Flags
  MaxTakeovers = 2
PROPERTIES
  TestnetStarts
  ExportEnds
CHECK_DEADLOCK FALSE
