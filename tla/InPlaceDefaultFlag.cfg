SPECIFICATION TestnetSpec
CONSTANTS
  Validators <- ThreeValidators
  Accounts = {1, 2, 3}
  GenesisStake <- TwoStakes
  NoInfo = NoInfo
  NoGenesis = NoGenesis
  Unit = 10
  CommissionDiv = 4
  MaxValidators = 2
  PowerReduction = 1
  MinSelfDelegation = 1
  MaxEntries = 2
  MaxHeight = 3
  MaxMsgs = 1
  Amounts = {2}
  Fee = 5
  VoteShares = {23}
  AllowLists <- NoList
  CloseMayFail = FALSE
  NoAddress = NoAddress
  TestnetTokens = 9
  AccountFlags <- Flags
  MaxTakeovers = 1
INVARIANT
  DefaultFlagStarts
CHECK_DEADLOCK FALSE
