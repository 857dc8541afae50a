SPECIFICATION Spec
CONSTANTS
  Validators <- TwoValidators
  Accounts = {1, 2, 3}
  GenesisStake <- TwoStakes
  NoInfo = NoInfo
  NoGenesis = NoGenesis
  Unit = 10
  CommissionDiv = 4
  MaxValidators = 2
  PowerReduction = 1
  MinSelfDelegation = 1
  MaxEntries = 2
  MaxHeight = 3
  MaxMsgs = 2
  Amounts = {2}
  Fee = 5
  VoteShares = {23}
  AllowLists <- FiveLists
  CloseMayFail = TRUE
INVARIANTS
  TypeOK
  RefCountsExact
  OnlyTwoPanics
  PaidInFull
  FreshStart
  JailedByList
  GenesisSetSound
  FundsCovered
PROPERTIES
  SettlesRewards
CHECK_DEADLOCK FALSE
