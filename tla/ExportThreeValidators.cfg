SPECIFICATION Spec
CONSTANTS
  Validators <- ThreeValidators
  Accounts = {1, 2, 3}
  GenesisStake <- TwoOfThreeStakes
  NoInfo = NoInfo
  NoGenesis = NoGenesis
  Unit = 10
  CommissionDiv = 4
  MaxValidators = 2
  PowerReduction = 2
  MinSelfDelegation = 1
  MaxEntries = 2
  MaxHeight = 2
  MaxMsgs = 3
  Amounts = {2}
  Fee = 5
  VoteShares = {13}
  AllowLists <- AllButOne
  CloseMayFail = FALSE
INVARIANTS
  RefCountsExact
  OnlyTwoPanics
  GenesisSetSound
CHECK_DEADLOCK FALSE
