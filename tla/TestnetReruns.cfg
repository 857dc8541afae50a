SPECIFICATION FairSpec
CONSTANTS
    Sizes = {1, 2, 3}
    AmountLists <- MCAmounts
    PortLists <- MCPorts
    MaxRuns = 3
    MaxFaults = 2
    X = X
    NotANumber = X
    NoFile = NoFile
INVARIANTS
    TypeOK
    OneNetwork
    PeersKnown
    PortsDisjoint
    OnlySmallerRunsRefused
PROPERTY
    RetrySucceeds
CHECK_DEADLOCK FALSE
