SPECIFICATION Spec
CONSTANTS
    Sizes = {2}
    AmountLists <- MCSkipping
    PortLists <- MCDefaultPorts
    MaxRuns = 1
    MaxFaults = 0
    X = X
    NotANumber = X
    NoFile = NoFile
INVARIANT
    InvalidAmountDefaults
CHECK_DEADLOCK FALSE
