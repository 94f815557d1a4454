CONSTANTS
    MaxGeneration = 8
    OutOfOrderTolerance = 3
    MaximumForwardDistance = 4
    Capacity = 4
    Times = {1, 2}
    MaxEpoch = 5
    Leaves = 8
    OwnIndex = 2
    Indexes = {0, 1, 2, 3, 4, 5, 6, 7, 8}
    MaxDepth = 3
    Limit = 7
    Tolerance = 2
    Distance = 3
SPECIFICATION MCSpec
CHECK_DEADLOCK FALSE
INVARIANTS RightSecret ForwardSecrecy InRangeDecrypts KeepsTheLatest DerivedOnce OwnSecretsKept
