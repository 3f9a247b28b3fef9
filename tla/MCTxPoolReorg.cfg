CONSTANTS
    Sync = {"s"}
    Async = {"a"}
    Capacity = 1
    MaxReorgDepth = 2
    MaxHeight = 3
SPECIFICATION PoolSpec
INVARIANT NoReorg
