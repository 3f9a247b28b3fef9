CONSTANTS
    A = A  B = B  M = M
    Users = {A, B}
    Blocked = {M}
    Create = Create
    None = None
    Prec = 4
    Factor = 2
    Elasticity = 2
    Denominator = 2
    Multiplier = 2
    RefundQuotient = 2
    Intrinsic = 1
    MaxGas = 4
    Word = 64
    MaxInt64 = 31
    HasHooks = TRUE
    Genesis <- OneMarket
    Proposals <- NoChanges
    Senders = {A, B}
    Recipients <- Anyone
    Gas = {1, 4, 40}
    Prices = {0, 3}
    Values = {0, 1}
    Funds = 13
    MaxLogs = 1
    MaxTxs = 2
    MaxHeight = 3
SPECIFICATION MCSpec
INVARIANTS Accounted NonceCounts TransfersAffordable GasWantedSound NumberedAlike
PROPERTIES FeeFollowsDemandWithChanges
