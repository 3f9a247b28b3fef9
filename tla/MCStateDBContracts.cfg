\* A contract made, written and destructed around precompile calls.
CONSTANTS
    A = A  B = B  M = M  K1 = K1  K2 = K2  C1 = C1
    Addr = {A}
    Blocked = {}
    Slot = {K1}
    Value = {0, 1}
    Zero = 0
    NoCode = NoCode
    Code = {C1}
    Missing = Missing
    MaxPrecompileCalls = 1
    CounterSize = 256
    Kinds <- ContractKinds
    MaxBalance = 2
    MaxCalls = 2
SPECIFICATION Spec
INVARIANTS JournalSound CommitSound
PROPERTIES RevertsToCopies
CHECK_DEADLOCK FALSE
