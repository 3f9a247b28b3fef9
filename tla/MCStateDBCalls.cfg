\* Precompile calls that move coins between accounts, between EVM transfers; and the
\* other kinds of journal entry under nested revisions.
CONSTANTS
    A = A  B = B  M = M  K1 = K1  K2 = K2  C1 = C1
    Addr = {A, B, M}
    Blocked = {M}
    Slot = {K1, K2}
    Value = {0, 1}
    Zero = 0
    NoCode = NoCode
    Code = {}
    Missing = Missing
    MaxPrecompileCalls = 1
    CounterSize = 256
    Kinds <- CallKinds
    MaxBalance = 2
    MaxCalls = 2
SPECIFICATION Spec
INVARIANTS JournalSound CommitSound
PROPERTIES FailedCallUndone RevertsToCopies
CHECK_DEADLOCK FALSE
