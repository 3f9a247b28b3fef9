CONSTANTS
    Account = {a}
    MaxNonce = 2
    Prices = {10, 11}
    Balances = {10, 30}
    AccountSlots = 1
    GlobalSlots = 2
    AccountQueue = 1
    GlobalQueue = 1
    PriceBump = 10
    BaseFees = {0, 10, 11}
    CosmosLists <- SomeLists
SPECIFICATION Spec
INVARIANT Processable
