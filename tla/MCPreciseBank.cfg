SPECIFICATION Spec
CONSTANTS
    Addr <- MCAddr
    Reserve = reserve
    EvmModule = evm
    Modules <- MCModules
    Minters <- MCMinters
    Burners <- MCMinters
    Blocked <- MCBlocked
    SendEnabled = TRUE
    CF = 3
    MaxGenesis = 1
    MaxSupply = 3
    MaxInt = 1
    MaxExt = 4
    MaxOps = 2
    user1 = user1
    user2 = user2
INVARIANTS TypeOK ReserveBacked NeverBroken CallsExact
PROPERTIES ImplementsExtendedBank
SYMMETRY Users
