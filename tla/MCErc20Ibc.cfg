\* A contract that does what it says and a voucher with a precompile: refunds, allowances,
\* genesis; one user is a module account.
CONSTANTS
    A = A  B = B  C = C  V = V  W = W
    Accounts = {A, B}
    ModuleAccts = {B}
    Contracts = {C}
    Vouchers = {V}
    Factory = {}
    Module = Module
    Escrow = Escrow
    None = None
    Behaviours = {"moves"}
    Ops = {"convert", "register", "toggle", "params", "allowance", "ibc"}
    Versions = {1, 2}
    Supply <- Even
    MaxAmount = 1
    MaxPackets = 1
SPECIFICATION Spec
INVARIANTS WithinGrant GenesisRoundTrip
PROPERTIES RefundReachesSender
