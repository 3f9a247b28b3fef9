\* A refund whose conversion fails.
CONSTANTS
    A = A  B = B  C = C  V = V  W = W
    Accounts = {A, B}
    ModuleAccts = {}
    Contracts = {C}
    Vouchers = {}
    Factory = {}
    Module = Module
    Escrow = Escrow
    None = None
    Behaviours = {"moves", "fails"}
    Ops = {"register", "ibc"}
    Versions = {1}
    Supply <- Even
    MaxAmount = 1
    MaxPackets = 1
SPECIFICATION Spec
PROPERTY RefundReachesSender
