\* Conversions and IBC transfers of a user's contract whose transfers move what they say, less, more or nothing.
CONSTANTS
    A = A  B = B  C = C  V = V  W = W
    Accounts = {A, B}
    ModuleAccts = {}
    Contracts = {C}
    Vouchers = {}
    Factory = {}
    Module = Module
    Escrow = Escrow
    None = None
    Behaviours = {"moves", "keepsFee", "takesMore", "silent", "fails"}
    Ops = {"convert", "register", "send", "destroy", "ibc"}
    Versions = {1}
    Supply <- Uneven
    MaxAmount = 2
    MaxPackets = 1
SPECIFICATION Spec
INVARIANTS Backed RegistrySound
PROPERTIES FreshPairs ReceiptPays
CONSTRAINT SkimmedOnce
