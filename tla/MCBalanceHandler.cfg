\* Two calls on one instance, one after the other or overlapping.
CONSTANTS
    P = P  Q = Q  H1 = H1  user = user  module = module
    Calls = {P, Q}
    Handlers = {H1}
    HandlerOf <- Shared
    Addr = {user, module}
    Blocked = {module}
    ConversionFactor = 3
    MaxPrior = 1
    MaxEvents = 1
SPECIFICATION Spec
INVARIANT MirrorsTheCall
CHECK_DEADLOCK FALSE
