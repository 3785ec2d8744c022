SPECIFICATION Spec
CONSTANTS
    Servers = {1, 2}
    Sources = {1, 2}
    Mirrors <- MCMirrors
    Callers = {c1}
    TTL = 1
    None = None
INVARIANT OkCoversThePool
CHECK_DEADLOCK FALSE
