SPECIFICATION Spec
CONSTANTS
    Servers = {1, 2}
    Sources = {1, 2}
    Mirrors <- MCMirrors
    Callers = {c1}
    TTL = 2
    None = None
INVARIANTS
    TypeOK
    ToldIsRecent
    ListedIsDefinitive
CHECK_DEADLOCK FALSE
