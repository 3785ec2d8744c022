SPECIFICATION Spec
CONSTANTS
    Clients = {c1, c2}
    Requests = {r1, r2}
    PinMaxAge = 2
    MaxLag = 1
    MaxWrites = 2
    MaxClock = 4
SYMMETRY Symmetry
INVARIANTS
    TypeOK
    ReadYourWrites
    ExpiredPinIsReplicated
