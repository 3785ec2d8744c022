\* Networks that support one protocol, or switch; one was deleted on another LAN.
SPECIFICATION Spec
CONSTANTS
    Asns = {n1, n2}
    V4 = {a, z}
    V6 = {p}
    Prefix = {a, p}
    None = None
    Operational = {TRUE}
    Supports <- AnyStack
    FeedSize = 2
    Initial <- DeletedElsewhere
    MaxRuns = 2
    MaxEdits = 1
INVARIANTS
    TypeOK
    ProposalsOpen
CHECK_DEADLOCK FALSE
