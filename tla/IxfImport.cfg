\* Dual-stack networks whose data may differ from the list.
SPECIFICATION Spec
CONSTANTS
    Asns = {n1, n2}
    V4 = {a}
    V6 = {p}
    Prefix = {a, p}
    None = None
    Operational = {TRUE, FALSE}
    Supports <- DualStack
    FeedSize = 2
    Initial <- Leftovers
    MaxRuns = 2
    MaxEdits = 1
SYMMETRY Symmetry
INVARIANTS
    AllowRespected
    Converges
    ProposalsOpen
    SecondRunIdle
    DeletedDoNotBlock
CHECK_DEADLOCK FALSE
