SPECIFICATION Spec
CONSTANTS
    Orgs = {o1, o2}
    Networks = {n1}
    u1 = u1
    Users = {u1, u2}
    Requesters = {r1}
    Filer <- OneUser
    MAX_USER_AFFILIATION_REQUESTS = 5
    MaxMerges = 1
    None = None
SYMMETRY Symmetry
INVARIANTS
    TypeOK
    ParentStatus
PROPERTIES
    UndoRestores
    NoGhostOwners
