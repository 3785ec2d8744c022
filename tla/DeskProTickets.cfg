SPECIFICATION FairSpec
CONSTANTS
    Tickets = {1, 2}
    Batch = 1
    MaxRemote = 1
    Requeued = {2}
    Dedup = TRUE
    None = None
INVARIANTS
    TypeOK
    NoOrphans
PROPERTIES
    CloseRequestSurvives
    PublishedInTheEnd
    ClosedInTheEnd
    TicketsLive
