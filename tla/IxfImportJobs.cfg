SPECIFICATION FairJobsSpec
CONSTANTS
    Exchanges = {x1, x2}
    Pending = {x2}
    Waiting = {x1}
    Linked = {x1, x2}
    RequestJobs = {j1}
    RoutineJobs = {j2}
    Editors = {u1, u2}
    Limit = 1
    MaxRequests = 3
    MaxChanges = 2
    MaxKills = 1
INVARIANTS
    JobsTypeOK
    RequestStaysQueued
PROPERTIES
    RequestIsDecided
CHECK_DEADLOCK FALSE
