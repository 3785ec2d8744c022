SPECIFICATION FairSpec
CONSTANTS
    Networks = {1, 2}
    Keep = 1
    Cap = 1
    MaxChanges = 2
    MaxAge = 1
    Runs <- Daily
    ReAdded = {1}
    StaleSavers = {}
    Kills = TRUE
    None = None
PROPERTIES
    ReclaimedAreRemoved
    RestoredAreCleared
