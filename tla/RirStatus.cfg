SPECIFICATION Spec
CONSTANTS
    Networks = {1, 2}
    Keep = 2
    Cap = 1
    MaxChanges = 1
    MaxAge = 2
    Runs <- DailyAndNarrowed
    ReAdded = {1}
    StaleSavers = {1}
    Kills = FALSE
    None = None
INVARIANTS
    TypeOK
    MailsAreRecorded
PROPERTIES
    UndisturbedAreWarned
    WarnedOnce
