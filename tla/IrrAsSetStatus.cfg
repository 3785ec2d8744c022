SPECIFICATION FairSpec
CONSTANTS
    Networks = {1, 2}
    Sources = {"S", "T"}
    Names = {"x"}
    Changing = {"S"}
    Values = {"s", "stb", ""}
    Pins <- MCPins
    Empty = ""
    ValuesOf <- MCValuesOf
    Deletable = {2}
    MaxLookups = 1
    MaxNotifications = 1
    RenotifyAfter = 1
    MaxAge = 1
    NoContacts = {}
    Missed = {{"T"}}
    StaleSavers = {1}
    Kills = TRUE
    None = None
INVARIANTS
    TypeOK
    FlagInv
PROPERTIES
    FlagsAreEarned
    MailedOnce
    VerdictsSettle
CHECK_DEADLOCK FALSE
