SPECIFICATION Spec
CONSTANTS
    Sources = {1}
    Files = {1, 2}
    SourceOf <- MCOneSource
    Runs = {r1, r2}
    Options <- MCOptions
    MaxSerial <- MCOneMaxSerial
    MaxAge = 0
    Kills = TRUE
    None = None
SYMMETRY Symmetry
INVARIANTS
    TypeOK
    MarkerNotAhead
    SuccessIsCurrent
CHECK_DEADLOCK FALSE
