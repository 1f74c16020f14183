SPECIFICATION DesktopSpec
CHECK_DEADLOCK FALSE
CONSTANTS
    None = None
    NoLevel = NoLevel
    Levels = {0, 1}
    MaxMoves = 2
    MaxMutes = 1
    MaxRemote = 1
    Devices = {d1, d2}
    MaxPicks = 2
    MaxPlays = 1
    MaxUpsets = 2
    MaxSnapshots = 1
INVARIANTS
    DesktopInv
PROPERTIES
    CopiesSettle
    LastPositionWins
