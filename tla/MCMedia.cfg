SPECIFICATION MediaSpec
CHECK_DEADLOCK FALSE
CONSTANTS
    Conns = {c1, c2}
    MaxPipes = 2
    MaxSwitches = 2
    None = None
    MaxSize = 3
    MaxResizes = 2
    Chunk = 2
    Cap = 2
    FlushBytes = 3
    Nothing = Nothing
INVARIANTS
    LiveInv
    ServedAsPromised
PROPERTIES
    SwitchEnds
    BufferedReaches
