SPECIFICATION ShutdownSpec
CHECK_DEADLOCK FALSE
CONSTANTS
    MaxCommands = 2
    MaxDisplays = 3
    Formats = {f1, f2}
    MaxChanges = 2
    None = None
INVARIANTS
    LifecycleInv
PROPERTIES
    ExitCompletes
    NothingAcquired
    StopCompletes
