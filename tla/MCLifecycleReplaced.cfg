SPECIFICATION FairSpec
CHECK_DEADLOCK FALSE
CONSTANTS
    MaxCommands = 1
    MaxDisplays = 2
INVARIANTS
    EverythingReaped
