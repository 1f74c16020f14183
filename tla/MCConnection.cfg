SPECIFICATION Spec
ACTION_CONSTRAINT BusyIsBrief
CHECK_DEADLOCK FALSE
CONSTANTS
    Devices = {d1, d2}
    Media = {m1}
    Transports = {t1, t2}
    OwnApps = {a1}
    OtherApps = {}
    Ops = {"Select", "LaunchDefaultReceiver", "Load", "Play", "Stop", "SetVolume", "Shutdown"}
    Upsets = {"TriggerToken", "DropSenders"}
    MaxRetries = 2
    MaxQueue = 1
    MaxFrames = 1
    None = None
INVARIANTS
    ExhaustedAfterBudget
    SessionInv
PROPERTIES
    EventsTellSession
    LoadIsKept
    ImplementsLink
