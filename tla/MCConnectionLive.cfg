SPECIFICATION FairSpec
CHECK_DEADLOCK FALSE
CONSTANTS
    Devices = {d1}
    Media = {m1}
    Transports = {t1, t2}
    OwnApps = {}
    OtherApps = {o1}
    Ops = {"Select", "Load", "Shutdown"}
    Upsets = {"TriggerToken", "OtherClient"}
    MaxRetries = 2
    MaxQueue = 1
    MaxFrames = 1
    None = None
PROPERTIES
    ImplementsFairLink
    ShutdownStops
