SPECIFICATION FairSpec
CHECK_DEADLOCK FALSE
CONSTANTS
    Ips = {i1, i2}
    Wild = Wild
    Ports = {1, 2}
    MaxQueue = 2
    MaxRequests = 2
    Upsets = {"ServerEnds"}
    None = None
INVARIANTS
    WildcardNeedsConsent
    PromptInv
PROPERTIES
    RebindFollowsReceiver
    AdvertisesListeningPort
    RebindsFinish
