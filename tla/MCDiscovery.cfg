SPECIFICATION FairSpec
CHECK_DEADLOCK FALSE
CONSTANTS
    i1 = i1
    i2 = i2
    h1 = h1
    h2 = h2
    Instances <- MCInstances
    Hosts <- MCHosts
    Addrs <- MCAddrs
    MissedCycles = 3
    None = None
INVARIANTS
    TableInv
    ListedExist
PROPERTIES
    LossForgiven
    GoneExpires
