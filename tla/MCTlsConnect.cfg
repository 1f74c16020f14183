SPECIFICATION TlsSpec
CONSTANTS
    Keys = {k1, k2}
    Prints = {f1, f2}
    None = None
    Torn = Torn
    Failed = Failed
    Slots = {s1, s2}
INVARIANTS
    StoreInv
    SocketsOwned
    TrustedOrWarned
PROPERTIES
    PinKept
    HandshakesEnd
