SPECIFICATION WireSpec
CHECK_DEADLOCK FALSE
CONSTANTS
    MaxId = 4
    Timeout = 2
    MaxPending = 2
    MaxSerial = 7
    MaxFrame = 60
    MaxField = 60
    Texts <- SomeTexts
    Outputs <- SomeOutputs
    MaxBox = 8
    ReadSizes = {1, 3, 40}
    MaxFrames = 2
    MaxBoxes = 4
INVARIANTS
    MisattributionNeedsWrap
    MessagesArrive
    SegmentsAreWhole
PROPERTIES
    NoReuseWhilePending
    RequestsSettle
