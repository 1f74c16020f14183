SPECIFICATION FairSpec
CHECK_DEADLOCK FALSE
CONSTANTS
    Sizes = {s1, s2}
    Native = s1
    FrameCap = 1
    OutputCap = 2
    ChannelCap = 1
    MaxFailures = 1
    MaxChanges = 1
    None = None
INVARIANTS
    ScreenInv
PROPERTIES
    DecodableStream
    PipelineEnds
