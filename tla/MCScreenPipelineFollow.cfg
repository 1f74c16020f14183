SPECIFICATION FairSpec
CHECK_DEADLOCK FALSE
CONSTANTS
    Sizes = {s1, s2}
    Native = s1
    FrameCap = 1
    OutputCap = 1
    ChannelCap = 1
    MaxFailures = 1
    MaxChanges = 2
    None = None
PROPERTIES
    EncoderFollowsScreen
