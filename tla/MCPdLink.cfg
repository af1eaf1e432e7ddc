CONSTANTS
    SprLists <- MCSprLists
    EprLists <- MCEprLists
    NoList = NoList
    EprCapable <- MCEprCapable
    PpsLists <- MCPpsLists
    Kinds <- MCKinds
    Signals <- MCSignals
    FrameGap = 2
    CmdSlots = 1
    HidDepth = 0
    BurstCap = 0
    LateCap = 0
    MsgIds = 2
    Retries = 1
    UserPhases <- MCUserPhases
SPECIFICATION LinkSpec
INVARIANT NextIsNew
PROPERTIES
    RequestForPresentList
    EprReached
