CONSTANTS
    SprLists <- MCSprLists
    EprLists <- OneEprList
    NoList = NoList
    EprCapable <- MCEprCapable
    PpsLists <- MCEprCapable
    Kinds <- ReplyKinds
    Signals <- NoSignals
    FrameGap = 2
    CmdSlots = 1
    HidDepth = 0
    BurstCap = 0
    LateCap = 0
SPECIFICATION FairSpec
PROPERTIES
    FrameHandled
    EprModeRequested
    CommandsDrain
