CONSTANTS
    SprLists <- MCSprLists
    EprLists <- MCEprLists
    NoList = NoList
    EprCapable <- MCEprCapable
    PpsLists <- MCPpsLists
    Kinds <- MCKinds
    Signals <- MCSignals
    FrameGap = 2
    CmdSlots = 2
    HidDepth = 1
    BurstCap = 5
    LateCap = 4
SPECIFICATION Spec
INVARIANTS
    TypeOK
    AckedFrameKept
    ListWhole
    KeepAliveConsistent
    KeepAlivePrompt
    AckDelayBounded
PROPERTY EprOneWay
