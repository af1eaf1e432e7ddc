CONSTANTS
    SprLists <- MCSprLists
    EprLists <- MCEprLists
    NoList = NoList
    EprCapable <- MCEprCapable
    PpsLists <- MCPpsLists
    Kinds <- MCKinds
    Signals <- MCSignals
    FrameGap = 2
    CmdSlots = 2
    HidDepth = 1
    BurstCap = 0
    LateCap = 0
SPECIFICATION Spec
PROPERTY HardResetClears
