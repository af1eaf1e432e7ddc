CONSTANTS
    Lists <- MCLists
    HostCommands <- MCHostCommands
    CmdSlots = 2
SPECIFICATION Spec
INVARIANT RequestGranted
PROPERTY AdjustMovesOneWay
