CONSTANTS
    Size = 4
    MaxCount = 8
SPECIFICATION FairSpec
INVARIANTS
    ReportWhole
    LossesCounted
PROPERTIES
    SentInOrder
    HostCatchesUp
CONSTRAINT Undisturbed
CHECK_DEADLOCK FALSE
