CONSTANTS
    ChipSizes <- MCChipSizes
    FirstBytes <- MCFirstBytes
    Commanded <- MCCommanded
    SprLists <- MCSprLists
    EprLists <- MCEprLists
    EprCapable <- MCEprCapable
    HostRequests <- MCHostRequests
SPECIFICATION Spec
INVARIANTS
    TypeOK
    CapacityRight
    HeldRequestFits
PROPERTIES
    SettingsSurvive
    SwitchRestored
