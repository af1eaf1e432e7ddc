CONSTANTS
    Debounce = 1
    BothPress = 2
    DoubleClick = 2
    LongHold = 2
    LongPress = 3
SPECIFICATION Spec
INVARIANTS
    GestureCountsPresses
    HoldInLongPress
PROPERTIES
    BothPressSilences
    
    PressReported
