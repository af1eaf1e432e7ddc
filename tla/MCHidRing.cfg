CONSTANTS
    Halves <- MCHalves
    Zero = "0"
    Depth = 4
    MayClear = TRUE
SPECIFICATION Spec
INVARIANTS
    TypeOK
    CopyWhole
PROPERTY IsQueue
