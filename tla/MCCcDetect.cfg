CONSTANTS
    VbusSamples <- MCVbusSamples
    CountRange = 8
SPECIFICATION Spec
INVARIANTS
    TypeOK
    OrientationRight
    WithdrawalSeen
PROPERTY DebouncedOnceSettled
