CONSTANTS
    Size = 4
    MaxCount = 8
SPECIFICATION Spec
PROPERTY NeverEmptied
CHECK_DEADLOCK FALSE
