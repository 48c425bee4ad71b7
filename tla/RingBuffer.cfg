SPECIFICATION RingSpec
CONSTANTS
    Data = {0, 1}
    Size = 3
    MaxBytes = 6
INVARIANTS
    RingInv
PROPERTIES
    IsQueue
    Delivered
CHECK_DEADLOCK FALSE
