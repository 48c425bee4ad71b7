SPECIFICATION Spec
CONSTANTS
    Data = {0, 1, 2, 3}
    Size = 2
    MaxBytes = 3
    EpSize = 2
    MaxOut = 2
    MaxEvents = 1
INVARIANTS
    TypeOK
    HostInOrder
    NothingLost
    LineInOrder
PROPERTIES
    BridgeDrains
    TransferEnds
