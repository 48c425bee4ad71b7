SPECIFICATION Spec
CONSTANTS
    NumberOfConfigurations = 1
    None = None
    MaxFaults = 2
INVARIANTS
    EnumeratedAgrees
PROPERTIES
    HostReturns
    HostRecovers
    DeviceReturns
CHECK_DEADLOCK FALSE
