SPECIFICATION Spec
CONSTANTS
    Workers = {w1, w2, w3, w4, w5}
    Adapters = {"absent", "off", "on"}
    MaxMains = 2
    MaxDepth = 2
    MaxChars = 2
INVARIANTS
    NullServiceHasCause
    CallbacksFindTheirFields
    OthersStopped
    SingletonServesMain
    DiscoveryEnds
PROPERTIES
    FileTaskEnds
    EnabledIsServed
CHECK_DEADLOCK FALSE
