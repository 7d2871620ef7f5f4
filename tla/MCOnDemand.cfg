SPECIFICATION Spec
CONSTANTS
    Conns = {c1, c2}
    RetryMax = 2
    MaxFaults = 1
    MaxFails = 1
    Scenes = {"files", "backend"}
INVARIANTS
    OneBackend
    WasteIsBounded
    HoldLetsOneIn
PROPERTIES
    RequestsEnd
    MemoryIsFreed
