SPECIFICATION Spec
CONSTANTS
    Order <- MCOrder
    Hot = {"llama"}
    Critical = {}
    MaxRestarts = 2
    MaxFaults = 1
INVARIANTS
    NoSecond
    LevelIsHeld
PROPERTIES
    HotEndsStopped
    HoldsEnd
    ComesBack
