SPECIFICATION Spec
CONSTANTS
    a = a
    b = b
    worker = worker
    Callers = {a, b}
    Worker = worker
    PinFile = TRUE
    MaxStray = 1
    MaxRestarts = 1
INVARIANTS
    LossIsBounded
    AutoOnce
