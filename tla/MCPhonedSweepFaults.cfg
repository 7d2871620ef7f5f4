SPECIFICATION Spec
CONSTANTS
    a = a
    b1 = b1
    b2 = b2
    r = r
    A = A
    B = B
    R = R
    Empty = Empty
    Parts = {b1, b2, r}
    Msgs <- MCMsgs
    MsgOf <- MCMsgOf
    No <- MCNo
    Reports <- MCReports
    NSlots = 2
    MaxDeliver = 1
    MaxLate = 1
    MaxFails = 1
    MaxFaults = 1
CHECK_DEADLOCK FALSE
INVARIANTS
    SweptOnce
    AckedIsHeld
