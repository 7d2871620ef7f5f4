SPECIFICATION Spec
CONSTANTS
    a = a
    b1 = b1
    b2 = b2
    r = r
    A = A
    B = B
    R = R
    Empty = Empty
    Parts = {a, b1, b2}
    Msgs <- MCMsgs
    MsgOf <- MCMsgOf
    No <- MCNo
    Reports <- MCReports
    NSlots = 3
    MaxDeliver = 1
    MaxLate = 1
    MaxFails = 0
    MaxFaults = 0
CHECK_DEADLOCK FALSE
INVARIANTS
    DeletedIsInFile
