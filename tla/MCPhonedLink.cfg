SPECIFICATION LinkSpec
CONSTANTS
    worker = worker
    http = http
    read = read
    write = write
    Clients <- MCClients
    Cmds <- MCCmds
    Kinds <- MCKinds
    MaxSeq = 2
    MaxRequests = 3
SYMMETRY Symmetry
CHECK_DEADLOCK FALSE
PROPERTIES IsService
INVARIANTS
    WaiterIsReachable
    GenIsOwn
    StrictAnswersAreOwn
