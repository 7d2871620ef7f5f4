SPECIFICATION Spec
CONSTANTS
    m1 = m1
    m2 = m2
    m3 = m3
    reader = reader
    worker = worker
    Msgs = {m1, m2, m3}
    NParts <- MCNParts
    Limit = 2
    Handlers = {reader}
    MaxGrants = 1
    MaxCrashes = 1
    MaxReports = 1
SYMMETRY OnePartCalls
CHECK_DEADLOCK FALSE
INVARIANTS
    OneCallPerGrant
    WithinLimit
    AcksAreOwn
