SPECIFICATION Spec
CONSTANTS
    None = None
    n1 = n1
    e1 = e1
    Keys = {k1}
    Nodes = {n1, n2}
    Entries = {}
    Assigned <- NoEntries
    Rows = {r1, r2}
    MaxOp = 2
    AdminStates = {}
    Unstable = {n1}
    Outcomes = {TRUE}
    InFlight = 0
PROPERTIES
    RebalanceKeepsKeysServed
CHECK_DEADLOCK FALSE
