SPECIFICATION FairSpec
CONSTANTS
    None = None
    n1 = n1
    e1 = e1
    Keys = {k1}
    Nodes = {n1}
    Entries = {}
    Assigned <- NoEntries
    Rows = {r1}
    MaxOp = 2
    AdminStates = {}
    Unstable = {}
    Outcomes = {TRUE, FALSE}
    InFlight = 4
INVARIANTS
    SyncedIsTrue

    
CHECK_DEADLOCK FALSE
