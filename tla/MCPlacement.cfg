SPECIFICATION Spec
CONSTANTS
    None = None
    n1 = n1
    e1 = e1
    Keys = {k1}
    Nodes = {n1, n2}
    Entries = {e1}
    Assigned <- EntryOfN1
    Rows = {r1}
    MaxOp = 2
    AdminStates = {}
    Unstable = {n1}
    Outcomes = {TRUE}
    InFlight = 1
INVARIANTS
    TypeOK
    SyncedIsTrue
    VersionsNameOneState
CHECK_DEADLOCK FALSE
