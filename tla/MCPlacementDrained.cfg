SPECIFICATION TickSpec
CONSTANTS
    None = None
    n1 = n1
    e1 = e1
    Keys = {k1}
    Nodes = {n1, n2, n3}
    Entries = {}
    Assigned <- NoEntries
    Rows = {r1, r2, r3}
    MaxOp = 2
    AdminStates = {}
    Unstable = {n1}
    Outcomes = {TRUE}
    InFlight = 0
PROPERTIES
    DrainedAreDeactivated
CHECK_DEADLOCK FALSE
