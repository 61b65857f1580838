SPECIFICATION Spec
CONSTANTS
    u1 = u1
    u2 = u2
    p1 = p1
    None = None
    Trial = Trial
    Plans = {p1}
    PlanPrice <- OnePrice
    Users = {u1}
    Orders = {o1, o2}
    Subs = {s1}
    Requests = {r1, r2}
    OrderTypes = {"plan_purchase"}
    Quantities = {0}
    Promos = {FALSE}
    Prices = {1}
    Reward = 1
    Bonus = 1
    MaxActivations = 1
    MaxPerUser = 1
    MaxSlots = 1
    Period = 1
    Window = 0
    Grace = 1
    MaxBalance = 1
    Horizon = 1
    Referrer <- NoReferrers
SYMMETRY Symmetry
INVARIANTS
    BalanceMatchesLedger
