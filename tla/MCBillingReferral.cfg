SPECIFICATION FairSpec
CONSTANTS
    u1 = u1
    u2 = u2
    p1 = p1
    None = None
    Trial = Trial
    Plans = {p1}
    PlanPrice <- OnePrice
    Users = {u1, u2}
    Orders = {o1, o2}
    Subs = {s1, s2}
    Requests = {}
    OrderTypes = {"plan_purchase", "top_up"}
    Quantities = {0}
    Promos = {FALSE, TRUE}
    Prices = {1}
    Reward = 1
    Bonus = 1
    MaxActivations = 1
    MaxPerUser = 1
    MaxSlots = 1
    Period = 1
    Window = 0
    Grace = 1
    MaxBalance = 0
    Horizon = 0
    Referrer <- U2InvitesU1
INVARIANTS
    RewardFollowsPayment
PROPERTIES
    PendingSettles
