------------------------------- MODULE Billing ------------------------------
(***************************************************************************)
(* Payment orders, user balances, their transaction ledger and the         *)
(* subscriptions they buy (services/billing, with the promo activations    *)
(* and referral rewards its handlers record).                              *)
(*                                                                         *)
(* A handler runs in one database transaction (READ COMMITTED) that the    *)
(* request's session commits at the end.  A section that runs under the    *)
(* row lock of the order or of the user, up to the commit, is one action:  *)
(* whatever it reads is written under that lock only.  A handler that      *)
(* reads before it locks is two actions.  Its first reads stay in the      *)
(* session's identity map: SELECT ... FOR UPDATE without populate_existing *)
(* returns the object loaded before, with the attributes loaded before.    *)
(*                                                                         *)
(* Prices, periods, proration and discounts are abstracted to a choice of  *)
(* amount; a purchase adds Period ticks of time.                           *)
(***************************************************************************)
EXTENDS Integers, FiniteSets

CONSTANTS
    Users, Plans, Orders, Subs, Requests,
    None,           \* no user, plan or subscription
    Trial,          \* the free plan
    PlanPrice,      \* plan.price_rub
    Prices,         \* the amounts an order may have
    OrderTypes,     \* the order types, extra device slots and promo choices
    Quantities,     \* that requests ask for
    Promos,
    Referrer,       \* Referrer[u]: whose code u applies, or None
    Reward,         \* referral.reward_rub
    Bonus,          \* referral.referred_reward_rub
    MaxActivations, \* promo_code.max_activations
    MaxPerUser,     \* promo_code.max_per_user
    MaxSlots,       \* plan.max_devices - plan.included_devices
    Period,         \* the time a purchase adds, in ticks of the clock
    Window,         \* AUTO_RENEW_WINDOW_SEC
    Grace,          \* AUTO_RENEW_RETRY_GRACE_SEC
    MaxBalance,     \* bound: manual credits stop here
    Horizon         \* bound: the clock stops here

Types == {"plan_purchase", "subscription_renewal", "device_slots", "top_up"}

ASSUME BillingAssumption ==
    /\ OrderTypes \subseteq Types
    /\ Prices \subseteq Nat /\ Quantities \subseteq Nat /\ Promos \subseteq BOOLEAN
    /\ PlanPrice \in [Plans -> Nat \ {0}]
    /\ Reward \in Nat /\ Bonus \in Nat
    /\ None \notin Users \cup Plans \cup Subs \cup Orders
    /\ Trial \notin Plans \cup {None}
    /\ Referrer \in [Users -> Users \cup {None}]
    /\ \A u \in Users : Referrer[u] # u
    /\ MaxActivations \in Nat /\ MaxPerUser \in Nat /\ MaxSlots \in Nat
    /\ Period \in Nat \ {0} /\ Window \in Nat /\ Grace \in Nat
    /\ MaxBalance \in Int /\ Horizon \in Nat

VARIABLES
    ord,        \* payment_order
    balance,    \* user.balance
    sub,        \* subscription
    planActive, \* plan.is_active
    referral,   \* referral.status of the user's referral row, "none" without one
    activations,\* promo_activation: uses of the promo code per user
    activated,  \* promo_code.activation_count
    req,        \* requests between their first reads and their end
    expiring,   \* orders selected by bulk_expire_pending, not yet updated
    lapsing,    \* subscriptions selected by the expiration tick, not yet updated
    now,        \* the clock
    ledger,     \* sum of the user's balance_transaction amounts
    credits,    \* number of "payment" transactions of an order
    purchases,  \* number of (device slot) purchase transactions of an order
    refunds,    \* number of "refund" transactions of an order
    refunded,   \* sum refunded to (debited from) the user
    stale,      \* ghost: users whose balance was written from a stale read
    rebased     \* ghost: subscriptions written from a stale row or by a plan change

promo  == <<activations, activated>>
counts == <<credits, purchases, refunds>>
ghosts == <<stale, rebased>>
sweeps == <<expiring, lapsing>>
vars   == <<ord, balance, sub, planActive, referral, promo, req, sweeps, now,
            ledger, counts, refunded, ghosts>>

PlanTypes == {"plan_purchase", "subscription_renewal"}

OrderRecords ==
    [status : {"none", "pending", "completed", "refunded", "expired"},
     user : Users \cup {None}, type : Types, plan : Plans \cup {Trial, None},
     provider : {"gateway", "balance", "free"}, amount : Nat, slots : Nat,
     promo : BOOLEAN, sub : Subs \cup {None}, due : BOOLEAN]
SubRecords ==
    [user : Users \cup {None}, plan : Plans \cup {Trial, None}, active : BOOLEAN,
     until : Nat, slots : Nat]

NoOrder ==
    [status |-> "none", user |-> None, type |-> "top_up", plan |-> None,
     provider |-> "gateway", amount |-> 0, slots |-> 0, promo |-> FALSE,
     sub |-> None, due |-> FALSE]
NoSub == [user |-> None, plan |-> None, active |-> FALSE, until |-> 0, slots |-> 0]

\* A request: the order it is about to create, the balance and the
\* subscription its session holds, and whether its session commits.
Idle == [at |-> "idle", order |-> NoOrder, balance |-> 0, held |-> NoSub, commits |-> FALSE]

Init ==
    /\ ord = [o \in Orders |-> NoOrder]
    /\ balance = [u \in Users |-> 0]
    /\ sub = [s \in Subs |-> NoSub]
    /\ planActive = [p \in Plans |-> TRUE]
    /\ referral = [u \in Users |-> "none"]
    /\ activations = [u \in Users |-> 0]
    /\ activated = 0
    /\ req = [r \in Requests |-> Idle]
    /\ expiring = {}
    /\ lapsing = {}
    /\ now = 0
    /\ ledger = [u \in Users |-> 0]
    /\ credits = [o \in Orders |-> 0]
    /\ purchases = [o \in Orders |-> 0]
    /\ refunds = [o \in Orders |-> 0]
    /\ refunded = [u \in Users |-> 0]
    /\ stale = {}
    /\ rebased = {}

-----------------------------------------------------------------------------
(* Reading the tables. *)

Larger(a, b) == IF a >= b THEN a ELSE b
Add(f, x, d) == [f EXCEPT ![x] = @ + d]

Paid(o) == ord[o].status = "completed"
SubsOf(u) == {s \in Subs : sub[s].user = u}
ActiveFor(u, p) == {s \in SubsOf(u) : sub[s].active /\ sub[s].plan = p}
Live(u) == {s \in SubsOf(u) : sub[s].active /\ sub[s].until > now}
Latest(S) == {s \in S : \A t \in S : sub[t].until <= sub[s].until}
PriceOf(p) == IF p \in Plans THEN PlanPrice[p] ELSE 0

\* validate_and_quote: the limits of the code, read without a lock.
PromoOpen(u) == activated < MaxActivations /\ activations[u] < MaxPerUser

\* The free plan is for a user without a trial, a live subscription or a
\* paid order.
TrialOpen(u) ==
    /\ Live(u) = {}
    /\ \A o \in Orders : ord[o].user = u /\ Paid(o) => ord[o].plan # Trial /\ ord[o].amount = 0

\* _guard_no_downgrade
NoDowngrade(u, p) == \A s \in Latest(Live(u)) : PriceOf(sub[s].plan) <= PlanPrice[p]

TopUp(x) == x.type = "top_up" /\ x.plan = None /\ x.sub = None /\ x.slots = 0 /\ ~x.promo /\ x.amount > 0

DeviceSlots(x) ==
    /\ x.type = "device_slots" /\ x.plan = None /\ ~x.promo /\ x.amount > 0
    /\ x.sub # None
    /\ sub[x.sub].active
    /\ sub[x.sub].slots + x.slots <= MaxSlots

PlanOrder(x) ==
    /\ x.type \in PlanTypes /\ x.plan \in Plans
    /\ x.sub # None => sub[x.sub].user = x.user /\ sub[x.sub].plan = x.plan
    /\ planActive[x.plan] \/ x.sub # None
    /\ x.type = "plan_purchase" => NoDowngrade(x.user, x.plan)
    /\ x.promo => PromoOpen(x.user)

\* The order rows create_order may insert for a provider.
Row(u, t, p, prov, a, q, c, s, st) ==
    [status |-> st, user |-> u, type |-> t, plan |-> p, provider |-> prov, amount |-> a,
     slots |-> q, promo |-> c, sub |-> s, due |-> FALSE]

Fresh == {o \in Orders : ord[o].status = "none"}

-----------------------------------------------------------------------------
(* Buying: debit, then create or extend a subscription. *)

\* The subscription _auto_purchase extends, as the session sees the rows in
\* view: the one a renewal names, else an active one of the plan, else the
\* latest; a fresh row when the user has none.
Targets(x, view) ==
    LET named == {s \in Subs : /\ x.type = "subscription_renewal" /\ s = x.sub
                               /\ view[s].user = x.user /\ view[s].plan = x.plan}
        same == {s \in SubsOf(x.user) : sub[s].active /\ view[s].plan = x.plan}
        choice == IF named # {} THEN named
                  ELSE IF same # {} THEN same
                  ELSE Latest(SubsOf(x.user))
    IN IF choice # {} THEN choice ELSE {s \in Subs : sub[s].user = None}

\* Faulty variants: what is left of the period, or the slots, are forgotten.
ExtendedFromNow(x, s, view) ==
    [sub[s] EXCEPT !.user = x.user, !.plan = x.plan, !.active = TRUE,
                   !.until = now + Period, !.slots = view[s].slots + x.slots]
ExtendedSlotsReset(x, s, view) ==
    [sub[s] EXCEPT !.user = x.user, !.plan = x.plan, !.active = TRUE,
                   !.until = Larger(view[s].until, now) + Period, !.slots = x.slots]

\* The row after the purchase: time is added to what the session saw, the
\* plan and the slots are written only when they change.
Extended(x, s, view) ==
    LET changed == view[s].plan # x.plan
        base == IF changed THEN now ELSE Larger(view[s].until, now)
    IN IF sub[s].user = None
       THEN [user |-> x.user, plan |-> x.plan, active |-> TRUE, until |-> now + Period, slots |-> x.slots]
       ELSE [user |-> sub[s].user, plan |-> IF changed THEN x.plan ELSE sub[s].plan, active |-> TRUE,
             until |-> base + Period,
             slots |-> IF changed \/ x.slots > 0 THEN view[s].slots + x.slots ELSE sub[s].slots]

\* Deliver what order x buys: slots, or a period on some target.
Deliver(o, x, view) ==
    \/ /\ x.type = "device_slots"
       /\ sub' = [sub EXCEPT ![x.sub].slots = view[x.sub].slots + x.slots]
       /\ rebased' = IF view[x.sub] # sub[x.sub] THEN rebased \cup {x.sub} ELSE rebased
       /\ ord' = [ord EXCEPT ![o] = [x EXCEPT !.status = "completed"]]
    \/ /\ x.type \in PlanTypes
       /\ \E s \in Targets(x, view) :
            /\ sub' = [sub EXCEPT ![s] = Extended(x, s, view)]
            /\ rebased' = IF view[s] # sub[s] \/ sub[s].plan \notin {x.plan, None}
                          THEN rebased \cup {s} ELSE rebased
            /\ ord' = [ord EXCEPT ![o] = [x EXCEPT !.status = "completed", !.sub = s]]

RecordActivation(x) ==
    /\ activations' = IF x.promo THEN Add(activations, x.user, 1) ELSE activations
    /\ activated' = IF x.promo THEN activated + 1 ELSE activated

-----------------------------------------------------------------------------
(* Creating orders. *)

\* create_order with a payment provider or Stars: the checks, the provider's
\* answer and the insert.  Nothing depends on the row before it is paid, so
\* checks that grow old before the insert are checks that grow old before
\* the payment.
CreateGatewayOrder(o) ==
    /\ o \in Fresh
    /\ \E u \in Users, t \in OrderTypes, p \in Plans \cup {None}, s \in Subs \cup {None},
          a \in Prices, q \in Quantities, c \in Promos :
         LET x == Row(u, t, p, "gateway", a, q, c, s, "pending")
         IN /\ TopUp(x) \/ DeviceSlots(x) \/ PlanOrder(x)
            /\ ord' = [ord EXCEPT ![o] = x]
    /\ UNCHANGED <<balance, sub, planActive, referral, promo, req, sweeps, now,
                   ledger, counts, refunded, ghosts>>

\* create_order paid from the balance, up to the insert: the user and the
\* named subscription are loaded, and stay held, before the row lock.
BeginBalanceOrder(r) ==
    /\ req[r].at = "idle"
    /\ \E u \in Users, t \in OrderTypes, p \in Plans \cup {None}, s \in Subs \cup {None},
          a \in Prices, q \in Quantities, c \in Promos :
         LET x == Row(u, t, p, "balance", a, q, c, s, "none")
         IN /\ DeviceSlots(x) \/ PlanOrder(x)
            /\ req' = [req EXCEPT ![r] =
                 [at |-> "balance", order |-> x, balance |-> balance[u],
                  held |-> IF s = None THEN NoSub ELSE sub[s], commits |-> TRUE]]
    /\ UNCHANGED <<ord, balance, sub, planActive, referral, promo, sweeps, now,
                   ledger, counts, refunded, ghosts>>

\* list_due_auto_renew
RenewalDue(s) ==
    /\ sub[s].plan \in Plans
    /\ \/ sub[s].active /\ now < sub[s].until /\ sub[s].until <= now + Window
       \/ sub[s].until <= now /\ now < sub[s].until + Grace

\* _renew_one: the same order, in a session that nobody commits.
BeginAutoRenew(r) ==
    /\ req[r].at = "idle"
    /\ \E s \in Subs :
         LET u == sub[s].user
             x == Row(u, "plan_purchase", sub[s].plan, "balance", PriceOf(sub[s].plan), 0, FALSE, s, "none")
         IN /\ RenewalDue(s)
            /\ balance[u] >= x.amount
            /\ PlanOrder(x)
            /\ req' = [req EXCEPT ![r] =
                 [at |-> "balance", order |-> x, balance |-> balance[u], held |-> sub[s], commits |-> FALSE]]
    /\ UNCHANGED <<ord, balance, sub, planActive, referral, promo, sweeps, now,
                   ledger, counts, refunded, ghosts>>

\* The rows as the session of request r sees them.
View(r) == [s \in Subs |-> IF s = req[r].order.sub THEN req[r].held ELSE sub[s]]

\* _create_balance_plan_order and _create_balance_device_slot_order, from the
\* user's row lock to the commit.
EndBalanceOrder(r, o) ==
    /\ req[r].at = "balance" /\ req[r].commits
    /\ o \in Fresh
    /\ LET x == req[r].order
           u == x.user
       IN /\ req[r].balance >= x.amount
          /\ Deliver(o, x, View(r))
          /\ balance' = [balance EXCEPT ![u] = req[r].balance - x.amount]
          /\ stale' = IF req[r].balance = balance[u] THEN stale ELSE stale \cup {u}
          /\ ledger' = Add(ledger, u, -x.amount)
          /\ RecordActivation(x)
    /\ purchases' = Add(purchases, o, 1)
    /\ req' = [req EXCEPT ![r] = Idle]
    /\ UNCHANGED <<planActive, referral, sweeps, now, credits, refunds, refunded>>

\* The free plan: checked without a lock ...
BeginTrialOrder(r) ==
    /\ req[r].at = "idle"
    /\ \E u \in Users :
         /\ TrialOpen(u)
         /\ req' = [req EXCEPT ![r] =
              [at |-> "trial", order |-> Row(u, "plan_purchase", Trial, "free", 0, 0, FALSE, None, "none"),
               balance |-> 0, held |-> NoSub, commits |-> TRUE]]
    /\ UNCHANGED <<ord, balance, sub, planActive, referral, promo, sweeps, now,
                   ledger, counts, refunded, ghosts>>

\* _auto_purchase_free: an active trial is extended, else one is created.
TrialRow(u, s) ==
    IF s \in ActiveFor(u, Trial) THEN [sub[s] EXCEPT !.until = @ + Period]
    ELSE [user |-> u, plan |-> Trial, active |-> TRUE, until |-> now + Period, slots |-> 0]

\* ... and _create_free_order.
EndTrialOrder(r, o) ==
    /\ req[r].at = "trial"
    /\ o \in Fresh
    /\ LET x == req[r].order
           same == ActiveFor(x.user, Trial)
       IN \E s \in IF same # {} THEN same ELSE {t \in Subs : sub[t].user = None} :
            /\ sub' = [sub EXCEPT ![s] = TrialRow(x.user, s)]
            /\ ord' = [ord EXCEPT ![o] = [x EXCEPT !.status = "completed", !.sub = s]]
    /\ req' = [req EXCEPT ![r] = Idle]
    /\ UNCHANGED <<balance, planActive, referral, promo, sweeps, now,
                   ledger, counts, refunded, ghosts>>

\* A request that fails is rolled back: insufficient balance, a deadlock on
\* the user's row, a lost connection.
Rollback(r) ==
    /\ req[r].at # "idle" /\ req[r].commits
    /\ req' = [req EXCEPT ![r] = Idle]
    /\ UNCHANGED <<ord, balance, sub, planActive, referral, promo, sweeps, now,
                   ledger, counts, refunded, ghosts>>

\* AutoRenewReconciler.tick leaves its session without a commit.
CloseSession(r) ==
    /\ req[r].at # "idle" /\ ~req[r].commits
    /\ req' = [req EXCEPT ![r] = Idle]
    /\ UNCHANGED <<ord, balance, sub, planActive, referral, promo, sweeps, now,
                   ledger, counts, refunded, ghosts>>

-----------------------------------------------------------------------------
(* Payment and refund, under the row locks of the order and of the user. *)

\* A faulty variant: the type of the order is not looked at.
RewardDueOnAnyOrder(o) ==
    /\ referral[ord[o].user] = "pending"
    /\ ~ \E p \in Orders \ {o} : ord[p].user = ord[o].user /\ Paid(p) /\ ord[p].type # "top_up"

\* process_reward_if_eligible: the first paid order of a referred user.
RewardDue(o) ==
    /\ ord[o].type \in PlanTypes
    /\ referral[ord[o].user] = "pending"
    /\ ~ \E p \in Orders \ {o} : /\ ord[p].user = ord[o].user /\ Paid(p)
                                 /\ ord[p].provider # "free" /\ ord[p].type # "top_up"

\* _fulfill_order_locked buys with the balance that the payment left, so a
\* user in debt gets the credit and nothing else.
Buys(o) ==
    /\ balance[ord[o].user] >= 0
    /\ \/ ord[o].type = "device_slots"
       \/ ord[o].type \in PlanTypes /\ planActive[ord[o].plan]

\* A faulty variant: the final statuses are not looked at.
PayableAfterExpiry(o) == ord[o].status \in {"pending", "expired"}

\* A payment of an expired order is refused, one of a final order ignored.
Payable(o) == ord[o].status = "pending"

\* A paid webhook, or confirm_stars_payment.  In any other status the handler
\* returns or raises and changes nothing, so a redelivery is no step.
Fulfill(o) ==
    /\ Payable(o)
    /\ LET x == ord[o]
           u == x.user
           rewarded == RewardDue(o)
           gain == [v \in Users |->
                      (IF v = u /\ ~Buys(o) THEN x.amount ELSE 0)
                    + (IF v = u /\ rewarded THEN Bonus ELSE 0)
                    + (IF v = Referrer[u] /\ rewarded THEN Reward ELSE 0)]
       IN /\ \/ Buys(o) /\ Deliver(o, x, sub)
             \/ /\ ~Buys(o)
                /\ ord' = [ord EXCEPT ![o].status = "completed"]
                /\ UNCHANGED <<sub, rebased>>
          /\ balance' = [v \in Users |-> balance[v] + gain[v]]
          /\ ledger' = [v \in Users |-> ledger[v] + gain[v]]
          /\ referral' = IF rewarded THEN [referral EXCEPT ![u] = "rewarded"] ELSE referral
          /\ RecordActivation(x)
    /\ credits' = Add(credits, o, 1)
    /\ purchases' = Add(purchases, o, IF Buys(o) THEN 1 ELSE 0)
    /\ UNCHANGED <<planActive, req, sweeps, now, refunds, refunded, stale>>

\* A faulty variant: a status the other handlers do not know.
CancelPaymentCanceled(o) ==
    /\ ord[o].status = "pending"
    /\ ord' = [ord EXCEPT ![o].status = "canceled"]
    /\ UNCHANGED <<balance, sub, planActive, referral, promo, req, sweeps, now,
                   ledger, counts, refunded, ghosts>>

\* A webhook that reports a cancelled payment.
CancelPayment(o) ==
    /\ ord[o].status = "pending"
    /\ ord' = [ord EXCEPT ![o].status = "expired"]
    /\ UNCHANGED <<balance, sub, planActive, referral, promo, req, sweeps, now,
                   ledger, counts, refunded, ghosts>>

\* refund_order; it takes the amount off the balance whatever the provider.
RefundOrder(o) ==
    /\ ord[o].status = "completed"
    /\ LET x == ord[o]
       IN /\ balance' = Add(balance, x.user, -x.amount)
          /\ ledger' = Add(ledger, x.user, -x.amount)
          /\ refunded' = Add(refunded, x.user, x.amount)
          /\ \/ UNCHANGED sub
             \/ x.sub # None /\ sub' = [sub EXCEPT ![x.sub].active = FALSE]
    /\ ord' = [ord EXCEPT ![o].status = "refunded"]
    /\ refunds' = Add(refunds, o, 1)
    /\ UNCHANGED <<planActive, referral, promo, req, sweeps, now, credits, purchases, ghosts>>

\* credit_balance, under the user's row lock.
CreditBalance(u, a) ==
    /\ balance[u] + a <= MaxBalance /\ ledger[u] + a <= MaxBalance
    /\ balance' = Add(balance, u, a)
    /\ ledger' = Add(ledger, u, a)
    /\ UNCHANGED <<ord, sub, planActive, referral, promo, req, sweeps, now,
                   counts, refunded, ghosts>>

\* Faulty variants: the balance is not checked, the transaction not recorded.
DebitUnchecked(u, a) ==
    /\ balance[u] + a >= 0
    /\ balance' = Add(balance, u, -a)
    /\ ledger' = Add(ledger, u, -a)
    /\ UNCHANGED <<ord, sub, planActive, referral, promo, req, sweeps, now,
                   counts, refunded, ghosts>>

DebitUnrecorded(u, a) ==
    /\ balance[u] >= a
    /\ balance' = Add(balance, u, -a)
    /\ UNCHANGED <<ord, sub, planActive, referral, promo, req, sweeps, now,
                   ledger, counts, refunded, ghosts>>

\* debit_balance, under the user's row lock.
DebitBalance(u, a) ==
    /\ balance[u] >= a
    /\ balance' = Add(balance, u, -a)
    /\ ledger' = Add(ledger, u, -a)
    /\ UNCHANGED <<ord, sub, planActive, referral, promo, req, sweeps, now,
                   counts, refunded, ghosts>>

-----------------------------------------------------------------------------
(* The reconcilers: each selects ids, then updates the rows by id alone. *)

SelectExpired ==
    /\ expiring = {}
    /\ expiring' = {o \in Orders : ord[o].status = "pending" /\ ord[o].due}
    /\ expiring' # {}
    /\ UNCHANGED <<ord, balance, sub, planActive, referral, promo, req, lapsing, now,
                   ledger, counts, refunded, ghosts>>

\* A faulty variant: the tick does not commit.
ExpireUncommitted ==
    /\ expiring # {}
    /\ expiring' = {}
    /\ UNCHANGED <<ord, balance, sub, planActive, referral, promo, req, lapsing, now,
                   ledger, counts, refunded, ghosts>>

ExpireSelected ==
    /\ expiring # {}
    /\ ord' = [o \in Orders |-> IF o \in expiring THEN [ord[o] EXCEPT !.status = "expired"] ELSE ord[o]]
    /\ expiring' = {}
    /\ UNCHANGED <<balance, sub, planActive, referral, promo, req, lapsing, now,
                   ledger, counts, refunded, ghosts>>

SelectLapsed ==
    /\ lapsing = {}
    /\ lapsing' = {s \in Subs : sub[s].active /\ sub[s].until < now}
    /\ lapsing' # {}
    /\ UNCHANGED <<ord, balance, sub, planActive, referral, promo, req, expiring, now,
                   ledger, counts, refunded, ghosts>>

DeactivateLapsed ==
    /\ lapsing # {}
    /\ sub' = [s \in Subs |-> IF s \in lapsing THEN [sub[s] EXCEPT !.active = FALSE] ELSE sub[s]]
    /\ lapsing' = {}
    /\ UNCHANGED <<ord, balance, planActive, referral, promo, req, expiring, now,
                   ledger, counts, refunded, ghosts>>

-----------------------------------------------------------------------------
(* The rest of the world: referrals, the plan catalogue, the clock. *)

ApplyReferral(u) ==
    /\ referral[u] = "none" /\ Referrer[u] # None
    /\ referral' = [referral EXCEPT ![u] = "pending"]
    /\ UNCHANGED <<ord, balance, sub, planActive, promo, req, sweeps, now,
                   ledger, counts, refunded, ghosts>>

TogglePlan(p) ==
    /\ planActive' = [planActive EXCEPT ![p] = ~@]
    /\ UNCHANGED <<ord, balance, sub, referral, promo, req, sweeps, now,
                   ledger, counts, refunded, ghosts>>

OrderTimesOut(o) ==
    /\ ord[o].status # "none" /\ ord[o].provider = "gateway" /\ ~ord[o].due
    /\ ord' = [ord EXCEPT ![o].due = TRUE]
    /\ UNCHANGED <<balance, sub, planActive, referral, promo, req, sweeps, now,
                   ledger, counts, refunded, ghosts>>

Tick ==
    /\ now < Horizon
    /\ now' = now + 1
    /\ UNCHANGED <<ord, balance, sub, planActive, referral, promo, req, sweeps,
                   ledger, counts, refunded, ghosts>>

Next ==
    \/ \E o \in Orders : \/ CreateGatewayOrder(o) \/ Fulfill(o) \/ CancelPayment(o)
                         \/ RefundOrder(o) \/ OrderTimesOut(o)
    \/ \E r \in Requests : \/ BeginBalanceOrder(r) \/ BeginAutoRenew(r)
                           \/ BeginTrialOrder(r) \/ Rollback(r) \/ CloseSession(r)
    \/ \E r \in Requests, o \in Orders : EndBalanceOrder(r, o) \/ EndTrialOrder(r, o)
    \/ \E u \in Users, a \in Prices : CreditBalance(u, a) \/ DebitBalance(u, a)
    \/ \E u \in Users : ApplyReferral(u)
    \/ \E p \in Plans : TogglePlan(p)
    \/ SelectExpired \/ ExpireSelected \/ SelectLapsed \/ DeactivateLapsed
    \/ Tick

Spec == Init /\ [][Next]_vars

-----------------------------------------------------------------------------
(* What the code keeps. *)

Requesting ==
    [at : {"idle", "balance", "trial"}, order : OrderRecords, balance : Int,
     held : SubRecords, commits : BOOLEAN]

\* Every variable stays in its domain: in particular an order takes only the
\* statuses that its handlers know.
TypeOK ==
    /\ ord \in [Orders -> OrderRecords]
    /\ balance \in [Users -> Int]
    /\ sub \in [Subs -> SubRecords]
    /\ planActive \in [Plans -> BOOLEAN]
    /\ referral \in [Users -> {"none", "pending", "rewarded"}]
    /\ activations \in [Users -> Nat] /\ activated \in Nat
    /\ req \in [Requests -> Requesting]
    /\ expiring \subseteq Orders /\ lapsing \subseteq Subs
    /\ now \in Nat
    /\ ledger \in [Users -> Int] /\ refunded \in [Users -> Nat]
    /\ credits \in [Orders -> Nat] /\ purchases \in [Orders -> Nat] /\ refunds \in [Orders -> Nat]
    /\ stale \subseteq Users /\ rebased \subseteq Subs

\* However often a payment is notified, and whatever the expiration tick does
\* to the order meanwhile, an order is credited once, bought once, refunded
\* once, and refunded only after it was paid or bought
\* (_fulfill_order_locked, refund_order and bulk_expire_pending).
MoneyMovesOncePerOrder ==
    \A o \in Orders :
        /\ credits[o] <= 1 /\ purchases[o] <= 1 /\ refunds[o] <= 1
        /\ refunds[o] = 1 => credits[o] + purchases[o] > 0 \/ ord[o].provider = "free"

\* The balance is the sum of the user's transactions, unless an order paid
\* from the balance was committed from a balance read before the lock
\* (_lock_user, _update_user_balance, _record_transaction).
LedgerExplainsBalance ==
    \A u \in Users : u \notin stale => balance[u] = ledger[u]

\* A balance goes below zero by refunds only, and by no more than what was
\* refunded: every purchase and debit checks the balance that it writes from.
NegativeOnlyByRefund == \A u \in Users : balance[u] >= -refunded[u]

\* Every period that was paid for is on the subscription it was bought for:
\* purchases, renewals and lapses in any order never lose paid time, unless
\* the plan was switched or the row was written from a stale read
\* (_auto_purchase).
PaidTimeIsKept ==
    \A s \in Subs \ rebased :
        sub[s].until >= Period * Cardinality({o \in Orders : /\ purchases[o] = 1
                                                             /\ ord[o].type \in PlanTypes
                                                             /\ ord[o].sub = s})

\* Every device slot that was paid for is counted on its subscription, once,
\* whatever renewals and plan changes came between (_auto_purchase,
\* _fulfill_device_slots), unless the row was written from a stale read.
PaidSlotsAreCounted ==
    \A s \in Subs \ rebased :
        sub[s].slots = Cardinality(UNION {{o} \X (1..ord[o].slots) :
                            o \in {b \in Orders : purchases[b] = 1 /\ ord[b].sub = s}})

\* A referral is rewarded only for a plan that the referred user paid a
\* provider for (process_reward_if_eligible).
RewardFollowsPayment ==
    \A u \in Users : referral[u] = "rewarded" =>
        \E o \in Orders : ord[o].user = u /\ ord[o].type \in PlanTypes /\ credits[o] = 1

\* A pending order does not stay pending: it is paid, cancelled, or expired
\* by the expiration tick once its time is over (bulk_expire_pending).
PendingSettles == \A o \in Orders : ord[o].status = "pending" ~> ord[o].status # "pending"

\* The clock runs, and the reconcilers tick for ever (Reconciler._run).
\* Renewals are tried again and again; a request that could commit does so
\* at some attempt.
Fairness ==
    /\ \A o \in Orders : WF_vars(OrderTimesOut(o))
    /\ WF_vars(SelectExpired) /\ WF_vars(ExpireSelected)
    /\ \A r \in Requests : /\ SF_vars(BeginAutoRenew(r))
                            /\ SF_vars(\E o \in Orders : EndBalanceOrder(r, o))
                            /\ WF_vars(Rollback(r) \/ CloseSession(r))

FairSpec == Spec /\ Fairness

-----------------------------------------------------------------------------
(* What the code's comments and tests say, and the code does not keep. *)

\* "Re-read balance after lock": the balance is the sum of the transactions.
BalanceMatchesLedger == \A u \in Users : balance[u] = ledger[u]

\* A subscription due for renewal, whose user can pay, is charged (while the
\* bounded pool of order ids lasts).
Chargeable(s) ==
    RenewalDue(s) /\ Fresh # {} /\ balance[sub[s].user] >= PriceOf(sub[s].plan)
AutoRenewCharges == \A s \in Subs : Chargeable(s) ~> ~Chargeable(s)

=============================================================================
