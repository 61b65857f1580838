---------------------------- MODULE BillingProofs ----------------------------
(* Proofs about Billing, for every set of users, orders and requests. *)
EXTENDS Billing, TLAPS

\* An order that was accepted has a user, and a device slot order names its
\* subscription.
Accepted(x) == x.user \in Users /\ (x.type = "device_slots" => x.sub \in Subs)

\* Rows that exist have an owner.
Owned ==
    /\ \A o \in Orders : ord[o].status # "none" => Accepted(ord[o])
    /\ \A o \in expiring : ord[o].status # "none"
    /\ \A s \in Subs : sub[s].plan # None => sub[s].user \in Users
    /\ \A r \in Requests : /\ req[r].at # "idle" => Accepted(req[r].order)
                           /\ req[r].at = "trial" => req[r].order.provider = "free"

\* How far an order has come, by its status: what makes a second payment, or
\* a second refund, impossible.  An expired order may have any history, for
\* the expiration tick may overwrite any status.
Progress ==
    \A o \in Orders :
        /\ ord[o].status \in {"none", "pending"} => credits[o] = 0 /\ purchases[o] = 0
        /\ ord[o].status \in {"none", "pending", "completed"} => refunds[o] = 0
        /\ ord[o].status = "completed" => credits[o] + purchases[o] > 0 \/ ord[o].provider = "free"

BillingInv ==
    TypeOK /\ Owned /\ Progress /\ MoneyMovesOncePerOrder /\ LedgerExplainsBalance /\ NegativeOnlyByRefund

\* It holds of empty tables.
LEMMA InitBilling == Init => BillingInv
BY BillingAssumption DEF Init, BillingInv, TypeOK, Owned, Accepted, Progress, MoneyMovesOncePerOrder,
   LedgerExplainsBalance, NegativeOnlyByRefund, OrderRecords, SubRecords, NoOrder, NoSub, Idle,
   Requesting, Types

\* A purchase writes well-formed rows, and completes the order it is for.
LEMMA DeliverRows ==
    ASSUME TypeOK, Owned,
           NEW o \in Orders, NEW x \in OrderRecords, Accepted(x),
           NEW view \in [Subs -> SubRecords],
           Deliver(o, x, view)
    PROVE  /\ sub' \in [Subs -> SubRecords]
           /\ \A s \in Subs : sub'[s].plan # None => sub'[s].user \in Users
           /\ rebased' \subseteq Subs
           /\ \E y \in OrderRecords : /\ ord' = [ord EXCEPT ![o] = y]
                                      /\ y.status = "completed" /\ Accepted(y)
                                      /\ y.user = x.user /\ y.provider = x.provider
<1>1. CASE /\ x.type = "device_slots"
           /\ sub' = [sub EXCEPT ![x.sub].slots = view[x.sub].slots + x.slots]
           /\ rebased' = IF view[x.sub] # sub[x.sub] THEN rebased \cup {x.sub} ELSE rebased
           /\ ord' = [ord EXCEPT ![o] = [x EXCEPT !.status = "completed"]]
  <2>1. x.sub \in Subs /\ view[x.sub].slots + x.slots \in Nat
    BY <1>1 DEF Accepted, SubRecords, OrderRecords
  <2>2. sub' \in [Subs -> SubRecords] /\ rebased' \subseteq Subs
    <3>1. sub[x.sub] \in SubRecords
      BY <2>1 DEF TypeOK
    <3>2. [sub[x.sub] EXCEPT !.slots = view[x.sub].slots + x.slots] \in SubRecords
      BY <2>1, <3>1 DEF SubRecords
    <3>3. QED BY <1>1, <2>1, <3>2 DEF TypeOK
  <2>3. \A s \in Subs : sub'[s].plan = sub[s].plan /\ sub'[s].user = sub[s].user
    BY <1>1 DEF TypeOK, SubRecords
  <2>4. /\ [x EXCEPT !.status = "completed"] \in OrderRecords
        /\ [x EXCEPT !.status = "completed"].status = "completed"
        /\ [x EXCEPT !.status = "completed"].user = x.user
        /\ [x EXCEPT !.status = "completed"].provider = x.provider
        /\ Accepted([x EXCEPT !.status = "completed"])
    BY DEF OrderRecords, Accepted
  <2>5. QED BY <1>1, <2>2, <2>3, <2>4 DEF Owned
<1>2. ASSUME x.type \in PlanTypes, NEW s \in Targets(x, view),
             sub' = [sub EXCEPT ![s] = Extended(x, s, view)],
             rebased' = IF view[s] # sub[s] \/ sub[s].plan \notin {x.plan, None}
                        THEN rebased \cup {s} ELSE rebased,
             ord' = [ord EXCEPT ![o] = [x EXCEPT !.status = "completed", !.sub = s]]
      PROVE  /\ sub' \in [Subs -> SubRecords]
             /\ \A t \in Subs : sub'[t].plan # None => sub'[t].user \in Users
             /\ rebased' \subseteq Subs
             /\ \E y \in OrderRecords : /\ ord' = [ord EXCEPT ![o] = y]
                                        /\ y.status = "completed" /\ Accepted(y)
                                        /\ y.user = x.user /\ y.provider = x.provider
  <2>1. s \in Subs
    BY <1>2 DEF Targets, Latest, SubsOf
  <2>2. Extended(x, s, view) \in SubRecords /\ Extended(x, s, view).user \in Users
    <3>1. /\ sub[s] \in SubRecords /\ view[s] \in SubRecords /\ x \in OrderRecords
          /\ now \in Nat /\ Period \in Nat
      BY <2>1, BillingAssumption DEF TypeOK
    <3>2. QED BY <3>1 DEF Extended, Larger, SubRecords, OrderRecords, Accepted
  <2>3. sub' \in [Subs -> SubRecords] /\ rebased' \subseteq Subs
    BY <1>2, <2>1, <2>2 DEF TypeOK
  <2>5. \A t \in Subs : sub'[t].plan # None => sub'[t].user \in Users
    BY <1>2, <2>1, <2>2 DEF TypeOK, Owned
  <2>6. [x EXCEPT !.status = "completed", !.sub = s] \in OrderRecords
    BY <2>1 DEF OrderRecords
  <2>7. /\ [x EXCEPT !.status = "completed", !.sub = s].status = "completed"
        /\ [x EXCEPT !.status = "completed", !.sub = s].user = x.user
        /\ [x EXCEPT !.status = "completed", !.sub = s].provider = x.provider
        /\ Accepted([x EXCEPT !.status = "completed", !.sub = s])
    BY <2>1 DEF OrderRecords, Accepted
  <2>8. QED BY <1>2, <2>3, <2>5, <2>6, <2>7
<1>3. QED BY <1>1, <1>2 DEF Deliver

\* What the updates of one column keep.
LEMMA Deactivated ==
    \A s \in SubRecords : LET t == [s EXCEPT !.active = FALSE]
                          IN t \in SubRecords /\ t.user = s.user /\ t.plan = s.plan
BY DEF SubRecords

\* The expiration tick changes the status of orders and nothing else.
LEMMA Expired ==
    \A x \in OrderRecords : LET y == [x EXCEPT !.status = "expired"]
                            IN /\ y \in OrderRecords /\ y.status = "expired" /\ y.user = x.user
                               /\ y.type = x.type /\ y.sub = x.sub /\ y.provider = x.provider
BY DEF OrderRecords

\* Every action keeps the types, and the owners of rows.
LEMMA TypeStep == TypeOK /\ Owned /\ [Next]_vars => TypeOK' /\ Owned'
<1> SUFFICES ASSUME TypeOK, Owned, [Next]_vars PROVE TypeOK' /\ Owned'
  OBVIOUS
<1> USE BillingAssumption DEF promo, sweeps, counts, ghosts
<1>1. ASSUME NEW o \in Orders, CreateGatewayOrder(o) PROVE TypeOK' /\ Owned'
  <2>1. PICK u \in Users, t \in OrderTypes, p \in Plans \cup {None}, s \in Subs \cup {None},
             a \in Prices, q \in Quantities, c \in Promos :
          LET x == Row(u, t, p, "gateway", a, q, c, s, "pending")
          IN /\ TopUp(x) \/ DeviceSlots(x) \/ PlanOrder(x)
             /\ ord' = [ord EXCEPT ![o] = x]
    BY <1>1 DEF CreateGatewayOrder
  <2> DEFINE x == Row(u, t, p, "gateway", a, q, c, s, "pending")
  <2>2. x \in OrderRecords
    BY DEF Row, OrderRecords, Types
  <2>3. Accepted(x)
    BY <2>1 DEF Row, Accepted, TopUp, DeviceSlots, PlanOrder, PlanTypes
  <2>4. x.status # "none" /\ ord' = [ord EXCEPT ![o] = x]
    BY <2>1 DEF Row
  <2> HIDE DEF x
  <2>5. QED BY <1>1, <2>2, <2>3, <2>4 DEF CreateGatewayOrder, TypeOK, Owned
<1>2. ASSUME NEW r \in Requests, BeginBalanceOrder(r) PROVE TypeOK' /\ Owned'
  <2>1. PICK u \in Users, t \in OrderTypes, p \in Plans \cup {None}, s \in Subs \cup {None},
             a \in Prices, q \in Quantities, c \in Promos :
          LET x == Row(u, t, p, "balance", a, q, c, s, "none")
          IN /\ DeviceSlots(x) \/ PlanOrder(x)
             /\ req' = [req EXCEPT ![r] =
                  [at |-> "balance", order |-> x, balance |-> balance[u],
                   held |-> IF s = None THEN NoSub ELSE sub[s], commits |-> TRUE]]
    BY <1>2 DEF BeginBalanceOrder
  <2> DEFINE x == Row(u, t, p, "balance", a, q, c, s, "none")
  <2>2. x \in OrderRecords
    BY DEF Row, OrderRecords, Types
  <2>3. Accepted(x)
    BY <2>1 DEF Row, Accepted, DeviceSlots, PlanOrder, PlanTypes
  <2>4. (IF s = None THEN NoSub ELSE sub[s]) \in SubRecords /\ balance[u] \in Int
    BY DEF TypeOK, NoSub, SubRecords
  <2> HIDE DEF x
  <2>5. req' \in [Requests -> Requesting]
    BY <2>1, <2>2, <2>4 DEF TypeOK, Requesting, x
  <2>6. QED BY <1>2, <2>1, <2>3, <2>5 DEF BeginBalanceOrder, TypeOK, Owned, x
<1>3. ASSUME NEW r \in Requests, BeginAutoRenew(r) PROVE TypeOK' /\ Owned'
  <2>1. PICK s \in Subs :
          LET x == Row(sub[s].user, "plan_purchase", sub[s].plan, "balance", PriceOf(sub[s].plan), 0, FALSE, s, "none")
          IN /\ RenewalDue(s)
             /\ req' = [req EXCEPT ![r] =
                  [at |-> "balance", order |-> x, balance |-> balance[sub[s].user], held |-> sub[s],
                   commits |-> FALSE]]
    BY <1>3 DEF BeginAutoRenew
  <2> DEFINE x == Row(sub[s].user, "plan_purchase", sub[s].plan, "balance", PriceOf(sub[s].plan), 0, FALSE, s, "none")
  <2>2. sub[s].plan \in Plans /\ sub[s].user \in Users /\ sub[s] \in SubRecords
    BY <2>1 DEF RenewalDue, Owned, TypeOK
  <2>3. x \in OrderRecords /\ Accepted(x)
    BY <2>2 DEF Row, PriceOf, OrderRecords, Types, Accepted
  <2> HIDE DEF x
  <2>4. req' \in [Requests -> Requesting]
    BY <2>1, <2>2, <2>3 DEF TypeOK, Requesting, x
  <2>5. QED BY <1>3, <2>1, <2>3, <2>4 DEF BeginAutoRenew, TypeOK, Owned, x
<1>4. ASSUME NEW r \in Requests, NEW o \in Orders, EndBalanceOrder(r, o) PROVE TypeOK' /\ Owned'
  <2>1. req[r] \in Requesting /\ req[r].order \in OrderRecords /\ Accepted(req[r].order)
    BY <1>4 DEF EndBalanceOrder, TypeOK, Requesting, Owned
  <2>2. View(r) \in [Subs -> SubRecords]
    BY <2>1 DEF View, TypeOK, Requesting
  <2>3. /\ sub' \in [Subs -> SubRecords]
        /\ \A s \in Subs : sub'[s].plan # None => sub'[s].user \in Users
        /\ rebased' \subseteq Subs
        /\ \E y \in OrderRecords : ord' = [ord EXCEPT ![o] = y] /\ y.status = "completed" /\ Accepted(y)
    <3>1. Deliver(o, req[r].order, View(r))
      BY <1>4 DEF EndBalanceOrder
    <3>2. QED BY <2>1, <2>2, <3>1, DeliverRows
  <2>4. Idle \in Requesting
    BY DEF Idle, Requesting, NoOrder, NoSub, OrderRecords, SubRecords, Types
  <2>5. /\ req' \in [Requests -> Requesting]
        /\ \A q \in Requests : /\ req'[q].at # "idle" => Accepted(req'[q].order)
                               /\ req'[q].at = "trial" => req'[q].order.provider = "free"
    BY <1>4, <2>4 DEF EndBalanceOrder, TypeOK, Owned, Idle
  <2>6. /\ balance' \in [Users -> Int] /\ ledger' \in [Users -> Int] /\ stale' \subseteq Users
        /\ purchases' \in [Orders -> Nat]
        /\ activations' \in [Users -> Nat] /\ activated' \in Nat
    BY <1>4, <2>1 DEF EndBalanceOrder, TypeOK, RecordActivation, Add, Requesting, OrderRecords, Accepted
  <2>7. TypeOK'
    BY <1>4, <2>3, <2>5, <2>6 DEF EndBalanceOrder, TypeOK
  <2>8. Owned'
    <3>1. PICK y \in OrderRecords : ord' = [ord EXCEPT ![o] = y] /\ y.status = "completed" /\ Accepted(y)
      BY <2>3
    <3>2. /\ \A p \in Orders : ord'[p].status # "none" => Accepted(ord'[p])
          /\ \A p \in expiring : ord'[p].status # "none"
      BY <3>1 DEF TypeOK, Owned
    <3>3. expiring' = expiring
      BY <1>4 DEF EndBalanceOrder
    <3>4. QED BY <2>3, <2>5, <3>2, <3>3 DEF Owned
  <2>9. QED BY <2>7, <2>8
<1>5. ASSUME NEW r \in Requests, BeginTrialOrder(r) PROVE TypeOK' /\ Owned'
  <2>1. PICK u \in Users :
          req' = [req EXCEPT ![r] =
              [at |-> "trial", order |-> Row(u, "plan_purchase", Trial, "free", 0, 0, FALSE, None, "none"),
               balance |-> 0, held |-> NoSub, commits |-> TRUE]]
    BY <1>5 DEF BeginTrialOrder
  <2> DEFINE x == Row(u, "plan_purchase", Trial, "free", 0, 0, FALSE, None, "none")
  <2>2. x \in OrderRecords /\ Accepted(x) /\ x.provider = "free" /\ NoSub \in SubRecords
    BY DEF Row, OrderRecords, Types, Accepted, NoSub, SubRecords
  <2>3. req' = [req EXCEPT ![r] = [at |-> "trial", order |-> x, balance |-> 0, held |-> NoSub, commits |-> TRUE]]
    BY <2>1
  <2> HIDE DEF x
  <2>4. req' \in [Requests -> Requesting]
    BY <2>2, <2>3 DEF TypeOK, Requesting
  <2>5. QED BY <1>5, <2>2, <2>3, <2>4 DEF BeginTrialOrder, TypeOK, Owned
<1>6. ASSUME NEW r \in Requests, NEW o \in Orders, EndTrialOrder(r, o) PROVE TypeOK' /\ Owned'
  <2> DEFINE x == req[r].order
  <2>1. req[r] \in Requesting /\ x \in OrderRecords /\ x.user \in Users
    BY <1>6 DEF EndTrialOrder, TypeOK, Requesting, Owned, Accepted
  <2>2. PICK s \in Subs :
          /\ sub' = [sub EXCEPT ![s] = TrialRow(x.user, s)]
          /\ ord' = [ord EXCEPT ![o] = [x EXCEPT !.status = "completed", !.sub = s]]
    BY <1>6 DEF EndTrialOrder, ActiveFor, SubsOf
  <2>3. /\ sub' \in [Subs -> SubRecords]
        /\ \A t \in Subs : sub'[t].plan # None => sub'[t].user \in Users
    <3>1. sub[s] \in SubRecords /\ now + Period \in Nat
      BY DEF TypeOK
    <3>2. TrialRow(x.user, s) \in SubRecords /\ TrialRow(x.user, s).user \in Users
      BY <2>1, <3>1 DEF TrialRow, ActiveFor, SubsOf, SubRecords
    <3>3. QED BY <2>2, <3>2 DEF TypeOK, Owned
  <2>4. /\ [x EXCEPT !.status = "completed", !.sub = s] \in OrderRecords
        /\ [x EXCEPT !.status = "completed", !.sub = s].status = "completed"
        /\ Accepted([x EXCEPT !.status = "completed", !.sub = s])
    BY <2>1 DEF OrderRecords, Accepted
  <2>5. Idle \in Requesting
    BY DEF Idle, Requesting, NoOrder, NoSub, OrderRecords, SubRecords, Types
  <2>6. /\ req' \in [Requests -> Requesting]
        /\ \A q \in Requests : /\ req'[q].at # "idle" => Accepted(req'[q].order)
                               /\ req'[q].at = "trial" => req'[q].order.provider = "free"
    BY <1>6, <2>5 DEF EndTrialOrder, TypeOK, Owned, Idle
  <2>7. PICK y \in OrderRecords : ord' = [ord EXCEPT ![o] = y] /\ y.status = "completed" /\ Accepted(y)
    BY <2>2, <2>4
  <2>8. TypeOK'
    BY <1>6, <2>3, <2>6, <2>7 DEF EndTrialOrder, TypeOK
  <2>9. Owned'
    <3>1. /\ \A p \in Orders : ord'[p].status # "none" => Accepted(ord'[p])
          /\ \A p \in expiring : ord'[p].status # "none"
      BY <2>7 DEF TypeOK, Owned
    <3>2. expiring' = expiring
      BY <1>6 DEF EndTrialOrder
    <3>3. QED BY <2>3, <2>6, <3>1, <3>2 DEF Owned
  <2>10. QED BY <2>8, <2>9
<1>7. ASSUME NEW r \in Requests, Rollback(r) \/ CloseSession(r) PROVE TypeOK' /\ Owned'
  <2>1. Idle \in Requesting /\ Idle.at = "idle"
    BY DEF Idle, Requesting, NoOrder, NoSub, OrderRecords, SubRecords, Types
  <2>2. QED BY <1>7, <2>1 DEF Rollback, CloseSession, TypeOK, Owned
<1>8. ASSUME NEW o \in Orders, Fulfill(o) PROVE TypeOK' /\ Owned'
  <2>1. ord[o] \in OrderRecords /\ Accepted(ord[o])
    BY <1>8 DEF Fulfill, Payable, TypeOK, Owned
  <2>2. /\ sub' \in [Subs -> SubRecords]
        /\ \A s \in Subs : sub'[s].plan # None => sub'[s].user \in Users
        /\ rebased' \subseteq Subs
        /\ \E y \in OrderRecords : ord' = [ord EXCEPT ![o] = y] /\ y.status = "completed" /\ Accepted(y)
    <3>1. CASE Deliver(o, ord[o], sub)
      BY <2>1, <3>1, DeliverRows DEF TypeOK
    <3>2. CASE ord' = [ord EXCEPT ![o].status = "completed"] /\ UNCHANGED <<sub, rebased>>
      <4>1. /\ [ord[o] EXCEPT !.status = "completed"] \in OrderRecords
            /\ [ord[o] EXCEPT !.status = "completed"].status = "completed"
            /\ Accepted([ord[o] EXCEPT !.status = "completed"])
        BY <2>1 DEF OrderRecords, Accepted
      <4>2. QED BY <3>2, <4>1 DEF TypeOK, Owned
    <3>3. QED BY <1>8, <3>1, <3>2 DEF Fulfill
  <2>3. /\ balance' \in [Users -> Int] /\ ledger' \in [Users -> Int]
        /\ referral' \in [Users -> {"none", "pending", "rewarded"}]
        /\ activations' \in [Users -> Nat] /\ activated' \in Nat
        /\ credits' \in [Orders -> Nat] /\ purchases' \in [Orders -> Nat]
    BY <1>8, <2>1 DEF Fulfill, RecordActivation, Add, TypeOK, OrderRecords, Accepted
  <2>4. QED BY <1>8, <2>2, <2>3 DEF Fulfill, TypeOK, Owned
<1>9. ASSUME NEW o \in Orders, CancelPayment(o) \/ RefundOrder(o) \/ OrderTimesOut(o) PROVE TypeOK' /\ Owned'
  <2>1. ord[o] \in OrderRecords /\ Accepted(ord[o])
    BY <1>9 DEF CancelPayment, RefundOrder, OrderTimesOut, TypeOK, Owned
  <2>2. /\ ord' \in [Orders -> OrderRecords]
        /\ \A p \in Orders : /\ ord'[p].status # "none" => Accepted(ord'[p])
                             /\ ord[p].status # "none" => ord'[p].status # "none"
    <3>1. \A st \in {"refunded", "expired"} : /\ [ord[o] EXCEPT !.status = st] \in OrderRecords
                                              /\ [ord[o] EXCEPT !.status = st].status # "none"
                                              /\ Accepted([ord[o] EXCEPT !.status = st])
      BY <2>1 DEF OrderRecords, Accepted
    <3>2. /\ [ord[o] EXCEPT !.due = TRUE] \in OrderRecords /\ Accepted([ord[o] EXCEPT !.due = TRUE])
          /\ [ord[o] EXCEPT !.due = TRUE].status = ord[o].status
      BY <2>1 DEF OrderRecords, Accepted
    <3>3. PICK y \in OrderRecords : ord' = [ord EXCEPT ![o] = y] /\ Accepted(y) /\ y.status # "none"
      BY <1>9, <3>1, <3>2 DEF CancelPayment, RefundOrder, OrderTimesOut
    <3>4. QED BY <3>3 DEF TypeOK, Owned
  <2>3. CASE CancelPayment(o) \/ OrderTimesOut(o)
    BY <2>2, <2>3 DEF CancelPayment, OrderTimesOut, TypeOK, Owned
  <2>4. CASE RefundOrder(o)
    <3>1. sub' \in [Subs -> SubRecords] /\ \A s \in Subs : sub'[s].plan # None => sub'[s].user \in Users
      <4>1. CASE UNCHANGED sub
        BY <4>1 DEF TypeOK, Owned
      <4>2. CASE ord[o].sub # None /\ sub' = [sub EXCEPT ![ord[o].sub].active = FALSE]
        <5>1. ord[o].sub \in Subs /\ sub[ord[o].sub] \in SubRecords
          BY <2>1, <4>2 DEF TypeOK, OrderRecords
        <5>2. PICK t \in SubRecords : /\ sub' = [sub EXCEPT ![ord[o].sub] = t]
                                      /\ t.user = sub[ord[o].sub].user /\ t.plan = sub[ord[o].sub].plan
          BY <4>2, <5>1, Deactivated
        <5>3. QED BY <5>1, <5>2 DEF TypeOK, Owned
      <4>3. QED BY <2>4, <4>1, <4>2 DEF RefundOrder
    <3>2. /\ balance' \in [Users -> Int] /\ ledger' \in [Users -> Int]
          /\ refunded' \in [Users -> Nat] /\ refunds' \in [Orders -> Nat]
      BY <2>1, <2>4 DEF RefundOrder, Add, TypeOK, OrderRecords, Accepted
    <3>3. QED BY <2>2, <2>4, <3>1, <3>2 DEF RefundOrder, TypeOK, Owned
  <2>5. QED BY <1>9, <2>3, <2>4
<1>10. ASSUME NEW u \in Users, NEW a \in Prices, CreditBalance(u, a) \/ DebitBalance(u, a) PROVE TypeOK' /\ Owned'
  BY <1>10 DEF CreditBalance, DebitBalance, Add, TypeOK, Owned
<1>11. CASE SelectExpired \/ SelectLapsed
  BY <1>11 DEF SelectExpired, SelectLapsed, TypeOK, Owned
<1>12. CASE ExpireSelected
  <2>1. \A o \in Orders : /\ ord'[o] \in OrderRecords
                          /\ ord'[o].user = ord[o].user /\ ord'[o].type = ord[o].type /\ ord'[o].sub = ord[o].sub
                          /\ o \notin expiring => ord'[o] = ord[o]
    BY <1>12, Expired DEF ExpireSelected, TypeOK
  <2>2. QED BY <1>12, <2>1 DEF ExpireSelected, TypeOK, Owned, Accepted
<1>13. CASE DeactivateLapsed
  BY <1>13, Deactivated DEF DeactivateLapsed, TypeOK, Owned
<1>14. ASSUME NEW u \in Users, ApplyReferral(u) PROVE TypeOK' /\ Owned'
  BY <1>14 DEF ApplyReferral, TypeOK, Owned
<1>15. ASSUME NEW p \in Plans, TogglePlan(p) PROVE TypeOK' /\ Owned'
  BY <1>15 DEF TogglePlan, TypeOK, Owned
<1>16. CASE Tick
  BY <1>16 DEF Tick, TypeOK, Owned
<1>17. CASE UNCHANGED vars
  BY <1>17 DEF vars, TypeOK, Owned
<1>18. QED BY <1>1, <1>2, <1>3, <1>4, <1>5, <1>6, <1>7, <1>8, <1>9, <1>10, <1>11, <1>12, <1>13,
              <1>14, <1>15, <1>16, <1>17 DEF Next

\* Every action keeps the books: what was paid, bought and refunded per
\* order, and the balance against the ledger per user.
LEMMA BooksStep ==
    BillingInv /\ [Next]_vars =>
        Progress' /\ MoneyMovesOncePerOrder' /\ LedgerExplainsBalance' /\ NegativeOnlyByRefund'
<1> DEFINE Orderly == Progress /\ MoneyMovesOncePerOrder
           Solvent == LedgerExplainsBalance /\ NegativeOnlyByRefund
<1> SUFFICES ASSUME BillingInv, [Next]_vars PROVE Orderly' /\ Solvent'
  OBVIOUS
<1> USE BillingAssumption DEF promo, sweeps, counts, ghosts
<1>a. TypeOK /\ Owned /\ Orderly /\ Solvent
  BY DEF BillingInv
<1>b. ASSUME UNCHANGED <<balance, ledger, refunded, stale>> PROVE Solvent'
  BY <1>a, <1>b DEF LedgerExplainsBalance, NegativeOnlyByRefund
<1>c. ASSUME UNCHANGED <<ord, counts>> PROVE Orderly'
  BY <1>a, <1>c DEF Progress, MoneyMovesOncePerOrder
<1>1. ASSUME NEW o \in Orders, CreateGatewayOrder(o) PROVE Orderly' /\ Solvent'
  <2>1. PICK x : ord' = [ord EXCEPT ![o] = x] /\ x.status = "pending" /\ x.provider = "gateway"
    <3>1. PICK u \in Users, t \in OrderTypes, p \in Plans \cup {None}, s \in Subs \cup {None},
               a \in Prices, q \in Quantities, c \in Promos :
            LET x == Row(u, t, p, "gateway", a, q, c, s, "pending")
            IN /\ TopUp(x) \/ DeviceSlots(x) \/ PlanOrder(x)
               /\ ord' = [ord EXCEPT ![o] = x]
      BY <1>1 DEF CreateGatewayOrder
    <3>2. /\ Row(u, t, p, "gateway", a, q, c, s, "pending").status = "pending"
          /\ Row(u, t, p, "gateway", a, q, c, s, "pending").provider = "gateway"
      BY DEF Row
    <3>3. QED BY <3>1, <3>2
  <2>2. ord[o].status = "none" /\ UNCHANGED <<credits, purchases, refunds>>
    BY <1>1 DEF CreateGatewayOrder, Fresh
  <2>3. Orderly'
    BY <1>a, <2>1, <2>2 DEF Progress, MoneyMovesOncePerOrder, TypeOK
  <2>4. QED BY <1>1, <1>b, <2>3 DEF CreateGatewayOrder
<1>2. ASSUME NEW r \in Requests, BeginBalanceOrder(r) \/ BeginAutoRenew(r) \/ BeginTrialOrder(r)
                                 \/ Rollback(r) \/ CloseSession(r)
      PROVE  Orderly' /\ Solvent'
  BY <1>2, <1>b, <1>c DEF BeginBalanceOrder, BeginAutoRenew, BeginTrialOrder, Rollback, CloseSession
<1>3. ASSUME NEW r \in Requests, NEW o \in Orders, EndBalanceOrder(r, o) PROVE Orderly' /\ Solvent'
  <2> DEFINE x == req[r].order
  <2>1. req[r] \in Requesting /\ x \in OrderRecords /\ Accepted(x) /\ x.amount \in Nat /\ x.user \in Users
    BY <1>3, <1>a DEF EndBalanceOrder, TypeOK, Requesting, Owned, OrderRecords, Accepted
  <2>2. View(r) \in [Subs -> SubRecords]
    BY <1>a, <2>1 DEF View, TypeOK, Requesting
  <2>3. Deliver(o, x, View(r))
    BY <1>3 DEF EndBalanceOrder
  <2>4. PICK y \in OrderRecords : ord' = [ord EXCEPT ![o] = y] /\ y.status = "completed"
    BY <1>a, <2>1, <2>2, <2>3, DeliverRows
  <2>5. /\ ord[o].status = "none"
        /\ purchases' = [purchases EXCEPT ![o] = @ + 1] /\ UNCHANGED <<credits, refunds>>
    BY <1>3 DEF EndBalanceOrder, Fresh, Add
  <2>6. Orderly'
    BY <1>a, <2>4, <2>5 DEF Progress, MoneyMovesOncePerOrder, TypeOK
  <2>7. /\ req[r].balance \in Int /\ req[r].balance >= x.amount
        /\ balance' = [balance EXCEPT ![x.user] = req[r].balance - x.amount]
        /\ ledger' = [ledger EXCEPT ![x.user] = @ - x.amount]
        /\ stale' = IF req[r].balance = balance[x.user] THEN stale ELSE stale \cup {x.user}
        /\ UNCHANGED refunded
    <3>1. ledger' = [ledger EXCEPT ![x.user] = ledger[x.user] + (-x.amount)]
      BY <1>3 DEF EndBalanceOrder, Add
    <3>2. ledger[x.user] + (-x.amount) = ledger[x.user] - x.amount
      BY <1>a, <2>1 DEF TypeOK
    <3>3. QED BY <1>3, <2>1, <3>1, <3>2 DEF EndBalanceOrder, Requesting
  <2> HIDE DEF x
  <2>8. Solvent'
    BY <1>a, <2>1, <2>7 DEF LedgerExplainsBalance, NegativeOnlyByRefund, TypeOK
  <2>9. QED BY <2>6, <2>8
<1>4. ASSUME NEW r \in Requests, NEW o \in Orders, EndTrialOrder(r, o) PROVE Orderly' /\ Solvent'
  <2>1. req[r].order \in OrderRecords /\ ord[o].status = "none" /\ req[r].order.provider = "free"
    BY <1>4, <1>a DEF EndTrialOrder, Fresh, TypeOK, Requesting, Owned
  <2>2. PICK y : ord' = [ord EXCEPT ![o] = y] /\ y.status = "completed" /\ y.provider = "free"
    <3>1. PICK s \in Subs : ord' = [ord EXCEPT ![o] = [req[r].order EXCEPT !.status = "completed", !.sub = s]]
      BY <1>4 DEF EndTrialOrder, ActiveFor, SubsOf
    <3>2. /\ [req[r].order EXCEPT !.status = "completed", !.sub = s].status = "completed"
          /\ [req[r].order EXCEPT !.status = "completed", !.sub = s].provider = "free"
      BY <2>1 DEF OrderRecords
    <3>3. QED BY <3>1, <3>2
  <2>3. Orderly'
    BY <1>4, <1>a, <2>1, <2>2 DEF EndTrialOrder, Progress, MoneyMovesOncePerOrder, TypeOK
  <2>4. QED BY <1>4, <1>b, <2>3 DEF EndTrialOrder
<1>5. ASSUME NEW o \in Orders, Fulfill(o) PROVE Orderly' /\ Solvent'
  <2>1. ord[o] \in OrderRecords /\ Accepted(ord[o]) /\ ord[o].status = "pending" /\ ord[o].amount \in Nat
    BY <1>5, <1>a DEF Fulfill, Payable, TypeOK, Owned, OrderRecords
  <2>2. PICK y : ord' = [ord EXCEPT ![o] = y] /\ y.status = "completed"
    <3>1. CASE Deliver(o, ord[o], sub)
      BY <1>a, <2>1, <3>1, DeliverRows DEF TypeOK
    <3>2. CASE ord' = [ord EXCEPT ![o].status = "completed"]
      <4>1. [ord[o] EXCEPT !.status = "completed"].status = "completed"
        BY <2>1 DEF OrderRecords
      <4>2. QED BY <3>2, <4>1
    <3>3. QED BY <1>5, <3>1, <3>2 DEF Fulfill
  <2>3. /\ credits' = [credits EXCEPT ![o] = @ + 1] /\ UNCHANGED <<refunds, refunded, stale>>
        /\ purchases' = [purchases EXCEPT ![o] = @ + IF Buys(o) THEN 1 ELSE 0]
    BY <1>5 DEF Fulfill, Add
  <2>4. Orderly'
    BY <1>a, <2>1, <2>2, <2>3 DEF Progress, MoneyMovesOncePerOrder, TypeOK
  <2>5. PICK gain \in [Users -> Nat] : /\ balance' = [v \in Users |-> balance[v] + gain[v]]
                                       /\ ledger' = [v \in Users |-> ledger[v] + gain[v]]
    <3> DEFINE gain == [v \in Users |->
                         (IF v = ord[o].user /\ ~Buys(o) THEN ord[o].amount ELSE 0)
                       + (IF v = ord[o].user /\ RewardDue(o) THEN Bonus ELSE 0)
                       + (IF v = Referrer[ord[o].user] /\ RewardDue(o) THEN Reward ELSE 0)]
    <3>1. gain \in [Users -> Nat]
      BY <2>1
    <3>2. /\ balance' = [v \in Users |-> balance[v] + gain[v]]
          /\ ledger' = [v \in Users |-> ledger[v] + gain[v]]
      BY <1>5 DEF Fulfill
    <3> HIDE DEF gain
    <3>3. QED BY <3>1, <3>2
  <2>6. Solvent'
    BY <1>a, <2>3, <2>5 DEF LedgerExplainsBalance, NegativeOnlyByRefund, TypeOK
  <2>7. QED BY <2>4, <2>6
<1>6. ASSUME NEW o \in Orders, CancelPayment(o) \/ OrderTimesOut(o) PROVE Orderly' /\ Solvent'
  <2>1. ord[o] \in OrderRecords
    BY <1>a DEF TypeOK
  <2>2. PICK y : /\ ord' = [ord EXCEPT ![o] = y] /\ y.provider = ord[o].provider
                 /\ y.status \in {ord[o].status, "expired"}
    BY <1>6, <2>1 DEF CancelPayment, OrderTimesOut, OrderRecords
  <2>3. UNCHANGED <<credits, purchases, refunds>>
    BY <1>6 DEF CancelPayment, OrderTimesOut
  <2>4. Orderly'
    BY <1>a, <2>1, <2>2, <2>3 DEF Progress, MoneyMovesOncePerOrder, TypeOK
  <2>5. QED BY <1>6, <1>b, <2>4 DEF CancelPayment, OrderTimesOut
<1>7. ASSUME NEW o \in Orders, RefundOrder(o) PROVE Orderly' /\ Solvent'
  <2>1. ord[o] \in OrderRecords /\ ord[o].status = "completed" /\ ord[o].user \in Users /\ ord[o].amount \in Nat
    BY <1>7, <1>a DEF RefundOrder, TypeOK, Owned, Accepted, OrderRecords
  <2>2. PICK y : ord' = [ord EXCEPT ![o] = y] /\ y.provider = ord[o].provider /\ y.status = "refunded"
    <3>1. ord' = [ord EXCEPT ![o] = [ord[o] EXCEPT !.status = "refunded"]]
      BY <1>7 DEF RefundOrder
    <3>2. /\ [ord[o] EXCEPT !.status = "refunded"].status = "refunded"
          /\ [ord[o] EXCEPT !.status = "refunded"].provider = ord[o].provider
      BY <2>1 DEF OrderRecords
    <3>3. QED BY <3>1, <3>2
  <2>3. refunds' = [refunds EXCEPT ![o] = @ + 1] /\ UNCHANGED <<credits, purchases, stale>>
    BY <1>7 DEF RefundOrder, Add
  <2>4. Orderly'
    BY <1>a, <2>1, <2>2, <2>3 DEF Progress, MoneyMovesOncePerOrder, TypeOK
  <2>5. PICK a \in Nat, u \in Users : /\ balance' = [balance EXCEPT ![u] = @ + (-a)]
                                      /\ ledger' = [ledger EXCEPT ![u] = @ + (-a)]
                                      /\ refunded' = [refunded EXCEPT ![u] = @ + a]
    BY <1>7, <2>1 DEF RefundOrder, Add
  <2>6. Solvent'
    BY <1>a, <2>3, <2>5 DEF LedgerExplainsBalance, NegativeOnlyByRefund, TypeOK
  <2>7. QED BY <2>4, <2>6
<1>8. ASSUME NEW u \in Users, NEW a \in Prices, CreditBalance(u, a) \/ DebitBalance(u, a) PROVE Orderly' /\ Solvent'
  <2>1. PICK d \in Int : /\ balance' = [balance EXCEPT ![u] = @ + d]
                         /\ ledger' = [ledger EXCEPT ![u] = @ + d]
                         /\ d >= 0 \/ balance[u] + d >= 0
    BY <1>8, <1>a DEF CreditBalance, DebitBalance, Add, TypeOK
  <2>2. UNCHANGED <<ord, counts, refunded, stale>>
    BY <1>8 DEF CreditBalance, DebitBalance
  <2>3. Solvent'
    BY <1>a, <2>1, <2>2 DEF LedgerExplainsBalance, NegativeOnlyByRefund, TypeOK
  <2>4. QED BY <1>c, <2>2, <2>3
<1>9. CASE SelectExpired \/ SelectLapsed \/ DeactivateLapsed \/ Tick
  BY <1>9, <1>b, <1>c DEF SelectExpired, SelectLapsed, DeactivateLapsed, Tick
<1>10. CASE ExpireSelected
  <2>1. \A o \in Orders : /\ ord'[o].provider = ord[o].provider
                          /\ ord'[o].status \in {ord[o].status, "expired"}
    BY <1>10, <1>a, Expired DEF ExpireSelected, TypeOK
  <2>2. Orderly'
    BY <1>10, <1>a, <2>1 DEF ExpireSelected, Progress, MoneyMovesOncePerOrder
  <2>3. QED BY <1>10, <1>b, <2>2 DEF ExpireSelected
<1>11. ASSUME NEW u \in Users, ApplyReferral(u) PROVE Orderly' /\ Solvent'
  BY <1>11, <1>b, <1>c DEF ApplyReferral
<1>12. ASSUME NEW p \in Plans, TogglePlan(p) PROVE Orderly' /\ Solvent'
  BY <1>12, <1>b, <1>c DEF TogglePlan
<1>13. CASE UNCHANGED vars
  BY <1>13, <1>b, <1>c DEF vars
<1>14. QED BY <1>1, <1>2, <1>3, <1>4, <1>5, <1>6, <1>7, <1>8, <1>9, <1>10, <1>11, <1>12, <1>13 DEF Next

\* For any number of users, orders and concurrent requests: types hold, no
\* order is credited, bought or refunded twice, the balance is the sum of the
\* transactions unless it was written from a stale read, and only refunds put
\* it below zero.
THEOREM BooksAreKept ==
    Spec => [](TypeOK /\ MoneyMovesOncePerOrder /\ LedgerExplainsBalance /\ NegativeOnlyByRefund)
<1>1. BillingInv /\ [Next]_vars => BillingInv'
  BY TypeStep, BooksStep DEF BillingInv
<1>2. BillingInv => TypeOK /\ MoneyMovesOncePerOrder /\ LedgerExplainsBalance /\ NegativeOnlyByRefund
  BY DEF BillingInv
<1>3. QED BY InitBilling, <1>1, <1>2, PTL DEF Spec

=============================================================================
