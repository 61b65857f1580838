----------------------------- MODULE Placement -----------------------------
(***************************************************************************)
(* Where the keys of the subscribers are served.  A placement row says     *)
(* that a key should be active or inactive on a backend node.  A change of *)
(* a row raises its op_version and writes, in the same transaction, a      *)
(* command for the node into the outbox (services/placements).  The        *)
(* node-agent runtime publishes the outbox to JetStream, the agents apply  *)
(* the commands and report, and the reports come back to the rows          *)
(* (services/nodes/agent).                                                 *)
(*                                                                         *)
(* One action is one transaction, except the rebalance tick, which selects *)
(* a missing placement before it writes it: other transactions commit in   *)
(* between, though not on the rows its first UPDATE has locked.            *)
(* vpn_key.is_active is never cleared by the code, so the transport        *)
(* query's test of it is left out.                                         *)
(***************************************************************************)
EXTENDS Naturals, FiniteSets

CONSTANTS
    Keys,       \* the VPN keys
    Nodes,      \* the nodes a placement may name
    Entries,    \* the entry nodes
    Assigned,   \* Assigned[n]: the entries with an enabled assignment to n
    Rows,       \* identities of user_placement rows
    None,       \* no value
    MaxOp,      \* bound on op_version
    AdminStates, \* the desired states an administrator asks for by hand
    Unstable,   \* the nodes whose flags and role may change
    Outcomes,   \* whether an agent may succeed and may fail
    InFlight    \* bound on the commands, and on the reports, on their way

ASSUME PlacementAssumption ==
    /\ Assigned \in [Nodes -> SUBSET Entries]
    /\ Nodes \cap Entries = {}
    /\ MaxOp \in Nat \ {0}
    /\ AdminStates \subseteq {"active", "inactive"}
    /\ None \notin Keys \cup Nodes
    /\ Unstable \subseteq Nodes
    /\ Outcomes \subseteq BOOLEAN
    /\ InFlight \in Nat

VARIABLES
    row,        \* the table user_placement
    revoked,    \* the keys with is_revoked
    backends,   \* the nodes whose role is backend
    draining,   \* the nodes with is_draining
    healthy,    \* the nodes with a healthy, fresh agent state and a route
    tick,       \* the open transactions of the rebalance tick, at most one
    outbox,     \* the rows of node_transport_outbox
    unsent,     \* those of them whose status is pending or failed
    stream,     \* the commands JetStream still has to deliver
    held,       \* held[a][r]: what the agent of node a has applied for row r
    reports,    \* the reports JetStream still has to deliver
    seen        \* those of them recorded in node_transport_event_log

table == <<row, outbox, unsent>>
fleet == <<backends, draining, healthy>>
wire == <<stream, held, reports, seen>>
vars == <<row, revoked, backends, draining, healthy, tick, outbox, unsent,
          stream, held, reports, seen>>

-----------------------------------------------------------------------------
States == {"active", "inactive"}
Agents == Nodes \cup Entries

\* A row with op 0 has not been inserted.
Placements ==
    [key : Keys \cup {None}, node : Nodes \cup {None}, desired : States,
     applied : {"pending", "applied", "error"},
     op : 0 .. MaxOp, done : 0 .. MaxOp, live : BOOLEAN]

NoPlacement ==
    [key |-> None, node |-> None, desired |-> "inactive",
     applied |-> "pending", op |-> 0, done |-> 0, live |-> FALSE]

Commands == [row : Rows, op : 1 .. MaxOp, to : Agents, desired : States]

\* The event_id of a report on its way stands for the placement, its version,
\* the reporting node and the outcome.
Reports ==
    [row : Rows, op : 1 .. MaxOp, from : Agents, state : {"applied", "error"}]

Ticks == [drained : SUBSET Rows, pair : SUBSET (Keys \X Nodes)]

Held == [op : 0 .. MaxOp, desired : States]

Init ==
    /\ row = [r \in Rows |-> NoPlacement]
    /\ revoked = {}
    /\ backends = Nodes
    /\ draining = {}
    /\ healthy = Nodes
    /\ tick = {}
    /\ outbox = {}
    /\ unsent = {}
    /\ stream = {}
    /\ held = [a \in Agents |-> [r \in Rows |-> [op |-> 0, desired |-> "inactive"]]]
    /\ reports = {}
    /\ seen = {}

-----------------------------------------------------------------------------
Wanted(p) == p.live /\ p.desired = "active"

RowsOf(k) == {r \in Rows : row[r].live /\ row[r].key = k}
RowsOn(n) == {r \in Rows : row[r].live /\ row[r].node = n}

\* The row an upsert of (k, n) meets under the unique constraint, or any new
\* identity when there is none.
Slots(k, n) ==
    LET taken == {r \in Rows : row[r].key = k /\ row[r].node = n} IN
    IF taken # {} THEN taken ELSE {r \in Rows : row[r].op = 0}

Locked == UNION {t.drained : t \in tick}

\* What an upsert of (k, n) writes over the row p, and a move of p to n.
Upserted(p, k, n, d) ==
    [key |-> k, node |-> n, desired |-> d, applied |-> "pending",
     op |-> p.op + 1, done |-> p.done, live |-> TRUE]

\* A faulty variant: the version is not raised.
RaisedInPlace(p, d) ==
    [p EXCEPT !.desired = d, !.applied = "pending"]

\* What the statements that set a state write over a live row.
Raised(p, d) == Upserted(p, p.key, p.node, d)

RaisedTo(S, d) ==
    [r \in Rows |-> IF r \in S THEN Raised(row[r], d) ELSE row[r]]

\* enqueue_for_placement_ids: one command for the backend, one for every
\* entry assigned to it, for the rows of S that are still live.
CommandsFor(after, S) ==
    {c \in [row : S, op : 1 .. MaxOp, to : Agents, desired : States] :
        LET p == after[c.row] IN
        /\ p.live
        /\ c.op = p.op
        /\ c.desired = p.desired
        /\ c.to = p.node \/ (p.node \in Nodes /\ c.to \in Assigned[p.node])}

\* message_id is the placement and its version, and the node for an entry.
SameMessage(c, d) ==
    /\ c.row = d.row
    /\ c.op = d.op
    /\ c.to = d.to \/ (c.to \in Nodes /\ d.to \in Nodes)

\* on_conflict_do_nothing: a message_id that is there already is dropped.
Enqueue(new) ==
    LET fresh == {c \in new : ~\E d \in outbox : SameMessage(c, d)} IN
    /\ outbox' = outbox \cup fresh
    /\ unsent' = unsent \cup fresh

\* A transaction that turns the table into after and enqueues the rows of S.
Save(after, S) ==
    /\ \A r \in Rows : after[r].op <= MaxOp
    /\ \A r \in Locked : after[r] = row[r]
    /\ row' = after
    /\ Enqueue(CommandsFor(after, S))

-----------------------------------------------------------------------------
(* The control plane.  A key belongs to a subscription; what revokes or    *)
(* restores it there is one of the actions below.                          *)

Serving == (healthy \cap backends) \ draining

\* PUT of a placement by an administrator, or an import.
AdminUpsert(k, n, d) ==
    /\ \E r \in Slots(k, n) :
            Save([row EXCEPT ![r] = Upserted(row[r], k, n, d)], {r})
    /\ UNCHANGED <<revoked, fleet, tick, wire>>

\* A subscription fetch or a connect places a key that is not revoked on the
\* backend it routes to, unless it is wanted there already.  Activating a
\* subscription clears is_revoked first.  One backend is routed to at a time.
EnsurePlacement(k, n) ==
    /\ n \in Serving
    /\ ~\E r \in RowsOf(k) : row[r].node = n /\ Wanted(row[r])
    /\ \E r \in Slots(k, n) :
            Save([row EXCEPT ![r] = Upserted(row[r], k, n, "active")], {r})
    /\ revoked' = revoked \ {k}
    /\ UNCHANGED <<fleet, tick, wire>>

\* set_desired_state_for_key touches backends only and skips a row that is
\* pending for d already; enqueue_for_key_state then takes every row of the
\* key that wants d.
SetDesiredForKey(k, d) ==
    LET touched == {r \in RowsOf(k) :
                        /\ row[r].node \in backends
                        /\ row[r].desired # d \/ row[r].applied # "pending"}
        after == RaisedTo(touched, d)
    IN Save(after, {r \in RowsOf(k) : after[r].desired = d})

\* revoke_key, a revoked device, a spent traffic limit, a deactivated
\* subscription.
RevokeKey(k) ==
    /\ SetDesiredForKey(k, "inactive")
    /\ revoked' = revoked \cup {k}
    /\ UNCHANGED <<fleet, tick, wire>>

\* The monthly traffic reset, a restored device.
RestoreKey(k) ==
    /\ SetDesiredForKey(k, "active")
    /\ revoked' = revoked \ {k}
    /\ UNCHANGED <<fleet, tick, wire>>

\* The key expiry tick revokes the keys past valid_until, whatever the role
\* of their nodes.
ExpireKeys(K) ==
    LET touched == {r \in Rows :
                        /\ row[r].live
                        /\ row[r].key \in K
                        /\ row[r].desired # "inactive" \/ row[r].applied # "pending"}
    IN /\ K # {} /\ K \cap revoked = {}
       /\ Save(RaisedTo(touched, "inactive"), touched)
       /\ revoked' = revoked \cup K
       /\ UNCHANGED <<fleet, tick, wire>>

Wants(n) == {r \in RowsOn(n) : Wanted(row[r])}

\* A probe that cannot use its own key, which is wanted on n, has all the
\* placements on n applied again.
RequeueBackend(n) ==
    /\ Wants(n) # {}
    /\ Save([r \in Rows |-> IF r \in RowsOn(n) THEN Raised(row[r], row[r].desired)
                                               ELSE row[r]],
            RowsOn(n))
    /\ UNCHANGED <<revoked, fleet, tick, wire>>

\* A faulty variant: retired rows are overlooked.
KeyOnLive(k, t) == \E r \in RowsOf(k) : row[r].node = t

\* The unique constraint covers retired rows too.
KeyOn(k, t) == \E r \in Rows : row[r].key = k /\ row[r].node = t

\* A faulty variant: the row of the target is left as it is.
MigratedSourceOnly(to) ==
    [r \in Rows |->
        IF r \notin DOMAIN to THEN row[r]
        ELSE IF KeyOn(row[r].key, to[r])
             THEN [row[r] EXCEPT !.live = FALSE]
             ELSE Upserted(row[r], row[r].key, to[r], row[r].desired)]

\* bulk_migrate_backend: the rows r in the domain of to move to to[r], or,
\* where the key has a row there, that row takes over and r is retired.
Migrated(to) ==
    [r \in Rows |->
        IF r \in DOMAIN to
        THEN IF KeyOn(row[r].key, to[r])
             THEN [row[r] EXCEPT !.live = FALSE]
             ELSE Upserted(row[r], row[r].key, to[r], row[r].desired)
        ELSE IF \E q \in DOMAIN to : row[q].key = row[r].key /\ to[q] = row[r].node
             THEN Upserted(row[r], row[r].key, row[r].node, "active")
             ELSE row[r]]

\* Only the live rows are enqueued: the source gets no command.
MoveRows(to) == Save(Migrated(to), {r \in Rows : Migrated(to)[r] # row[r]})

\* Migration by an administrator.
MigrateBackend(s, t) ==
    /\ s # t
    /\ t \notin draining
    /\ Wants(s) # {}
    /\ MoveRows([r \in Wants(s) |-> t])
    /\ UNCHANGED <<revoked, fleet, tick, wire>>

\* A failing probe drains the node and moves what it serves.
DrainAndMigrate(s, t) ==
    /\ s # t
    /\ t \notin draining
    /\ MoveRows([r \in Wants(s) |-> t])
    /\ draining' = draining \cup {s}
    /\ UNCHANGED <<revoked, backends, healthy, tick, wire>>

\* A row that is not wanted counts as cover: map_active_backend_nodes_by_key
\* tests is_active alone.
HasRowOn(k, N) == \E r \in RowsOf(k) : row[r].node \in N

Orphans(s) == {r \in Wants(s) : ~HasRowOn(row[r].key, Serving \ {s})}

\* Auto-heal drains a node that serves placements and has become unavailable,
\* then moves those that are not covered by another available node.
AutoHeal(s) ==
    /\ Wants(s) # {}
    /\ s \notin healthy \/ s \in draining
    /\ \E to \in [IF Serving \ {s} = {} THEN {} ELSE Orphans(s) -> Serving \ {s}] :
            MoveRows(to)
    /\ draining' = draining \cup {s}
    /\ UNCHANGED <<revoked, backends, healthy, tick, wire>>

\* An administrator turns a backend into a node of another role.
RoleSwap(n) ==
    /\ n \in backends
    /\ Save(RaisedTo(Wants(n), "inactive"), Wants(n))
    /\ backends' = backends \ {n}
    /\ UNCHANGED <<revoked, draining, healthy, tick, wire>>

\* Heartbeats, auto-heal's recovery and administrators move these flags.
NodeChanges(n) ==
    /\ \/ draining' = draining \cup {n} /\ UNCHANGED healthy
       \/ draining' = draining \ {n} /\ UNCHANGED healthy
       \/ healthy' = healthy \cup {n} /\ UNCHANGED draining
       \/ healthy' = healthy \ {n} /\ UNCHANGED draining
    /\ UNCHANGED <<table, revoked, backends, tick, wire>>

\* A faulty variant: rows that are still pending are left to themselves.
ErrorRetryErrorsOnly(aged) ==
    LET failed == {r \in aged : row[r].live /\ row[r].applied = "error"} IN
    /\ failed # {}
    /\ Save([r \in Rows |-> IF r \in failed THEN Raised(row[r], row[r].desired)
                                            ELSE row[r]],
            failed)
    /\ UNCHANGED <<revoked, fleet, tick, wire>>

\* The error-retry tick: aged are the rows not written for the retry time.
\* A row that failed gets a new version, a row that is still pending only a
\* new attempt to enqueue the version it has.
ErrorRetry(aged) ==
    LET stale(s) == {r \in aged : row[r].live /\ row[r].applied = s} IN
    /\ stale("error") \cup stale("pending") # {}
    /\ Save([r \in Rows |-> IF r \in stale("error") THEN Raised(row[r], row[r].desired)
                                                    ELSE row[r]],
            stale("error") \cup stale("pending"))
    /\ UNCHANGED <<revoked, fleet, tick, wire>>

-----------------------------------------------------------------------------
(* The rebalance tick, one transaction in two steps.                       *)

\* The UPDATE of the wanted rows on draining nodes leaves applied_state alone.
OnDraining == {r \in Rows : Wanted(row[r]) /\ row[r].node \in draining}

TakenOff(p) ==
    [key |-> p.key, node |-> p.node, desired |-> "inactive",
     applied |-> p.applied, op |-> p.op + 1, done |-> p.done, live |-> p.live]

Drained(S) == [r \in Rows |-> IF r \in S THEN TakenOff(row[r]) ELSE row[r]]

\* find_missing_placements: a key that is wanted somewhere and not on n.
Missing(rows) ==
    {p \in Keys \X Serving :
        /\ \E r \in Rows : Wanted(rows[r]) /\ rows[r].key = p[1]
        /\ ~\E r \in Rows : Wanted(rows[r]) /\ rows[r].key = p[1] /\ rows[r].node = p[2]}

\* With two or more available nodes the tick goes on only if it finds a
\* missing placement; otherwise it returns and its UPDATE is rolled back.
\* The batch is one placement.
RebalanceSelect ==
    /\ tick = {}
    /\ \A r \in OnDraining : row[r].op < MaxOp
    /\ IF Cardinality(Serving) < 2
       THEN OnDraining # {} /\ tick' = {[drained |-> OnDraining, pair |-> {}]}
       ELSE \E p \in Missing(Drained(OnDraining)) :
                tick' = {[drained |-> OnDraining, pair |-> {p}]}
    /\ UNCHANGED <<table, revoked, fleet, wire>>

RebalanceCommit(t) ==
    /\ t \in tick
    /\ tick' = {}
    /\ \/ /\ t.pair = {}
          /\ row' = Drained(t.drained)
          /\ Enqueue(CommandsFor(row', t.drained))
       \/ \E p \in t.pair : \E r \in Slots(p[1], p[2]) :
            /\ r \notin t.drained
            /\ row[r].op < MaxOp
            /\ row' = [Drained(t.drained) EXCEPT
                            ![r] = Upserted(row[r], p[1], p[2], "active")]
            /\ Enqueue(CommandsFor(row', t.drained \cup {r}))
    /\ UNCHANGED <<revoked, fleet, wire>>

\* The worker dies or loses its connection before the commit.
RebalanceAbort ==
    /\ tick # {}
    /\ tick' = {}
    /\ UNCHANGED <<table, revoked, fleet, wire>>

-----------------------------------------------------------------------------
(* Transport.                                                              *)

\* The batch is published and marked so in one transaction.
Publish(c) ==
    /\ c \in unsent
    /\ Cardinality(stream) < InFlight
    /\ stream' = stream \cup {c}
    /\ unsent' = unsent \ {c}
    /\ UNCHANGED <<row, revoked, fleet, tick, outbox, held, reports, seen>>

\* The leader stops after the publication and before its commit.
PublishCrash(c) ==
    /\ c \in unsent
    /\ Cardinality(stream) < InFlight
    /\ stream' = stream \cup {c}
    /\ UNCHANGED <<table, revoked, fleet, tick, held, reports, seen>>

\* A faulty variant: the cancelled item stays with the publisher.
CancelOutboxHalf(c) ==
    /\ c \in unsent
    /\ outbox' = outbox \ {c}
    /\ UNCHANGED <<row, revoked, fleet, tick, unsent, wire>>

\* An administrator cancels an item that has not been published.
CancelOutbox(c) ==
    /\ c \in unsent
    /\ outbox' = outbox \ {c}
    /\ unsent' = unsent \ {c}
    /\ UNCHANGED <<row, revoked, fleet, tick, wire>>

\* The retention of published items is days, that of the stream an hour.
CleanupOutbox(c) ==
    /\ c \in outbox \ (unsent \cup stream)
    /\ outbox' = outbox \ {c}
    /\ UNCHANGED <<row, revoked, fleet, tick, unsent, wire>>

\* The stream drops what exceeds its age or its messages per subject.
StreamDrops(c) ==
    /\ c \in stream
    /\ stream' = stream \ {c}
    /\ UNCHANGED <<table, revoked, fleet, tick, held, reports, seen>>

\* An agent ignores a version older than the one it holds.  Its answer may
\* be lost to JetStream, which then delivers the command again.
Apply(c, ok, acked) ==
    /\ c \in stream
    /\ Cardinality(reports) < InFlight
    /\ held[c.to][c.row].op <= c.op
    /\ held' = IF ok THEN [held EXCEPT ![c.to][c.row] = [op |-> c.op, desired |-> c.desired]]
                     ELSE held
    /\ reports' = reports \cup
            {[row |-> c.row, op |-> c.op, from |-> c.to,
              state |-> IF ok THEN "applied" ELSE "error"]}
    /\ stream' = IF acked THEN stream \ {c} ELSE stream
    /\ UNCHANGED <<table, revoked, fleet, tick, seen>>

\* Faulty variants: the report of an entry, or of an older version, counts.
AcceptsAnyNode(p, m) == p.op = m.op

AcceptsAnyVersion(p, m) == p.node = m.from

\* The version and the backend a report must match to count.
Accepts(p, m) == p.op = m.op /\ p.node = m.from

\* bulk_apply_backend_report.
Reported(p, state) ==
    [key |-> p.key, node |-> p.node, desired |-> p.desired,
     applied |-> state, op |-> p.op, done |-> p.op, live |-> p.live]

\* A report that was recorded before is only acknowledged.
HandleResult(m, acked) ==
    /\ m \in reports
    /\ row' = IF m \notin seen /\ Accepts(row[m.row], m)
              THEN [row EXCEPT ![m.row] = Reported(row[m.row], m.state)]
              ELSE row
    /\ m.row \in Locked => row' = row
    /\ reports' = IF acked THEN reports \ {m} ELSE reports
    /\ seen' = (seen \cup {m}) \cap reports'
    /\ UNCHANGED <<revoked, fleet, tick, outbox, unsent, stream, held>>

-----------------------------------------------------------------------------
ControlPlane ==
    \/ \E k \in Keys, n \in Nodes, d \in AdminStates : AdminUpsert(k, n, d)
    \/ \E k \in Keys, n \in Nodes : EnsurePlacement(k, n)
    \/ \E k \in Keys : RevokeKey(k) \/ RestoreKey(k)
    \/ \E K \in SUBSET Keys : ExpireKeys(K)
    \/ \E n \in Nodes : RequeueBackend(n)
    \/ \E n \in Unstable : RoleSwap(n) \/ NodeChanges(n) \/ AutoHeal(n)
    \/ \E s, t \in Nodes : MigrateBackend(s, t)
    \/ \E s \in Unstable, t \in Nodes : DrainAndMigrate(s, t)
    \/ \E aged \in SUBSET Rows : ErrorRetry(aged)

Rebalance ==
    \/ RebalanceSelect
    \/ \E t \in tick : RebalanceCommit(t)
    \/ RebalanceAbort

Transport ==
    \/ \E c \in unsent : Publish(c) \/ PublishCrash(c) \/ CancelOutbox(c)
    \/ \E c \in outbox : CleanupOutbox(c)
    \/ \E c \in stream : StreamDrops(c)
    \/ \E c \in stream, ok \in Outcomes, acked \in BOOLEAN : Apply(c, ok, acked)
    \/ \E m \in reports, acked \in BOOLEAN : HandleResult(m, acked)

Next == ControlPlane \/ Rebalance \/ Transport

Spec == Init /\ [][Next]_vars

\* The periodic ticks keep running, and one that fails is tried again at the
\* next interval.
TickFairness ==
    /\ WF_vars(RebalanceSelect)
    /\ SF_vars(\E t \in tick : RebalanceCommit(t))
    /\ \A n \in Nodes : SF_vars(AutoHeal(n))
    /\ SF_vars(ErrorRetry(Rows))

\* The leader's publisher and consumer loops keep running, an administrator
\* does not cancel a command every time it is enqueued, and an agent that
\* keeps getting a command applies it in the end.
TransportFairness ==
    /\ \A c \in Commands : SF_vars(Publish(c)) /\ WF_vars(Apply(c, TRUE, TRUE))
    /\ \A m \in Reports : SF_vars(HandleResult(m, TRUE))

TickSpec == Spec /\ TickFairness

\* Rebalancing is off by default; here only auto-heal is sure to run.
HealSpec == Spec /\ \A n \in Nodes : SF_vars(AutoHeal(n))

FairSpec == Spec /\ TickFairness /\ TransportFairness

-----------------------------------------------------------------------------
(* Properties.                                                             *)

\* Every variable stays in its domain: what the publisher still has to send
\* is in the outbox, what is recorded as seen is a report on its way.
TypeOK ==
    /\ row \in [Rows -> Placements]
    /\ revoked \subseteq Keys
    /\ backends \subseteq Nodes
    /\ draining \subseteq Nodes
    /\ healthy \subseteq Nodes
    /\ tick \subseteq Ticks
    /\ outbox \subseteq Commands
    /\ unsent \subseteq outbox
    /\ stream \subseteq Commands
    /\ held \in [Agents -> [Rows -> Held]]
    /\ reports \subseteq Reports
    /\ seen \subseteq reports

\* _is_placement_synced
Synced(p) == p.applied = "applied" /\ p.done = p.op

\* A subscription document offers a placement only when its row is applied
\* at its current version (_is_placement_synced).  The agent of the row's
\* node then really holds that version with that desired state, however the
\* commands were repeated, lost or reordered and whatever happened to the
\* row while they travelled.
SyncedIsTrue ==
    \A r \in Rows : Synced(row[r]) =>
        held[row[r].node][r] = [op |-> row[r].op, desired |-> row[r].desired]

Agrees(r, op, desired) ==
    /\ op <= row[r].op
    /\ op = row[r].op => desired = row[r].desired

\* A version of a row names one desired state: no command on its way and no
\* agent is ahead of the row, and one that is level with it says what the row
\* says.  Agents drop older versions, so a version used twice would be a
\* change that a node never makes.
VersionsNameOneState ==
    /\ \A c \in outbox \cup stream : Agrees(c.row, c.op, c.desired)
    /\ \A a \in Agents, r \in Rows :
            held[a][r].op > 0 => Agrees(r, held[a][r].op, held[a][r].desired)

\* No two rows are for the same key and node, retired rows included: no
\* sequence of moves, merges and upserts runs into
\* uq_user_placement_key_backend, which would abort its transaction.
PairsAreUnique ==
    \A q, r \in Rows :
        q # r /\ row[q].op > 0 => row[q].key # row[r].key \/ row[q].node # row[r].node

Placed(k) == \E r \in Rows : Wanted(row[r]) /\ row[r].key = k

\* A key loses its last wanted placement only when it is revoked, when its
\* node stops being a backend, or in a rebalance tick; never because a
\* migration (bulk_migrate_backend) retires a row.
MigrationKeepsKeys ==
    [][\A k \in Keys \ revoked' :
            Placed(k) /\ backends' = backends /\ tick' = tick => Placed(k)']_vars

\* A command that was published and then dropped by the stream.  Its
\* message_id stays in the outbox until the cleanup and keeps the retry from
\* enqueuing it again.
Lost(r) ==
    \E c \in outbox : /\ c.row = r /\ c.op = row[r].op /\ c.to \in Nodes
                      /\ c \notin unsent \cup stream

Waits(r, v) == row[r].live /\ row[r].applied = "pending" /\ row[r].op = v

\* A row that waits for its node does not wait for ever: it is answered, or
\* changed, or retried by the error-retry tick after a cancelled command.
\* Only a lost command can leave it waiting.
PendingSettles ==
    \A r \in Rows, v \in 1 .. MaxOp :
        Waits(r, v) ~> (~Waits(r, v) \/ Lost(r))

-----------------------------------------------------------------------------
(* What comments of the code promise and the code does not keep.           *)

\* The bound on versions is not reached.
Spare == \A r \in Rows : row[r].op < MaxOp

OffDraining(r) == ~(Wanted(row[r]) /\ row[r].node \in draining /\ Spare)

\* "moves placements off stale backends": the rebalance tick takes the wanted
\* placements off a node that stays drained.
DrainedAreDeactivated == \A r \in Rows : []<>OffDraining(r)

\* "moves placements off stale backends": the rebalance tick leaves no key
\* without a placement while there is a node that could serve it.
RebalanceKeepsKeysServed ==
    [][tick # tick' /\ Serving # {} => \A k \in Keys : Placed(k) => Placed(k)']_vars

Stranded(r) ==
    /\ Wanted(row[r])
    /\ row[r].node \notin healthy
    /\ Serving # {}
    /\ ~\E q \in RowsOf(row[r].key) : Wanted(row[q]) /\ row[q].node \in Serving
    /\ Spare

\* "Covered users (who have active placements on other healthy nodes) are
\* left untouched": a user that is not covered is moved while there is a node
\* to move to.
OrphansAreMoved == \A r \in Rows : []<>~Stranded(r)
=============================================================================
