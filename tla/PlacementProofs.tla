--------------------------- MODULE PlacementProofs ---------------------------
(***************************************************************************)
(* Proofs, for any number of keys, nodes, entries and rows, that a         *)
(* placement shown as synced is held by its node, that a version names one *)
(* desired state, and that no two rows are for the same key and node.      *)
(*                                                                         *)
(* Every transaction of the control plane changes a row in one of two      *)
(* ways: it retires it, or it raises its version (Moves).  TableStep shows *)
(* once that such a change keeps the invariant Core; the transport steps   *)
(* are shown one by one.                                                   *)
(***************************************************************************)
EXTENDS Placement, TLAPS

\* A placement whose version is not bounded yet, and which is in the table.
Inserted ==
    [key : Keys, node : Nodes, desired : States,
     applied : {"pending", "applied", "error"},
     op : Nat, done : 0 .. MaxOp, live : BOOLEAN]

\* What a transaction of the control plane may do to a row.
Moves(p, q) ==
    \/ q = p
    \/ q = [p EXCEPT !.live = FALSE]
    \/ q \in Inserted /\ q.op = p.op + 1 /\ q.done = p.done

\* A row is in the table from its first version on.
Rooted(p) ==
    /\ p.done <= p.op
    /\ p.op > 0 => p.key \in Keys /\ p.node \in Nodes
    /\ p.op = 0 => p.key = None /\ p.applied = "pending" /\ ~p.live

Shapes ==
    /\ row \in [Rows -> Placements]
    /\ outbox \subseteq Commands
    /\ unsent \subseteq outbox
    /\ stream \subseteq Commands
    /\ held \in [Agents -> [Rows -> Held]]
    /\ reports \subseteq Reports
    /\ seen \subseteq reports

\* A report of success is sent by an agent that holds the version.
Answered ==
    \A m \in reports :
        /\ m.op <= row[m.row].op
        /\ m.state = "applied" => held[m.from][m.row].op >= m.op

Backed == \A r \in Rows : Synced(row[r]) => held[row[r].node][r].op >= row[r].op

Core ==
    /\ Shapes
    /\ \A r \in Rows : Rooted(row[r])
    /\ VersionsNameOneState
    /\ Answered
    /\ Backed

\* The rows an open rebalance tick has locked can still be raised.
Raisable(p) == p.op > 0 /\ p.op < MaxOp

Ticking ==
    /\ revoked \subseteq Keys
    /\ backends \subseteq Nodes
    /\ draining \subseteq Nodes
    /\ healthy \subseteq Nodes
    /\ tick \subseteq Ticks
    /\ \A t \in tick : \A r \in t.drained : Raisable(row[r])

PlacementInv == Core /\ Ticking

-----------------------------------------------------------------------------
(* What the operators on rows do.                                          *)

\* Raising the version of a row in the table is a move.
LEMMA RaisedMoves ==
    ASSUME NEW p \in Placements, Rooted(p), p.op > 0, NEW d \in States
    PROVE  Moves(p, Raised(p, d))
BY DEF Raised, Upserted, Moves, Inserted, Rooted, Placements, States

\* An upsert is a move.
LEMMA UpsertedMoves ==
    ASSUME NEW p \in Placements, NEW k \in Keys, NEW n \in Nodes, NEW d \in States
    PROVE  Moves(p, Upserted(p, k, n, d))
BY DEF Moves, Upserted, Inserted, Placements, States

\* What a move may leave behind.
LEMMA MoveKeeps ==
    ASSUME NEW p \in Placements, Rooted(p), NEW q, Moves(p, q), q.op <= MaxOp,
           PlacementAssumption
    PROVE  /\ q \in Placements
           /\ Rooted(q)
           /\ q.op >= p.op
           /\ q.op = p.op => q.desired = p.desired
           /\ Synced(q) => q.node = p.node /\ q.op = p.op /\ Synced(p)
<1>1. CASE q = p
  BY <1>1 DEF Placements, Rooted
<1>2. CASE q = [p EXCEPT !.live = FALSE]
  <2>1. q = [key |-> p.key, node |-> p.node, desired |-> p.desired,
             applied |-> p.applied, op |-> p.op, done |-> p.done, live |-> FALSE]
    BY <1>2 DEF Placements
  <2> QED
    BY <2>1 DEF Placements, Rooted, Synced
<1>3. CASE q \in Inserted /\ q.op = p.op + 1 /\ q.done = p.done
  BY <1>3 DEF Placements, Rooted, Synced, Inserted, PlacementAssumption
<1> QED
  BY <1>1, <1>2, <1>3 DEF Moves

\* The commands built for a table agree with it.
LEMMA CommandsAgree ==
    ASSUME NEW after \in [Rows -> Placements], NEW S \in SUBSET Rows
    PROVE  /\ CommandsFor(after, S) \subseteq Commands
           /\ \A c \in CommandsFor(after, S) :
                    c.op = after[c.row].op /\ c.desired = after[c.row].desired
BY DEF CommandsFor, Commands

\* A transaction that only moves rows and enqueues what it moved keeps Core.
LEMMA TableStep ==
    ASSUME Core, PlacementAssumption, NEW after, NEW S \in SUBSET Rows,
           after = [r \in Rows |-> after[r]],
           \A r \in Rows : Moves(row[r], after[r]) /\ after[r].op <= MaxOp,
           row' = after, Enqueue(CommandsFor(after, S)), UNCHANGED wire
    PROVE  Core'
<1> USE DEF Core
<1>1. \A r \in Rows : row[r] \in Placements /\ Rooted(row[r])
  BY DEF Shapes
<1>2. \A r \in Rows : /\ after[r] \in Placements
                      /\ Rooted(after[r])
                      /\ after[r].op >= row[r].op
                      /\ after[r].op = row[r].op => after[r].desired = row[r].desired
                      /\ Synced(after[r]) => /\ after[r].node = row[r].node
                                             /\ after[r].op = row[r].op
                                             /\ Synced(row[r])
  BY <1>1, MoveKeeps
<1>3. after \in [Rows -> Placements]
  BY <1>2
<1>4. \A c \in CommandsFor(after, S) :
        c \in Commands /\ c.op = after[c.row].op /\ c.desired = after[c.row].desired
  BY <1>3, CommandsAgree
<1>5. /\ outbox' \subseteq outbox \cup CommandsFor(after, S)
      /\ outbox \subseteq outbox'
      /\ unsent' \subseteq unsent \cup outbox'
      /\ stream' = stream /\ held' = held /\ reports' = reports /\ seen' = seen
  BY DEF Enqueue, wire
<1>6. Shapes'
  <2>1. outbox' \subseteq Commands
    BY <1>4, <1>5 DEF Shapes
  <2>2. unsent' \subseteq outbox'
    BY <1>5 DEF Shapes
  <2> QED
    BY <1>3, <1>5, <2>1, <2>2 DEF Shapes
<1>7. (\A r \in Rows : Rooted(row[r]))'
  BY <1>2
<1>8. VersionsNameOneState'
  <2>1. ASSUME NEW r \in Rows, NEW op \in Nat, NEW d, Agrees(r, op, d)
        PROVE  op <= after[r].op /\ (op = after[r].op => d = after[r].desired)
    BY <1>1, <1>2, <2>1 DEF Agrees, Placements
  <2>2. \A c \in outbox \cup stream : c.row \in Rows /\ c.op \in Nat
                                      /\ Agrees(c.row, c.op, c.desired)
    BY DEF VersionsNameOneState, Shapes, Commands
  <2>3. \A c \in outbox \cup stream :
            c.op <= after[c.row].op /\ (c.op = after[c.row].op => c.desired = after[c.row].desired)
    BY <2>1, <2>2
  <2>4. \A c \in CommandsFor(after, S) :
            c.op <= after[c.row].op /\ (c.op = after[c.row].op => c.desired = after[c.row].desired)
    BY <1>2, <1>4 DEF Commands, Placements
  <2>5. \A a \in Agents, r \in Rows : held[a][r].op \in Nat
    BY DEF Shapes, Held
  <2>6. \A a \in Agents, r \in Rows : held[a][r].op > 0 =>
            /\ held[a][r].op <= after[r].op
            /\ held[a][r].op = after[r].op => held[a][r].desired = after[r].desired
    BY <2>1, <2>5 DEF VersionsNameOneState
  <2> QED
    BY <1>5, <2>3, <2>4, <2>6 DEF VersionsNameOneState, Agrees
<1>9. Answered'
  <2>1. \A m \in reports : m.row \in Rows /\ m.op \in Nat /\ row[m.row].op \in Nat
                           /\ after[m.row].op \in Nat
    BY <1>1, <1>2 DEF Shapes, Reports, Placements
  <2> QED
    BY <1>2, <1>5, <2>1 DEF Answered
<1>10. Backed'
  BY <1>2, <1>5 DEF Backed
<1> QED
  BY <1>6, <1>7, <1>8, <1>9, <1>10

-----------------------------------------------------------------------------
(* The steps of the control plane.                                         *)

\* A transaction written as Save keeps the rows a rebalance tick has locked.
LEMMA SaveStep ==
    ASSUME PlacementInv, PlacementAssumption, NEW after, NEW S \in SUBSET Rows,
           after = [r \in Rows |-> after[r]],
           \A r \in Rows : Moves(row[r], after[r]),
           Save(after, S), UNCHANGED <<tick, wire>>
    PROVE  /\ Core'
           /\ \A t \in tick' : \A r \in t.drained : Raisable(row'[r])
<1>1. Core'
  <2>1. Core /\ (\A r \in Rows : after[r].op <= MaxOp) /\ row' = after
        /\ Enqueue(CommandsFor(after, S)) /\ UNCHANGED wire
    BY DEF PlacementInv, Save
  <2> QED
    BY <2>1, TableStep
<1>2. \A t \in tick : \A r \in t.drained : r \in Rows /\ after[r] = row[r]
  BY DEF PlacementInv, Ticking, Ticks, Save, Locked
<1> QED
  BY <1>1, <1>2 DEF PlacementInv, Ticking, Save

\* Rows and their types, as the steps below use them.
LEMMA RowTypes ==
    ASSUME PlacementInv
    PROVE  /\ row \in [Rows -> Placements]
           /\ \A r \in Rows : row[r] \in Placements /\ Rooted(row[r])
           /\ \A r \in Rows : row[r].live =>
                    row[r].op > 0 /\ row[r].key \in Keys /\ row[r].node \in Nodes
BY DEF PlacementInv, Core, Shapes, Rooted, Placements

\* Setting the state of live rows moves them.
LEMMA RaisedToMoves ==
    ASSUME PlacementInv, NEW T \in SUBSET Rows, \A r \in T : row[r].live,
           NEW d \in States
    PROVE  /\ RaisedTo(T, d) = [r \in Rows |-> RaisedTo(T, d)[r]]
           /\ \A r \in Rows : Moves(row[r], RaisedTo(T, d)[r])
<1>1. \A r \in T : Moves(row[r], Raised(row[r], d))
  BY RowTypes, RaisedMoves
<1>2. \A r \in Rows : Moves(row[r], row[r])
  BY DEF Moves
<1> QED
  BY <1>1, <1>2 DEF RaisedTo

\* So does raising live rows to the state they have.
LEMMA AgainMoves ==
    ASSUME PlacementInv, NEW T \in SUBSET Rows, \A r \in T : row[r].live
    PROVE  \A r \in Rows :
              Moves(row[r], IF r \in T THEN Raised(row[r], row[r].desired) ELSE row[r])
<1>1. \A r \in T : Moves(row[r], Raised(row[r], row[r].desired))
  BY RowTypes, RaisedMoves DEF Placements
<1> QED
  BY <1>1 DEF Moves

\* An upsert of one row moves the table.
LEMMA UpsertMoves ==
    ASSUME PlacementInv, NEW q \in Rows, NEW k \in Keys, NEW n \in Nodes,
           NEW d \in States
    PROVE  LET after == [row EXCEPT ![q] = Upserted(row[q], k, n, d)]
           IN  /\ after = [r \in Rows |-> after[r]]
               /\ \A r \in Rows : Moves(row[r], after[r])
<1>1. Moves(row[q], Upserted(row[q], k, n, d))
  BY RowTypes, UpsertedMoves
<1> QED
  BY <1>1, RowTypes DEF Moves

\* A migration to nodes moves the table.
LEMMA MigratedMoves ==
    ASSUME PlacementInv, NEW to, DOMAIN to \subseteq Rows,
           \A r \in DOMAIN to : row[r].live /\ to[r] \in Nodes
    PROVE  /\ Migrated(to) = [r \in Rows |-> Migrated(to)[r]]
           /\ \A r \in Rows : Moves(row[r], Migrated(to)[r])
<1>1. \A r \in DOMAIN to : Moves(row[r], Upserted(row[r], row[r].key, to[r], row[r].desired))
  BY RowTypes, UpsertedMoves DEF Placements
<1>2. ASSUME NEW r \in Rows, NEW q \in DOMAIN to,
             row[q].key = row[r].key, to[q] = row[r].node
      PROVE  Moves(row[r], Upserted(row[r], row[r].key, row[r].node, "active"))
  BY <1>2, RowTypes, UpsertedMoves DEF States
<1> QED
  BY <1>1, <1>2 DEF Migrated, Moves

\* The control plane keeps the invariant, one action at a time.
LEMMA ControlStep ==
    ASSUME PlacementInv, PlacementAssumption, ControlPlane
    PROVE  PlacementInv'
<1> DEFINE Kept == /\ Core'
                   /\ \A t \in tick' : \A r \in t.drained : Raisable(row'[r])
<1>a. revoked \subseteq Keys /\ backends \subseteq Nodes /\ draining \subseteq Nodes
      /\ healthy \subseteq Nodes /\ tick \subseteq Ticks
  BY DEF PlacementInv, Ticking
<1>b. ASSUME Kept, revoked' \subseteq Keys, backends' \subseteq Nodes,
             draining' \subseteq Nodes, healthy' \subseteq Nodes, tick' = tick
      PROVE  PlacementInv'
  BY <1>a, <1>b DEF PlacementInv, Ticking
<1>c. \A k \in Keys, n \in Nodes : Slots(k, n) \subseteq Rows
  BY DEF Slots
<1>d. ASSUME NEW q \in Rows, NEW k \in Keys, NEW n \in Nodes, NEW d \in States,
             Save([row EXCEPT ![q] = Upserted(row[q], k, n, d)], {q}),
             UNCHANGED <<tick, wire>>
      PROVE  Kept
  <2> DEFINE after == [row EXCEPT ![q] = Upserted(row[q], k, n, d)]
  <2>1. after = [r \in Rows |-> after[r]] /\ \A r \in Rows : Moves(row[r], after[r])
    BY UpsertMoves
  <2>2. Save(after, {q}) /\ {q} \in SUBSET Rows
    BY <1>d
  <2> HIDE DEF after
  <2> QED
    BY <1>d, <2>1, <2>2, SaveStep
<1>e. ASSUME NEW T \in SUBSET Rows, \A r \in T : row[r].live, NEW d \in States,
             NEW S \in SUBSET Rows, Save(RaisedTo(T, d), S), UNCHANGED <<tick, wire>>
      PROVE  Kept
  BY <1>e, RaisedToMoves, SaveStep
<1>f. ASSUME NEW T \in SUBSET Rows, \A r \in T : row[r].live, NEW S \in SUBSET Rows,
             Save([r \in Rows |-> IF r \in T THEN Raised(row[r], row[r].desired)
                                             ELSE row[r]], S),
             UNCHANGED <<tick, wire>>
      PROVE  Kept
  <2> DEFINE after == [r \in Rows |-> IF r \in T THEN Raised(row[r], row[r].desired)
                                                 ELSE row[r]]
  <2>1. after = [r \in Rows |-> after[r]] /\ \A r \in Rows : Moves(row[r], after[r])
    BY <1>f, AgainMoves
  <2>2. Save(after, S)
    BY <1>f
  <2> HIDE DEF after
  <2> QED
    BY <1>f, <2>1, <2>2, SaveStep
<1>g. ASSUME NEW to, DOMAIN to \subseteq Rows, MoveRows(to), UNCHANGED <<tick, wire>>,
             \A r \in DOMAIN to : row[r].live /\ to[r] \in Nodes
      PROVE  Kept
  <2>1. {r \in Rows : Migrated(to)[r] # row[r]} \in SUBSET Rows
    OBVIOUS
  <2> QED
    BY <1>g, <2>1, MigratedMoves, SaveStep DEF MoveRows
<1>h. ASSUME NEW k \in Keys, NEW d \in States, SetDesiredForKey(k, d),
             UNCHANGED <<tick, wire>>
      PROVE  Kept
  <2> DEFINE T == {r \in RowsOf(k) : /\ row[r].node \in backends
                                     /\ row[r].desired # d \/ row[r].applied # "pending"}
             S == {r \in RowsOf(k) : RaisedTo(T, d)[r].desired = d}
  <2>1. T \in SUBSET Rows /\ (\A r \in T : row[r].live) /\ S \in SUBSET Rows
    BY DEF RowsOf
  <2>2. Save(RaisedTo(T, d), S)
    BY <1>h DEF SetDesiredForKey
  <2> HIDE DEF T, S
  <2> QED
    BY <1>e, <1>h, <2>1, <2>2
<1>i. \A n : Wants(n) \subseteq Rows /\ RowsOn(n) \subseteq Rows
             /\ (\A r \in Wants(n) : row[r].live) /\ \A r \in RowsOn(n) : row[r].live
  BY DEF Wants, RowsOn, Wanted
<1> HIDE DEF Kept
<1>1. ASSUME NEW k \in Keys, NEW n \in Nodes, NEW d \in AdminStates, AdminUpsert(k, n, d)
      PROVE  PlacementInv'
  <2>1. PICK q \in Slots(k, n) : Save([row EXCEPT ![q] = Upserted(row[q], k, n, d)], {q})
    BY <1>1 DEF AdminUpsert
  <2>2. d \in States
    BY DEF PlacementAssumption, States
  <2>3. UNCHANGED <<revoked, fleet, tick, wire>>
    BY <1>1 DEF AdminUpsert
  <2>4. Kept
    BY <1>c, <1>d, <2>1, <2>2, <2>3
  <2> QED
    BY <1>a, <1>b, <2>3, <2>4 DEF fleet
<1>2. ASSUME NEW k \in Keys, NEW n \in Nodes, EnsurePlacement(k, n)
      PROVE  PlacementInv'
  <2>1. PICK q \in Slots(k, n) :
            Save([row EXCEPT ![q] = Upserted(row[q], k, n, "active")], {q})
    BY <1>2 DEF EnsurePlacement
  <2>2. UNCHANGED <<fleet, tick, wire>> /\ revoked' = revoked \ {k}
    BY <1>2 DEF EnsurePlacement
  <2>3. Kept
    BY <1>c, <1>d, <2>1, <2>2 DEF States
  <2> QED
    BY <1>a, <1>b, <2>2, <2>3 DEF fleet
<1>3. ASSUME NEW k \in Keys, RevokeKey(k) \/ RestoreKey(k)
      PROVE  PlacementInv'
  <2>1. UNCHANGED <<fleet, tick, wire>> /\ revoked' \subseteq Keys
    BY <1>3, <1>a DEF RevokeKey, RestoreKey
  <2>2. Kept
    BY <1>3, <1>h, <2>1 DEF RevokeKey, RestoreKey, States
  <2> QED
    BY <1>a, <1>b, <2>1, <2>2 DEF fleet
<1>4. ASSUME NEW K \in SUBSET Keys, ExpireKeys(K)
      PROVE  PlacementInv'
  <2> DEFINE T == {r \in Rows : /\ row[r].live
                                /\ row[r].key \in K
                                /\ row[r].desired # "inactive" \/ row[r].applied # "pending"}
  <2>1. T \in SUBSET Rows /\ \A r \in T : row[r].live
    OBVIOUS
  <2>2. Save(RaisedTo(T, "inactive"), T) /\ UNCHANGED <<fleet, tick, wire>>
        /\ revoked' = revoked \cup K
    BY <1>4 DEF ExpireKeys
  <2> HIDE DEF T
  <2>3. Kept
    BY <1>e, <2>1, <2>2 DEF States
  <2> QED
    BY <1>a, <1>b, <2>2, <2>3 DEF fleet
<1>5. ASSUME NEW n \in Nodes, RequeueBackend(n)
      PROVE  PlacementInv'
  <2>1. Kept
    BY <1>5, <1>f, <1>i DEF RequeueBackend
  <2> QED
    BY <1>5, <1>a, <1>b, <2>1 DEF RequeueBackend, fleet
<1>6. ASSUME NEW n \in Unstable, RoleSwap(n)
      PROVE  PlacementInv'
  <2>1. Kept
    BY <1>6, <1>e, <1>i DEF RoleSwap, States
  <2> QED
    BY <1>6, <1>a, <1>b, <2>1 DEF RoleSwap
<1>7. ASSUME NEW n \in Unstable, NodeChanges(n)
      PROVE  PlacementInv'
  <2>1. UNCHANGED <<table, revoked, backends, tick, wire>> /\ n \in Nodes
    BY <1>7 DEF NodeChanges, PlacementAssumption
  <2>2. draining' \subseteq Nodes /\ healthy' \subseteq Nodes
    BY <1>7, <1>a, <2>1 DEF NodeChanges
  <2>3. Core'
    BY <2>1 DEF PlacementInv, Core, Shapes, VersionsNameOneState, Agrees, Answered, Backed,
                table, wire
  <2> QED
    BY <1>a, <2>1, <2>2, <2>3 DEF PlacementInv, Ticking, table
<1>8. ASSUME NEW n \in Unstable, AutoHeal(n)
      PROVE  PlacementInv'
  <2>1. PICK to \in [IF Serving \ {n} = {} THEN {} ELSE Orphans(n) -> Serving \ {n}] :
            MoveRows(to)
    BY <1>8 DEF AutoHeal
  <2>2. Orphans(n) \subseteq Wants(n) /\ Serving \subseteq Nodes
    BY <1>a DEF Orphans, Serving
  <2>3. DOMAIN to \subseteq Rows /\ \A r \in DOMAIN to : row[r].live /\ to[r] \in Nodes
    BY <1>i, <2>1, <2>2
  <2>4. UNCHANGED <<revoked, backends, healthy, tick, wire>> /\ draining' = draining \cup {n}
        /\ n \in Nodes
    BY <1>8 DEF AutoHeal, PlacementAssumption
  <2>5. Kept
    BY <1>g, <2>1, <2>3, <2>4
  <2> QED
    BY <1>a, <1>b, <2>4, <2>5
<1>9. ASSUME NEW s \in Nodes, NEW t \in Nodes, MigrateBackend(s, t) \/ DrainAndMigrate(s, t)
      PROVE  PlacementInv'
  <2> DEFINE to == [r \in Wants(s) |-> t]
  <2>1. DOMAIN to \subseteq Rows /\ \A r \in DOMAIN to : row[r].live /\ to[r] \in Nodes
    BY <1>i
  <2>2. MoveRows(to) /\ UNCHANGED <<revoked, backends, healthy, tick, wire>>
        /\ draining' \subseteq Nodes
    BY <1>9, <1>a DEF MigrateBackend, DrainAndMigrate, fleet
  <2> HIDE DEF to
  <2>3. Kept
    BY <1>g, <2>1, <2>2
  <2> QED
    BY <1>a, <1>b, <2>2, <2>3
<1>10. ASSUME NEW aged \in SUBSET Rows, ErrorRetry(aged)
       PROVE  PlacementInv'
  <2> DEFINE E == {r \in aged : row[r].live /\ row[r].applied = "error"}
             P == {r \in aged : row[r].live /\ row[r].applied = "pending"}
  <2>1. E \in SUBSET Rows /\ E \cup P \in SUBSET Rows /\ \A r \in E : row[r].live
    OBVIOUS
  <2>2. Save([r \in Rows |-> IF r \in E THEN Raised(row[r], row[r].desired) ELSE row[r]],
             E \cup P)
        /\ UNCHANGED <<revoked, fleet, tick, wire>>
    BY <1>10 DEF ErrorRetry
  <2> HIDE DEF E, P
  <2>3. Kept
    BY <1>f, <2>1, <2>2
  <2> QED
    BY <1>a, <1>b, <2>2, <2>3 DEF fleet
<1> QED
  BY <1>1, <1>2, <1>3, <1>4, <1>5, <1>6, <1>7, <1>8, <1>9, <1>10
  DEF ControlPlane, PlacementAssumption

-----------------------------------------------------------------------------
(* The rebalance tick.                                                     *)

\* Taking locked rows off moves them.
LEMMA DrainedMoves ==
    ASSUME PlacementInv, NEW T \in SUBSET Rows, \A r \in T : row[r].op > 0
    PROVE  \A r \in T : Moves(row[r], TakenOff(row[r]))
<1>1. ASSUME NEW p \in Placements, Rooted(p), p.op > 0
      PROVE  Moves(p, TakenOff(p))
  BY <1>1 DEF Moves, TakenOff, Inserted, Rooted, Placements, States
<1> QED
  BY <1>1, RowTypes

\* The rebalance tick keeps the invariant.
LEMMA RebalanceStep ==
    ASSUME PlacementInv, PlacementAssumption, Rebalance
    PROVE  PlacementInv'
<1>1. CASE RebalanceSelect
  <2>1. UNCHANGED <<table, revoked, fleet, wire>> /\ Core'
    BY <1>1 DEF RebalanceSelect, PlacementInv, Core, Shapes, VersionsNameOneState, Agrees,
                Answered, Backed, table, wire
  <2>2. OnDraining \subseteq Rows /\ \A r \in OnDraining : row[r].op < MaxOp
    BY <1>1 DEF RebalanceSelect, OnDraining
  <2>r. \A r \in OnDraining : Raisable(row[r])
    BY <2>2, RowTypes DEF OnDraining, Wanted, Raisable
  <2>3. Serving \subseteq Nodes
    BY DEF Serving, PlacementInv, Ticking
  <2>4. PICK pair \in SUBSET (Keys \X Nodes) :
            tick' = {[drained |-> OnDraining, pair |-> pair]}
    <3>1. CASE tick' = {[drained |-> OnDraining, pair |-> {}]}
      BY <3>1
    <3>2. CASE \E p \in Missing(Drained(OnDraining)) :
                    tick' = {[drained |-> OnDraining, pair |-> {p}]}
      BY <2>3, <3>2 DEF Missing
    <3> QED
      BY <1>1, <3>1, <3>2 DEF RebalanceSelect
  <2>5. tick' \subseteq Ticks /\ \A t \in tick' : t.drained = OnDraining
    BY <2>2, <2>4 DEF Ticks
  <2> QED
    BY <2>1, <2>r, <2>5 DEF PlacementInv, Ticking, table, fleet
<1>2. ASSUME NEW t \in tick, RebalanceCommit(t)
      PROVE  PlacementInv'
  <2>1. t.drained \in SUBSET Rows /\ t.pair \in SUBSET (Keys \X Nodes)
        /\ \A r \in t.drained : row[r].op > 0 /\ row[r].op < MaxOp
    BY DEF PlacementInv, Ticking, Ticks, Raisable
  <2>2. \A r \in t.drained : Moves(row[r], TakenOff(row[r])) /\ TakenOff(row[r]).op <= MaxOp
    BY <2>1, DrainedMoves, RowTypes DEF TakenOff, Placements, PlacementAssumption
  <2>3. \A r \in Rows : row[r].op <= MaxOp
    BY RowTypes DEF Placements
  <2>4. \A r \in Rows : /\ Moves(row[r], Drained(t.drained)[r])
                        /\ Drained(t.drained)[r].op <= MaxOp
    <3>1. \A r \in Rows \ t.drained : Drained(t.drained)[r] = row[r]
      BY DEF Drained
    <3>2. \A r \in t.drained : Drained(t.drained)[r] = TakenOff(row[r])
      BY <2>1 DEF Drained
    <3>3. \A r \in Rows : Moves(row[r], row[r])
      BY DEF Moves
    <3> QED
      BY <2>2, <2>3, <3>1, <3>2, <3>3
  <2>5. UNCHANGED <<revoked, fleet, wire>> /\ tick' = {}
    BY <1>2 DEF RebalanceCommit
  <2>6. Core'
    <3>1. CASE /\ row' = Drained(t.drained)
               /\ Enqueue(CommandsFor(row', t.drained))
      <4>1. Drained(t.drained) = [r \in Rows |-> Drained(t.drained)[r]]
        BY DEF Drained
      <4> QED
        BY <2>1, <2>4, <2>5, <3>1, <4>1, TableStep DEF PlacementInv
    <3>2. ASSUME NEW p \in t.pair, NEW r \in Slots(p[1], p[2]),
                 r \notin t.drained, row[r].op < MaxOp,
                 row' = [Drained(t.drained) EXCEPT
                            ![r] = Upserted(row[r], p[1], p[2], "active")],
                 Enqueue(CommandsFor(row', t.drained \cup {r}))
          PROVE  Core'
      <4> DEFINE after == [Drained(t.drained) EXCEPT
                                ![r] = Upserted(row[r], p[1], p[2], "active")]
      <4>1. r \in Rows /\ p[1] \in Keys /\ p[2] \in Nodes
        BY <2>1, <3>2 DEF Slots
      <4>2. /\ Moves(row[r], Upserted(row[r], p[1], p[2], "active"))
            /\ Upserted(row[r], p[1], p[2], "active").op <= MaxOp
        <5>1. Moves(row[r], Upserted(row[r], p[1], p[2], "active"))
          BY <4>1, RowTypes, UpsertedMoves DEF States
        <5>2. Upserted(row[r], p[1], p[2], "active").op = row[r].op + 1 /\ row[r].op \in Nat
          BY <4>1, RowTypes DEF Upserted, Placements
        <5> QED
          BY <3>2, <5>1, <5>2 DEF PlacementAssumption
      <4>3. /\ after = [q \in Rows |-> after[q]]
            /\ \A q \in Rows : after[q] = IF q = r THEN Upserted(row[r], p[1], p[2], "active")
                                                   ELSE Drained(t.drained)[q]
        BY <4>1 DEF Drained
      <4>4. row' = after /\ Enqueue(CommandsFor(after, t.drained \cup {r}))
        BY <3>2
      <4> HIDE DEF after
      <4>5. \A q \in Rows : Moves(row[q], after[q]) /\ after[q].op <= MaxOp
        BY <2>4, <4>2, <4>3
      <4>6. t.drained \cup {r} \in SUBSET Rows
        BY <2>1, <4>1
      <4> QED
        BY <2>5, <4>3, <4>4, <4>5, <4>6, TableStep DEF PlacementInv
    <3> QED
      BY <1>2, <3>1, <3>2 DEF RebalanceCommit
  <2> QED
    BY <2>5, <2>6 DEF PlacementInv, Ticking, fleet
<1>3. CASE RebalanceAbort
  <2>1. UNCHANGED <<table, revoked, fleet, wire>> /\ tick' = {} /\ Core'
    BY <1>3 DEF RebalanceAbort, PlacementInv, Core, Shapes, VersionsNameOneState, Agrees,
                Answered, Backed, table, wire
  <2> QED
    BY <2>1 DEF PlacementInv, Ticking, fleet
<1> QED
  BY <1>1, <1>2, <1>3 DEF Rebalance

-----------------------------------------------------------------------------
(* The transport.                                                          *)

\* What leaves the rows and the fleet alone and keeps Core keeps the invariant.
LEMMA TransportStep ==
    ASSUME PlacementInv, PlacementAssumption, Transport
    PROVE  PlacementInv'
<1>a. Core /\ Ticking
  BY DEF PlacementInv
<1>b. ASSUME Core', UNCHANGED <<row, revoked, fleet, tick>>
      PROVE  PlacementInv'
  BY <1>a, <1>b DEF PlacementInv, Ticking, fleet
<1>1. ASSUME NEW c \in unsent, Publish(c) \/ PublishCrash(c) \/ CancelOutbox(c)
      PROVE  PlacementInv'
  <2>1. /\ UNCHANGED <<row, revoked, fleet, tick, held, reports, seen>>
        /\ outbox' \subseteq outbox /\ unsent' \subseteq outbox'
        /\ stream' \subseteq stream \cup outbox
    BY <1>1, <1>a DEF Publish, PublishCrash, CancelOutbox, table, wire, Core, Shapes
  <2>2. Core'
    BY <1>a, <2>1 DEF Core, Shapes, VersionsNameOneState, Agrees, Answered, Backed
  <2> QED
    BY <1>b, <2>1, <2>2
<1>2. ASSUME NEW c \in outbox, CleanupOutbox(c)
      PROVE  PlacementInv'
  <2>1. /\ UNCHANGED <<row, revoked, fleet, tick, unsent, stream, held, reports, seen>>
        /\ outbox' = outbox \ {c} /\ c \notin unsent
    BY <1>2 DEF CleanupOutbox, wire
  <2>2. Core'
    BY <1>a, <2>1 DEF Core, Shapes, VersionsNameOneState, Agrees, Answered, Backed
  <2> QED
    BY <1>b, <2>1, <2>2
<1>3. ASSUME NEW c \in stream, StreamDrops(c)
      PROVE  PlacementInv'
  <2>1. UNCHANGED <<row, outbox, unsent, revoked, fleet, tick, held, reports, seen>>
        /\ stream' \subseteq stream
    BY <1>3 DEF StreamDrops, table
  <2>2. Core'
    BY <1>a, <2>1 DEF Core, Shapes, VersionsNameOneState, Agrees, Answered, Backed
  <2> QED
    BY <1>b, <2>1, <2>2
<1>4. ASSUME NEW c \in stream, NEW ok \in Outcomes, NEW acked \in BOOLEAN, Apply(c, ok, acked)
      PROVE  PlacementInv'
  <2>1. /\ UNCHANGED <<row, outbox, unsent, revoked, fleet, tick, seen>>
        /\ stream' \subseteq stream
        /\ held[c.to][c.row].op <= c.op
    BY <1>4 DEF Apply, table
  <2> DEFINE m == [row |-> c.row, op |-> c.op, from |-> c.to,
                   state |-> IF ok THEN "applied" ELSE "error"]
             h == [op |-> c.op, desired |-> c.desired]
  <2>2. reports' = reports \cup {m}
    BY <1>4 DEF Apply
  <2>3. c.to \in Agents /\ c.row \in Rows /\ c.op \in 1 .. MaxOp /\ c.desired \in States
        /\ Agrees(c.row, c.op, c.desired)
    BY <1>a DEF Core, Shapes, Commands, VersionsNameOneState
  <2>4. m \in Reports /\ h \in Held /\ h.op = c.op /\ h.desired = c.desired
        /\ m.row = c.row /\ m.op = c.op /\ m.from = c.to
        /\ m.state = (IF ok THEN "applied" ELSE "error")
    BY <2>3 DEF Reports, Held
  <2>5. held \in [Agents -> [Rows -> Held]] /\ ok \in BOOLEAN
    BY <1>a DEF Core, Shapes, PlacementAssumption
  <2>6. /\ held' \in [Agents -> [Rows -> Held]]
        /\ \A a \in Agents, r \in Rows :
                \/ held'[a][r] = held[a][r]
                \/ a = c.to /\ r = c.row /\ held'[a][r] = h
        /\ ok => held'[c.to][c.row] = h
    <3>1. CASE ok
      <4>1. held' = [held EXCEPT ![c.to] = [held[c.to] EXCEPT ![c.row] = h]]
        BY <1>4, <3>1 DEF Apply
      <4> HIDE DEF h
      <4> QED
        BY <2>3, <2>4, <2>5, <4>1
    <3>2. CASE ~ok
      BY <1>4, <2>5, <3>2 DEF Apply
    <3> QED
      BY <3>1, <3>2
  <2> HIDE DEF m, h
  <2>7. \A a \in Agents, r \in Rows : held'[a][r].op >= held[a][r].op
                                      /\ held'[a][r].op \in Nat /\ held[a][r].op \in Nat
    BY <2>1, <2>3, <2>4, <2>5, <2>6 DEF Held
  <2>8. Shapes'
    BY <1>a, <2>1, <2>2, <2>4, <2>6 DEF Core, Shapes
  <2>9. VersionsNameOneState'
    BY <1>a, <2>1, <2>3, <2>4, <2>6 DEF Core, VersionsNameOneState, Agrees
  <2>10. Answered'
    <3>1. m.op <= row[m.row].op /\ (m.state = "applied" => held'[m.from][m.row].op >= m.op)
      BY <2>3, <2>4, <2>5, <2>6 DEF Agrees
    <3>2. ASSUME NEW k \in reports
          PROVE  k.op <= row[k.row].op
                 /\ (k.state = "applied" => held'[k.from][k.row].op >= k.op)
      <4>1. k.from \in Agents /\ k.row \in Rows /\ k.op \in Nat
        BY <1>a DEF Core, Shapes, Reports
      <4> QED
        BY <1>a, <2>7, <4>1 DEF Core, Answered
    <3> QED
      BY <2>1, <2>2, <3>1, <3>2 DEF Answered
  <2>11. Backed'
    <3>1. ASSUME NEW r \in Rows, Synced(row[r])
          PROVE  held'[row[r].node][r].op >= row[r].op
      <4>1. row[r] \in Placements /\ Rooted(row[r]) /\ held[row[r].node][r].op >= row[r].op
        BY <1>a, <3>1 DEF Core, Shapes, Backed
      <4>2. row[r].op \in Nat /\ row[r].node \in Agents
        BY <3>1, <4>1 DEF Placements, Rooted, Synced, Agents
      <4> QED
        BY <2>7, <4>1, <4>2
    <3> QED
      BY <2>1, <3>1 DEF Backed
  <2>12. Core'
    BY <1>a, <2>1, <2>8, <2>9, <2>10, <2>11 DEF Core
  <2> QED
    BY <1>b, <2>1, <2>12
<1>5. ASSUME NEW m \in reports, NEW acked \in BOOLEAN, HandleResult(m, acked)
      PROVE  PlacementInv'
  <2>1. /\ UNCHANGED <<outbox, unsent, revoked, fleet, tick, stream, held>>
        /\ reports' \subseteq reports /\ seen' \subseteq reports'
    BY <1>5 DEF HandleResult
  <2>2. CASE row' = row
    <3>1. Core'
      BY <1>a, <2>1, <2>2 DEF Core, Shapes, VersionsNameOneState, Agrees, Answered, Backed
    <3> QED
      BY <1>b, <2>1, <2>2, <3>1
  <2>3. CASE row' # row
    <3> DEFINE q == Reported(row[m.row], m.state)
    <3>1. Accepts(row[m.row], m) /\ m.row \notin Locked /\ row' = [row EXCEPT ![m.row] = q]
      BY <1>5, <2>3 DEF HandleResult
    <3>2. m \in Reports /\ row \in [Rows -> Placements]
          /\ row[m.row] \in Placements /\ Rooted(row[m.row])
      BY <1>a DEF Core, Shapes, Reports
    <3>3. /\ q \in Placements /\ Rooted(q)
          /\ q.op = row[m.row].op /\ q.desired = row[m.row].desired
          /\ q.node = m.from /\ q.op = m.op /\ q.applied = m.state
      BY <3>1, <3>2 DEF Reported, Placements, Rooted, Reports, Accepts
    <3> HIDE DEF q
    <3>4. /\ row' \in [Rows -> Placements]
          /\ \A r \in Rows : row'[r] = IF r = m.row THEN q ELSE row[r]
      BY <3>1, <3>2, <3>3
    <3>5. \A r \in Rows : Rooted(row'[r]) /\ row'[r].op = row[r].op
                          /\ row'[r].desired = row[r].desired
      BY <1>a, <3>3, <3>4 DEF Core
    <3>6. Shapes'
      BY <1>a, <2>1, <3>4 DEF Core, Shapes
    <3>7. VersionsNameOneState'
      <4>1. \A c \in outbox \cup stream : c.row \in Rows
        BY <1>a DEF Core, Shapes, Commands
      <4> QED
        BY <1>a, <2>1, <3>5, <4>1 DEF Core, VersionsNameOneState, Agrees
    <3>8. Answered'
      <4>1. \A k \in reports : k.row \in Rows
        BY <1>a DEF Core, Shapes, Reports
      <4> QED
        BY <1>a, <2>1, <3>5, <4>1 DEF Core, Answered
    <3>9. Backed'
      <4>1. Synced(q) => held[q.node][m.row].op >= q.op
        BY <1>a, <3>3 DEF Core, Answered, Synced
      <4> QED
        BY <1>a, <2>1, <3>2, <3>4, <4>1 DEF Core, Backed
    <3>10. Core'
      BY <3>5, <3>6, <3>7, <3>8, <3>9 DEF Core
    <3>11. \A t \in tick : \A r \in t.drained : r \in Rows /\ row'[r] = row[r]
      BY <1>a, <3>1, <3>4 DEF Ticking, Ticks, Locked
    <3> QED
      BY <1>a, <2>1, <3>10, <3>11 DEF PlacementInv, Ticking, fleet
  <2> QED
    BY <2>2, <2>3
<1> QED
  BY <1>1, <1>2, <1>3, <1>4, <1>5 DEF Transport

-----------------------------------------------------------------------------
(* The unique constraint.                                                  *)

\* A step that changes neither the key nor the node of a row, and inserts none.
LEMMA SamePairs ==
    ASSUME PairsAreUnique,
           \A r \in Rows : /\ row'[r].key = row[r].key
                           /\ row'[r].node = row[r].node
                           /\ row'[r].op > 0 => row[r].op > 0
    PROVE  PairsAreUnique'
BY DEF PairsAreUnique

\* Raising live rows is such a step.
LEMMA RaisedPairs ==
    ASSUME PlacementInv, PairsAreUnique, NEW T \in SUBSET Rows,
           \A r \in T : row[r].live, NEW after,
           \A r \in Rows : after[r] = row[r] \/ (r \in T /\ \E d : after[r] = Raised(row[r], d)),
           row' = after
    PROVE  PairsAreUnique'
<1>1. \A r \in Rows : /\ row'[r].key = row[r].key
                      /\ row'[r].node = row[r].node
                      /\ row'[r].op > 0 => row[r].op > 0
  <2> SUFFICES ASSUME NEW r \in Rows
               PROVE  /\ after[r].key = row[r].key
                      /\ after[r].node = row[r].node
                      /\ after[r].op > 0 => row[r].op > 0
    OBVIOUS
  <2>1. CASE after[r] = row[r]
    BY <2>1
  <2>2. ASSUME r \in T, NEW d, after[r] = Raised(row[r], d)
        PROVE  after[r].key = row[r].key /\ after[r].node = row[r].node /\ row[r].op > 0
    BY <2>2, RowTypes DEF Raised, Upserted
  <2> QED
    BY <2>1, <2>2
<1> QED
  BY <1>1, SamePairs

\* An upsert finds the row of its pair, or there is none.
LEMMA UpsertPairs ==
    ASSUME PlacementInv, PlacementAssumption, PairsAreUnique, NEW k \in Keys, NEW n \in Nodes,
           NEW q \in Slots(k, n), row'[q].key = k, row'[q].node = n,
           \A r \in Rows \ {q} : /\ row'[r].key = row[r].key
                                 /\ row'[r].node = row[r].node
                                 /\ row'[r].op > 0 => row[r].op > 0
    PROVE  PairsAreUnique'
<1>1. \A r \in Rows : row[r].op = 0 => row[r].key = None
  BY RowTypes DEF Rooted
<1>2. k # None
  BY DEF PlacementAssumption
<1>3. q \in Rows /\ \A r \in Rows \ {q} : row[r].key # k \/ row[r].node # n
  <2>1. CASE row[q].key = k /\ row[q].node = n
    <3>1. row[q].op > 0
      BY <1>1, <1>2, <2>1, RowTypes DEF Slots, Placements
    <3> QED
      BY <2>1, <3>1 DEF PairsAreUnique, Slots
  <2>2. CASE ~(row[q].key = k /\ row[q].node = n)
    BY <2>2 DEF Slots
  <2> QED
    BY <2>1, <2>2
<1> QED
  BY <1>3 DEF PairsAreUnique

\* A migration away from one node moves a row only where there is none.
LEMMA MigrationPairs ==
    ASSUME PlacementInv, PlacementAssumption, PairsAreUnique, NEW s, NEW to,
           DOMAIN to \subseteq Wants(s), \A r \in DOMAIN to : to[r] \in Nodes,
           row' = Migrated(to)
    PROVE  PairsAreUnique'
<1>1. \A r \in DOMAIN to : /\ r \in Rows /\ row[r].node = s
                           /\ row[r].op > 0 /\ row[r].key \in Keys
  BY RowTypes DEF Wants, RowsOn, Wanted
<1>2. \A q, r \in DOMAIN to : q # r => row[q].key # row[r].key
  BY <1>1 DEF PairsAreUnique
<1> DEFINE Gone(r) == r \in DOMAIN to /\ ~KeyOn(row[r].key, to[r])
<1>3. \A r \in Rows : Gone(r) => row'[r].key = row[r].key /\ row'[r].node = to[r]
  BY DEF Migrated, Upserted
<1>4. ASSUME NEW r \in Rows, ~Gone(r)
      PROVE  /\ row'[r].key = row[r].key
             /\ row'[r].node = row[r].node
             /\ row'[r].op > 0 => row[r].op > 0
  <2>1. CASE r \in DOMAIN to
    <3>1. row'[r] = [row[r] EXCEPT !.live = FALSE] /\ row[r] \in Placements
      BY <1>4, <2>1, RowTypes DEF Migrated
    <3>2. row'[r].key = row[r].key /\ row'[r].node = row[r].node
      BY <3>1 DEF Placements
    <3> QED
      BY <1>1, <2>1, <3>2
  <2>2. CASE r \notin DOMAIN to
        /\ \E q \in DOMAIN to : row[q].key = row[r].key /\ to[q] = row[r].node
    <3>1. row'[r] = Upserted(row[r], row[r].key, row[r].node, "active")
      BY <2>2 DEF Migrated
    <3>2. row[r].op > 0
      BY <1>1, <2>2, RowTypes DEF Rooted, Placements, PlacementAssumption
    <3> QED
      BY <3>1, <3>2 DEF Upserted
  <2>3. CASE r \notin DOMAIN to
        /\ ~\E q \in DOMAIN to : row[q].key = row[r].key /\ to[q] = row[r].node
    BY <2>3 DEF Migrated
  <2> QED
    BY <2>1, <2>2, <2>3
<1>5. ASSUME NEW q \in Rows, NEW r \in Rows, q # r, Gone(q)
      PROVE  row'[q].key # row'[r].key \/ row'[q].node # row'[r].node
  BY <1>2, <1>3, <1>4, <1>5 DEF KeyOn
<1> HIDE DEF Gone
<1>6. ASSUME NEW q \in Rows, NEW r \in Rows, q # r, row'[q].op > 0
      PROVE  row'[q].key # row'[r].key \/ row'[q].node # row'[r].node
  <2>1. CASE ~Gone(q) /\ ~Gone(r)
    BY <1>4, <1>6, <2>1 DEF PairsAreUnique
  <2> QED
    BY <1>5, <1>6, <2>1
<1> QED
  BY <1>6 DEF PairsAreUnique

\* Every step keeps the pairs apart.
LEMMA PairsStep ==
    ASSUME PlacementInv, PlacementAssumption, PairsAreUnique, [Next]_vars
    PROVE  PairsAreUnique'
<1>a. ASSUME row' = row PROVE PairsAreUnique'
  BY <1>a DEF PairsAreUnique
<1>b. ASSUME NEW k \in Keys, NEW n \in Nodes, NEW d, NEW q \in Slots(k, n),
             row' = [row EXCEPT ![q] = Upserted(row[q], k, n, d)]
      PROVE  PairsAreUnique'
  <2>1. q \in Rows /\ row'[q] = Upserted(row[q], k, n, d) /\ \A r \in Rows \ {q} : row'[r] = row[r]
    BY <1>b, RowTypes DEF Slots
  <2> QED
    BY <2>1, UpsertPairs DEF Upserted
<1>c. \A n : Wants(n) \subseteq RowsOn(n) /\ RowsOn(n) \subseteq Rows
             /\ \A r \in RowsOn(n) : row[r].live
  BY DEF Wants, RowsOn
<1>d. Serving \subseteq Nodes
  BY DEF Serving, PlacementInv, Ticking
<1>1. ASSUME NEW k \in Keys, NEW n \in Nodes, NEW d, AdminUpsert(k, n, d) \/ EnsurePlacement(k, n)
      PROVE  PairsAreUnique'
  <2>1. \E e : \E q \in Slots(k, n) : row' = [row EXCEPT ![q] = Upserted(row[q], k, n, e)]
    BY <1>1 DEF AdminUpsert, EnsurePlacement, Save
  <2> QED
    BY <1>b, <2>1
<1>2. ASSUME NEW T \in SUBSET Rows, \A r \in T : row[r].live, NEW d, row' = RaisedTo(T, d)
      PROVE  PairsAreUnique'
  <2>1. \A r \in Rows : \/ RaisedTo(T, d)[r] = row[r]
                        \/ r \in T /\ \E e : RaisedTo(T, d)[r] = Raised(row[r], e)
    BY DEF RaisedTo
  <2> QED
    BY <1>2, <2>1, RaisedPairs
<1>3. ASSUME NEW T \in SUBSET Rows, \A r \in T : row[r].live,
             row' = [r \in Rows |-> IF r \in T THEN Raised(row[r], row[r].desired) ELSE row[r]]
      PROVE  PairsAreUnique'
  <2>1. \A r \in Rows : \/ row'[r] = row[r]
                        \/ r \in T /\ \E e : row'[r] = Raised(row[r], e)
    BY <1>3
  <2> QED
    BY <1>3, <2>1, RaisedPairs
<1>4. ASSUME NEW k \in Keys, RevokeKey(k) \/ RestoreKey(k)
      PROVE  PairsAreUnique'
  <2>1. PICK d \in States : SetDesiredForKey(k, d)
    BY <1>4 DEF RevokeKey, RestoreKey, States
  <2> DEFINE T == {r \in RowsOf(k) : /\ row[r].node \in backends
                                     /\ row[r].desired # d \/ row[r].applied # "pending"}
  <2>2. T \in SUBSET Rows /\ (\A r \in T : row[r].live) /\ row' = RaisedTo(T, d)
    BY <2>1 DEF RowsOf, SetDesiredForKey, Save
  <2> HIDE DEF T
  <2> QED
    BY <1>2, <2>2
<1>5. ASSUME NEW K \in SUBSET Keys, ExpireKeys(K)
      PROVE  PairsAreUnique'
  <2> DEFINE T == {r \in Rows : /\ row[r].live
                                /\ row[r].key \in K
                                /\ row[r].desired # "inactive" \/ row[r].applied # "pending"}
  <2>1. T \in SUBSET Rows /\ (\A r \in T : row[r].live) /\ row' = RaisedTo(T, "inactive")
    BY <1>5 DEF ExpireKeys, Save
  <2> HIDE DEF T
  <2> QED
    BY <1>2, <2>1
<1>6. ASSUME NEW n, RequeueBackend(n) \/ RoleSwap(n) \/ NodeChanges(n)
      PROVE  PairsAreUnique'
  <2>1. CASE RequeueBackend(n)
    BY <1>3, <1>c, <2>1 DEF RequeueBackend, Save
  <2>2. CASE RoleSwap(n)
    BY <1>2, <1>c, <2>2 DEF RoleSwap, Save
  <2>3. CASE NodeChanges(n)
    BY <1>a, <2>3 DEF NodeChanges, table
  <2> QED
    BY <1>6, <2>1, <2>2, <2>3
<1>7. ASSUME NEW s, AutoHeal(s)
      PROVE  PairsAreUnique'
  <2>1. PICK to \in [IF Serving \ {s} = {} THEN {} ELSE Orphans(s) -> Serving \ {s}] :
            row' = Migrated(to)
    BY <1>7 DEF AutoHeal, MoveRows, Save
  <2>2. DOMAIN to \subseteq Wants(s) /\ \A r \in DOMAIN to : to[r] \in Nodes
    BY <1>d, <2>1 DEF Orphans
  <2> QED
    BY <2>1, <2>2, MigrationPairs
<1>8. ASSUME NEW s, NEW t \in Nodes, MigrateBackend(s, t) \/ DrainAndMigrate(s, t)
      PROVE  PairsAreUnique'
  <2> DEFINE to == [r \in Wants(s) |-> t]
  <2>1. row' = Migrated(to)
    BY <1>8 DEF MigrateBackend, DrainAndMigrate, MoveRows, Save
  <2>2. DOMAIN to \subseteq Wants(s) /\ \A r \in DOMAIN to : to[r] \in Nodes
    OBVIOUS
  <2> HIDE DEF to
  <2> QED
    BY <2>1, <2>2, MigrationPairs
<1>9. ASSUME NEW aged \in SUBSET Rows, ErrorRetry(aged)
      PROVE  PairsAreUnique'
  <2> DEFINE E == {r \in aged : row[r].live /\ row[r].applied = "error"}
  <2>1. /\ E \in SUBSET Rows /\ \A r \in E : row[r].live
        /\ row' = [r \in Rows |-> IF r \in E THEN Raised(row[r], row[r].desired) ELSE row[r]]
    BY <1>9 DEF ErrorRetry, Save
  <2> HIDE DEF E
  <2> QED
    BY <1>3, <2>1
<1>10. ASSUME NEW t \in tick, RebalanceCommit(t)
       PROVE  PairsAreUnique'
  <2>1. t.drained \in SUBSET Rows /\ t.pair \in SUBSET (Keys \X Nodes)
        /\ \A r \in t.drained : row[r].op > 0
    BY DEF PlacementInv, Ticking, Ticks, Raisable
  <2>2. \A r \in Rows : /\ Drained(t.drained)[r].key = row[r].key
                        /\ Drained(t.drained)[r].node = row[r].node
                        /\ Drained(t.drained)[r].op > 0 => row[r].op > 0
    BY <2>1 DEF Drained, TakenOff
  <2>3. CASE row' = Drained(t.drained)
    BY <2>2, <2>3, SamePairs
  <2>4. ASSUME NEW p \in t.pair, NEW q \in Slots(p[1], p[2]),
               row' = [Drained(t.drained) EXCEPT
                            ![q] = Upserted(row[q], p[1], p[2], "active")]
        PROVE  PairsAreUnique'
    <3>1. q \in Rows /\ p[1] \in Keys /\ p[2] \in Nodes
      BY <2>1 DEF Slots
    <3>2. /\ row'[q] = Upserted(row[q], p[1], p[2], "active")
          /\ \A r \in Rows \ {q} : row'[r] = Drained(t.drained)[r]
      BY <2>4, <3>1 DEF Drained
    <3>3. row'[q].key = p[1] /\ row'[q].node = p[2]
      BY <3>2 DEF Upserted
    <3> QED
      BY <2>2, <3>1, <3>2, <3>3, UpsertPairs
  <2> QED
    BY <1>10, <2>3, <2>4 DEF RebalanceCommit
<1>11. ASSUME RebalanceSelect \/ RebalanceAbort \/ UNCHANGED vars
       PROVE  PairsAreUnique'
  BY <1>11, <1>a DEF RebalanceSelect, RebalanceAbort, table, vars
<1>12. ASSUME Transport
       PROVE  PairsAreUnique'
  <2>1. ASSUME NEW m \in reports, NEW acked, HandleResult(m, acked)
        PROVE  PairsAreUnique'
    <3>1. CASE row' = [row EXCEPT ![m.row] = Reported(row[m.row], m.state)]
      <4>1. \A r \in Rows : /\ row'[r].key = row[r].key /\ row'[r].node = row[r].node
                            /\ row'[r].op > 0 => row[r].op > 0
        BY <3>1, RowTypes DEF Reported
      <4> QED
        BY <4>1, SamePairs
    <3> QED
      BY <1>a, <2>1, <3>1 DEF HandleResult
  <2>2. CASE row' = row
    BY <1>a, <2>2
  <2> QED
    BY <1>12, <2>1, <2>2
    DEF Transport, Publish, PublishCrash, CancelOutbox, CleanupOutbox, StreamDrops, Apply, table
<1> QED
  BY <1>1, <1>4, <1>5, <1>6, <1>7, <1>8, <1>9, <1>10, <1>11, <1>12
  DEF Next, ControlPlane, Rebalance, PlacementAssumption

-----------------------------------------------------------------------------
(* The theorems.                                                           *)

\* The invariant holds of the empty table.
LEMMA InitPlacement ==
    ASSUME PlacementAssumption, Init
    PROVE  PlacementInv /\ PairsAreUnique
<1>1. NoPlacement \in Placements /\ Rooted(NoPlacement) /\ ~Synced(NoPlacement)
      /\ NoPlacement.op = 0
  BY DEF NoPlacement, Placements, Rooted, Synced, States, PlacementAssumption
<1>2. [op |-> 0, desired |-> "inactive"] \in Held
  BY DEF Held, States, PlacementAssumption
<1>3. Shapes /\ \A r \in Rows : row[r] = NoPlacement
  BY <1>1, <1>2 DEF Init, Shapes
<1>4. \A a \in Agents, r \in Rows : held[a][r].op = 0
  BY DEF Init
<1>5. Core
  BY <1>1, <1>3, <1>4 DEF Core, VersionsNameOneState, Answered, Backed, Init
<1> QED
  BY <1>1, <1>3, <1>5 DEF PlacementInv, Ticking, PairsAreUnique, Init

\* It says what the properties say.
LEMMA InvImplies ==
    ASSUME PlacementAssumption, PlacementInv
    PROVE  TypeOK /\ SyncedIsTrue /\ VersionsNameOneState
<1>1. TypeOK
  BY DEF TypeOK, PlacementInv, Core, Shapes, Ticking
<1>2. ASSUME NEW r \in Rows, Synced(row[r])
      PROVE  held[row[r].node][r] = [op |-> row[r].op, desired |-> row[r].desired]
  <2>1. row[r] \in Placements /\ Rooted(row[r]) /\ held[row[r].node][r].op >= row[r].op
    BY <1>2 DEF PlacementInv, Core, Shapes, Backed
  <2>2. row[r].op \in Nat /\ row[r].op > 0 /\ row[r].node \in Agents
    BY <1>2, <2>1 DEF Placements, Rooted, Synced, Agents
  <2>3. held[row[r].node][r] \in Held
    BY <2>2 DEF PlacementInv, Core, Shapes
  <2>4. held[row[r].node][r].op > 0
    BY <2>1, <2>2, <2>3 DEF Held
  <2>5. Agrees(r, held[row[r].node][r].op, held[row[r].node][r].desired)
    BY <2>2, <2>4 DEF PlacementInv, Core, VersionsNameOneState
  <2>6. held[row[r].node][r].op = row[r].op /\ held[row[r].node][r].desired = row[r].desired
    BY <2>1, <2>2, <2>3, <2>5 DEF Agrees, Held
  <2> QED
    BY <2>3, <2>6 DEF Held
<1> QED
  BY <1>1, <1>2 DEF SyncedIsTrue, PlacementInv, Core

\* Every step keeps it.
LEMMA InvStep ==
    ASSUME PlacementAssumption, PlacementInv, [Next]_vars
    PROVE  PlacementInv'
<1>1. CASE UNCHANGED vars
  BY <1>1 DEF vars, PlacementInv, Core, Shapes, VersionsNameOneState, Agrees, Answered, Backed,
              Ticking
<1> QED
  BY <1>1, ControlStep, RebalanceStep, TransportStep DEF Next

\* A placement that a subscription document shows as synced is held by its
\* node at that version and in that state, and a version of a placement names
\* one desired state, whatever the transactions, the outbox, JetStream and the
\* agents do and in whatever order.
THEOREM SyncedPlacementsAreHeld ==
    Spec => [](TypeOK /\ SyncedIsTrue /\ VersionsNameOneState)
<1>1. Init => PlacementInv
  BY PlacementAssumption, InitPlacement
<1>2. PlacementInv /\ [Next]_vars => PlacementInv'
  BY PlacementAssumption, InvStep
<1>3. PlacementInv => TypeOK /\ SyncedIsTrue /\ VersionsNameOneState
  BY PlacementAssumption, InvImplies
<1> QED
  BY <1>1, <1>2, <1>3, PTL DEF Spec

\* No sequence of upserts, migrations and rebalance ticks makes two rows for
\* one key and node, retired rows included, so that none of them is aborted
\* by uq_user_placement_key_backend.
THEOREM PairsStayUnique == Spec => []PairsAreUnique
<1>1. Init => PlacementInv /\ PairsAreUnique
  BY PlacementAssumption, InitPlacement
<1>2. PlacementInv /\ PairsAreUnique /\ [Next]_vars => PlacementInv' /\ PairsAreUnique'
  BY PlacementAssumption, InvStep, PairsStep
<1> QED
  BY <1>1, <1>2, PTL DEF Spec
=============================================================================
