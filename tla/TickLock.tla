------------------------------ MODULE TickLock ------------------------------
(***************************************************************************)
(* The periodic reconcilers (shared/reconciler/base.py) as they run in     *)
(* several worker replicas, one loop of the same name per replica, and the *)
(* Redis key (shared/redis/lock.py) that is meant to let one of them tick  *)
(* at a time.  The loop's await points are the steps; Redis may fail a     *)
(* call, a process may crash, and the key's TTL may lapse at any time,     *)
(* because nothing bounds the duration of a tick.                          *)
(*                                                                         *)
(* The process-wide client exists in every replica: connect_redis raises   *)
(* out of the lifespan otherwise, so the lock's fail-open branch is        *)
(* unreachable here.                                                       *)
(***************************************************************************)
CONSTANTS
    Workers,    \* the replicas
    NoOne       \* no replica

ASSUME NoOneAssumption == NoOne \notin Workers

VARIABLES
    pc,         \* pc[w]: where the loop _run of replica w is
    stopping,   \* stopping[w]: _stop_event is set
    registered, \* registered[w]: the name is in the watchdog's tables
    enabled,    \* what is_enabled() answers (a row of the policy table)
    key,        \* whose SET created the Redis key, NoOne when it is absent
    overran     \* ghost: some tick outlived the TTL of its key

vars == <<pc, stopping, registered, enabled, key, overran>>

\* "none": _task is None; "top": the loop test; "enter": before the SET;
\* "tick": inside tick(); "release": before the DELETE; "wait": waiting for
\* the stop event or the interval; "done": _run has returned.
Points == {"none", "top", "enter", "tick", "release", "wait", "done"}

Init ==
    /\ pc = [w \in Workers |-> "none"]
    /\ stopping = [w \in Workers |-> FALSE]
    /\ registered = [w \in Workers |-> FALSE]
    /\ enabled \in BOOLEAN
    /\ key = NoOne
    /\ overran = FALSE

Goto(w, point) == pc' = [pc EXCEPT ![w] = point]

\* watchdog.heartbeat writes the name whether or not it is registered.
Heartbeat(w) == registered' = [registered EXCEPT ![w] = TRUE]

-----------------------------------------------------------------------------
\* A faulty variant: the task is recorded and nothing else.
StartUnregistered(w) ==
    /\ pc[w] = "none"
    /\ Goto(w, "started")
    /\ UNCHANGED <<stopping, registered, enabled, key, overran>>

\* start() clears the stop event, registers the name and creates the task.
Start(w) ==
    /\ pc[w] = "none"
    /\ stopping' = [stopping EXCEPT ![w] = FALSE]
    /\ registered' = [registered EXCEPT ![w] = TRUE]
    /\ Goto(w, "top")
    /\ UNCHANGED <<enabled, key, overran>>

LoopTest(w) ==
    /\ pc[w] = "top"
    /\ Goto(w, IF stopping[w] THEN "done" ELSE "enter")
    /\ UNCHANGED <<stopping, registered, enabled, key, overran>>

\* run_once returns without ticking: disabled, an exception of the policy
\* query, or the key is taken; _run then beats and waits.
SkipTick(w) ==
    /\ pc[w] = "enter"
    /\ Heartbeat(w)
    /\ Goto(w, "wait")
    /\ UNCHANGED <<stopping, enabled, key, overran>>

\* The SET raises, having reached Redis or not: hold() yields False.
AcquireFails(w) ==
    /\ pc[w] = "enter"
    /\ enabled
    /\ \/ key' = key
       \/ key = NoOne /\ key' = w
    /\ Heartbeat(w)
    /\ Goto(w, "wait")
    /\ UNCHANGED <<stopping, enabled, overran>>

\* A faulty variant: SET without NX.
AcquireBlind(w) ==
    /\ pc[w] = "enter"
    /\ enabled
    /\ key' = w
    /\ Goto(w, "tick")
    /\ UNCHANGED <<stopping, registered, enabled, overran>>

\* SET key "1" NX EX ttl answers OK.
Acquire(w) ==
    /\ pc[w] = "enter"
    /\ enabled
    /\ key = NoOne
    /\ key' = w
    /\ Goto(w, "tick")
    /\ UNCHANGED <<stopping, registered, enabled, overran>>

\* tick() returns or raises; either way the finally clause runs next.
TickEnds(w) ==
    /\ pc[w] = "tick"
    /\ Goto(w, "release")
    /\ UNCHANGED <<stopping, registered, enabled, key, overran>>

\* DELETE key: unconditional, whoever's SET created it; its failure is logged.
Release(w) ==
    /\ pc[w] = "release"
    /\ key' \in {NoOne, key}
    /\ Heartbeat(w)
    /\ Goto(w, "wait")
    /\ UNCHANGED <<stopping, enabled, overran>>

Wait(w) ==
    /\ pc[w] = "wait"
    /\ Goto(w, "top")
    /\ UNCHANGED <<stopping, registered, enabled, key, overran>>

StopRequested(w) ==
    /\ pc[w] # "none"
    /\ ~stopping[w]
    /\ stopping' = [stopping EXCEPT ![w] = TRUE]
    /\ UNCHANGED <<pc, registered, enabled, key, overran>>

\* A faulty variant: the name is unregistered before the task has ended.
StoppedWithoutAwait(w) ==
    /\ stopping[w]
    /\ pc[w] # "none"
    /\ registered' = [registered EXCEPT ![w] = FALSE]
    /\ UNCHANGED <<pc, stopping, enabled, key, overran>>

\* stop() resumes once the task it awaits is done.
Stopped(w) ==
    /\ stopping[w]
    /\ pc[w] = "done"
    /\ Goto(w, "none")
    /\ registered' = [registered EXCEPT ![w] = FALSE]
    /\ UNCHANGED <<stopping, enabled, key, overran>>

\* The process dies: its memory is gone, the Redis key stays.
Crash(w) ==
    /\ pc[w] # "none"
    /\ Goto(w, "none")
    /\ stopping' = [stopping EXCEPT ![w] = FALSE]
    /\ registered' = [registered EXCEPT ![w] = FALSE]
    /\ UNCHANGED <<enabled, key, overran>>

PolicyChange ==
    /\ enabled' = ~enabled
    /\ UNCHANGED <<pc, stopping, registered, key, overran>>

\* A faulty variant: SET without EX.
NeverExpires ==
    /\ FALSE
    /\ UNCHANGED vars

\* The TTL given to SET lapses.
Expire ==
    /\ key # NoOne
    /\ key' = NoOne
    /\ overran' = (overran \/ pc[key] \in {"tick", "release"})
    /\ UNCHANGED <<pc, stopping, registered, enabled>>

Loop(w) ==
    LoopTest(w) \/ SkipTick(w) \/ AcquireFails(w) \/ Acquire(w) \/ TickEnds(w)
    \/ Release(w) \/ Wait(w)

Next ==
    \/ \E w \in Workers : Start(w) \/ Loop(w) \/ StopRequested(w) \/ Stopped(w) \/ Crash(w)
    \/ PolicyChange
    \/ Expire

\* The event loop runs a ready task and Redis expires keys; a call to Redis
\* succeeds now and then if it is retried for ever.
Fairness ==
    /\ WF_vars(Expire)
    /\ \A w \in Workers : WF_vars(Loop(w)) /\ SF_vars(Acquire(w))

Spec == Init /\ [][Next]_vars /\ Fairness

-----------------------------------------------------------------------------
Ticking == {w \in Workers : pc[w] \in {"tick", "release"}}

(* Every variable stays in its domain. *)
TypeOK ==
    /\ pc \in [Workers -> Points]
    /\ stopping \in [Workers -> BOOLEAN]
    /\ registered \in [Workers -> BOOLEAN]
    /\ enabled \in BOOLEAN
    /\ key \in Workers \cup {NoOne}
    /\ overran \in BOOLEAN

(* RedisTickLock.hold: as long as no tick has outlived its TTL, at most one *)
(* replica is between the SET that answered OK and its DELETE.  (After the  *)
(* first overrun nothing is promised: the late DELETE removes the key of    *)
(* whoever holds it by then.)                                               *)
OneTickerUntilOverrun ==
    ~overran => \A v, w \in Ticking : v = w

(* Reconciler.stop awaits the task before it unregisters the name, so no    *)
(* late heartbeat can put a stopped loop back into the watchdog's tables,   *)
(* where it would grow stale and fail the liveness probe for ever.          *)
NoZombieRegistration ==
    \A w \in Workers : registered[w] <=> pc[w] # "none"

(* A key left behind by a crash, by a DELETE that failed or by a SET whose  *)
(* answer was lost does not end the reconciliation: if from some time on    *)
(* the policy is enabled and a replica keeps running, ticks keep happening. *)
KeepsTicking ==
    (\E w \in Workers : <>[](enabled /\ pc[w] # "none" /\ ~stopping[w])) => []<>(Ticking # {})
=============================================================================
