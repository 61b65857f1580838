-------------------------- MODULE TickLockProofs ----------------------------
(***************************************************************************)
(* TickLock for any set of replicas: the tick lock excludes until the      *)
(* first overrun, and the watchdog never holds a stopped loop.             *)
(***************************************************************************)
EXTENDS TickLock, TLAPS

(* The inductive strengthening: until the first overrun a ticking replica  *)
(* is the one whose SET created the key, so two of them cannot exist.      *)
TickerOwnsKey == ~overran => \A w \in Ticking : key = w

LockInv == TypeOK /\ TickerOwnsKey

(* One step of any loop, of Redis or of a crash keeps the strengthening.   *)
LEMMA LockStep == LockInv /\ [Next]_vars => LockInv'
<1> SUFFICES ASSUME LockInv, [Next]_vars PROVE LockInv'
  OBVIOUS
<1> USE DEF LockInv, TypeOK, TickerOwnsKey, Ticking, Points, Goto, Heartbeat
<1>1. ASSUME NEW w \in Workers, Start(w) PROVE LockInv'
  BY <1>1 DEF Start
<1>2. ASSUME NEW w \in Workers, LoopTest(w) PROVE LockInv'
  BY <1>2 DEF LoopTest
<1>3. ASSUME NEW w \in Workers, SkipTick(w) PROVE LockInv'
  BY <1>3 DEF SkipTick
<1>4. ASSUME NEW w \in Workers, AcquireFails(w) PROVE LockInv'
  BY <1>4, NoOneAssumption DEF AcquireFails
<1>5. ASSUME NEW w \in Workers, Acquire(w) PROVE LockInv'
  BY <1>5, NoOneAssumption DEF Acquire
<1>6. ASSUME NEW w \in Workers, TickEnds(w) PROVE LockInv'
  BY <1>6 DEF TickEnds
<1>7. ASSUME NEW w \in Workers, Release(w) PROVE LockInv'
  BY <1>7 DEF Release
<1>8. ASSUME NEW w \in Workers, Wait(w) PROVE LockInv'
  BY <1>8 DEF Wait
<1>9. ASSUME NEW w \in Workers, StopRequested(w) PROVE LockInv'
  BY <1>9 DEF StopRequested
<1>10. ASSUME NEW w \in Workers, Stopped(w) PROVE LockInv'
  BY <1>10 DEF Stopped
<1>11. ASSUME NEW w \in Workers, Crash(w) PROVE LockInv'
  BY <1>11 DEF Crash
<1>12. CASE PolicyChange
  BY <1>12 DEF PolicyChange
<1>13. CASE Expire
  BY <1>13, NoOneAssumption DEF Expire
<1>14. CASE UNCHANGED vars
  BY <1>14 DEF vars
<1> QED
  BY <1>1, <1>2, <1>3, <1>4, <1>5, <1>6, <1>7, <1>8, <1>9, <1>10, <1>11,
     <1>12, <1>13, <1>14 DEF Next, Loop

(* RedisTickLock.hold excludes: whatever the replicas, the crashes and the *)
(* Redis failures, two replicas tick at once only after some tick has      *)
(* outlived the TTL of its key.                                            *)
THEOREM TickLockExcludes == Spec => [](TypeOK /\ OneTickerUntilOverrun)
<1>1. Init => LockInv
  BY NoOneAssumption DEF Init, LockInv, TypeOK, TickerOwnsKey, Ticking, Points
<1>2. LockInv => TypeOK /\ OneTickerUntilOverrun
  BY DEF LockInv, TickerOwnsKey, OneTickerUntilOverrun
<1> QED
  BY <1>1, <1>2, LockStep, PTL DEF Spec

(* Reconciler.stop and start keep the watchdog's table exact: a name is    *)
(* registered precisely while its loop exists, in every replica.           *)
THEOREM WatchdogExact == Spec => []NoZombieRegistration
<1> DEFINE WInv == TypeOK /\ NoZombieRegistration
<1>1. Init => WInv
  BY NoOneAssumption DEF Init, TypeOK, Points, NoZombieRegistration
<1>2. WInv /\ [Next]_vars => WInv'
  <2> SUFFICES ASSUME WInv, [Next]_vars PROVE WInv'
    OBVIOUS
  <2>1. TypeOK'
    <3>1. CASE UNCHANGED vars
      BY <3>1 DEF vars, TypeOK
    <3>2. CASE Next
      BY <3>2, NoOneAssumption
         DEF Next, Loop, TypeOK, Points, Goto, Heartbeat, Start, LoopTest, SkipTick,
             AcquireFails, Acquire, TickEnds, Release, Wait, StopRequested, Stopped,
             Crash, PolicyChange, Expire
    <3> QED BY <3>1, <3>2
  <2>2. NoZombieRegistration'
    <3> USE DEF TypeOK, NoZombieRegistration, Goto, Heartbeat
    <3>1. ASSUME NEW w \in Workers, Start(w) \/ Stopped(w) \/ Crash(w) PROVE NoZombieRegistration'
      BY <3>1 DEF Start, Stopped, Crash
    <3>2. ASSUME NEW w \in Workers, Loop(w) \/ StopRequested(w) PROVE NoZombieRegistration'
      BY <3>2 DEF Loop, LoopTest, SkipTick, AcquireFails, Acquire, TickEnds, Release, Wait,
                  StopRequested
    <3>3. CASE PolicyChange \/ Expire \/ UNCHANGED vars
      BY <3>3 DEF PolicyChange, Expire, vars
    <3> QED BY <3>1, <3>2, <3>3 DEF Next
  <2> QED BY <2>1, <2>2
<1> QED
  BY <1>1, <1>2, PTL DEF Spec
=============================================================================
