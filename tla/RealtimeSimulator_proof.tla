---------------------- MODULE RealtimeSimulator_proof ----------------------
(***************************************************************************)
(* For any number of events and threads, any delays and any clock: no      *)
(* wake-up is lost, and in the first Run no event is executed before its   *)
(* time or out of order, and no assertion fails.                           *)
(***************************************************************************)
EXTENDS RealtimeSimulator, FiniteSetTheorems, TLAPS

\* The first key comes before the second.
Earlier(t1, u1, t2, u2) == t1 < t2 \/ (t1 = t2 /\ u1 < u2)

Types ==
    /\ events \subseteq used /\ used \subseteq Event /\ handles \subseteq used
    /\ ts \in [Event -> Nat] /\ uid \in [Event -> Nat] /\ nextUid \in Nat
    /\ now \in Nat /\ cur \in Nat /\ real \in Nat /\ target \in Nat

\* Ids are fresh when they are handed out.
UidsFresh == cur < nextUid /\ \A e \in events : uid[e] < nextUid

\* Events in the list are in the future of the last event removed from it.
InFuture == \A e \in events : Earlier(now, cur, ts[e], uid[e])

Counted == IsFiniteSet(events) /\ unscheduled = Cardinality(events)

HandlesKnown ==
    \A e \in handles : e \in events \union cancelled \/ ~ Earlier(now, cur, ts[e], uid[e])

QueueInv == Types /\ UidsFresh /\ InFuture /\ Counted /\ HandlesKnown

\* What the main thread waits for is late enough, see also NoLostWakeup.
Due ==
    /\ pc \in Waiting /\ busy => \E e \in events : ts[e] <= target
    /\ pc = "take" => \E e \in events : ts[e] <= real
    /\ pc = "sync" => events # {}

\* Until the wall clock is set to 0, in the first Run, the simulated time is 0.
FirstRun ==
    /\ runs \in Nat /\ (runs = 0 => pc = "outside")
    /\ runs = 0 \/ pc = "starting" => now = 0
    /\ now <= real

WaitInv == Due /\ FirstRun /\ NoLostWakeup

IInv == QueueInv /\ WaitInv

-----------------------------------------------------------------------------
\* Nothing is scheduled initially.
LEMMA InitInv == Init => IInv
<1> SUFFICES ASSUME Init PROVE IInv
  OBVIOUS
<1>1. IsFiniteSet({}) /\ Cardinality({}) = 0
  BY FS_EmptySet
<1>2. Types /\ UidsFresh /\ InFuture /\ HandlesKnown
  BY RealtimeAssumption DEF Init, Types, UidsFresh, InFuture, HandlesKnown, INVALID, VALID
<1>3. Counted
  BY <1>1 DEF Init, Counted
<1>4. WaitInv
  BY RealtimeAssumption DEF Init, WaitInv, Due, FirstRun, NoLostWakeup, Waiting
<1> QED BY <1>2, <1>3, <1>4 DEF IInv, QueueInv

\* A new event has a key in the future, and the main thread is signalled.
LEMMA InsertInv ==
    ASSUME IInv, NEW e \in Event, NEW t \in Nat, now <= t, Insert(e, t),
           handles' = handles \/ handles' = handles \union {e}
    PROVE  IInv'
<1>1. /\ events \subseteq used /\ used \subseteq Event /\ handles \subseteq used
      /\ ts \in [Event -> Nat] /\ uid \in [Event -> Nat] /\ nextUid \in Nat
      /\ now \in Nat /\ cur \in Nat /\ real \in Nat /\ target \in Nat /\ cur < nextUid
  BY DEF IInv, QueueInv, Types, UidsFresh
<1>2. /\ e \notin used /\ events' = events \union {e} /\ used' = used \union {e}
      /\ ts' = [ts EXCEPT ![e] = t] /\ uid' = [uid EXCEPT ![e] = nextUid]
      /\ nextUid' = nextUid + 1 /\ unscheduled' = unscheduled + 1 /\ condition'
      /\ UNCHANGED <<pc, busy, target, real, now, cur, cancelled, runs>>
  BY DEF Insert
<1>3. ts'[e] = t /\ uid'[e] = nextUid /\ \A f \in used : ts'[f] = ts[f] /\ uid'[f] = uid[f]
  BY <1>1, <1>2
<1>4. Types'
  <2>1. ts' \in [Event -> Nat] /\ uid' \in [Event -> Nat] /\ nextUid' \in Nat
    BY <1>1, <1>2
  <2>2. events' \subseteq used' /\ used' \subseteq Event /\ handles' \subseteq used'
    BY <1>1, <1>2
  <2> QED BY <1>1, <1>2, <2>1, <2>2 DEF Types
<1>5. UidsFresh'
  <2>1. \A f \in events : uid[f] \in Nat /\ uid[f] < nextUid
    BY <1>1 DEF IInv, QueueInv, UidsFresh
  <2> SUFFICES ASSUME NEW f \in events' PROVE uid'[f] < nextUid + 1
    BY <1>1, <1>2 DEF UidsFresh
  <2> QED BY <1>1, <1>2, <1>3, <2>1
<1>6. InFuture'
  <2> SUFFICES ASSUME NEW f \in events' PROVE Earlier(now, cur, ts'[f], uid'[f])
    BY <1>2 DEF InFuture, Earlier
  <2>1. CASE f = e
    BY <1>1, <1>3, <2>1 DEF Earlier
  <2>2. CASE f \in events
    <3>1. ts'[f] = ts[f] /\ uid'[f] = uid[f]
      BY <1>1, <1>3, <2>2
    <3> QED BY <2>2, <3>1 DEF IInv, QueueInv, InFuture
  <2> QED BY <1>2, <2>1, <2>2
<1>7. Counted'
  <2>1. IsFiniteSet(events) /\ unscheduled = Cardinality(events) /\ e \notin events
    BY <1>1, <1>2 DEF IInv, QueueInv, Counted
  <2>2. IsFiniteSet(events \union {e}) /\ Cardinality(events \union {e}) = Cardinality(events) + 1
    BY <2>1, FS_AddElement
  <2> QED BY <1>2, <2>1, <2>2 DEF Counted
<1>8. HandlesKnown'
  <2> SUFFICES ASSUME NEW f \in handles'
               PROVE  f \in events' \union cancelled \/ ~ Earlier(now, cur, ts'[f], uid'[f])
    BY <1>2 DEF HandlesKnown, Earlier
  <2>1. CASE f = e
    BY <1>2, <2>1
  <2>2. CASE f \in handles
    <3>1. ts'[f] = ts[f] /\ uid'[f] = uid[f]
      BY <1>1, <1>3, <2>2
    <3> QED BY <1>2, <2>2, <3>1 DEF IInv, QueueInv, HandlesKnown
  <2> QED BY <2>1, <2>2
<1>9. WaitInv'
  <2>1. \A f \in events : f \in events' /\ ts'[f] = ts[f]
    BY <1>1, <1>2, <1>3
  <2>2. Due'
    <3>1. pc \in Waiting /\ busy => \E f \in events' : ts'[f] <= target
      BY <2>1 DEF IInv, WaitInv, Due
    <3>2. pc = "take" => \E f \in events' : ts'[f] <= real
      BY <2>1 DEF IInv, WaitInv, Due
    <3> QED BY <1>2, <3>1, <3>2 DEF Due
  <2>3. FirstRun'
    BY <1>2 DEF IInv, WaitInv, FirstRun
  <2>4. NoLostWakeup'
    BY <1>2 DEF NoLostWakeup
  <2> QED BY <2>2, <2>3, <2>4 DEF WaitInv
<1> QED BY <1>4, <1>5, <1>6, <1>7, <1>8, <1>9 DEF IInv, QueueInv

\* Every Schedule function computes a time that is not in the past.
LEMMA ScheduleInv ==
    ASSUME IInv, Schedule \/ RemoteSchedule \/ ScheduleRealtime PROVE IInv'
<1>1. now \in Nat /\ real \in Nat /\ now <= real
  BY DEF IInv, QueueInv, Types, WaitInv, FirstRun
<1>2. PICK e \in Event, delay \in 0 .. MaxDelay, base \in {now, real} :
         Insert(e, base + delay) /\ (handles' = handles \/ handles' = handles \union {e})
  <2>1. CASE Schedule
    BY <2>1 DEF Schedule
  <2>2. CASE RemoteSchedule
    BY <2>2 DEF RemoteSchedule, RealtimeTs
  <2>3. CASE ScheduleRealtime
    BY <2>3 DEF ScheduleRealtime
  <2> QED BY <2>1, <2>2, <2>3
<1>3. base + delay \in Nat /\ now <= base + delay
  BY <1>1, RealtimeAssumption
<1> QED BY <1>2, <1>3, InsertInv

\* A cancelled event stays in the list; a removed one was there.
LEMMA CancelInv == ASSUME IInv, Cancel \/ Remove PROVE IInv'
<1>1. CASE Cancel
  <2>1. UNCHANGED <<pc, busy, target, condition, real, events, ts, uid, nextUid, unscheduled, used>>
        /\ UNCHANGED <<now, cur, handles, runs>> /\ cancelled \subseteq cancelled'
    BY <1>1 DEF Cancel, sync, list
  <2>2. Types' /\ UidsFresh' /\ InFuture' /\ Counted'
    BY <2>1 DEF IInv, QueueInv, Types, UidsFresh, InFuture, Counted
  <2>3. HandlesKnown'
    BY <2>1 DEF IInv, QueueInv, HandlesKnown
  <2>4. WaitInv'
    BY <2>1 DEF IInv, WaitInv, Due, FirstRun, NoLostWakeup
  <2> QED BY <2>2, <2>3, <2>4 DEF IInv, QueueInv
<1>2. CASE Remove
  <2>1. PICK e \in handles :
           ~ IsExpired(e) /\ events' = events \ {e} /\ cancelled' = cancelled \union {e}
    BY <1>2 DEF Remove
  <2>2. UNCHANGED <<pc, busy, target, condition, real, ts, uid, nextUid, used>>
        /\ UNCHANGED <<now, cur, handles, runs>> /\ unscheduled' = unscheduled - 1
        /\ pc \in {"outside", "event"}
    BY <1>2 DEF Remove, sync, InUserCode
  <2>3. e \in events
    <3>1. e \notin cancelled /\ ~ (ts[e] < now \/ (ts[e] = now /\ uid[e] <= cur))
      BY <2>1 DEF IsExpired
    <3>2. now \in Nat /\ cur \in Nat /\ ts[e] \in Nat /\ uid[e] \in Nat
      BY DEF IInv, QueueInv, Types
    <3>3. Earlier(now, cur, ts[e], uid[e])
      BY <3>1, <3>2 DEF Earlier
    <3> QED BY <3>1, <3>3 DEF IInv, QueueInv, HandlesKnown
  <2>4. Types' /\ UidsFresh' /\ InFuture'
    BY <2>1, <2>2 DEF IInv, QueueInv, Types, UidsFresh, InFuture
  <2>5. Counted'
    <3>1. IsFiniteSet(events) /\ unscheduled = Cardinality(events)
      BY DEF IInv, QueueInv, Counted
    <3>2. IsFiniteSet(events \ {e}) /\ Cardinality(events \ {e}) = Cardinality(events) - 1
      BY <2>3, <3>1, FS_RemoveElement
    <3> QED BY <2>1, <2>2, <3>1, <3>2 DEF Counted
  <2>6. HandlesKnown'
    BY <2>1, <2>2 DEF IInv, QueueInv, HandlesKnown
  <2>7. WaitInv'
    BY <2>2 DEF IInv, WaitInv, Due, FirstRun, NoLostWakeup, Waiting
  <2> QED BY <2>4, <2>5, <2>6, <2>7 DEF IInv, QueueInv
<1> QED BY <1>1, <1>2

\* The list is left alone by the steps of the clock and of the main thread but one.
LEMMA ListUnchanged ==
    ASSUME QueueInv, UNCHANGED <<list, now, cur, user>>, real' \in Nat, target' \in Nat
    PROVE  QueueInv'
BY DEF list, user, QueueInv, Types, UidsFresh, InFuture, Counted, HandlesKnown

\* The clock goes on.
LEMMA TickInv == ASSUME IInv, Tick PROVE IInv'
<1>1. real \in Nat /\ now \in Nat /\ target \in Nat /\ ts \in [Event -> Nat] /\ events \subseteq Event
  BY DEF IInv, QueueInv, Types
<1>2. /\ real' = real + 1
      /\ UNCHANGED <<pc, busy, target, condition, events, ts, now, runs>>
      /\ UNCHANGED <<list, now, cur, user>>
  BY DEF Tick, sync, list
<1>3. QueueInv'
  BY <1>1, <1>2, ListUnchanged DEF IInv
<1>4. Due'
  BY <1>1, <1>2 DEF IInv, WaitInv, Due
<1>5. FirstRun'
  BY <1>1, <1>2 DEF IInv, WaitInv, FirstRun
<1>6. NoLostWakeup'
  BY <1>1, <1>2 DEF IInv, WaitInv, NoLostWakeup
<1> QED BY <1>3, <1>4, <1>5, <1>6 DEF IInv, WaitInv

\* The steps outside Synchronize that take no event.
LEMMA RunInv ==
    ASSUME MaxRuns = 1, IInv,
           Stop \/ Run \/ SetOrigin \/ RunLoop \/ ComputeDelay \/ EventReturns \/ UNCHANGED vars
    PROVE  IInv'
<1>1. /\ real \in Nat /\ now \in Nat /\ target \in Nat /\ ts \in [Event -> Nat]
      /\ events \subseteq Event /\ runs \in Nat /\ now <= real
      /\ (runs = 0 => pc = "outside") /\ (runs = 0 \/ pc = "starting" => now = 0)
  BY DEF IInv, QueueInv, Types, WaitInv, FirstRun
<1>2. UNCHANGED <<list, now, cur, user>>
  BY DEF Stop, Run, SetOrigin, RunLoop, ComputeDelay, EventReturns, vars
<1>3. UNCHANGED <<events, ts, now>>
  BY <1>2 DEF list
<1>4. CASE Stop \/ UNCHANGED vars
  <2>1. UNCHANGED <<pc, busy, target, condition, real, runs>>
    BY <1>4 DEF Stop, vars, sync
  <2>2. QueueInv'
    BY <1>1, <1>2, <2>1, ListUnchanged DEF IInv
  <2> QED BY <1>3, <2>1, <2>2 DEF IInv, WaitInv, Due, FirstRun, NoLostWakeup
<1>5. CASE Run
  <2>1. pc' = "starting" /\ UNCHANGED <<target, real>> /\ runs = 0 /\ runs' = 1
    BY <1>1, <1>5 DEF Run, sync
  <2>2. QueueInv'
    BY <1>1, <1>2, <2>1, ListUnchanged DEF IInv
  <2> QED BY <1>1, <1>3, <2>1, <2>2 DEF IInv, WaitInv, Due, FirstRun, NoLostWakeup, Waiting
<1>6. CASE SetOrigin
  <2>1. pc = "starting" /\ pc' = "loop" /\ real' = 0 /\ UNCHANGED <<target, runs>>
    BY <1>6 DEF SetOrigin, sync
  <2>2. QueueInv'
    BY <1>1, <1>2, <2>1, ListUnchanged DEF IInv
  <2> QED BY <1>1, <1>3, <2>1, <2>2 DEF IInv, WaitInv, Due, FirstRun, NoLostWakeup, Waiting
<1>7. CASE RunLoop
  <2>1. /\ pc = "loop" /\ UNCHANGED <<real, runs>>
        /\ \/ pc' = "outside" /\ target' = target
           \/ pc' = "sync" /\ target' = target /\ events # {}
           \/ pc' = "enter" /\ ~ busy' /\ target' = real + IDLE /\ events = {}
    BY <1>7 DEF RunLoop, sync
  <2>2. target' \in Nat /\ real' \in Nat
    BY <1>1, <2>1, RealtimeAssumption
  <2>3. QueueInv'
    BY <1>2, <2>2, ListUnchanged DEF IInv
  <2> QED BY <1>1, <1>3, <2>1, <2>3 DEF IInv, WaitInv, Due, FirstRun, NoLostWakeup, Waiting
<1>8. CASE ComputeDelay
  <2>1. /\ pc = "sync" /\ pc' = "enter" /\ busy' /\ UNCHANGED <<real, runs>>
        /\ \E e \in events : First(e) /\ target' = Later(ts[e], real)
    BY <1>8 DEF ComputeDelay
  <2>2. PICK e \in events : First(e) /\ target' = Later(ts[e], real)
    BY <2>1
  <2>3. target' \in Nat /\ ts[e] <= target' /\ (target' <= real \/ target' = ts[e])
    BY <1>1, <2>2 DEF Later
  <2>4. \A f \in events : ts[e] <= ts[f]
    BY <1>1, <2>2 DEF First
  <2>5. QueueInv'
    BY <1>1, <1>2, <2>1, <2>3, ListUnchanged DEF IInv
  <2>6. Due' /\ FirstRun'
    BY <1>1, <1>3, <2>1, <2>3 DEF Due, FirstRun, Waiting
  <2>7. NoLostWakeup'
    BY <1>3, <2>1, <2>3, <2>4 DEF NoLostWakeup
  <2> QED BY <2>5, <2>6, <2>7 DEF IInv, WaitInv
<1>9. CASE EventReturns
  <2>1. pc = "event" /\ pc' = "loop" /\ UNCHANGED <<target, real, runs>>
    BY <1>9 DEF EventReturns, sync
  <2>2. QueueInv'
    BY <1>1, <1>2, <2>1, ListUnchanged DEF IInv
  <2> QED BY <1>1, <1>3, <2>1, <2>2 DEF IInv, WaitInv, Due, FirstRun, NoLostWakeup, Waiting
<1> QED BY <1>4, <1>5, <1>6, <1>7, <1>8, <1>9

\* Synchronize returns true only when the time has come.
LEMMA SynchronizeInv ==
    ASSUME IInv, Synchronize \/ SleepWait \/ GetDrift \/ SpinWait PROVE IInv'
<1>1. /\ real \in Nat /\ now \in Nat /\ target \in Nat /\ ts \in [Event -> Nat]
      /\ events \subseteq Event
  BY DEF IInv, QueueInv, Types
<1>2. /\ UNCHANGED <<list, now, cur, user>> /\ UNCHANGED <<busy, target, condition, real, runs>>
      /\ pc \in Waiting
      /\ \/ pc' \in Waiting
         \/ ~ busy /\ pc' = "loop"
         \/ busy /\ pc' = "sync"
         \/ busy /\ pc' = "take" /\ real >= target
  BY DEF Synchronize, SleepWait, GetDrift, SpinWait, GoTo, Return, sync, Waiting
<1>3. UNCHANGED <<events, ts, now>>
  BY <1>2 DEF list
<1>4. QueueInv'
  BY <1>1, <1>2, ListUnchanged DEF IInv
<1>5. busy => \E e \in events : ts[e] <= target
  BY <1>2 DEF IInv, WaitInv, Due
<1>6. Due'
  <2>1. CASE pc' \in Waiting
    BY <1>2, <1>3, <1>5, <2>1 DEF Due, Waiting
  <2>2. CASE ~ busy /\ pc' = "loop"
    BY <2>2 DEF Due, Waiting
  <2>3. CASE busy /\ pc' = "sync"
    BY <1>3, <1>5, <2>3 DEF Due, Waiting
  <2>4. CASE busy /\ pc' = "take" /\ real >= target
    <3>1. PICK e \in events : ts[e] <= target
      BY <1>5, <2>4
    <3>2. ts[e] <= real
      BY <1>1, <2>4, <3>1
    <3> QED BY <1>2, <1>3, <2>4, <3>2 DEF Due, Waiting
  <2> QED BY <1>2, <2>1, <2>2, <2>3, <2>4
<1>7. FirstRun'
  BY <1>2, <1>3 DEF IInv, WaitInv, FirstRun, Waiting
<1>8. NoLostWakeup'
  BY <1>2, <1>3 DEF IInv, WaitInv, NoLostWakeup
<1> QED BY <1>4, <1>6, <1>7, <1>8 DEF IInv, WaitInv

\* The event taken is due, and is the first of those in the future.
LEMMA TakeInv ==
    ASSUME IInv, TakeEvent
    PROVE  IInv' /\ Earlier(now, cur, now', cur')
<1>1. PICK e \in events : First(e) /\ events' = events \ {e} /\ now' = ts[e] /\ cur' = uid[e]
  BY DEF TakeEvent
<1>2. /\ pc = "take" /\ pc' \in {"fatal", "loop", "event"} /\ unscheduled' = unscheduled - 1
      /\ UNCHANGED <<target, real, ts, uid, nextUid, used, handles, cancelled, runs>>
  BY DEF TakeEvent, sync, user
<1>3. /\ events \subseteq Event /\ events \subseteq used /\ used \subseteq Event
      /\ handles \subseteq used /\ ts \in [Event -> Nat] /\ uid \in [Event -> Nat]
      /\ nextUid \in Nat /\ now \in Nat /\ cur \in Nat /\ real \in Nat /\ target \in Nat
  BY DEF IInv, QueueInv, Types
<1>4. Earlier(now, cur, ts[e], uid[e]) /\ uid[e] < nextUid
  BY DEF IInv, QueueInv, InFuture, UidsFresh
<1>5. \A f \in events \ {e} : Earlier(ts[e], uid[e], ts[f], uid[f])
  BY <1>1 DEF First, Earlier
<1>6. ts[e] <= real
  <2>1. PICK f \in events : ts[f] <= real
    BY <1>2 DEF IInv, WaitInv, Due
  <2>2. ts[e] <= ts[f]
    BY <1>1, <1>3 DEF First
  <2> QED BY <1>3, <2>1, <2>2
<1>7. Types'
  BY <1>1, <1>2, <1>3 DEF Types
<1>8. UidsFresh'
  BY <1>1, <1>2, <1>4 DEF IInv, QueueInv, UidsFresh
<1>9. InFuture'
  BY <1>1, <1>2, <1>5 DEF InFuture
<1>10. Counted'
  <2>1. IsFiniteSet(events) /\ unscheduled = Cardinality(events)
    BY DEF IInv, QueueInv, Counted
  <2>2. IsFiniteSet(events \ {e}) /\ Cardinality(events \ {e}) = Cardinality(events) - 1
    BY <2>1, FS_RemoveElement
  <2> QED BY <1>1, <1>2, <2>1, <2>2 DEF Counted
<1>11. HandlesKnown'
  <2> SUFFICES ASSUME NEW f \in handles
               PROVE  f \in (events \ {e}) \union cancelled
                      \/ ~ Earlier(ts[e], uid[e], ts[f], uid[f])
    BY <1>1, <1>2 DEF HandlesKnown, Earlier
  <2>1. ts[f] \in Nat /\ uid[f] \in Nat /\ ts[e] \in Nat /\ uid[e] \in Nat
    BY <1>3
  <2>2. CASE f = e
    BY <2>1, <2>2 DEF Earlier
  <2>3. CASE f # e
    <3>1. f \in events \union cancelled \/ ~ Earlier(now, cur, ts[f], uid[f])
      BY DEF IInv, QueueInv, HandlesKnown
    <3>2. Earlier(ts[e], uid[e], ts[f], uid[f]) => Earlier(now, cur, ts[f], uid[f])
      BY <1>3, <1>4, <2>1 DEF Earlier
    <3> QED BY <2>3, <3>1, <3>2
  <2> QED BY <2>2, <2>3
<1>12. WaitInv'
  <2>1. Due' /\ NoLostWakeup'
    BY <1>2 DEF Due, NoLostWakeup, Waiting
  <2>2. FirstRun'
    BY <1>1, <1>2, <1>6 DEF IInv, WaitInv, FirstRun
  <2> QED BY <2>1, <2>2 DEF WaitInv
<1> QED BY <1>1, <1>4, <1>7, <1>8, <1>9, <1>10, <1>11, <1>12 DEF IInv, QueueInv

-----------------------------------------------------------------------------
\* The inductive invariant is preserved by every step of the first Run.
LEMMA StepInv == ASSUME MaxRuns = 1, IInv, [Next]_vars PROVE IInv'
<1>1. CASE Tick
  BY <1>1, TickInv
<1>2. CASE Schedule \/ RemoteSchedule \/ ScheduleRealtime
  BY <1>2, ScheduleInv
<1>3. CASE Cancel \/ Remove
  BY <1>3, CancelInv
<1>4. CASE Stop \/ Run \/ SetOrigin \/ RunLoop \/ ComputeDelay \/ EventReturns \/ UNCHANGED vars
  BY <1>4, RunInv
<1>5. CASE Synchronize \/ SleepWait \/ GetDrift \/ SpinWait
  BY <1>5, SynchronizeInv
<1>6. CASE TakeEvent
  BY <1>6, TakeInv
<1> QED BY <1>1, <1>2, <1>3, <1>4, <1>5, <1>6 DEF Next, MainStep

\* It holds in every reachable state.
LEMMA Invariance == ASSUME MaxRuns = 1 PROVE Spec => []IInv
<1>1. IInv /\ [Next]_vars => IInv'
  BY StepInv
<1> QED BY <1>1, InitInv, PTL DEF Spec

\* Whatever other threads schedule while the main thread computes its wait, sleeps
\* or spins, either it has been signalled or its wait is still right.
THEOREM WakeupsAreKept == ASSUME MaxRuns = 1 PROVE Spec => []NoLostWakeup
<1>1. IInv => NoLostWakeup
  BY DEF IInv, WaitInv
<1> QED BY <1>1, Invariance, PTL

\* No event is executed before the wall clock has reached its time.
THEOREM SimulationIsPaced == ASSUME MaxRuns = 1 PROVE Spec => []Paced
<1>1. IInv => Paced
  BY DEF IInv, WaitInv, FirstRun, Paced
<1> QED BY <1>1, Invariance, PTL

\* The assertions hold: of ProcessOneEvent, of Run, and of the functions any
\* thread may call at any time to schedule an event.
THEOREM AssertionsHold == ASSUME MaxRuns = 1 PROVE Spec => []NoAssertionFails
<1>1. ASSUME IInv PROVE NoAssertionFails
  <2>1. NoScheduleInPast
    BY <1>1 DEF IInv, QueueInv, Types, WaitInv, FirstRun, NoScheduleInPast, RealtimeTs
  <2>2. pc \in {"sync", "take"} => events # {}
    BY <1>1 DEF IInv, WaitInv, Due
  <2>3. \A e \in events : ts[e] >= now
    BY <1>1 DEF IInv, QueueInv, Types, InFuture, Earlier
  <2>4. events = {} => unscheduled = 0
    BY <1>1, FS_EmptySet DEF IInv, QueueInv, Counted
  <2> QED BY <2>1, <2>2, <2>3, <2>4 DEF NoAssertionFails
<1> QED BY <1>1, Invariance, PTL

\* Events are executed in the order of their keys, those included that other
\* threads insert before the one that is waited for.
THEOREM EventsRunInOrder == ASSUME MaxRuns = 1 PROVE Spec => RunInOrder
<1> DEFINE Ordered ==
             <<now, cur>>' # <<now, cur>> => now < now' \/ (now = now' /\ cur < cur')
<1>1. ASSUME IInv, [Next]_vars PROVE Ordered
  <2>1. CASE TakeEvent
    BY <1>1, <2>1, TakeInv DEF Earlier
  <2>2. CASE ~ TakeEvent
    BY <1>1, <2>2 DEF Next, MainStep, Tick, Schedule, RemoteSchedule, ScheduleRealtime, Insert,
       Cancel, Remove, Stop, Run, SetOrigin, RunLoop, ComputeDelay, EventReturns, Synchronize,
       SleepWait, GetDrift, SpinWait, Return, GoTo, vars
  <2> QED BY <2>1, <2>2
<1>2. IInv /\ [Next]_vars => [Ordered]_vars
  BY <1>1
<1> QED BY <1>2, Invariance, PTL DEF Spec, RunInOrder

-----------------------------------------------------------------------------
(* Stop, in any Run.                                                       *)

\* The rest of the types.
ControlTypes ==
    /\ pc \in PcType /\ busy \in BOOLEAN /\ condition \in BOOLEAN /\ cancelled \subseteq handles
    /\ running \in BOOLEAN /\ stop \in BOOLEAN /\ mode \in {"BestEffort", "HardLimit"}
    /\ runs \in 0 .. MaxRuns /\ stopper \in {"none", "event", "thread"} /\ late \in 0 .. 1

\* Once an event has called Stop, or has begun after another thread did, the main
\* thread is on its way out of Run.
Stopping ==
    /\ stop => stopper # "none"
    /\ late = 1 => stopper = "thread"
    /\ late = 1 \/ stopper = "event" => stop /\ pc \in {"event", "loop", "outside", "fatal"}

StopInv == ControlTypes /\ Stopping

LEMMA InitStop == Init => StopInv
<1> SUFFICES ASSUME Init PROVE StopInv
  OBVIOUS
<1>1. /\ pc = "outside" /\ cancelled = {} /\ runs = 0 /\ stopper = "none" /\ late = 0
      /\ busy \in BOOLEAN /\ condition \in BOOLEAN /\ running \in BOOLEAN /\ stop \in BOOLEAN
      /\ mode \in {"BestEffort", "HardLimit"} /\ ~ stop
  BY DEF Init
<1>2. runs \in 0 .. MaxRuns
  BY <1>1, RealtimeAssumption
<1>3. ControlTypes
  BY <1>1, <1>2 DEF ControlTypes, PcType
<1>4. Stopping
  BY <1>1 DEF Stopping
<1> QED BY <1>3, <1>4 DEF StopInv

\* Scheduling and the clock do not move the main thread.
LEMMA OtherStop ==
    ASSUME StopInv, Tick \/ Schedule \/ RemoteSchedule \/ ScheduleRealtime \/ Cancel \/ Remove
                    \/ UNCHANGED vars
    PROVE  StopInv'
<1>1. UNCHANGED <<pc, busy, running, stop, mode, runs, stopper, late>>
  BY DEF Tick, Schedule, RemoteSchedule, ScheduleRealtime, Cancel, Remove, Insert, vars, sync, user,
         history
<1>2. condition' \in BOOLEAN /\ cancelled' \subseteq handles'
  BY DEF StopInv, ControlTypes, Tick, Schedule, RemoteSchedule, ScheduleRealtime, Cancel, Remove,
         Insert, vars, sync, user
<1> QED BY <1>1, <1>2 DEF StopInv, ControlTypes, Stopping

\* A Run begins afresh.
LEMMA BeginStop ==
    ASSUME StopInv, Stop \/ Run PROVE StopInv'
<1>1. CASE Stop
  <2>1. /\ ~ stop /\ stop' /\ stop' \in BOOLEAN /\ stopper' \in {"event", "thread"}
        /\ stopper' = "event" => pc = "event"
        /\ UNCHANGED <<pc, busy, condition, cancelled, handles, running, mode, runs, late>>
    BY <1>1 DEF Stop, sync, user
  <2>2. late = 0
    BY <2>1 DEF StopInv, ControlTypes, Stopping
  <2> QED BY <2>1, <2>2 DEF StopInv, ControlTypes, Stopping
<1>2. CASE Run
  <2>1. /\ pc' = "starting" /\ stop' = FALSE /\ running' = TRUE /\ runs' = runs + 1
        /\ stopper' = "none" /\ late' = 0 /\ runs < MaxRuns
        /\ UNCHANGED <<busy, condition, cancelled, handles, mode>>
    BY <1>2 DEF Run, sync, user
  <2>2. runs' \in 0 .. MaxRuns
    BY <2>1, RealtimeAssumption DEF StopInv, ControlTypes
  <2>3. pc' \in PcType /\ late' \in 0 .. 1 /\ stopper' \in {"none", "event", "thread"}
    BY <2>1 DEF PcType
  <2>4. stop' \in BOOLEAN /\ running' \in BOOLEAN
    BY <2>1, Zenon
  <2>5. ControlTypes'
    BY <2>1, <2>2, <2>3, <2>4 DEF StopInv, ControlTypes
  <2>6. Stopping'
    BY <2>1 DEF Stopping
  <2> QED BY <2>5, <2>6 DEF StopInv
<1> QED BY <1>1, <1>2

\* The main thread: Stop is looked at before each event.
LEMMA MainStop ==
    ASSUME StopInv, MainStep PROVE StopInv'
<1>1. CASE TakeEvent
  <2>1. /\ pc = "take" /\ UNCHANGED <<busy, condition, cancelled, handles, running, stop, mode>>
        /\ UNCHANGED <<runs, stopper>>
        /\ \/ pc' \in {"fatal", "loop"} /\ late' = late
           \/ pc' = "event" /\ late' = IF stop THEN late + 1 ELSE late
    BY <1>1 DEF TakeEvent, sync, user
  <2>2. late = 0 /\ stopper # "event"
    BY <2>1 DEF StopInv, ControlTypes, Stopping
  <2>3. ControlTypes'
    BY <2>1, <2>2 DEF StopInv, ControlTypes, PcType
  <2>4. late' = 1 => stop
    BY <2>1, <2>2
  <2>5. Stopping'
    BY <2>1, <2>2, <2>4 DEF StopInv, ControlTypes, Stopping
  <2> QED BY <2>3, <2>5 DEF StopInv
<1>2. CASE SetOrigin \/ RunLoop \/ ComputeDelay \/ Synchronize \/ SleepWait \/ GetDrift \/ SpinWait
           \/ EventReturns
  <2>1. UNCHANGED <<cancelled, handles, stop, mode, runs, stopper, late>>
    BY <1>2 DEF SetOrigin, RunLoop, ComputeDelay, Synchronize, SleepWait, GetDrift, SpinWait,
                EventReturns, Return, GoTo, user, history
  <2>2. /\ pc' \in PcType /\ busy' \in BOOLEAN /\ condition' \in BOOLEAN /\ running' \in BOOLEAN
    BY <1>2 DEF StopInv, ControlTypes, SetOrigin, RunLoop, ComputeDelay, Synchronize, SleepWait,
                GetDrift, SpinWait, EventReturns, Return, GoTo, sync, PcType, Waiting
  <2>3. \/ pc \notin {"event", "loop", "outside", "fatal"}
        \/ pc = "loop" /\ (stop => pc' = "outside")
        \/ pc = "event" /\ pc' = "loop"
    BY <1>2 DEF SetOrigin, RunLoop, ComputeDelay, Synchronize, SleepWait, GetDrift, SpinWait,
                EventReturns, GoTo
  <2>4. ControlTypes'
    BY <2>1, <2>2 DEF StopInv, ControlTypes
  <2>5. Stopping'
    BY <2>1, <2>3 DEF StopInv, Stopping
  <2> QED BY <2>4, <2>5 DEF StopInv
<1> QED BY <1>1, <1>2 DEF MainStep

LEMMA StopInvariance == Spec => []StopInv
<1>1. StopInv /\ [Next]_vars => StopInv'
  BY OtherStop, BeginStop, MainStop DEF Next
<1> QED BY <1>1, InitStop, PTL DEF Spec

\* After Stop no event begins if an event called it, and at most the one waited for
\* if another thread did; in any Run.
THEOREM StopTakesEffect == Spec => []StopIsSoon
<1>1. StopInv => StopIsSoon
  BY DEF StopInv, ControlTypes, Stopping, StopIsSoon
<1> QED BY <1>1, StopInvariance, PTL

\* All variables have their types, the count of unscheduled events among them.
THEOREM TypeCorrect == ASSUME MaxRuns = 1 PROVE Spec => []TypeOK
<1>1. ASSUME IInv, StopInv PROVE TypeOK
  <2>1. unscheduled \in Nat
    BY <1>1, FS_CardinalityType DEF IInv, QueueInv, Counted
  <2> QED BY <1>1, <2>1 DEF IInv, QueueInv, Types, StopInv, ControlTypes, TypeOK
<1> QED BY <1>1, Invariance, StopInvariance, PTL
=============================================================================
