------------------------- MODULE RealtimeSimulator -------------------------
(***************************************************************************)
(* RealtimeSimulatorImpl and its WallClockSynchronizer: the main thread    *)
(* waits for the wall clock to reach the time of the next event, asleep    *)
(* and then spinning, while other threads schedule events and signal it.   *)
(*                                                                         *)
(* The wall clock is kept relative to the origin of the synchronizer, as   *)
(* GetNormalizedRealtime returns it: before SetOrigin it is counted from   *)
(* the epoch.  A section under m_mutex is one step.                        *)
(***************************************************************************)
EXTENDS Integers, FiniteSets

CONSTANTS
    Event,      \* bound: the events that may be scheduled
    MaxDelay,   \* bound: the delay of an event
    Horizon,    \* bound: the time stamp of an event, and the start of an idle wait
    MaxRuns,    \* bound: calls of Run
    Epoch,      \* the wall clock before the first SetOrigin
    SPIN,       \* what SleepWait leaves to SpinWait: 3 ns in the code
    IDLE,       \* the wait without events: 1 s in the code
    HARD_LIMIT  \* attribute HardLimit

INVALID == 0
VALID == 4

ASSUME RealtimeAssumption ==
    /\ MaxDelay \in Nat /\ Horizon \in Nat /\ MaxRuns \in Nat /\ Epoch \in Nat
    /\ SPIN \in Nat /\ IDLE \in Nat /\ HARD_LIMIT \in Nat

VARIABLES
    pc,           \* where the main thread is, see PcType
    busy,         \* Synchronize was called by ProcessOneEvent, else by Run
    target,       \* the time Synchronize waits for
    real,         \* GetNormalizedRealtime
    condition,    \* m_condition
    events,       \* m_events
    ts, uid,      \* the key of every event that has one
    nextUid,      \* m_uid
    now, cur,     \* m_currentTs, m_currentUid
    running,      \* m_running
    stop,         \* m_stop
    unscheduled,  \* m_unscheduledEvents
    used,         \* events handed to some Schedule function so far
    handles,      \* events whose EventId the user holds
    cancelled,    \* EventImpl::m_cancel
    mode,         \* m_synchronizationMode
    runs,         \* calls of Run
    stopper,      \* history: who has called Stop in this Run
    late          \* history: events begun since Stop was called in this Run

sync == <<busy, target, condition>>
list == <<events, ts, uid, nextUid, unscheduled, used>>
user == <<handles, cancelled, mode>>
history == <<stopper, late>>
vars == <<pc, sync, real, list, now, cur, running, stop, user, runs, history>>

\* outside: not in Run; starting: m_running is set; loop: at the head of the loop
\* of Run; sync: at the head of that of ProcessOneEvent; enter, sleep, check,
\* spin: in DoSynchronize; take: about to remove an event; event: it is invoked.
Waiting == {"enter", "sleep", "check", "spin"}
PcType == {"outside", "starting", "loop", "sync", "take", "event", "fatal"} \union Waiting

Init ==
    /\ pc = "outside" /\ busy = FALSE /\ target = 0 /\ condition = FALSE /\ real = Epoch
    /\ events = {} /\ ts = [e \in Event |-> 0] /\ uid = [e \in Event |-> INVALID]
    /\ nextUid = VALID /\ unscheduled = 0 /\ used = {}
    /\ now = 0 /\ cur = INVALID /\ running = FALSE /\ stop = FALSE
    /\ handles = {} /\ cancelled = {} /\ mode \in {"BestEffort", "HardLimit"}
    /\ runs = 0 /\ stopper = "none" /\ late = 0

-----------------------------------------------------------------------------
(* Scheduling, by any thread.                                              *)

\* The wall clock goes on, as far as an idle wait may need it.
Tick ==
    /\ real < Horizon + IDLE /\ real' = real + 1
    /\ UNCHANGED <<pc, sync, list, now, cur, running, stop, user, runs, history>>

\* Mutant: the synchronizer is not signalled.
Insert_NoSignal(e, t) ==
    /\ t <= Horizon /\ e \notin used
    /\ events' = events \union {e} /\ used' = used \union {e}
    /\ ts' = [ts EXCEPT ![e] = t] /\ uid' = [uid EXCEPT ![e] = nextUid]
    /\ nextUid' = nextUid + 1 /\ unscheduled' = unscheduled + 1
    /\ condition' = condition
    /\ UNCHANGED <<pc, busy, target, real, now, cur, running, stop, cancelled, mode, runs, history>>

\* What the Schedule functions do under the mutex with the time they computed.
Insert(e, t) ==
    /\ t <= Horizon /\ e \notin used
    /\ events' = events \union {e} /\ used' = used \union {e}
    /\ ts' = [ts EXCEPT ![e] = t] /\ uid' = [uid EXCEPT ![e] = nextUid]
    /\ nextUid' = nextUid + 1 /\ unscheduled' = unscheduled + 1
    /\ condition' = TRUE
    /\ UNCHANGED <<pc, busy, target, real, now, cur, running, stop, cancelled, mode, runs, history>>

\* Where user code runs in the main thread.
InUserCode == pc \in {"outside", "event"}

\* The time ScheduleWithContext of another thread and ScheduleRealtimeNow start from.
RealtimeTs == IF running THEN real ELSE now

\* Schedule, which returns a handle, and ScheduleWithContext in the main thread.
Schedule ==
    /\ InUserCode
    /\ \E e \in Event, delay \in 0 .. MaxDelay :
          /\ Insert(e, now + delay)
          /\ handles' = handles \union {e} \/ handles' = handles

\* ScheduleWithContext by another thread, ScheduleRealtimeNowWithContext by any.
RemoteSchedule ==
    \E e \in Event, delay \in 0 .. MaxDelay : Insert(e, RealtimeTs + delay) /\ UNCHANGED handles

\* ScheduleRealtimeWithContext, whether or not the simulator runs.
ScheduleRealtime ==
    \E e \in Event, delay \in 0 .. MaxDelay : Insert(e, real + delay) /\ UNCHANGED handles

IsExpired(e) == e \in cancelled \/ ts[e] < now \/ (ts[e] = now /\ uid[e] <= cur)

Cancel ==
    /\ InUserCode
    /\ \E e \in handles : ~ IsExpired(e) /\ cancelled' = cancelled \union {e}
    /\ UNCHANGED <<pc, sync, real, list, now, cur, running, stop, handles, mode, runs, history>>

\* Mutant: whether the event has expired is not checked.
Remove_Expired ==
    /\ InUserCode
    /\ \E e \in handles : events' = events \ {e} /\ cancelled' = cancelled \union {e}
    /\ unscheduled' = unscheduled - 1
    /\ UNCHANGED <<pc, sync, real, ts, uid, nextUid, used, now, cur, running, stop, handles, mode,
                   runs, history>>

Remove ==
    /\ InUserCode
    /\ \E e \in handles :
          ~ IsExpired(e) /\ events' = events \ {e} /\ cancelled' = cancelled \union {e}
    /\ unscheduled' = unscheduled - 1
    /\ UNCHANGED <<pc, sync, real, ts, uid, nextUid, used, now, cur, running, stop, handles, mode,
                   runs, history>>

\* Stop, called by the event being invoked or by another thread.
Stop ==
    /\ ~ stop /\ stop' = TRUE
    /\ stopper' \in {"thread"} \union (IF pc = "event" THEN {"event"} ELSE {})
    /\ UNCHANGED <<pc, sync, real, list, now, cur, running, user, runs, late>>

-----------------------------------------------------------------------------
(* Run and ProcessOneEvent.                                                *)

Run ==
    /\ pc = "outside" /\ runs < MaxRuns
    /\ pc' = "starting" /\ stop' = FALSE /\ running' = TRUE /\ runs' = runs + 1
    /\ stopper' = "none" /\ late' = 0
    /\ UNCHANGED <<sync, real, list, now, cur, user>>

\* Its argument, the simulated time, is not used by WallClockSynchronizer.
SetOrigin ==
    /\ pc = "starting" /\ pc' = "loop" /\ real' = 0
    /\ UNCHANGED <<sync, list, now, cur, running, stop, user, runs, history>>

\* Mutant: Stop is looked at only when there is nothing to do.
RunLoop_Idle ==
    /\ pc = "loop"
    /\ \/ stop /\ events = {} /\ pc' = "outside" /\ running' = FALSE /\ UNCHANGED sync
       \/ events # {} /\ pc' = "sync" /\ UNCHANGED <<sync, running>>
       \/ /\ ~ stop /\ events = {} /\ real <= Horizon /\ pc' = "enter"
          /\ busy' = FALSE /\ target' = real + IDLE /\ UNCHANGED <<condition, running>>
    /\ UNCHANGED <<real, list, now, cur, stop, user, runs, history>>

RunLoop ==
    /\ pc = "loop"
    /\ \/ stop /\ pc' = "outside" /\ running' = FALSE /\ UNCHANGED sync
       \/ ~ stop /\ events # {} /\ pc' = "sync" /\ UNCHANGED <<sync, running>>
       \/ /\ ~ stop /\ events = {} /\ real <= Horizon /\ pc' = "enter"
          /\ busy' = FALSE /\ target' = real + IDLE /\ UNCHANGED <<condition, running>>
    /\ UNCHANGED <<real, list, now, cur, stop, user, runs, history>>

\* Mutant: ties are not broken.
First_TimeOnly(e) == e \in events /\ \A f \in events \ {e} : ts[e] <= ts[f]

\* What RemoveNext returns.
First(e) ==
    e \in events /\ \A f \in events \ {e} : ts[e] < ts[f] \/ (ts[e] = ts[f] /\ uid[e] < uid[f])

Later(t1, t2) == IF t1 > t2 THEN t1 ELSE t2

\* The first section of ProcessOneEvent: what to wait for.
ComputeDelay ==
    /\ pc = "sync" /\ pc' = "enter"
    /\ \E e \in events : First(e) /\ target' = Later(ts[e], real)
    /\ busy' = TRUE /\ condition' = FALSE
    /\ UNCHANGED <<real, list, now, cur, running, stop, user, runs, history>>

\* The second section, and Invoke, which does nothing for a cancelled event.
TakeEvent ==
    /\ pc = "take"
    /\ \E e \in events :
          /\ First(e)
          /\ events' = events \ {e} /\ now' = ts[e] /\ cur' = uid[e]
          /\ IF mode = "HardLimit" /\ real - ts[e] > HARD_LIMIT THEN pc' = "fatal" /\ late' = late
             ELSE IF e \in cancelled THEN pc' = "loop" /\ late' = late
             ELSE pc' = "event" /\ late' = IF stop THEN late + 1 ELSE late
    /\ unscheduled' = unscheduled - 1
    /\ UNCHANGED <<sync, real, ts, uid, nextUid, used, running, stop, user, runs, stopper>>

EventReturns ==
    /\ pc = "event" /\ pc' = "loop"
    /\ UNCHANGED <<sync, real, list, now, cur, running, stop, user, runs, history>>

-----------------------------------------------------------------------------
(* DoSynchronize.                                                          *)

\* Mutant: being interrupted is taken for having waited.
Return_Completed(completed) ==
    /\ pc' = IF ~ busy THEN "loop" ELSE "take"
    /\ UNCHANGED <<sync, real, list, now, cur, running, stop, user, runs, history>>

\* What the caller does with the result.
Return(completed) ==
    /\ pc' = IF ~ busy THEN "loop" ELSE IF completed THEN "take" ELSE "sync"
    /\ UNCHANGED <<sync, real, list, now, cur, running, stop, user, runs, history>>

GoTo(next) ==
    /\ pc' = next
    /\ UNCHANGED <<sync, real, list, now, cur, running, stop, user, runs, history>>

\* DriftCorrect makes of the delay what is left of it.
Synchronize == pc = "enter" /\ GoTo(IF target - real > SPIN THEN "sleep" ELSE "check")

\* Mutant: nothing but a signal ends the sleep.
SleepWait_NoTimeout == pc = "sleep" /\ condition /\ GoTo("check")

\* wait_for returns the condition: true for a signal, false for a time-out, and
\* the caller takes false for an interruption.
SleepWait ==
    /\ pc = "sleep"
    /\ \/ condition /\ GoTo("check")
       \/ ~ condition /\ real >= target - SPIN /\ Return(FALSE)

GetDrift == pc = "check" /\ (IF real >= target THEN Return(TRUE) ELSE GoTo("spin"))

SpinWait ==
    /\ pc = "spin"
    /\ \/ real >= target /\ Return(TRUE)
       \/ real < target /\ condition /\ Return(FALSE)

MainStep ==
    \/ SetOrigin \/ RunLoop \/ ComputeDelay \/ Synchronize \/ SleepWait \/ GetDrift \/ SpinWait
    \/ TakeEvent \/ EventReturns

Next ==
    \/ Tick \/ Schedule \/ RemoteSchedule \/ ScheduleRealtime \/ Cancel \/ Remove \/ Stop \/ Run
    \/ MainStep

Spec == Init /\ [][Next]_vars

\* The clock goes on and the main thread, once in Run, gets the processor.
FairSpec == Spec /\ WF_vars(Tick) /\ WF_vars(MainStep)

-----------------------------------------------------------------------------
(* Correctness.                                                            *)

\* Types of all variables.
TypeOK ==
    /\ pc \in PcType /\ busy \in BOOLEAN /\ condition \in BOOLEAN
    /\ target \in Nat /\ real \in Nat
    /\ events \subseteq used /\ used \subseteq Event /\ handles \subseteq used
    /\ cancelled \subseteq handles
    /\ ts \in [Event -> Nat] /\ uid \in [Event -> Nat]
    /\ nextUid \in Nat /\ now \in Nat /\ cur \in Nat /\ unscheduled \in Nat
    /\ running \in BOOLEAN /\ stop \in BOOLEAN /\ mode \in {"BestEffort", "HardLimit"}
    /\ runs \in 0 .. MaxRuns /\ stopper \in {"none", "event", "thread"} /\ late \in Nat

\* No wake-up is lost: unless the condition is already set, what the main thread
\* waits for is still right, so that no event another thread schedules is
\* overslept (the comment of ProcessOneEvent on what may have snuck in).
NoLostWakeup ==
    pc \in Waiting /\ ~ condition =>
        IF busy THEN \A e \in events : target <= real \/ target <= ts[e] ELSE events = {}

\* The simulation is paced: no event is executed before the wall clock has
\* reached its time, whatever the waits are interrupted by.
Paced == pc = "event" => now <= real

\* The time an event is scheduled for, by whichever thread, is not in the past.
NoScheduleInPast == now <= RealtimeTs /\ (running => now <= real)

\* No assertion fails: those of ScheduleWithContext, ScheduleRealtime and
\* ScheduleRealtimeNow, which any thread may call now and with any delay (in the
\* first Run: SetOrigin has the wall clock start again from 0), those of
\* ProcessOneEvent, and that at the end of Run.
NoAssertionFails ==
    /\ NoScheduleInPast
    /\ pc \in {"sync", "take"} => events # {}
    /\ pc = "take" => \A e \in events : ts[e] >= now
    /\ pc = "loop" /\ stop => events # {} \/ unscheduled = 0

\* Doc of Stop: called by an event, that event is the last one; called by another
\* thread, the event that is waited for is still executed, and no other.
StopIsSoon == late <= (IF stopper = "thread" THEN 1 ELSE 0)

\* Events are executed in the order of their keys, those included that other
\* threads insert before the event that is waited for.
RunInOrder ==
    [][<<now, cur>>' # <<now, cur>> => now < now' \/ (now = now' /\ cur < cur')]_vars

\* An event is executed, unless it is removed, Run returns or gives up.
EventsAreRun == \A e \in Event : e \in events /\ running ~> e \notin events \/ ~ running \/ pc = "fatal"

\* Run returns after Stop, also when another thread calls it while the main one
\* sleeps without events: nothing wakes it but the end of the idle wait.
StopReturns == stop /\ running ~> ~ running \/ pc = "fatal"
=============================================================================
