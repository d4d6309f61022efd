------------------------------ MODULE Simulator ------------------------------
(***************************************************************************)
(* DefaultSimulatorImpl, the discrete-event engine: the event list, the    *)
(* loop of Run, the handles (EventId) with Cancel, Remove and IsExpired,   *)
(* Stop, the destroy events, and ScheduleWithContext called by another     *)
(* thread, which goes through a list guarded by a mutex.                   *)
(*                                                                         *)
(* The event list is what class Scheduler promises: RemoveNext returns the *)
(* event with the lowest key.  Unique ids are kept unreduced; the code's   *)
(* value is UidOf of them.  An event is its EventImpl: an identity.        *)
(***************************************************************************)
EXTENDS Integers, Sequences, FiniteSets, SequencesExt

CONSTANTS
    Event,        \* bound: the events that may be scheduled
    MaxDelay,     \* bound: the delay of an event
    MaxUid,       \* bound: the unique ids handed out
    UINT32_SIZE   \* values of m_uid: 2^32 in the code

\* EventId::UID
INVALID == 0
DESTROY == 2
VALID == 4

ASSUME SimulatorAssumption ==
    MaxDelay \in Nat /\ MaxUid \in Nat /\ UINT32_SIZE \in Nat /\ UINT32_SIZE > VALID

VARIABLES
    pc,           \* where the main thread is, see PcType
    events,       \* m_events
    ts, uid,      \* the key of every event that has one
    nextUid,      \* m_uid
    now, cur,     \* m_currentTs, m_currentUid
    cancelled,    \* EventImpl::m_cancel
    destroy,      \* m_destroyEvents
    withContext,  \* m_eventsWithContext, pushed by the other thread
    empty,        \* m_eventsWithContextEmpty
    unscheduled,  \* m_unscheduledEvents
    stop,         \* m_stop
    used,         \* events handed to some Schedule function so far
    handles,      \* events whose EventId the user holds
    stops,        \* events scheduled by Stop(delay)
    run,          \* history: events invoked, in order
    due           \* history: time an event was asked for, at the earliest

keys == <<ts, uid, nextUid>>
remote == <<withContext, empty>>
history == <<run, due>>
vars == <<pc, events, keys, now, cur, cancelled, destroy, remote, unscheduled, stop, used,
          handles, stops, history>>

\* outside: not in Run; loop: at the head of its loop; event: an event is being
\* invoked; drain: about to call ProcessEventsWithContext; destroy: in Destroy.
PcType == {"outside", "loop", "event", "drain", "destroy", "destroyed"}

Init ==
    /\ pc = "outside" /\ events = {} /\ nextUid = VALID
    /\ ts = [e \in Event |-> 0] /\ uid = [e \in Event |-> INVALID]
    /\ now = 0 /\ cur = INVALID
    /\ cancelled = {} /\ destroy = <<>> /\ withContext = <<>> /\ empty = TRUE
    /\ unscheduled = 0 /\ stop = FALSE
    /\ used = {} /\ handles = {} /\ stops = {}
    /\ run = <<>> /\ due = [e \in Event |-> 0]

-----------------------------------------------------------------------------
UidOf(n) == n % UINT32_SIZE

Uid(e) == UidOf(uid[e])

\* Mutant: ties are not broken.
Before_TimeOnly(e, f) == ts[e] <= ts[f]

\* operator< of Scheduler::EventKey
Before(e, f) == ts[e] < ts[f] \/ (ts[e] = ts[f] /\ Uid(e) < Uid(f))

\* Mutant: an event that is being invoked has not expired.
IsExpired_NotRunning(e) ==
    \/ e \in cancelled
    \/ IF Uid(e) = DESTROY THEN e \notin ToSet(destroy)
       ELSE ts[e] < now \/ (ts[e] = now /\ Uid(e) < UidOf(cur))

IsExpired(e) ==
    \/ e \in cancelled
    \/ IF Uid(e) = DESTROY THEN e \notin ToSet(destroy)
       ELSE ts[e] < now \/ (ts[e] = now /\ Uid(e) <= UidOf(cur))

\* Where user code runs in the main thread.
InUserCode == pc \in {"outside", "event", "destroy"}

\* Schedule, and ScheduleWithContext in the main thread.
Schedule(e, delay) ==
    /\ InUserCode /\ e \notin used /\ nextUid < MaxUid
    /\ events' = events \union {e}
    /\ ts' = [ts EXCEPT ![e] = now + delay]
    /\ uid' = [uid EXCEPT ![e] = nextUid]
    /\ nextUid' = nextUid + 1
    /\ unscheduled' = unscheduled + 1
    /\ used' = used \union {e} /\ handles' = handles \union {e}
    /\ due' = [due EXCEPT ![e] = now + delay]
    /\ UNCHANGED <<pc, now, cur, cancelled, destroy, remote, stop, run>>

ScheduleEvent == \E e \in Event, delay \in 0 .. MaxDelay : Schedule(e, delay) /\ UNCHANGED stops

\* Stop(delay): schedules an event that calls Stop.
StopAt == \E e \in Event, delay \in 0 .. MaxDelay : Schedule(e, delay) /\ stops' = stops \union {e}

ScheduleDestroy ==
    /\ InUserCode /\ nextUid < MaxUid
    /\ \E e \in Event \ used :
          /\ destroy' = Append(destroy, e)
          /\ ts' = [ts EXCEPT ![e] = now]
          /\ uid' = [uid EXCEPT ![e] = DESTROY]
          /\ used' = used \union {e} /\ handles' = handles \union {e}
    /\ nextUid' = nextUid + 1
    /\ UNCHANGED <<pc, events, now, cur, cancelled, remote, unscheduled, stop, stops, history>>

Cancel ==
    /\ InUserCode
    /\ \E e \in handles : ~ IsExpired(e) /\ cancelled' = cancelled \union {e}
    /\ UNCHANGED <<pc, events, keys, now, cur, destroy, remote, unscheduled, stop, used, handles,
                   stops, history>>

RemoveDestroyEvent(e) ==
    /\ Uid(e) = DESTROY
    /\ \E i \in DOMAIN destroy : destroy[i] = e /\ destroy' = RemoveAt(destroy, i)
    /\ UNCHANGED <<events, cancelled, unscheduled>>

\* Mutant: whether the event has expired is not checked.
RemoveEvent_Expired(e) ==
    /\ Uid(e) # DESTROY
    /\ events' = events \ {e} /\ cancelled' = cancelled \union {e}
    /\ unscheduled' = unscheduled - 1
    /\ UNCHANGED destroy

RemoveEvent(e) ==
    /\ Uid(e) # DESTROY /\ ~ IsExpired(e)
    /\ events' = events \ {e} /\ cancelled' = cancelled \union {e}
    /\ unscheduled' = unscheduled - 1
    /\ UNCHANGED destroy

RemoveById ==
    /\ InUserCode
    /\ \E e \in handles : RemoveDestroyEvent(e) \/ RemoveEvent(e)
    /\ UNCHANGED <<pc, keys, now, cur, remote, stop, used, handles, stops, history>>

Stop ==
    /\ InUserCode /\ stop' = TRUE
    /\ UNCHANGED <<pc, events, keys, now, cur, cancelled, destroy, remote, unscheduled, used,
                   handles, stops, history>>

\* The other thread calls ScheduleWithContext: a relative time is queued.
RemoteSchedule ==
    /\ pc # "destroyed"
    /\ \E e \in Event \ used, delay \in 0 .. MaxDelay :
          /\ withContext' = Append(withContext, [event |-> e, delay |-> delay])
          /\ used' = used \union {e}
          /\ due' = [due EXCEPT ![e] = now + delay]
    /\ empty' = FALSE
    /\ UNCHANGED <<pc, events, keys, now, cur, cancelled, destroy, unscheduled, stop, handles,
                   stops, run>>

\* Mutant: the current time is not added.
InsertWithContext_Absolute ==
    LET Index(e) == CHOOSE i \in DOMAIN withContext : withContext[i].event = e
        E == {withContext[i].event : i \in DOMAIN withContext}
    IN  /\ events' = events \union E
        /\ ts' = [e \in Event |-> IF e \in E THEN withContext[Index(e)].delay ELSE ts[e]]
        /\ uid' = [e \in Event |-> IF e \in E THEN nextUid + Index(e) - 1 ELSE uid[e]]

\* The loop of ProcessEventsWithContext over the list it has swapped out.
InsertWithContext ==
    LET Index(e) == CHOOSE i \in DOMAIN withContext : withContext[i].event = e
        E == {withContext[i].event : i \in DOMAIN withContext}
    IN  /\ events' = events \union E
        /\ ts' = [e \in Event |-> IF e \in E THEN now + withContext[Index(e)].delay ELSE ts[e]]
        /\ uid' = [e \in Event |-> IF e \in E THEN nextUid + Index(e) - 1 ELSE uid[e]]

\* The flag is read without the mutex: the other thread may push right after.
ProcessEventsWithContext ==
    IF empty THEN UNCHANGED <<events, keys, remote, unscheduled>>
    ELSE /\ nextUid + Len(withContext) <= MaxUid
         /\ InsertWithContext
         /\ nextUid' = nextUid + Len(withContext)
         /\ unscheduled' = unscheduled + Len(withContext)
         /\ withContext' = <<>> /\ empty' = TRUE

Run ==
    /\ pc = "outside" /\ pc' = "loop"
    /\ ProcessEventsWithContext
    /\ stop' = FALSE
    /\ UNCHANGED <<now, cur, cancelled, destroy, used, handles, stops, history>>

\* ProcessOneEvent, up to the end of Invoke for an event that was cancelled, and
\* up to its beginning for the others.
ProcessOneEvent ==
    /\ pc = "loop" /\ ~ stop
    /\ \E e \in events :
          /\ \A f \in events \ {e} : Before(e, f)
          /\ events' = events \ {e}
          /\ now' = ts[e] /\ cur' = uid[e]
          /\ IF e \in cancelled THEN pc' = "drain" /\ UNCHANGED <<run, stop>>
             ELSE pc' = "event" /\ run' = Append(run, e) /\ stop' = (e \in stops)
    /\ unscheduled' = unscheduled - 1
    /\ UNCHANGED <<keys, cancelled, destroy, remote, used, handles, stops, due>>

EventReturns ==
    /\ pc = "event" /\ pc' = "drain"
    /\ UNCHANGED <<events, keys, now, cur, cancelled, destroy, remote, unscheduled, stop, used,
                   handles, stops, history>>

Drain ==
    /\ pc = "drain" /\ pc' = "loop"
    /\ ProcessEventsWithContext
    /\ UNCHANGED <<now, cur, cancelled, destroy, stop, used, handles, stops, history>>

RunReturns ==
    /\ pc = "loop" /\ (events = {} \/ stop)
    /\ pc' = "outside"
    /\ UNCHANGED <<events, keys, now, cur, cancelled, destroy, remote, unscheduled, stop, used,
                   handles, stops, history>>

\* Destroy invokes the destroy events in order, those they schedule included.
DestroyStep ==
    /\ pc \in {"outside", "destroy"}
    /\ IF destroy = <<>>
       THEN pc' = "destroyed" /\ UNCHANGED <<destroy, run>>
       ELSE /\ pc' = "destroy" /\ destroy' = Tail(destroy)
            /\ run' = IF Head(destroy) \in cancelled THEN run ELSE Append(run, Head(destroy))
    /\ UNCHANGED <<events, keys, now, cur, cancelled, remote, unscheduled, stop, used, handles,
                   stops, due>>

Next ==
    \/ ScheduleEvent \/ StopAt \/ ScheduleDestroy \/ Cancel \/ RemoveById \/ Stop
    \/ RemoteSchedule \/ Run \/ ProcessOneEvent \/ EventReturns \/ Drain \/ RunReturns
    \/ DestroyStep

Spec == Init /\ [][Next]_vars

-----------------------------------------------------------------------------
(* Correctness.                                                            *)

\* Types of all variables.
TypeOK ==
    /\ pc \in PcType
    /\ events \subseteq Event /\ cancelled \subseteq Event /\ used \subseteq Event
    /\ handles \subseteq Event /\ stops \subseteq Event
    /\ ts \in [Event -> Nat] /\ uid \in [Event -> Nat] /\ due \in [Event -> Nat]
    /\ nextUid \in Nat /\ now \in Nat /\ cur \in Nat /\ unscheduled \in Nat
    /\ destroy \in Seq(Event) /\ run \in Seq(Event)
    /\ withContext \in Seq([event : Event, delay : 0 .. MaxDelay])
    /\ stop \in BOOLEAN /\ empty \in BOOLEAN

Scheduled(e) == uid[e] >= VALID

\* Manual, section Event: events are handled in increasing order of time, and
\* tied ones in the order in which they were scheduled (none twice).
RunInOrder ==
    \A i, j \in DOMAIN run :
        i < j /\ Scheduled(run[i]) /\ Scheduled(run[j])
        => \/ ts[run[i]] < ts[run[j]]
           \/ ts[run[i]] = ts[run[j]] /\ uid[run[i]] < uid[run[j]]

\* IsExpired, a comparison of keys, tells whether the event has run or has been
\* cancelled or removed.
ExpiredIffGone ==
    \A e \in handles :
        IsExpired(e) <=> e \in cancelled \/ e \notin events \union ToSet(destroy)

\* An event runs no earlier than it was asked for, also when another thread
\* gave a delay relative to a time that has passed meanwhile.
NotBeforeDue ==
    pc = "event" => due[run[Len(run)]] <= now

=============================================================================
