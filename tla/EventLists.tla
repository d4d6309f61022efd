----------------------------- MODULE EventLists -----------------------------
(***************************************************************************)
(* The event list of a simulator, held in one of the Schedulers, and       *)
(* SetScheduler, which moves the events from one to another.  Each is      *)
(* shown to be the EventList that module Simulator takes for granted.      *)
(*                                                                         *)
(* A simulator inserts events that are not in the past, with increasing    *)
(* uids, and removes only events that are in the list.                     *)
(***************************************************************************)
EXTENDS Schedulers

CONSTANTS
    None,       \* no event
    Delay,      \* the delays with which events are scheduled
    MaxUid,     \* bound: events inserted
    RemoveFrom  \* the kinds of scheduler from which events are removed

ASSUME EventListsAssumption ==
    /\ None \notin [ts : Nat, uid : Nat] /\ Delay \subseteq Nat /\ MaxUid \in Nat
    /\ RemoveFrom \subseteq {"list", "heap", "calendar"}

VARIABLES
    scheduler,  \* m_events of the simulator: its kind, and its data
    uid,        \* the uid of the next event
    taken       \* the event taken last: the current one

vars == <<scheduler, uid, taken>>

-----------------------------------------------------------------------------
(* The simulator.                                                          *)

Now == IF taken = None THEN 0 ELSE taken.ts

Init ==
    /\ \E kind \in {"list", "heap", "calendar"} : scheduler = Create(kind)
    /\ uid = 1 /\ taken = None

Schedule(delay) ==
    /\ uid <= MaxUid /\ uid' = uid + 1
    /\ scheduler' = Insert(scheduler, [ts |-> Now + delay, uid |-> uid])
    /\ UNCHANGED taken

ProcessOneEvent ==
    /\ ~ IsEmpty(scheduler)
    /\ taken' = PeekNext(scheduler) /\ scheduler' = RemoveNext(scheduler)
    /\ UNCHANGED uid

RemoveEvent(ev) ==
    /\ scheduler.kind \in RemoveFrom
    /\ scheduler' = RemoveThis(scheduler, ev)
    /\ UNCHANGED <<uid, taken>>

SetScheduler(kind) ==
    /\ scheduler' = Moved(scheduler, Create(kind))
    /\ UNCHANGED <<uid, taken>>

Next ==
    \/ \E delay \in Delay : Schedule(delay)
    \/ ProcessOneEvent
    \/ \E ev \in Contents(scheduler) : RemoveEvent(ev)
    \/ \E kind \in {"list", "heap", "calendar"} : SetScheduler(kind)

Spec == Init /\ [][Next]_vars

-----------------------------------------------------------------------------
Abstract ==
    INSTANCE EventList
        WITH events <- Contents(scheduler),
             first <- IF IsEmpty(scheduler) THEN None ELSE PeekNext(scheduler)

\* Whatever is inserted, taken and removed, and also when the scheduler is
\* replaced meanwhile, no event is lost, and PeekNext and RemoveNext return the
\* earliest by time and then by uid (the contract of class Scheduler).
ImplementsEventList == Abstract!Spec
=============================================================================
