----------------------------- MODULE EventList -----------------------------
(***************************************************************************)
(* What class Scheduler promises DefaultSimulatorImpl: a set of events from *)
(* which the earliest can be seen and taken.  Events are their keys.       *)
(***************************************************************************)
EXTENDS Naturals

CONSTANT None   \* no event

VARIABLES
    events,     \* the events in the list
    first,      \* what PeekNext returns
    taken       \* what RemoveNext has returned last

Less(a, b) == a.ts < b.ts \/ (a.ts = b.ts /\ a.uid < b.uid)

Earliest(S) ==
    IF S = {} THEN None ELSE CHOOSE a \in S : \A b \in S \ {a} : Less(a, b)

Init == events = {} /\ first = None /\ taken = None

Change(S) == events' = S /\ first' = Earliest(S)

\* One event is inserted, or removed, the others stay.
Insert ==
    /\ \E a \in events' \ events : events' = events \union {a}
    /\ Change(events') /\ UNCHANGED taken

Remove == \E a \in events : Change(events \ {a}) /\ UNCHANGED taken

RemoveNext ==
    events # {} /\ taken' = first /\ Change(events \ {first})

Next == Insert \/ Remove \/ RemoveNext

Spec == Init /\ [][Next]_<<events, first, taken>>
=============================================================================
