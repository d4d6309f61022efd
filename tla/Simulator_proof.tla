--------------------------- MODULE Simulator_proof ---------------------------
(***************************************************************************)
(* As long as unique ids do not wrap, for any number of events, any delays *)
(* and any interleaving with the other thread: events run in the order of  *)
(* the manual, none before its time, and IsExpired is exact.               *)
(***************************************************************************)
EXTENDS Simulator, SequencesExt, FiniteSetTheorems, TLAPS

-----------------------------------------------------------------------------
(* The elements of sequences that have been shortened or extended.        *)

\* The elements of a sequence over a set.
LEMMA SeqElements ==
    ASSUME NEW S, NEW q \in Seq(S)
    PROVE  Len(q) \in Nat /\ DOMAIN q = 1 .. Len(q) /\ \A i \in DOMAIN q : q[i] \in S
OBVIOUS

\* The elements of a sequence to which one has been added.
LEMMA AppendElements ==
    ASSUME NEW S, NEW q \in Seq(S), NEW e \in S
    PROVE  /\ Append(q, e) \in Seq(S)
           /\ \E i \in DOMAIN Append(q, e) : Append(q, e)[i] = e
           /\ \A i \in DOMAIN q : i \in DOMAIN Append(q, e) /\ Append(q, e)[i] = q[i]
           /\ \A i \in DOMAIN Append(q, e) :
                  Append(q, e)[i] = e \/ (i \in DOMAIN q /\ Append(q, e)[i] = q[i])
<1>1. Append(q, e) \in Seq(S) /\ DOMAIN Append(q, e) = 1 .. (Len(q) + 1)
  OBVIOUS
<1>2. DOMAIN q = 1 .. Len(q) /\ Len(q) \in Nat
  OBVIOUS
<1>3. \A i \in 1 .. (Len(q) + 1) : Append(q, e)[i] = IF i = Len(q) + 1 THEN e ELSE q[i]
  OBVIOUS
<1>4. Len(q) + 1 \in 1 .. (Len(q) + 1)
  BY <1>2
<1> QED BY <1>1, <1>2, <1>3, <1>4

\* The elements of a sequence from which one has been removed.
LEMMA RemoveAtElements ==
    ASSUME NEW S, NEW q \in Seq(S), NEW i \in DOMAIN q
    PROVE  /\ RemoveAt(q, i) \in Seq(S)
           /\ \A k \in DOMAIN RemoveAt(q, i) : \E j \in DOMAIN q : RemoveAt(q, i)[k] = q[j]
<1> DEFINE a == SubSeq(q, 1, i - 1)
           b == SubSeq(q, i + 1, Len(q))
<1>1. a \in Seq(S) /\ \A k \in DOMAIN a : \E j \in DOMAIN q : a[k] = q[j]
  OBVIOUS
<1>2. b \in Seq(S) /\ \A k \in DOMAIN b : \E j \in DOMAIN q : b[k] = q[j]
  OBVIOUS
<1>3. RemoveAt(q, i) = a \o b
  BY DEF RemoveAt
<1> HIDE DEF a, b
<1>4. \A k \in DOMAIN (a \o b) :
         (\E j \in DOMAIN a : (a \o b)[k] = a[j]) \/ (\E j \in DOMAIN b : (a \o b)[k] = b[j])
  <2>1. /\ Len(a) \in Nat /\ DOMAIN a = 1 .. Len(a)
        /\ Len(b) \in Nat /\ DOMAIN b = 1 .. Len(b)
        /\ DOMAIN (a \o b) = 1 .. (Len(a) + Len(b))
    BY <1>1, <1>2
  <2>2. \A k \in 1 .. (Len(a) + Len(b)) :
           (a \o b)[k] = IF k <= Len(a) THEN a[k] ELSE b[k - Len(a)]
    BY <1>1, <1>2
  <2> SUFFICES ASSUME NEW k \in 1 .. (Len(a) + Len(b))
               PROVE  (\E j \in 1 .. Len(a) : (a \o b)[k] = a[j])
                      \/ (\E j \in 1 .. Len(b) : (a \o b)[k] = b[j])
    BY <2>1, Zenon
  <2>3. CASE k <= Len(a)
    BY <2>1, <2>2, <2>3
  <2>4. CASE ~ (k <= Len(a))
    <3>1. k - Len(a) \in 1 .. Len(b)
      BY <2>1, <2>4
    <3> QED BY <2>2, <2>4, <3>1
  <2> QED BY <2>3, <2>4
<1>5. a \o b \in Seq(S)
  BY <1>1, <1>2
<1>6. \A k \in DOMAIN (a \o b) : \E j \in DOMAIN q : (a \o b)[k] = q[j]
  <2> SUFFICES ASSUME NEW k \in DOMAIN (a \o b)
               PROVE  \E j \in DOMAIN q : (a \o b)[k] = q[j]
    OBVIOUS
  <2>1. CASE \E j \in DOMAIN a : (a \o b)[k] = a[j]
    BY <1>1, <2>1
  <2>2. CASE \E j \in DOMAIN b : (a \o b)[k] = b[j]
    BY <1>2, <2>2
  <2> QED BY <1>4, <2>1, <2>2
<1> QED BY <1>3, <1>5, <1>6

-----------------------------------------------------------------------------
\* The first key comes before the second.
Earlier(t1, u1, t2, u2) == t1 < t2 \/ (t1 = t2 /\ u1 < u2)

Types ==
    /\ events \subseteq used /\ used \subseteq Event /\ handles \subseteq used
    /\ ts \in [Event -> Nat] /\ uid \in [Event -> Nat] /\ due \in [Event -> Nat]
    /\ nextUid \in Nat /\ now \in Nat /\ cur \in Nat
    /\ destroy \in Seq(Event) /\ run \in Seq(Event)
    /\ withContext \in Seq([event : Event, delay : 0 .. MaxDelay])

\* Ids are fresh when they are handed out, and have not wrapped.
UidsFresh ==
    /\ VALID <= nextUid /\ nextUid <= UINT32_SIZE /\ cur < nextUid
    /\ \A e \in Event : uid[e] < nextUid

\* Events in the list are in the future of the last event removed from it.
QueuedInFuture ==
    \A e \in events : VALID <= uid[e] /\ Earlier(now, cur, ts[e], uid[e]) /\ due[e] <= ts[e]

QueuedDistinct == \A e, f \in events : uid[e] = uid[f] => e = f

\* Events of the other thread have no key and no handle yet.
WaitingUnknown ==
    \A i \in DOMAIN withContext :
        /\ withContext[i].event \in used \ (handles \union events)
        /\ \A j \in DOMAIN run : run[j] # withContext[i].event
        /\ due[withContext[i].event] <= now + withContext[i].delay

\* Events that have run are not in the future of the last one.
RunInPast ==
    \A i \in DOMAIN run :
        /\ run[i] \in used \ events
        /\ Scheduled(run[i]) => ~ Earlier(now, cur, ts[run[i]], uid[run[i]])

HandlesKnown ==
    \A e \in handles :
        \/ uid[e] = DESTROY
        \/ /\ VALID <= uid[e]
           /\ e \in events \union cancelled \/ ~ Earlier(now, cur, ts[e], uid[e])

DestroyEvents == \A i \in DOMAIN destroy : destroy[i] \in handles /\ uid[destroy[i]] = DESTROY

LastIsDue == pc = "event" => run # <<>> /\ due[run[Len(run)]] <= now

IInv ==
    /\ Types /\ UidsFresh /\ QueuedInFuture /\ QueuedDistinct /\ WaitingUnknown
    /\ RunInPast /\ HandlesKnown /\ DestroyEvents /\ LastIsDue /\ RunInOrder

-----------------------------------------------------------------------------
\* The ids the events have are not reduced.
LEMMA UidExact == ASSUME NEW n \in Nat, n < UINT32_SIZE PROVE UidOf(n) = n
BY SimulatorAssumption DEF UidOf

\* The keys the code compares are those of the model.
LEMMA EventUidExact ==
    ASSUME Types, UidsFresh
    PROVE  /\ \A e \in Event : Uid(e) = uid[e]
           /\ UidOf(cur) = cur
<1>1. \A e \in Event : uid[e] \in Nat /\ uid[e] < UINT32_SIZE
  BY SimulatorAssumption DEF Types, UidsFresh
<1>2. cur < UINT32_SIZE
  BY SimulatorAssumption DEF Types, UidsFresh
<1> QED BY <1>1, <1>2, UidExact DEF Uid, Types

\* Nothing is scheduled initially.
LEMMA InitInv == Init => IInv
<1> SUFFICES ASSUME Init PROVE IInv
  OBVIOUS
<1> QED BY SimulatorAssumption DEF Init, IInv, Types, UidsFresh, QueuedInFuture, QueuedDistinct,
           WaitingUnknown, RunInPast, HandlesKnown, DestroyEvents, LastIsDue, RunInOrder,
           VALID, INVALID

\* A new event gets a key in the future, and a fresh id.
LEMMA ScheduleInv ==
    ASSUME MaxUid <= UINT32_SIZE, IInv, NEW e \in Event, NEW delay \in 0 .. MaxDelay,
           Schedule(e, delay)
    PROVE  IInv'
<1> USE SimulatorAssumption DEF IInv, Schedule, remote, VALID, DESTROY
<1>1. e \notin used /\ e \notin events /\ e \notin handles
  BY DEF Types
<1>2. \A f \in used : ts'[f] = ts[f] /\ uid'[f] = uid[f] /\ due'[f] = due[f]
  BY <1>1 DEF Types
<1>3. ts'[e] = now + delay /\ uid'[e] = nextUid /\ due'[e] = now + delay
  BY DEF Types
<1>4. Types'
  <2>1. now + delay \in Nat /\ nextUid + 1 \in Nat
    BY DEF Types
  <2>2. ts' \in [Event -> Nat] /\ uid' \in [Event -> Nat] /\ due' \in [Event -> Nat]
    BY <2>1 DEF Types
  <2>3. events' \subseteq used' /\ used' \subseteq Event /\ handles' \subseteq used'
    BY DEF Types
  <2> QED BY <2>1, <2>2, <2>3 DEF Types
<1>5. UidsFresh'
  BY DEF Types, UidsFresh
<1>6. QueuedInFuture'
  BY <1>2, <1>3 DEF Types, UidsFresh, QueuedInFuture, Earlier
<1>7. QueuedDistinct'
  BY <1>1, <1>2, <1>3 DEF Types, UidsFresh, QueuedDistinct
<1>8. WaitingUnknown'
  <2>1. UNCHANGED <<withContext, run, now>> /\ events' = events \union {e}
        /\ used' = used \union {e} /\ handles' = handles \union {e}
    OBVIOUS
  <2> HIDE DEF IInv, Schedule
  <2> SUFFICES ASSUME NEW i \in DOMAIN withContext
               PROVE  /\ withContext[i].event \in used' \ (handles' \union events')
                      /\ \A j \in DOMAIN run : run[j] # withContext[i].event
                      /\ due'[withContext[i].event] <= now + withContext[i].delay
    BY <2>1 DEF WaitingUnknown
  <2>2. /\ withContext[i].event \in used \ (handles \union events)
        /\ \A j \in DOMAIN run : run[j] # withContext[i].event
        /\ due[withContext[i].event] <= now + withContext[i].delay
    BY DEF IInv, WaitingUnknown
  <2>3. withContext[i].event # e
    BY <1>1, <2>2
  <2>4. due'[withContext[i].event] = due[withContext[i].event]
    BY <1>2, <2>2
  <2> QED BY <2>1, <2>2, <2>3, <2>4
<1>9. RunInPast'
  <2>1. UNCHANGED <<run, now, cur>> /\ events' = events \union {e} /\ used' = used \union {e}
    OBVIOUS
  <2> HIDE DEF IInv, Schedule
  <2> SUFFICES ASSUME NEW i \in DOMAIN run
               PROVE  /\ run[i] \in used' \ events'
                      /\ uid'[run[i]] >= VALID => ~ Earlier(now, cur, ts'[run[i]], uid'[run[i]])
    BY <2>1 DEF RunInPast, Scheduled, Earlier
  <2>2. /\ run[i] \in used \ events
        /\ uid[run[i]] >= VALID => ~ Earlier(now, cur, ts[run[i]], uid[run[i]])
    BY DEF IInv, RunInPast, Scheduled
  <2>3. ts'[run[i]] = ts[run[i]] /\ uid'[run[i]] = uid[run[i]] /\ run[i] # e
    BY <1>1, <1>2, <2>2
  <2> QED BY <2>1, <2>2, <2>3
<1>10. HandlesKnown'
  <2>1. /\ UNCHANGED <<now, cur, cancelled>> /\ events' = events \union {e}
        /\ handles' = handles \union {e} /\ handles \subseteq used /\ VALID <= nextUid
    BY DEF Types, UidsFresh
  <2> HIDE DEF IInv, Schedule
  <2> SUFFICES ASSUME NEW f \in handles'
               PROVE  \/ uid'[f] = DESTROY
                      \/ /\ VALID <= uid'[f]
                         /\ f \in events' \union cancelled \/ ~ Earlier(now, cur, ts'[f], uid'[f])
    BY <2>1 DEF HandlesKnown, Earlier
  <2>2. CASE f = e
    BY <1>3, <2>1, <2>2
  <2>3. CASE f \in handles
    <3>1. ts'[f] = ts[f] /\ uid'[f] = uid[f]
      BY <1>2, <2>1, <2>3
    <3>2. \/ uid[f] = DESTROY
          \/ VALID <= uid[f] /\ (f \in events \union cancelled \/ ~ Earlier(now, cur, ts[f], uid[f]))
      BY <2>3 DEF IInv, HandlesKnown
    <3> QED BY <2>1, <3>1, <3>2
  <2> QED BY <2>1, <2>2, <2>3
<1>11. DestroyEvents'
  <2>1. destroy' = destroy /\ handles \subseteq handles' /\ handles \subseteq used
    BY DEF Types
  <2>2. \A i \in DOMAIN destroy : destroy[i] \in handles /\ uid[destroy[i]] = DESTROY
    BY DEF DestroyEvents
  <2> HIDE DEF IInv, Schedule
  <2> QED BY <1>2, <2>1, <2>2 DEF DestroyEvents
<1>12. LastIsDue'
  <2>1. UNCHANGED <<pc, run, now>> /\ LastIsDue /\ run \in Seq(Event)
    BY DEF Types
  <2>2. \A i \in DOMAIN run : run[i] \in used
    BY DEF RunInPast
  <2> HIDE DEF IInv, Schedule
  <2>3. run # <<>> => Len(run) \in DOMAIN run
    BY <2>1
  <2> QED BY <1>2, <2>1, <2>2, <2>3 DEF LastIsDue
<1>13. RunInOrder'
  <2>1. \A i \in DOMAIN run : run[i] \in used
    BY DEF RunInPast
  <2> QED BY <1>2, <2>1 DEF RunInOrder, Scheduled
<1> QED BY <1>4, <1>5, <1>6, <1>7, <1>8, <1>9, <1>10, <1>11, <1>12, <1>13

\* A destroy event has the reserved id, and is in the list of destroy events.
LEMMA ScheduleDestroyInv ==
    ASSUME MaxUid <= UINT32_SIZE, IInv, ScheduleDestroy PROVE IInv'
<1> USE SimulatorAssumption DEF IInv, remote, history, VALID, DESTROY
<1> PICK e \in Event \ used :
          /\ destroy' = Append(destroy, e)
          /\ ts' = [ts EXCEPT ![e] = now]
          /\ uid' = [uid EXCEPT ![e] = DESTROY]
          /\ used' = used \union {e} /\ handles' = handles \union {e}
  BY DEF ScheduleDestroy
<1> USE DEF ScheduleDestroy
<1>1. e \notin events /\ e \notin handles
  BY DEF Types
<1>2. \A f \in used : ts'[f] = ts[f] /\ uid'[f] = uid[f] /\ due'[f] = due[f]
  BY DEF Types
<1>3. uid'[e] = DESTROY
  BY DEF Types
<1>4. Types'
  <2>1. ts' \in [Event -> Nat] /\ uid' \in [Event -> Nat] /\ nextUid' \in Nat
    BY DEF Types
  <2>2. destroy' \in Seq(Event)
    BY DEF Types
  <2> QED BY <2>1, <2>2 DEF Types
<1>5. UidsFresh'
  BY DEF Types, UidsFresh
<1>6. QueuedInFuture'
  BY <1>2 DEF Types, QueuedInFuture, Earlier
<1>7. QueuedDistinct'
  BY <1>2 DEF Types, QueuedDistinct
<1>8. WaitingUnknown'
  <2>1. \A i \in DOMAIN withContext : withContext[i].event \in used \ {e}
    BY DEF WaitingUnknown
  <2> QED BY <1>2, <2>1 DEF WaitingUnknown
<1>9. RunInPast'
  BY <1>2 DEF Types, RunInPast, Scheduled
<1>10. HandlesKnown'
  BY <1>2, <1>3 DEF Types, HandlesKnown
<1>11. DestroyEvents'
  <2>1. \A i \in DOMAIN destroy' :
           destroy'[i] = e \/ (i \in DOMAIN destroy /\ destroy'[i] = destroy[i])
    <3>1. destroy \in Seq(Event) /\ destroy' = Append(destroy, e) /\ e \in Event
      BY DEF Types
    <3>2. \A i \in DOMAIN Append(destroy, e) :
             Append(destroy, e)[i] = e
             \/ (i \in DOMAIN destroy /\ Append(destroy, e)[i] = destroy[i])
      BY <3>1, AppendElements
    <3> QED BY <3>1, <3>2
  <2>2. handles' = handles \union {e} /\ handles \subseteq used
    BY DEF Types
  <2>3. \A i \in DOMAIN destroy : destroy[i] \in handles /\ uid[destroy[i]] = DESTROY
    BY DEF DestroyEvents
  <2> HIDE DEF IInv, ScheduleDestroy
  <2> SUFFICES ASSUME NEW i \in DOMAIN destroy'
               PROVE  destroy'[i] \in handles' /\ uid'[destroy'[i]] = DESTROY
    BY DEF DestroyEvents
  <2>4. CASE destroy'[i] = e
    BY <1>3, <2>2, <2>4
  <2>5. CASE i \in DOMAIN destroy /\ destroy'[i] = destroy[i]
    BY <1>2, <2>2, <2>3, <2>5
  <2> QED BY <2>1, <2>4, <2>5
<1>12. LastIsDue'
  <2>1. UNCHANGED <<pc, run, now, due>> /\ LastIsDue
    OBVIOUS
  <2> HIDE DEF IInv, ScheduleDestroy
  <2> QED BY <2>1 DEF LastIsDue
<1>13. RunInOrder'
  <2>1. \A i \in DOMAIN run : run[i] \in used
    BY DEF RunInPast
  <2> QED BY <1>2, <2>1 DEF RunInOrder, Scheduled
<1> QED BY <1>4, <1>5, <1>6, <1>7, <1>8, <1>9, <1>10, <1>11, <1>12, <1>13

\* Nothing but the set of cancelled events grows.
LEMMA CancelInv == ASSUME IInv, Cancel PROVE IInv'
<1> USE DEF IInv, Cancel, keys, remote, history
<1>1. cancelled \subseteq cancelled'
  OBVIOUS
<1>2. HandlesKnown'
  BY <1>1 DEF HandlesKnown
<1> QED BY <1>2 DEF Types, UidsFresh, QueuedInFuture, QueuedDistinct, WaitingUnknown, RunInPast,
           DestroyEvents, LastIsDue, RunInOrder, Scheduled

\* An event that is removed has been cancelled as well.
LEMMA RemoveInv == ASSUME IInv, RemoveById PROVE IInv'
<1> USE DEF IInv, RemoveById, keys, remote, history
<1> PICK e \in handles : RemoveDestroyEvent(e) \/ RemoveEvent(e)
  OBVIOUS
<1>1. events' \subseteq events /\ cancelled \subseteq cancelled'
      /\ (events \union cancelled) \subseteq (events' \union cancelled')
  BY DEF RemoveDestroyEvent, RemoveEvent
<1>2. destroy' \in Seq(Event)
      /\ \A k \in DOMAIN destroy' : \E j \in DOMAIN destroy : destroy'[k] = destroy[j]
  <2>1. CASE RemoveDestroyEvent(e)
    BY <2>1, RemoveAtElements DEF RemoveDestroyEvent, Types
  <2>2. CASE RemoveEvent(e)
    BY <2>2 DEF RemoveEvent, Types
  <2> QED BY <2>1, <2>2
<1>3. Types'
  BY <1>1, <1>2 DEF Types
<1>4. UidsFresh' /\ QueuedInFuture' /\ QueuedDistinct'
  BY <1>1 DEF UidsFresh, QueuedInFuture, QueuedDistinct
<1>5. WaitingUnknown' /\ RunInPast'
  BY <1>1 DEF WaitingUnknown, RunInPast, Scheduled
<1>6. HandlesKnown'
  BY <1>1 DEF HandlesKnown
<1>7. DestroyEvents'
  BY <1>2 DEF DestroyEvents
<1>8. LastIsDue' /\ RunInOrder'
  BY DEF LastIsDue, RunInOrder, Scheduled
<1> QED BY <1>3, <1>4, <1>5, <1>6, <1>7, <1>8

\* The other thread adds an event nobody knows.
LEMMA RemoteScheduleInv == ASSUME IInv, RemoteSchedule PROVE IInv'
<1> USE SimulatorAssumption DEF IInv, RemoteSchedule, keys
<1> PICK e \in Event \ used, delay \in 0 .. MaxDelay :
          /\ withContext' = Append(withContext, [event |-> e, delay |-> delay])
          /\ used' = used \union {e}
          /\ due' = [due EXCEPT ![e] = now + delay]
  OBVIOUS
<1> DEFINE new == [event |-> e, delay |-> delay]
<1>1. \A f \in used : due'[f] = due[f]
  BY DEF Types
<1>2. due' \in [Event -> Nat] /\ due'[e] = now + delay
  BY DEF Types
<1>3. \A i \in DOMAIN withContext' :
         withContext'[i] = new \/ (i \in DOMAIN withContext /\ withContext'[i] = withContext[i])
  <2>1. /\ new \in [event : Event, delay : 0 .. MaxDelay]
        /\ withContext \in Seq([event : Event, delay : 0 .. MaxDelay])
        /\ withContext' = Append(withContext, new)
    BY DEF Types
  <2> HIDE DEF new
  <2>2. \A i \in DOMAIN Append(withContext, new) :
           Append(withContext, new)[i] = new
           \/ (i \in DOMAIN withContext /\ Append(withContext, new)[i] = withContext[i])
    BY <2>1, AppendElements
  <2> QED BY <2>1, <2>2
<1>4. Types'
  <2>1. withContext' \in Seq([event : Event, delay : 0 .. MaxDelay])
    BY DEF Types
  <2> QED BY <1>2, <2>1 DEF Types
<1>5. UidsFresh' /\ QueuedDistinct' /\ HandlesKnown' /\ DestroyEvents'
  BY DEF UidsFresh, QueuedDistinct, HandlesKnown, DestroyEvents
<1>6. QueuedInFuture'
  BY <1>1 DEF Types, QueuedInFuture
<1>7. \A j \in DOMAIN run : run[j] \in used /\ run[j] # e
  BY DEF RunInPast
<1>8. WaitingUnknown'
  <2> SUFFICES ASSUME NEW i \in DOMAIN withContext'
               PROVE  /\ withContext'[i].event \in used' \ (handles \union events)
                      /\ \A j \in DOMAIN run : run[j] # withContext'[i].event
                      /\ due'[withContext'[i].event] <= now + withContext'[i].delay
    BY DEF WaitingUnknown
  <2>1. CASE withContext'[i] = new
    <3>1. withContext'[i].event = e /\ withContext'[i].delay = delay
      BY <2>1
    <3>2. now + delay <= now + delay
      BY DEF Types
    <3>4. due'[withContext'[i].event] <= now + withContext'[i].delay
      BY <1>2, <3>1, <3>2
    <3>3. e \in used' \ (handles \union events)
      BY DEF Types
    <3> QED BY <1>7, <3>1, <3>3, <3>4
  <2>2. CASE i \in DOMAIN withContext /\ withContext'[i] = withContext[i]
    BY <1>1, <2>2 DEF WaitingUnknown
  <2> QED BY <1>3, <2>1, <2>2
<1>9. RunInPast' /\ RunInOrder'
  BY DEF RunInPast, RunInOrder, Scheduled
<1>10. LastIsDue'
  <2>1. UNCHANGED <<pc, run, now>> /\ LastIsDue /\ run \in Seq(Event)
    BY DEF Types
  <2> HIDE DEF IInv, RemoteSchedule
  <2>2. run # <<>> => Len(run) \in DOMAIN run
    BY <2>1
  <2> QED BY <1>1, <1>7, <2>1, <2>2 DEF LastIsDue
<1> QED BY <1>4, <1>5, <1>6, <1>8, <1>9, <1>10

\* What the list of the other thread holds.
LEMMA WaitingTypes ==
    ASSUME Types
    PROVE  /\ Len(withContext) \in Nat /\ DOMAIN withContext = 1 .. Len(withContext)
           /\ \A i \in DOMAIN withContext :
                 withContext[i].event \in Event /\ withContext[i].delay \in Nat
<1> DEFINE S == [event : Event, delay : 0 .. MaxDelay]
<1>1. \A x \in S : x.event \in Event /\ x.delay \in Nat
  BY SimulatorAssumption
<1>2. withContext \in Seq(S)
  BY DEF Types
<1> HIDE DEF S
<1> QED BY <1>1, <1>2, SeqElements

\* The events of the other thread get keys in the future, and ids in the order of
\* the list.
LEMMA ProcessEventsInv ==
    ASSUME MaxUid <= UINT32_SIZE, IInv, ProcessEventsWithContext, pc' # "event",
           UNCHANGED <<now, cur, cancelled, destroy, used, handles, history>>
    PROVE  IInv'
<1> USE SimulatorAssumption DEF IInv, history, VALID, DESTROY
<1> DEFINE Place(e) == CHOOSE i \in DOMAIN withContext : withContext[i].event = e
           E == {withContext[i].event : i \in DOMAIN withContext}
<1>1. CASE empty
  BY <1>1 DEF ProcessEventsWithContext, keys, remote, Types, UidsFresh, QueuedInFuture,
              QueuedDistinct, WaitingUnknown, RunInPast, HandlesKnown, DestroyEvents, LastIsDue,
              RunInOrder, Scheduled
<1>2. CASE ~ empty
  <2>1. /\ nextUid + Len(withContext) <= MaxUid
        /\ nextUid' = nextUid + Len(withContext)
        /\ withContext' = <<>>
        /\ events' = events \union E
        /\ ts' = [e \in Event |-> IF e \in E THEN now + withContext[Place(e)].delay ELSE ts[e]]
        /\ uid' = [e \in Event |-> IF e \in E THEN nextUid + Place(e) - 1 ELSE uid[e]]
        /\ due' = due /\ run' = run
    BY <1>2 DEF ProcessEventsWithContext, InsertWithContext
  <2>2. \A e \in E : Place(e) \in DOMAIN withContext /\ withContext[Place(e)].event = e
    OBVIOUS
  <2> HIDE DEF Place, E
  <2>3. Len(withContext) \in Nat /\ DOMAIN withContext = 1 .. Len(withContext)
    BY WaitingTypes
  <2>4. \A e \in E : Place(e) \in 1 .. Len(withContext)
    BY <2>2, <2>3
  <2>5. \A e \in E :
           /\ withContext[Place(e)].delay \in Nat
           /\ e \in used \ (handles \union events)
           /\ \A j \in DOMAIN run : run[j] # e
           /\ due[e] <= now + withContext[Place(e)].delay
    <3> SUFFICES ASSUME NEW e \in E, NEW i \in DOMAIN withContext,
                        i = Place(e), withContext[i].event = e
                 PROVE  /\ withContext[i].delay \in Nat
                        /\ e \in used \ (handles \union events)
                        /\ \A j \in DOMAIN run : run[j] # e
                        /\ due[e] <= now + withContext[i].delay
      BY <2>2
    <3> QED BY WaitingTypes DEF WaitingUnknown
  <2>6. \A e \in E : ts'[e] = now + withContext[Place(e)].delay /\ uid'[e] = nextUid + Place(e) - 1
    BY <2>1, <2>5 DEF Types
  <2>7. \A e \in used \ E : ts'[e] = ts[e] /\ uid'[e] = uid[e]
    BY <2>1 DEF Types
  <2>8. Types'
    <3>0. now \in Nat /\ nextUid \in Nat
      BY DEF Types
    <3>1. ASSUME NEW e \in E PROVE now + withContext[Place(e)].delay \in Nat
      <4>1. withContext[Place(e)].delay \in Nat
        BY <2>5
      <4> HIDE DEF IInv
      <4> QED BY <3>0, <4>1
    <3>2. ASSUME NEW e \in E PROVE nextUid + Place(e) - 1 \in Nat
      <4>1. Place(e) \in 1 .. Len(withContext)
        BY <2>4
      <4> HIDE DEF IInv
      <4> QED BY <2>3, <3>0, <4>1
    <3>3. nextUid' \in Nat
      <4> HIDE DEF IInv
      <4> QED BY <2>1, <2>3, <3>0
    <3>4. ts' \in [Event -> Nat] /\ uid' \in [Event -> Nat]
      BY <2>1, <3>1, <3>2 DEF Types
    <3>5. events' \subseteq used'
      BY <2>1, <2>5 DEF Types
    <3>6. withContext' \in Seq([event : Event, delay : 0 .. MaxDelay])
      BY <2>1
    <3>7. UNCHANGED <<used, handles, due, now, cur, destroy, run>>
      OBVIOUS
    <3>8. /\ used \subseteq Event /\ handles \subseteq used /\ due \in [Event -> Nat]
          /\ now \in Nat /\ cur \in Nat /\ destroy \in Seq(Event) /\ run \in Seq(Event)
      BY DEF Types
    <3> HIDE DEF IInv
    <3> QED BY <3>3, <3>4, <3>5, <3>6, <3>7, <3>8 DEF Types
  <2>9. UidsFresh'
    BY <2>1, <2>3, <2>4 DEF Types, UidsFresh
  <2>10. QueuedInFuture'
    <3> SUFFICES ASSUME NEW e \in events'
                 PROVE  VALID <= uid'[e] /\ Earlier(now, cur, ts'[e], uid'[e]) /\ due[e] <= ts'[e]
      BY <2>1 DEF QueuedInFuture, Earlier
    <3>1. CASE e \in E
      <4>1. ts'[e] = now + withContext[Place(e)].delay /\ withContext[Place(e)].delay \in Nat
            /\ due[e] <= ts'[e]
        BY <2>5, <2>6, <3>1
      <4>2. uid'[e] = nextUid + Place(e) - 1 /\ Place(e) \in 1 .. Len(withContext)
        BY <2>4, <2>6, <3>1
      <4>3. now \in Nat /\ nextUid \in Nat /\ cur \in Nat /\ cur < nextUid /\ VALID <= nextUid
        BY DEF Types, UidsFresh
      <4>4. uid'[e] \in Nat /\ uid'[e] >= nextUid
        BY <2>3, <4>2, <4>3
      <4>5. ts'[e] \in Nat /\ ts'[e] >= now
        BY <4>1, <4>3
      <4> QED BY <4>1, <4>3, <4>4, <4>5 DEF Earlier
    <3>2. CASE e \in events \ E
      BY <2>7, <3>2 DEF Types, QueuedInFuture
    <3> QED BY <2>1, <3>1, <3>2
  <2>11. QueuedDistinct'
    <3>1. \A e, f \in E : uid'[e] = uid'[f] => e = f
      <4> SUFFICES ASSUME NEW e \in E, NEW f \in E, uid'[e] = uid'[f] PROVE e = f
        OBVIOUS
      <4>1. nextUid + Place(e) - 1 = nextUid + Place(f) - 1
        BY <2>6
      <4>2. Place(e) = Place(f)
        BY <2>3, <2>4, <4>1 DEF Types
      <4> QED BY <2>2, <4>2
    <3>2. ASSUME NEW e \in E, NEW f \in events \ E PROVE uid'[e] # uid'[f]
      <4>1. uid'[e] = nextUid + Place(e) - 1 /\ Place(e) \in 1 .. Len(withContext)
        BY <2>4, <2>6
      <4>2. uid'[f] = uid[f] /\ uid[f] \in Nat /\ uid[f] < nextUid /\ nextUid \in Nat
        BY <2>7 DEF Types, UidsFresh
      <4> QED BY <2>3, <4>1, <4>2
    <3>3. ASSUME NEW e \in events \ E, NEW f \in events \ E, uid'[e] = uid'[f] PROVE e = f
      <4>1. uid'[e] = uid[e] /\ uid'[f] = uid[f]
        BY <2>7 DEF Types
      <4> QED BY <3>3, <4>1 DEF QueuedDistinct
    <3>4. events' = events \union E
      BY <2>1
    <3> HIDE DEF IInv
    <3> SUFFICES ASSUME NEW e \in events', NEW f \in events', uid'[e] = uid'[f] PROVE e = f
      BY DEF QueuedDistinct
    <3>5. CASE e \in E /\ f \in E
      BY <3>1, <3>5
    <3>6. CASE e \in E /\ f \notin E
      BY <3>2, <3>4, <3>6
    <3>7. CASE e \notin E /\ f \in E
      BY <3>2, <3>4, <3>7
    <3>8. CASE e \notin E /\ f \notin E
      BY <3>3, <3>4, <3>8
    <3> QED BY <3>5, <3>6, <3>7, <3>8
  <2>12. WaitingUnknown'
    BY <2>1 DEF WaitingUnknown
  <2>13. \A i \in DOMAIN run : run[i] \in used \ E
    BY <2>5 DEF RunInPast
  <2>14. RunInPast'
    BY <2>1, <2>7, <2>13 DEF RunInPast, Scheduled
  <2>15. RunInOrder'
    BY <2>1, <2>7, <2>13 DEF RunInOrder, Scheduled
  <2>16. \A e \in handles : e \in used \ E
    BY <2>5 DEF Types
  <2>17. HandlesKnown'
    BY <2>1, <2>7, <2>16 DEF HandlesKnown
  <2>18. DestroyEvents'
    BY <2>7, <2>16 DEF DestroyEvents
  <2>19. LastIsDue'
    BY DEF LastIsDue
  <2> QED BY <2>8, <2>9, <2>10, <2>11, <2>12, <2>14, <2>15, <2>17, <2>18, <2>19
<1> QED BY <1>1, <1>2

\* The event removed is the first of those in the future.
LEMMA ProcessOneInv == ASSUME IInv, ProcessOneEvent PROVE IInv'
<1> USE SimulatorAssumption DEF IInv, keys, remote, VALID, DESTROY
<1> PICK e \in events :
          /\ \A f \in events \ {e} : Before(e, f)
          /\ events' = events \ {e}
          /\ now' = ts[e] /\ cur' = uid[e]
          /\ IF e \in cancelled THEN pc' = "drain" /\ UNCHANGED <<run, stop>>
             ELSE pc' = "event" /\ run' = Append(run, e) /\ stop' = (e \in stops)
  BY DEF ProcessOneEvent
<1>1. UNCHANGED <<ts, uid, nextUid, cancelled, destroy, withContext, used, handles, due>>
  BY DEF ProcessOneEvent
<1>2. \A f \in events \ {e} : Earlier(ts[e], uid[e], ts[f], uid[f])
  <2>1. \A f \in events : Uid(f) = uid[f]
    BY EventUidExact DEF Types
  <2> QED BY <2>1 DEF Before, Earlier
<1>3. /\ e \in Event /\ e \in used /\ Earlier(now, cur, ts[e], uid[e])
      /\ VALID <= uid[e] /\ due[e] <= ts[e] /\ now <= ts[e]
  BY DEF Types, QueuedInFuture, Earlier
<1>4. \A f \in Event : ~ Earlier(now, cur, ts[f], uid[f]) => Earlier(ts[f], uid[f], ts[e], uid[e])
  BY <1>3 DEF Types, Earlier
<1>5. \A f \in Event : Earlier(ts[f], uid[f], ts[e], uid[e]) => ~ Earlier(ts[e], uid[e], ts[f], uid[f])
  BY <1>3 DEF Types, Earlier
<1>6. run' \in Seq(Event) /\ \A i \in DOMAIN run' :
         \/ run'[i] = e /\ (i \notin DOMAIN run /\ i = Len(run) + 1)
         \/ i \in DOMAIN run /\ run'[i] = run[i]
  <2>1. CASE e \in cancelled
    BY <2>1 DEF Types
  <2>2. CASE e \notin cancelled
    <3>1. run \in Seq(Event) /\ run' = Append(run, e)
      BY <2>2 DEF Types
    <3>2. /\ Append(run, e) \in Seq(Event)
          /\ Len(run) \in Nat /\ DOMAIN run = 1 .. Len(run)
          /\ DOMAIN Append(run, e) = 1 .. (Len(run) + 1)
      BY <1>3, <3>1
    <3>3. \A i \in 1 .. (Len(run) + 1) :
             Append(run, e)[i] = IF i = Len(run) + 1 THEN e ELSE run[i]
      BY <1>3, <3>1
    <3>4. ASSUME NEW i \in 1 .. (Len(run) + 1)
          PROVE  \/ run'[i] = e /\ i \notin DOMAIN run /\ i = Len(run) + 1
                 \/ i \in DOMAIN run /\ run'[i] = run[i]
      <4>1. run'[i] = IF i = Len(run) + 1 THEN e ELSE run[i]
        BY <3>1, <3>3
      <4>2. (i \in DOMAIN run /\ i # Len(run) + 1) \/ (i \notin DOMAIN run /\ i = Len(run) + 1)
        BY <3>2
      <4> QED BY <4>1, <4>2
    <3>5. DOMAIN run' = 1 .. (Len(run) + 1) /\ run' \in Seq(Event)
      BY <3>1, <3>2
    <3> QED BY <3>4, <3>5
  <2> QED BY <2>1, <2>2
<1>7. Types'
  BY <1>1, <1>3, <1>6 DEF Types
<1>8. UidsFresh'
  BY <1>1, <1>3 DEF UidsFresh
<1>9. QueuedInFuture'
  BY <1>1, <1>2 DEF QueuedInFuture
<1>10. QueuedDistinct'
  BY <1>1 DEF QueuedDistinct
<1>11. WaitingUnknown'
  <2> SUFFICES ASSUME NEW i \in DOMAIN withContext
               PROVE  /\ \A j \in DOMAIN run' : run'[j] # withContext[i].event
                      /\ due[withContext[i].event] <= ts[e] + withContext[i].delay
    BY <1>1 DEF WaitingUnknown
  <2>1. withContext[i].event # e /\ withContext[i].delay \in Nat /\ withContext[i].event \in Event
    BY WaitingTypes DEF WaitingUnknown
  <2>2. due[withContext[i].event] <= now + withContext[i].delay
    BY DEF WaitingUnknown
  <2>3. due[withContext[i].event] <= ts[e] + withContext[i].delay
    <3>1. due[withContext[i].event] \in Nat /\ now \in Nat /\ ts[e] \in Nat
      BY <1>3, <2>1 DEF Types
    <3> QED BY <1>3, <2>1, <2>2, <3>1
  <2> QED BY <1>6, <2>1, <2>3 DEF WaitingUnknown
<1>12. RunInPast'
  <2> SUFFICES ASSUME NEW i \in DOMAIN run'
               PROVE  /\ run'[i] \in used \ (events \ {e})
                      /\ Scheduled(run'[i]) => ~ Earlier(ts[e], uid[e], ts[run'[i]], uid[run'[i]])
    BY <1>1 DEF RunInPast, Scheduled
  <2>1. CASE run'[i] = e
    BY <1>3, <2>1 DEF Earlier, Types
  <2>2. CASE i \in DOMAIN run /\ run'[i] = run[i]
    BY <1>4, <1>5, <2>2 DEF RunInPast, Types
  <2> QED BY <1>6, <2>1, <2>2
<1>13. HandlesKnown'
  <2> SUFFICES ASSUME NEW f \in handles
               PROVE  \/ uid[f] = DESTROY
                      \/ /\ VALID <= uid[f]
                         /\ f \in (events \ {e}) \union cancelled
                            \/ ~ Earlier(ts[e], uid[e], ts[f], uid[f])
    BY <1>1 DEF HandlesKnown
  <2>1. CASE f = e
    BY <1>3, <2>1 DEF Earlier, Types
  <2>2. CASE f # e
    BY <1>4, <1>5, <2>2 DEF HandlesKnown, Types
  <2> QED BY <2>1, <2>2
<1>14. DestroyEvents'
  BY <1>1 DEF DestroyEvents
<1>15. LastIsDue'
  <2>1. CASE e \in cancelled
    BY <2>1 DEF LastIsDue
  <2>2. CASE e \notin cancelled
    <3>1. run' # <<>> /\ run'[Len(run')] = e
      BY <1>3, <2>2 DEF Types
    <3> QED BY <1>1, <1>3, <3>1 DEF LastIsDue
  <2> QED BY <2>1, <2>2
<1>16. RunInOrder'
  <2> SUFFICES ASSUME NEW i \in DOMAIN run', NEW j \in DOMAIN run', i < j,
                      Scheduled(run'[i]), Scheduled(run'[j])
               PROVE  Earlier(ts[run'[i]], uid[run'[i]], ts[run'[j]], uid[run'[j]])
    <3> HIDE DEF IInv
    <3> QED BY <1>1 DEF RunInOrder, Scheduled, Earlier
  <2>1. DOMAIN run = 1 .. Len(run) /\ Len(run) \in Nat
    BY DEF Types
  <2>2. i \in DOMAIN run /\ run'[i] = run[i]
    BY <1>6, <2>1
  <2>3. CASE j \in DOMAIN run /\ run'[j] = run[j]
    <3>1. RunInOrder /\ i \in DOMAIN run /\ i < j /\ Scheduled(run[i]) /\ Scheduled(run[j])
      BY <2>2, <2>3
    <3> HIDE DEF IInv
    <3> QED BY <2>2, <2>3, <3>1 DEF RunInOrder, Earlier
  <2>4. CASE run'[j] = e
    <3>1. run[i] \in Event /\ ~ Earlier(now, cur, ts[run[i]], uid[run[i]])
      BY <2>2 DEF RunInPast, Types
    <3> HIDE DEF IInv
    <3> QED BY <1>4, <2>2, <2>4, <3>1
  <2> QED BY <1>6, <2>3, <2>4
<1> QED BY <1>7, <1>8, <1>9, <1>10, <1>11, <1>12, <1>13, <1>14, <1>15, <1>16

\* Nothing the invariant is about changes, and no event begins.
LEMMA ControlInv ==
    ASSUME IInv, Stop \/ EventReturns \/ RunReturns \/ UNCHANGED vars PROVE IInv'
<1>1. /\ UNCHANGED <<ts, uid, nextUid, events, now, cur, cancelled, destroy, withContext>>
      /\ UNCHANGED <<used, handles, run, due>>
      /\ pc' = "event" => pc = "event"
  BY DEF Stop, EventReturns, RunReturns, vars, keys, remote, history
<1>2. Types' /\ UidsFresh' /\ QueuedInFuture' /\ QueuedDistinct' /\ WaitingUnknown'
  BY <1>1 DEF IInv, Types, UidsFresh, QueuedInFuture, QueuedDistinct, WaitingUnknown
<1>3. RunInPast' /\ HandlesKnown' /\ DestroyEvents' /\ LastIsDue' /\ RunInOrder'
  BY <1>1 DEF IInv, RunInPast, HandlesKnown, DestroyEvents, LastIsDue, RunInOrder, Scheduled
<1> QED BY <1>2, <1>3 DEF IInv

\* A destroy event is not one of those the order is about.
LEMMA DestroyInv == ASSUME IInv, DestroyStep PROVE IInv'
<1> USE DEF IInv, keys, remote, VALID, DESTROY
<1>1. /\ UNCHANGED <<ts, uid, nextUid, events, now, cur, cancelled, withContext, used, handles, due>>
      /\ pc' # "event"
  BY DEF DestroyStep
<1>2. CASE destroy = <<>>
  BY <1>1, <1>2 DEF DestroyStep, Types, UidsFresh, QueuedInFuture, QueuedDistinct,
     WaitingUnknown, RunInPast, HandlesKnown, DestroyEvents, LastIsDue, RunInOrder, Scheduled
<1>3. CASE destroy # <<>>
  <2> DEFINE e == Head(destroy)
  <2>1. /\ destroy \in Seq(Event) /\ destroy' = Tail(destroy)
        /\ run' = run \/ run' = Append(run, e)
    BY <1>3 DEF DestroyStep, Types
  <2>2. /\ Tail(destroy) \in Seq(Event) /\ e = destroy[1] /\ 1 \in DOMAIN destroy
        /\ \A i \in DOMAIN Tail(destroy) :
              i + 1 \in DOMAIN destroy /\ Tail(destroy)[i] = destroy[i + 1]
    BY <1>3, <2>1
  <2>3. e \in handles /\ uid[e] = DESTROY
    BY <2>2 DEF DestroyEvents
  <2>4. e \in used /\ e \in Event /\ e \notin events /\ ~ Scheduled(e)
        /\ \A i \in DOMAIN withContext : withContext[i].event # e
    <3>1. e \in used /\ e \in Event /\ e \notin events
      BY <2>3 DEF Types, QueuedInFuture
    <3>2. ~ Scheduled(e)
      BY <2>3 DEF Scheduled
    <3>3. \A i \in DOMAIN withContext : withContext[i].event # e
      BY <2>3 DEF WaitingUnknown
    <3> QED BY <3>1, <3>2, <3>3
  <2> HIDE DEF e
  <2>5. /\ run' \in Seq(Event)
        /\ \A i \in DOMAIN run' : run'[i] = e \/ (i \in DOMAIN run /\ run'[i] = run[i])
    <3>1. run \in Seq(Event)
      BY DEF Types
    <3>2. CASE run' = run
      BY <3>1, <3>2
    <3>3. CASE run' = Append(run, e)
      <4>1. /\ Append(run, e) \in Seq(Event)
            /\ \A i \in DOMAIN Append(run, e) :
                  Append(run, e)[i] = e \/ (i \in DOMAIN run /\ Append(run, e)[i] = run[i])
        BY <2>4, <3>1, AppendElements
      <4> QED BY <3>3, <4>1
    <3> QED BY <2>1, <3>2, <3>3
  <2>6. Types' /\ UidsFresh' /\ QueuedInFuture' /\ QueuedDistinct' /\ HandlesKnown' /\ LastIsDue'
    BY <1>1, <2>1, <2>2, <2>5
       DEF Types, UidsFresh, QueuedInFuture, QueuedDistinct, HandlesKnown, LastIsDue
  <2>7. WaitingUnknown'
    BY <1>1, <2>4, <2>5 DEF WaitingUnknown
  <2>8. RunInPast'
    BY <1>1, <2>4, <2>5 DEF RunInPast, Scheduled
  <2>9. DestroyEvents'
    BY <1>1, <2>1, <2>2 DEF DestroyEvents
  <2>10. RunInOrder'
    BY <1>1, <2>4, <2>5 DEF RunInOrder, Scheduled
  <2> QED BY <2>6, <2>7, <2>8, <2>9, <2>10
<1> QED BY <1>2, <1>3

-----------------------------------------------------------------------------
\* The inductive invariant holds in every reachable state.
THEOREM Invariance == ASSUME MaxUid <= UINT32_SIZE PROVE Spec => []IInv
<1>1. IInv /\ [Next]_vars => IInv'
  <2> SUFFICES ASSUME IInv, [Next]_vars PROVE IInv'
    OBVIOUS
  <2>1. CASE ScheduleEvent
    BY <2>1, ScheduleInv DEF ScheduleEvent
  <2>2. CASE StopAt
    BY <2>2, ScheduleInv DEF StopAt
  <2>3. CASE ScheduleDestroy
    BY <2>3, ScheduleDestroyInv
  <2>4. CASE Cancel
    BY <2>4, CancelInv
  <2>5. CASE RemoveById
    BY <2>5, RemoveInv
  <2>6. CASE Stop \/ EventReturns \/ RunReturns \/ UNCHANGED vars
    BY <2>6, ControlInv
  <2>7. CASE RemoteSchedule
    BY <2>7, RemoteScheduleInv
  <2>8. CASE Run \/ Drain
    BY <2>8, ProcessEventsInv DEF Run, Drain, history
  <2>9. CASE ProcessOneEvent
    BY <2>9, ProcessOneInv
  <2>10. CASE DestroyStep
    BY <2>10, DestroyInv
  <2> QED BY <2>1, <2>2, <2>3, <2>4, <2>5, <2>6, <2>7, <2>8, <2>9, <2>10 DEF Next
<1> QED BY <1>1, InitInv, PTL DEF Spec

\* Manual, section Event: events run in increasing order of time, and tied ones
\* in the order they were scheduled, whatever is cancelled, removed or pushed by
\* the other thread meanwhile.
THEOREM EventsRunInOrder == ASSUME MaxUid <= UINT32_SIZE PROVE Spec => []RunInOrder
<1>1. IInv => RunInOrder
  BY DEF IInv
<1> QED BY <1>1, Invariance, PTL

\* No event begins before the time it was asked for.
THEOREM NoEventIsEarly == ASSUME MaxUid <= UINT32_SIZE PROVE Spec => []NotBeforeDue
<1>1. IInv => NotBeforeDue
  BY DEF IInv, LastIsDue, NotBeforeDue
<1> QED BY <1>1, Invariance, PTL

\* IsExpired, which compares keys, is exact.
THEOREM IsExpiredIsExact == ASSUME MaxUid <= UINT32_SIZE PROVE Spec => []ExpiredIffGone
<1>1. ASSUME IInv PROVE ExpiredIffGone
  <2> SUFFICES ASSUME NEW e \in handles
               PROVE  IsExpired(e) <=> e \in cancelled \/ e \notin events \union ToSet(destroy)
    BY DEF ExpiredIffGone
  <2> USE <1>1 DEF IInv, VALID, DESTROY
  <2>1. Uid(e) = uid[e] /\ UidOf(cur) = cur /\ ts[e] \in Nat /\ uid[e] \in Nat
    BY EventUidExact DEF Types
  <2>2. CASE uid[e] = DESTROY
    <3>1. e \notin events
      BY <2>2 DEF QueuedInFuture
    <3> QED BY <2>1, <2>2, <3>1 DEF IsExpired
  <2>3. CASE uid[e] # DESTROY
    <3>1. VALID <= uid[e] /\ (e \in events \union cancelled \/ ~ Earlier(now, cur, ts[e], uid[e]))
      BY <2>3 DEF HandlesKnown
    <3>2. e \notin ToSet(destroy)
      BY <2>3 DEF ToSet, DestroyEvents
    <3>3. e \in events => Earlier(now, cur, ts[e], uid[e])
      BY DEF QueuedInFuture
    <3>4. Earlier(now, cur, ts[e], uid[e]) <=> ~ (ts[e] < now \/ (ts[e] = now /\ uid[e] <= cur))
      BY <2>1 DEF Earlier, Types
    <3> QED BY <2>1, <2>3, <3>1, <3>2, <3>3, <3>4 DEF IsExpired
  <2> QED BY <2>2, <2>3
<1> QED BY <1>1, Invariance, PTL

-----------------------------------------------------------------------------
(* The count of unscheduled events.                                        *)

\* The rest of the types, the count of the events in the list, and the events of
\* the other thread are different ones.
CountInv ==
    /\ pc \in PcType /\ cancelled \subseteq Event /\ stops \subseteq Event
    /\ stop \in BOOLEAN /\ empty \in BOOLEAN
    /\ IsFiniteSet(events) /\ unscheduled = Cardinality(events)
    /\ \A i, j \in DOMAIN withContext :
           withContext[i].event = withContext[j].event => i = j

LEMMA InitCount == Init => CountInv
<1> SUFFICES ASSUME Init PROVE CountInv
  OBVIOUS
<1>1. events = {} /\ unscheduled = 0 /\ withContext = <<>>
  BY DEF Init
<1>2. IsFiniteSet(events) /\ Cardinality(events) = unscheduled
  BY <1>1, FS_EmptySet
<1>3. pc \in PcType /\ cancelled \subseteq Event /\ stops \subseteq Event
      /\ stop \in BOOLEAN /\ empty \in BOOLEAN
  BY DEF Init, PcType
<1>4. \A i, j \in DOMAIN withContext : withContext[i].event = withContext[j].event => i = j
  BY <1>1
<1> QED BY <1>2, <1>3, <1>4 DEF CountInv

LEMMA ScheduleCount ==
    ASSUME IInv, CountInv, NEW e \in Event, NEW delay \in 0 .. MaxDelay, Schedule(e, delay),
           stops' \subseteq Event
    PROVE  CountInv'
<1>1. e \notin events /\ events' = events \union {e} /\ unscheduled' = unscheduled + 1
      /\ UNCHANGED <<pc, cancelled, stop, empty, withContext>>
  BY DEF IInv, Types, Schedule, remote
<1>2. IsFiniteSet(events') /\ Cardinality(events') = Cardinality(events) + 1
  BY <1>1, FS_AddElement DEF CountInv
<1> QED BY <1>1, <1>2 DEF CountInv

\* What is removed by its handle was in the list.
LEMMA RemoveCount ==
    ASSUME MaxUid <= UINT32_SIZE, IInv, CountInv, RemoveById PROVE CountInv'
<1> PICK e \in handles : RemoveDestroyEvent(e) \/ RemoveEvent(e)
  BY DEF RemoveById
<1>1. UNCHANGED <<pc, stops, stop, empty, withContext>> /\ e \in Event
  BY DEF RemoveById, remote, IInv, Types
<1>2. CASE RemoveDestroyEvent(e)
  BY <1>1, <1>2 DEF RemoveDestroyEvent, CountInv
<1>3. CASE RemoveEvent(e)
  <2>1. events' = events \ {e} /\ unscheduled' = unscheduled - 1 /\ cancelled' = cancelled \union {e}
    BY <1>3 DEF RemoveEvent
  <2>2. e \in events
    <3>1. Uid(e) = uid[e] /\ UidOf(cur) = cur /\ ts[e] \in Nat /\ uid[e] \in Nat
          /\ now \in Nat /\ cur \in Nat
      BY <1>1, EventUidExact DEF IInv, Types
    <3>2. e \notin cancelled /\ uid[e] # DESTROY /\ Earlier(now, cur, ts[e], uid[e])
      BY <1>3, <3>1 DEF RemoveEvent, IsExpired, Earlier
    <3> QED BY <3>2 DEF IInv, HandlesKnown
  <2>3. IsFiniteSet(events') /\ Cardinality(events') = Cardinality(events) - 1
    BY <2>1, <2>2, FS_RemoveElement DEF CountInv
  <2> QED BY <1>1, <2>1, <2>3 DEF CountInv
<1> QED BY <1>2, <1>3

\* The event pushed is not yet in the list of the other thread.
LEMMA RemoteScheduleCount ==
    ASSUME IInv, CountInv, RemoteSchedule PROVE CountInv'
<1> PICK e \in Event \ used, delay \in 0 .. MaxDelay :
        withContext' = Append(withContext, [event |-> e, delay |-> delay])
  BY DEF RemoteSchedule
<1> DEFINE new == [event |-> e, delay |-> delay]
<1>1. UNCHANGED <<pc, cancelled, stops, stop, events, unscheduled>> /\ empty' = FALSE
  BY DEF RemoteSchedule
<1>2. /\ withContext \in Seq([event : Event, delay : 0 .. MaxDelay])
      /\ \A i \in DOMAIN withContext : withContext[i].event # e
  BY DEF IInv, Types, WaitingUnknown
<1>3. new \in [event : Event, delay : 0 .. MaxDelay] /\ new.event = e
  OBVIOUS
<1> HIDE DEF new
<1>4. /\ DOMAIN withContext = 1 .. Len(withContext) /\ Len(withContext) \in Nat
      /\ DOMAIN withContext' = 1 .. (Len(withContext) + 1)
      /\ \A i \in DOMAIN withContext' :
            withContext'[i] = IF i = Len(withContext) + 1 THEN new ELSE withContext[i]
  <2>1. withContext' = Append(withContext, new)
    BY DEF new
  <2> QED BY <1>2, <1>3, <2>1
<1>5. \A i, j \in DOMAIN withContext' : withContext'[i].event = withContext'[j].event => i = j
  <2> SUFFICES ASSUME NEW i \in DOMAIN withContext', NEW j \in DOMAIN withContext',
                      withContext'[i].event = withContext'[j].event
               PROVE  i = j
    OBVIOUS
  <2>1. CASE i = Len(withContext) + 1 \/ j = Len(withContext) + 1
    BY <1>2, <1>3, <1>4, <2>1
  <2>2. CASE i # Len(withContext) + 1 /\ j # Len(withContext) + 1
    <3>1. i \in DOMAIN withContext /\ j \in DOMAIN withContext
          /\ withContext[i].event = withContext[j].event
      BY <1>4, <2>2
    <3> QED BY <3>1 DEF CountInv
  <2> QED BY <2>1, <2>2
<1> QED BY <1>1, <1>5 DEF CountInv

\* As many events are inserted as there are in the list of the other thread.
LEMMA ProcessEventsCount ==
    ASSUME IInv, CountInv, ProcessEventsWithContext, pc' \in PcType,
           UNCHANGED <<cancelled, stops>>, stop' \in BOOLEAN
    PROVE  CountInv'
<1>1. CASE empty
  BY <1>1 DEF ProcessEventsWithContext, keys, remote, CountInv
<1>2. CASE ~ empty
  <2> DEFINE n == Len(withContext)
             E == {withContext[i].event : i \in DOMAIN withContext}
             f == [i \in 1 .. n |-> withContext[i].event]
  <2>1. /\ unscheduled' = unscheduled + n /\ withContext' = <<>> /\ empty' = TRUE
        /\ events' = events \union E
    BY <1>2 DEF ProcessEventsWithContext, InsertWithContext
  <2>2. n \in Nat /\ DOMAIN withContext = 1 .. n
    BY WaitingTypes DEF IInv
  <2>3. f \in Surjection(1 .. n, E) /\ f \in Injection(1 .. n, E)
    <3>1. f \in [1 .. n -> E] /\ \A y \in E : \E i \in 1 .. n : f[i] = y
      BY <2>2
    <3>2. \A i, j \in 1 .. n : f[i] = f[j] => i = j
      BY <2>2 DEF CountInv
    <3> HIDE DEF f, E, n
    <3> QED BY <3>1, <3>2 DEF Surjection, Injection, IsInjective
  <2>4. E \intersect events = {}
    BY DEF IInv, WaitingUnknown
  <2> HIDE DEF f, E, n
  <2>5. IsFiniteSet(1 .. n) /\ Cardinality(1 .. n) = n
    <3>1. 1 \in Int /\ n \in Int
      BY <2>2
    <3> QED BY <2>2, <3>1, FS_Interval
  <2>6. IsFiniteSet(E) /\ Cardinality(E) = n
    BY <2>3, <2>5, FS_Surjection
  <2>7. events \intersect E = {} /\ Cardinality({}) = 0
    BY <2>4, FS_EmptySet
  <2>8. IsFiniteSet(events \union E) /\ Cardinality(events \union E) = Cardinality(events) + n
    <3>1. IsFiniteSet(events) /\ Cardinality(events) \in Nat
      BY FS_CardinalityType DEF CountInv
    <3>2. Cardinality(events \union E) = Cardinality(events) + Cardinality(E) - Cardinality({})
      BY <2>6, <2>7, <3>1, FS_Union
    <3>3. IsFiniteSet(events \union E)
      BY <2>6, <3>1, FS_Union
    <3> QED BY <2>2, <2>6, <2>7, <3>1, <3>2, <3>3
  <2>9. \A i, j \in DOMAIN withContext' : withContext'[i].event = withContext'[j].event => i = j
    BY <2>1
  <2> QED BY <2>1, <2>8, <2>9 DEF CountInv
<1> QED BY <1>1, <1>2

LEMMA ProcessOneCount ==
    ASSUME IInv, CountInv, ProcessOneEvent PROVE CountInv'
<1>1. PICK e \in events :
          /\ events' = events \ {e}
          /\ IF e \in cancelled THEN pc' = "drain" /\ UNCHANGED <<run, stop>>
             ELSE pc' = "event" /\ run' = Append(run, e) /\ stop' = (e \in stops)
  BY DEF ProcessOneEvent
<1>1a. pc' \in PcType /\ stop' \in BOOLEAN
  <2>1. CASE e \in cancelled
    BY <1>1, <2>1, Zenon DEF PcType, CountInv
  <2>2. CASE e \notin cancelled
    <3>1. pc' = "event" /\ stop' = (e \in stops)
      BY <1>1, <2>2
    <3>2. (e \in stops) \in BOOLEAN
      OBVIOUS
    <3>3. pc' \in PcType
      BY <3>1 DEF PcType
    <3> QED BY <3>1, <3>2, <3>3, Zenon
  <2> QED BY <2>1, <2>2
<1>2. unscheduled' = unscheduled - 1 /\ UNCHANGED <<cancelled, stops, empty, withContext>>
  BY DEF ProcessOneEvent, remote
<1>3. events' = events \ {e} /\ e \in events
  BY <1>1
<1>4. IsFiniteSet(events') /\ Cardinality(events') = Cardinality(events) - 1
  BY <1>3, FS_RemoveElement DEF CountInv
<1>5. unscheduled' = Cardinality(events')
  BY <1>2, <1>4 DEF CountInv
<1> QED BY <1>1a, <1>2, <1>4, <1>5 DEF CountInv

LEMMA ControlCount ==
    ASSUME IInv, CountInv,
           \/ ScheduleDestroy \/ Cancel \/ Stop \/ EventReturns \/ RunReturns \/ DestroyStep
           \/ UNCHANGED vars
    PROVE  CountInv'
<1>1. UNCHANGED <<events, unscheduled, stops, empty, withContext>>
  BY DEF ScheduleDestroy, Cancel, Stop, EventReturns, RunReturns, DestroyStep, vars, remote
<1>2. pc' \in PcType /\ stop' \in BOOLEAN /\ cancelled' \subseteq Event
  BY DEF ScheduleDestroy, Cancel, Stop, EventReturns, RunReturns, DestroyStep, vars, CountInv,
         PcType, IInv, Types
<1> QED BY <1>1, <1>2 DEF CountInv

\* m_unscheduledEvents is the number of events in the list, however they got there
\* or left it.
THEOREM CountIsExact == ASSUME MaxUid <= UINT32_SIZE PROVE Spec => [](IInv /\ CountInv)
<1>1. IInv /\ CountInv /\ [Next]_vars => CountInv'
  <2> SUFFICES ASSUME IInv, CountInv, [Next]_vars PROVE CountInv'
    OBVIOUS
  <2>1. CASE ScheduleEvent
    BY <2>1, ScheduleCount DEF ScheduleEvent, CountInv
  <2>2. CASE StopAt
    <3>1. stops \subseteq Event
      BY DEF CountInv
    <3> QED BY <2>2, <3>1, ScheduleCount DEF StopAt
  <2>3. CASE \/ ScheduleDestroy \/ Cancel \/ Stop \/ EventReturns \/ RunReturns \/ DestroyStep
             \/ UNCHANGED vars
    BY <2>3, ControlCount
  <2>4. CASE RemoveById
    BY <2>4, RemoveCount
  <2>5. CASE RemoteSchedule
    BY <2>5, RemoteScheduleCount
  <2>6. CASE Run \/ Drain
    BY <2>6, ProcessEventsCount DEF Run, Drain, PcType, CountInv
  <2>7. CASE ProcessOneEvent
    BY <2>7, ProcessOneCount
  <2> QED BY <2>1, <2>2, <2>3, <2>4, <2>5, <2>6, <2>7 DEF Next
<1> QED BY <1>1, InitCount, Invariance, PTL DEF Spec

\* All variables have their types; m_unscheduledEvents does not become negative.
THEOREM TypeCorrect == ASSUME MaxUid <= UINT32_SIZE PROVE Spec => []TypeOK
<1>1. ASSUME IInv, CountInv PROVE TypeOK
  <2>1. unscheduled \in Nat
    BY <1>1, FS_CardinalityType DEF CountInv
  <2> QED BY <1>1, <2>1 DEF IInv, Types, CountInv, TypeOK
<1> QED BY <1>1, CountIsExact, PTL
=============================================================================
