----------------------------- MODULE Schedulers -----------------------------
(***************************************************************************)
(* The data structures that hold the events of a simulator, as operators:  *)
(* ListScheduler, HeapScheduler and CalendarScheduler behind the calls of  *)
(* class Scheduler.  (MapScheduler and PriorityQueueScheduler are thin     *)
(* covers of std::map and std::priority_queue.)                            *)
(*                                                                         *)
(* A loop is a function of the number of its turns; a turn in which the    *)
(* loop has ended changes nothing.                                         *)
(***************************************************************************)
EXTENDS Integers, Sequences, SequencesExt

Less(a, b) == a.ts < b.ts \/ (a.ts = b.ts /\ a.uid < b.uid)

-----------------------------------------------------------------------------
(* ListScheduler, and the buckets of CalendarScheduler.                    *)

InsertSorted(s, ev) ==
    LET i == SelectInSeq(s, LAMBDA x : Less(ev, x))
    IN  IF i = 0 THEN Append(s, ev) ELSE InsertAt(s, i, ev)

Erase(s, ev) == RemoveAt(s, SelectInSeq(s, LAMBDA x : x.uid = ev.uid))

-----------------------------------------------------------------------------
(* HeapScheduler: an array from index 1.                                   *)

Exch(h, a, b) == [h EXCEPT ![a] = h[b], ![b] = h[a]]

\* A turn of the loop of BottomUp: the event at x.at moves up.
Up(x) ==
    LET parent == x.at \div 2
    IN  IF x.at # 1 /\ Less(x.heap[x.at], x.heap[parent])
        THEN [heap |-> Exch(x.heap, x.at, parent), at |-> parent]
        ELSE x

BottomUp(h, i) ==
    LET after[n \in 0 .. i] == IF n = 0 THEN [heap |-> h, at |-> i] ELSE Up(after[n - 1])
    IN  after[i].heap

\* A turn of TopDown: the event at x.at changes places with its smaller child.
Down(x) ==
    LET left == 2 * x.at
        right == 2 * x.at + 1
        smallest == IF right <= Len(x.heap) /\ ~ Less(x.heap[left], x.heap[right])
                    THEN right ELSE left
    IN  IF left > Len(x.heap) \/ Less(x.heap[x.at], x.heap[smallest]) THEN x
        ELSE [heap |-> Exch(x.heap, x.at, smallest), at |-> smallest]

TopDown(h, i) ==
    LET after[n \in 0 .. Len(h)] == IF n = 0 THEN [heap |-> h, at |-> i] ELSE Down(after[n - 1])
    IN  after[Len(h)].heap

HeapErase(h, i) == TopDown(Front(Exch(h, i, Len(h))), i)

-----------------------------------------------------------------------------
(* CalendarScheduler: day d of every year is in bucket d.  c is its record. *)

NewCalendar(nBuckets, width, startPrio) ==
    [kind |-> "calendar", buckets |-> [i \in 0 .. nBuckets - 1 |-> <<>>], qSize |-> 0,
     nBuckets |-> nBuckets, width |-> width, lastPrio |-> startPrio,
     lastBucket |-> (startPrio \div width) % nBuckets,
     bucketTop |-> (startPrio \div width + 1) * width]

Hash(c, ts) == (ts \div c.width) % c.nBuckets

DoInsert(c, ev) == [c EXCEPT !.buckets[Hash(c, ev.ts)] = InsertSorted(@, ev)]

DoErase(c, ev) == [c EXCEPT !.buckets[Hash(c, ev.ts)] = Erase(@, ev)]

CalendarEvents(c) == UNION {ToSet(c.buckets[b]) : b \in DOMAIN c.buckets}

Day(c, i) == (c.lastBucket + i) % c.nBuckets

\* Mutant: events of later years count as well.
DueDays_AnyYear(c) == {i \in 0 .. c.nBuckets - 1 : c.buckets[Day(c, i)] # <<>>}

\* The days, counted from today, whose first event is of this year.
DueDays(c) ==
    {i \in 0 .. c.nBuckets - 1 :
        /\ c.buckets[Day(c, i)] # <<>>
        /\ Head(c.buckets[Day(c, i)]).ts < c.bucketTop + i * c.width}

NextDay(c) == CHOOSE i \in DueDays(c) : \A j \in DueDays(c) : i <= j

\* The bucket with the earliest of all events, when none is of this year.
MinBucket(c) ==
    LET full == {b \in DOMAIN c.buckets : c.buckets[b] # <<>>}
    IN  CHOOSE b \in full : \A d \in full \ {b} : Less(Head(c.buckets[b]), Head(c.buckets[d]))

NextBucket(c) == IF DueDays(c) # {} THEN Day(c, NextDay(c)) ELSE MinBucket(c)

CalendarPeek(c) == Head(c.buckets[NextBucket(c)])

DoRemoveNext(c) ==
    LET next == CalendarPeek(c)
        rest == [c EXCEPT !.buckets[NextBucket(c)] = Tail(@), !.lastPrio = next.ts]
    IN  IF DueDays(c) # {}
        THEN [rest EXCEPT !.lastBucket = NextBucket(c),
                          !.bucketTop = @ + NextDay(c) * c.width]
        ELSE [rest EXCEPT !.lastBucket = Hash(c, next.ts),
                          !.bucketTop = (next.ts \div c.width + 1) * c.width]

\* The calendar after n events have been taken from it.
Taken(c, n) ==
    LET after[k \in 0 .. n] == IF k = 0 THEN c ELSE DoRemoveNext(after[k - 1])
    IN  after[n]

Total(f, n) ==
    LET sum[k \in 0 .. n] == IF k = 0 THEN 0 ELSE sum[k - 1] + f[k]
    IN  sum[n]

NSamples(c) ==
    IF c.qSize <= 5 THEN c.qSize
    ELSE IF 5 + c.qSize \div 10 > 25 THEN 25 ELSE 5 + c.qSize \div 10

\* The first events are sampled; they are put back where they were, and the days restored.
Gaps(c) ==
    LET sample == [k \in 1 .. NSamples(c) |-> CalendarPeek(Taken(c, k - 1)).ts]
    IN  [k \in 1 .. NSamples(c) - 1 |-> sample[k + 1] - sample[k]]

\* Three times the sum of the n gaps that are at most twice the average.
WidthOf(gap, n) ==
    LET twiceAvg == 2 * (Total(gap, n) \div n)
    IN  3 * Total([k \in 1 .. n |-> IF gap[k] <= twiceAvg THEN gap[k] ELSE 0], n)

CalculateNewWidth(c) ==
    IF c.qSize < 2 \/ WidthOf(Gaps(c), NSamples(c) - 1) = 0 THEN 1
    ELSE WidthOf(Gaps(c), NSamples(c) - 1)

\* A turn of the loop of DoResize: one of the events that are left is inserted.
Refill(x) ==
    LET ev == CHOOSE e \in x.left : TRUE
    IN  [to |-> DoInsert(x.to, ev), left |-> x.left \ {ev}]

\* The order of the insertions does not matter, as each bucket is sorted.
Resize(c, newSize) ==
    LET fresh == [NewCalendar(newSize, CalculateNewWidth(c), c.lastPrio) EXCEPT !.qSize = c.qSize]
        after[n \in 0 .. c.qSize] ==
            IF n = 0 THEN [to |-> fresh, left |-> CalendarEvents(c)] ELSE Refill(after[n - 1])
    IN  after[c.qSize].to

ResizeUp(c) ==
    IF c.qSize > c.nBuckets * 2 /\ c.nBuckets < 32768 THEN Resize(c, c.nBuckets * 2) ELSE c

ResizeDown(c) ==
    IF c.qSize < c.nBuckets \div 2 THEN Resize(c, c.nBuckets \div 2) ELSE c

-----------------------------------------------------------------------------
(* Scheduler.                                                              *)

Create(kind) ==
    IF kind = "calendar" THEN NewCalendar(2, 1, 0) ELSE [kind |-> kind, events |-> <<>>]

Insert(s, ev) ==
    CASE s.kind = "list" -> [s EXCEPT !.events = InsertSorted(@, ev)]
      [] s.kind = "heap" -> [s EXCEPT !.events = BottomUp(Append(@, ev), Len(@) + 1)]
      [] s.kind = "calendar" -> ResizeUp([DoInsert(s, ev) EXCEPT !.qSize = @ + 1])

IsEmpty(s) == IF s.kind = "calendar" THEN s.qSize = 0 ELSE s.events = <<>>

PeekNext(s) == IF s.kind = "calendar" THEN CalendarPeek(s) ELSE Head(s.events)

RemoveNext(s) ==
    CASE s.kind = "list" -> [s EXCEPT !.events = Tail(@)]
      [] s.kind = "heap" -> [s EXCEPT !.events = HeapErase(@, 1)]
      [] s.kind = "calendar" -> ResizeDown([DoRemoveNext(s) EXCEPT !.qSize = @ - 1])

RemoveThis(s, ev) ==
    CASE s.kind = "list" -> [s EXCEPT !.events = Erase(@, ev)]
      [] s.kind = "heap" ->
            [s EXCEPT !.events = HeapErase(@, SelectInSeq(@, LAMBDA x : x.uid = ev.uid))]
      [] s.kind = "calendar" ->
            ResizeDown([DoErase(s, ev) EXCEPT !.qSize = @ - 1])

Contents(s) ==
    IF s.kind = "calendar" THEN CalendarEvents(s) ELSE ToSet(s.events)

Size(s) == IF s.kind = "calendar" THEN s.qSize ELSE Len(s.events)

\* A turn of the loop of SetScheduler.
Move(x) == [from |-> RemoveNext(x.from), to |-> Insert(x.to, PeekNext(x.from))]

Moved(from, to) ==
    LET after[n \in 0 .. Size(from)] ==
            IF n = 0 THEN [from |-> from, to |-> to] ELSE Move(after[n - 1])
    IN  after[Size(from)].to
=============================================================================
