------------------------ MODULE DataStructures_proof ------------------------
(***************************************************************************)
(* Two data structures do what their users take for granted: the ring of   *)
(* CircularWindow implements the SlidingWindow, and the Schedulers of      *)
(* EventLists implement the EventList; for every value of the constants.   *)
(***************************************************************************)
EXTENDS CircularWindow, EventLists, FiniteSets, FiniteSetTheorems, SequenceTheorems,
        WellFoundedInduction, TLAPS

-----------------------------------------------------------------------------
(* The ring of a transmit window.                                          *)

\* The remainder of a number at most one window size too large.
LEMMA RingModulo ==
    ASSUME NEW a \in Nat, a < 2 * WinSize
    PROVE  a % WinSize = IF a < WinSize THEN a ELSE a - WinSize
BY WinSizeAssumption, SMT

\* A remainder modulo the sequence number space is a sequence number.
LEMMA SnOfType == ASSUME NEW n \in Nat PROVE SnOf(n) \in SeqNo
BY SequenceSpaceAssumption DEF SnOf, SeqNo

\* The index of an element is the head plus the distance, wrapped once.
LEMMA AtValue ==
    ASSUME NEW h \in Index, NEW d \in Index
    PROVE  /\ (h + d) % WinSize = IF h + d < WinSize THEN h + d ELSE h + d - WinSize
           /\ (h + d) % WinSize \in Index
<1>1. h + d \in Nat /\ h + d < 2 * WinSize
  BY WinSizeAssumption DEF Index
<1>2. (h + d) % WinSize = IF h + d < WinSize THEN h + d ELSE h + d - WinSize
  BY <1>1, RingModulo, WinSizeAssumption DEF Index
<1> QED BY <1>2, WinSizeAssumption DEF Index

\* Two distances have two indices.
LEMMA AtInjective ==
    ASSUME NEW h \in Index, NEW d \in Index, NEW e \in Index,
           (h + d) % WinSize = (h + e) % WinSize
    PROVE  d = e
<1> DEFINE Wrap(x) == IF h + x < WinSize THEN h + x ELSE h + x - WinSize
<1>1. Wrap(d) = Wrap(e)
  BY AtValue
<1> QED BY <1>1, WinSizeAssumption DEF Index

\* The element at a distance from a head that has moved by c.
LEMMA AtCompose ==
    ASSUME NEW h \in Index, NEW c \in Index, NEW d \in Index
    PROVE  /\ c + d < WinSize => /\ c + d \in Index
                                 /\ (((h + c) % WinSize) + d) % WinSize = (h + (c + d)) % WinSize
           /\ c + d >= WinSize =>
                /\ c + d - WinSize \in Index
                /\ (((h + c) % WinSize) + d) % WinSize = (h + (c + d - WinSize)) % WinSize
<1> DEFINE Wrap(x, y) == IF x + y < WinSize THEN x + y ELSE x + y - WinSize
<1>1. \A x, y \in Index : (x + y) % WinSize = Wrap(x, y) /\ Wrap(x, y) \in Index
  BY AtValue
<1>2. (((h + c) % WinSize) + d) % WinSize = Wrap(Wrap(h, c), d)
  BY <1>1
<1>3. CASE c + d < WinSize
  <2>1. c + d \in Index
    BY <1>3, WinSizeAssumption DEF Index
  <2>2. (h + (c + d)) % WinSize = Wrap(h, c + d)
    BY <1>1, <2>1
  <2>3. Wrap(Wrap(h, c), d) = Wrap(h, c + d)
    BY <1>3, WinSizeAssumption DEF Index
  <2> QED BY <1>2, <1>3, <2>1, <2>2, <2>3, WinSizeAssumption DEF Index
<1>4. CASE c + d >= WinSize
  <2>1. c + d - WinSize \in Index
    BY <1>4, WinSizeAssumption DEF Index
  <2>2. (h + (c + d - WinSize)) % WinSize = Wrap(h, c + d - WinSize)
    BY <1>1, <2>1
  <2>3. Wrap(Wrap(h, c), d) = Wrap(h, c + d - WinSize)
    BY <1>4, WinSizeAssumption DEF Index
  <2> QED BY <1>2, <1>4, <2>1, <2>2, <2>3, WinSizeAssumption DEF Index
<1> QED BY <1>3, <1>4, WinSizeAssumption DEF Index

\* The window has an element, and 0 is an index and a sequence number.
LEMMA ConstantTypes == WinSize \in Nat \ {0} /\ 0 \in Index /\ 0 \in SeqNo
BY WinSizeAssumption, SequenceSpaceAssumption DEF Index, SeqNo

\* The variables keep their types: the head stays an index of the vector.
THEOREM RingTypeCorrect == RingSpec => []TypeOK
<1>1. RingInit => TypeOK
  BY ConstantTypes DEF RingInit, Start, TypeOK
<1>2. TypeOK /\ [RingNext]_ring => TypeOK'
  <2> SUFFICES ASSUME TypeOK, [RingNext]_ring PROVE TypeOK'
    OBVIOUS
  <2>1. CASE Restart
    BY <2>1, ConstantTypes DEF Restart, Reset, TypeOK
  <2>2. CASE Mark
    BY <2>2 DEF Mark, TypeOK
  <2>3. CASE Advance
    <3> PICK count \in SeqNo : AdvanceBy(count)
      BY <2>3 DEF Advance
    <3>1. winStart + count \in Nat /\ count \in Nat
      BY SequenceSpaceAssumption DEF TypeOK, SeqNo
    <3>2. SnOf(winStart + count) \in SeqNo
      BY <3>1, SnOfType
    <3>3. CASE count >= WinSize
      BY <3>2, <3>3, ConstantTypes DEF AdvanceBy, Reset, TypeOK
    <3>4. CASE ~ (count >= WinSize)
      <4>1. head' = At(count) /\ winStart' = SnOf(winStart + count)
        BY <3>4 DEF AdvanceBy
      <4>2. count \in Index
        BY <3>1, <3>4, WinSizeAssumption DEF Index
      <4>3. At(count) \in Index
        BY <4>2, AtValue DEF At, TypeOK
      <4>4. vector' \in [Index -> BOOLEAN]
        BY <3>4 DEF AdvanceBy, TypeOK
      <4> QED BY <3>2, <4>1, <4>3, <4>4 DEF TypeOK
    <3> QED BY <3>3, <3>4
  <2>4. CASE UNCHANGED ring
    BY <2>4 DEF ring, TypeOK
  <2> QED BY <2>1, <2>2, <2>3, <2>4 DEF RingNext
<1> QED BY <1>1, <1>2, PTL DEF RingSpec

\* A window with no element set shows no mark.
LEMMA EmptyView ==
    ASSUME NEW h \in Index
    PROVE  {d \in Index : [i \in Index |-> FALSE][(h + d) % WinSize]} = {}
BY AtValue

\* One more element set is one more distance marked.
LEMMA MarkStep ==
    ASSUME TypeOK, Mark PROVE Sliding!Mark
<1> PICK distance \in Index : vector' = [vector EXCEPT ![At(distance)] = TRUE]
  BY DEF Mark
<1>1. head' = head /\ winStart' = winStart
  BY DEF Mark
<1>2. \A d \in Index : At(d)' = At(d) /\ At(d) \in Index
  BY <1>1, AtValue DEF At, TypeOK
<1>3. \A d \in Index : At(d) = At(distance) => d = distance
  BY AtInjective DEF At, TypeOK
<1>4. \A d \in Index : vector'[At(d)] <=> vector[At(d)] \/ d = distance
  BY <1>2, <1>3 DEF TypeOK
<1>5. Marked' = Marked \union {distance}
  <2>1. Marked' = {d \in Index : vector'[At(d)]}
    BY <1>2 DEF Marked
  <2> QED BY <1>4, <2>1 DEF Marked
<1>6. [start |-> winStart', marked |-> Marked']
        = WindowMark([start |-> winStart, marked |-> Marked], distance)
  BY <1>1, <1>5 DEF WindowMark
<1> QED BY <1>6 DEF Sliding!Mark, Index, Sliding!WindowMark, WindowMark

\* A window that starts again shows no mark.
LEMMA ResetStep ==
    ASSUME NEW s \in SeqNo, Reset(s)
    PROVE  [start |-> winStart', marked |-> Marked'] = WindowInit(s)
<1>1. \A d \in Index : (head' + d) % WinSize \in Index
  BY AtValue, ConstantTypes DEF Reset
<1>2. Marked' = {d \in Index : vector'[(head' + d) % WinSize]}
  BY DEF Marked, At
<1>3. Marked' = {}
  BY <1>1, <1>2 DEF Reset
<1> QED BY <1>3 DEF Reset, WindowInit

\* Advancing moves every mark, drops those that leave and makes none appear.
LEMMA AdvanceStep ==
    ASSUME TypeOK, NEW count \in SeqNo, AdvanceBy(count)
    PROVE  [start |-> winStart', marked |-> Marked']
             = WindowAdvance([start |-> winStart, marked |-> Marked], count)
<1>1. count \in Nat /\ winStart + count \in Nat
  BY SequenceSpaceAssumption DEF SeqNo, TypeOK
<1>2. CASE count >= WinSize
  <2>1. [start |-> winStart', marked |-> Marked']
          = WindowInit(SnOf(winStart + count))
    BY <1>1, <1>2, SnOfType, ResetStep DEF AdvanceBy
  <2>2. \A d \in Index : d + count \notin Marked
    BY <1>1, <1>2, WinSizeAssumption DEF Marked, Index
  <2> QED BY <2>1, <2>2 DEF WindowInit, WindowAdvance, Index
<1>3. CASE ~ (count >= WinSize)
  <2>1. count \in Index
    BY <1>1, <1>3, WinSizeAssumption DEF Index
  <2>2. head' = At(count) /\ head' \in Index /\ winStart' = SnOf(winStart + count)
    BY <1>3, <2>1, AtValue DEF AdvanceBy, At, TypeOK
  <2>3. \A i \in Index : vector'[i] <=> vector[i] /\ \A e \in 0 .. (count - 1) : At(e) # i
    BY <1>3 DEF AdvanceBy
  <2>4. ASSUME NEW d \in Index PROVE d \in Marked' <=> d + count \in Marked
    <3>1. At(d)' = (head' + d) % WinSize /\ At(d)' \in Index
      BY <2>2, AtValue DEF At
    <3>2. d \in Marked' <=> vector'[At(d)']
      BY DEF Marked
    <3>3. CASE d + count < WinSize
      <4>1. d + count = count + d /\ d + count \in Index
        BY <1>1, <3>3, WinSizeAssumption DEF Index
      <4>2. At(d)' = At(d + count)
        BY <2>1, <2>2, <3>1, <3>3, <4>1, AtCompose DEF At, TypeOK
      <4>3. \A e \in 0 .. (count - 1) : e \in Index /\ e # d + count
        BY <1>1, <2>1, <4>1, WinSizeAssumption DEF Index
      <4>4. \A e \in 0 .. (count - 1) : At(e) # At(d + count)
        BY <4>1, <4>3, AtInjective DEF At, TypeOK
      <4> QED BY <2>3, <3>1, <3>2, <4>1, <4>2, <4>4 DEF Marked
    <3>4. CASE ~ (d + count < WinSize)
      <4> DEFINE e == d + count - WinSize
      <4>1. e \in Index /\ e \in 0 .. (count - 1) /\ e = count + d - WinSize
        BY <1>1, <2>1, <3>4, WinSizeAssumption DEF Index
      <4>2. count + d >= WinSize
        BY <1>1, <3>4, WinSizeAssumption DEF Index
      <4>3. At(d)' = At(e)
        BY <2>1, <2>2, <3>1, <4>1, <4>2, AtCompose DEF At, TypeOK
      <4>4. ~ vector'[At(d)']
        BY <2>3, <3>1, <4>1, <4>3
      <4>5. d + count \notin Marked
        BY <1>1, <3>4, WinSizeAssumption DEF Marked, Index
      <4> QED BY <3>2, <4>4, <4>5
    <3> QED BY <3>3, <3>4
  <2>5. Marked' = {d \in Index : d + count \in Marked}
    BY <2>4 DEF Marked
  <2> QED BY <2>2, <2>5 DEF WindowAdvance, Index
<1> QED BY <1>2, <1>3

\* The ring implements the abstract window: every operation of the code maps to
\* the operation of the window with the same name, or to a stutter.
THEOREM RingImplementsWindow == RingSpec => ImplementsSlidingWindow
<1>1. RingInit => Sliding!Init
  <2> SUFFICES ASSUME NEW s \in SeqNo, Start(s) PROVE Sliding!Init
    BY DEF RingInit
  <2>1. Marked = {}
    BY AtValue, ConstantTypes DEF Marked, At, Start
  <2>2. [start |-> winStart, marked |-> Marked] = Sliding!WindowInit(s)
    BY <2>1 DEF Start, Sliding!WindowInit
  <2> QED BY <2>2 DEF Sliding!Init, Sliding!SeqNo, SeqNo
<1>2. TypeOK /\ [RingNext]_ring
          => [Sliding!Next]_[start |-> winStart, marked |-> Marked]
  <2> SUFFICES ASSUME TypeOK, [RingNext]_ring
               PROVE  [Sliding!Next]_[start |-> winStart, marked |-> Marked]
    OBVIOUS
  <2>1. CASE Restart
    <3> PICK s \in SeqNo : Reset(s)
      BY <2>1 DEF Restart
    <3>1. [start |-> winStart', marked |-> Marked'] = WindowInit(s)
      BY ResetStep
    <3> QED BY <3>1 DEF Sliding!Next, Sliding!Restart, Sliding!WindowInit,
                        WindowInit,
                        Sliding!SeqNo, SeqNo
  <2>2. CASE Mark
    BY <2>2, MarkStep DEF Sliding!Next
  <2>3. CASE Advance
    <3> PICK count \in SeqNo : AdvanceBy(count)
      BY <2>3 DEF Advance
    <3>1. [start |-> winStart', marked |-> Marked']
            = WindowAdvance([start |-> winStart, marked |-> Marked], count)
      BY AdvanceStep
    <3> QED BY <3>1 DEF Sliding!Next, Sliding!Advance, Sliding!WindowAdvance,
                        WindowAdvance,
                        Sliding!SeqNo, SeqNo, Sliding!SnOf, SnOf
  <2>4. CASE UNCHANGED ring
    <3>1. UNCHANGED <<winStart, Marked>>
      BY <2>4 DEF ring, Marked, At
    <3> QED BY <3>1
  <2> QED BY <2>1, <2>2, <2>3, <2>4 DEF RingNext
<1> QED BY <1>1, <1>2, RingTypeCorrect, PTL
        DEF RingSpec, ImplementsSlidingWindow, Sliding!Spec

-----------------------------------------------------------------------------
(* The least element of a set of numbers.                                  *)

\* A set of numbers has a least element.
LEMMA LeastExists ==
    ASSUME NEW S \in SUBSET Nat, S # {}
    PROVE  \E x \in S : \A y \in S : x <= y
<1>1. PICK x \in S : \A y \in S : ~ (<<y, x>> \in OpToRel(<, Nat))
    BY NatLessThanWellFounded, WFMin
<1>2. \A y \in S : ~ (y < x)
    BY <1>1 DEF OpToRel
<1> QED  BY <1>2

\* It is what Min returns.
LEMMA MinIsLeast ==
    ASSUME NEW S \in SUBSET Nat, S # {}
    PROVE  Min(S) \in S /\ \A y \in S : Min(S) <= y
BY LeastExists DEF Min

-----------------------------------------------------------------------------
(* ListScheduler: a sorted list.                                           *)

EventKey == [ts : Nat, uid : Nat]

\* a is the earliest of S: what EventList!Earliest chooses.
First(S, a) == a \in S /\ \A b \in S \ {a} : Less(a, b)

\* A list in the order of Scheduler::EventKey, without repetitions.
Sorted(s) ==
    s \in Seq(EventKey) /\ \A i, j \in 1 .. Len(s) : i < j => Less(s[i], s[j])

\* operator< is a strict total order of the keys.
LEMMA LessIsOrder ==
    ASSUME NEW a \in EventKey, NEW b \in EventKey, NEW c \in EventKey
    PROVE  /\ ~ Less(a, a)
           /\ Less(a, b) => ~ Less(b, a)
           /\ a # b => Less(a, b) \/ Less(b, a)
           /\ Less(a, b) /\ Less(b, c) => Less(a, c)
<1>1. /\ a = [ts |-> a.ts, uid |-> a.uid] /\ b = [ts |-> b.ts, uid |-> b.uid]
      /\ a.ts \in Nat /\ a.uid \in Nat /\ b.ts \in Nat /\ b.uid \in Nat
      /\ c.ts \in Nat /\ c.uid \in Nat
    BY DEF EventKey
<1>2. a # b => a.ts # b.ts \/ a.uid # b.uid
    BY <1>1
<1> QED  BY <1>1, <1>2 DEF Less

\* The set of the elements.
LEMMA ElementsOf ==
    ASSUME NEW S, NEW s \in Seq(S)
    PROVE  /\ ToSet(s) \subseteq S
           /\ \A x : x \in ToSet(s) <=> \E i \in 1 .. Len(s) : s[i] = x
<1>1. DOMAIN s = 1 .. Len(s) /\ \A i \in 1 .. Len(s) : s[i] \in S
    OBVIOUS
<1> QED  BY <1>1 DEF ToSet

\* The concatenation of two sequences.
LEMMA ConcatIs ==
    ASSUME NEW S, NEW a \in Seq(S), NEW b \in Seq(S)
    PROVE  /\ a \o b \in Seq(S) /\ Len(a \o b) = Len(a) + Len(b)
           /\ \A k \in 1 .. Len(a) + Len(b) :
                  (a \o b)[k] = IF k <= Len(a) THEN a[k] ELSE b[k - Len(a)]
OBVIOUS

\* The sequence with one element more, at a place or at the end.
LEMMA InsertAtIs ==
    ASSUME NEW S, NEW s \in Seq(S), NEW e \in S, NEW i \in 1 .. Len(s)
    PROVE  /\ InsertAt(s, i, e) \in Seq(S) /\ Len(InsertAt(s, i, e)) = Len(s) + 1
           /\ \A k \in 1 .. Len(s) + 1 :
                  InsertAt(s, i, e)[k] = IF k < i THEN s[k] ELSE IF k = i THEN e ELSE s[k - 1]
<1> DEFINE n == Len(s)
           a == SubSeq(s, 1, i - 1)
           b == SubSeq(s, i, Len(s))
<1>0. n \in Nat /\ i \in Nat /\ i >= 1 /\ i <= n
    OBVIOUS
<1>1. a \in Seq(S) /\ Len(a) = i - 1 /\ \A k \in 1 .. i - 1 : a[k] = s[k]
    BY <1>0
<1>2. b \in Seq(S) /\ Len(b) = n - i + 1 /\ \A k \in 1 .. n - i + 1 : b[k] = s[i + k - 1]
    BY <1>0
<1>3. InsertAt(s, i, e) = a \o <<e>> \o b
    BY DEF InsertAt
<1> HIDE DEF a, b
<1>4. <<e>> \in Seq(S) /\ Len(<<e>>) = 1 /\ <<e>>[1] = e
    OBVIOUS
<1> DEFINE c == a \o <<e>>
<1>5. /\ c \in Seq(S) /\ Len(c) = i
      /\ \A k \in 1 .. i : c[k] = IF k < i THEN s[k] ELSE e
    BY <1>0, <1>1, <1>4
<1> HIDE DEF c
<1> DEFINE d == c \o b
<1>6. /\ d \in Seq(S) /\ Len(d) = Len(c) + Len(b)
      /\ \A k \in 1 .. Len(c) + Len(b) : d[k] = IF k <= Len(c) THEN c[k] ELSE b[k - Len(c)]
    BY <1>2, <1>5, ConcatIs
<1> HIDE DEF d, n
<1>7. /\ Len(d) = n + 1
      /\ \A k \in 1 .. n + 1 : d[k] = IF k <= i THEN c[k] ELSE b[k - i]
    BY <1>0, <1>2, <1>5, <1>6
<1>8. ASSUME NEW k \in 1 .. n + 1
      PROVE  d[k] = IF k < i THEN s[k] ELSE IF k = i THEN e ELSE s[k - 1]
    <2>1. CASE k <= i
        <3>1. k \in 1 .. i /\ d[k] = c[k]
            BY <1>0, <1>7, <2>1
        <3> QED  BY <1>0, <1>5, <2>1, <3>1
    <2>2. CASE k > i
        <3>1. k - i \in 1 .. n - i + 1 /\ i + (k - i) - 1 = k - 1 /\ ~ (k <= i)
            BY <1>0, <2>2
        <3>2. d[k] = b[k - i]
            BY <1>7, <3>1
        <3>3. b[k - i] = s[k - 1]
            BY <1>2, <3>1
        <3> QED  BY <1>0, <2>2, <3>2, <3>3
    <2> QED  BY <1>0, <2>1, <2>2
<1> QED  BY <1>3, <1>6, <1>7, <1>8 DEF c, d, n

\* The sequence with one element less.
LEMMA RemoveAtIs ==
    ASSUME NEW S, NEW s \in Seq(S), NEW i \in 1 .. Len(s)
    PROVE  /\ RemoveAt(s, i) \in Seq(S) /\ Len(RemoveAt(s, i)) = Len(s) - 1
           /\ \A k \in 1 .. Len(s) - 1 : RemoveAt(s, i)[k] = IF k < i THEN s[k] ELSE s[k + 1]
<1> DEFINE n == Len(s)
           a == SubSeq(s, 1, i - 1)
           b == SubSeq(s, i + 1, Len(s))
<1>0. n \in Nat /\ i \in Nat /\ i >= 1 /\ i <= n
    OBVIOUS
<1>1. a \in Seq(S) /\ Len(a) = i - 1 /\ \A k \in 1 .. i - 1 : a[k] = s[k]
    BY <1>0
<1>2. b \in Seq(S) /\ Len(b) = n - i /\ \A k \in 1 .. n - i : b[k] = s[i + k]
    BY <1>0
<1>3. RemoveAt(s, i) = a \o b
    BY DEF RemoveAt
<1> HIDE DEF a, b
<1> DEFINE d == a \o b
<1>4. /\ d \in Seq(S) /\ Len(d) = Len(a) + Len(b)
      /\ \A k \in 1 .. Len(a) + Len(b) : d[k] = IF k <= Len(a) THEN a[k] ELSE b[k - Len(a)]
    BY <1>1, <1>2, ConcatIs
<1> HIDE DEF d, n
<1>5. /\ Len(d) = n - 1
      /\ \A k \in 1 .. n - 1 : d[k] = IF k <= i - 1 THEN a[k] ELSE b[k - (i - 1)]
    BY <1>0, <1>1, <1>2, <1>4
<1>6. ASSUME NEW k \in 1 .. n - 1
      PROVE  d[k] = IF k < i THEN s[k] ELSE s[k + 1]
    <2>1. CASE k < i
        <3>1. k \in 1 .. i - 1 /\ k <= i - 1
            BY <1>0, <2>1
        <3> QED  BY <1>1, <1>5, <2>1, <3>1
    <2>2. CASE k >= i
        <3>1. k - (i - 1) \in 1 .. n - i /\ i + (k - (i - 1)) = k + 1 /\ ~ (k <= i - 1)
            BY <1>0, <2>2
        <3>2. b[k - (i - 1)] = s[k + 1]
            BY <1>2, <3>1
        <3>3. d[k] = b[k - (i - 1)]
            BY <1>5, <3>1
        <3> QED  BY <1>0, <2>2, <3>2, <3>3
    <2> QED  BY <1>0, <2>1, <2>2
<1> QED  BY <1>3, <1>4, <1>5, <1>6 DEF d, n

\* Where the first element is that satisfies a condition, given as the set of the places.
LEMMA SelectedIs ==
    ASSUME NEW n \in Nat, NEW I \in SUBSET (1 .. n), NEW k,
           k = IF I # {} THEN Min(I) ELSE 0
    PROVE  \/ I = {} /\ k = 0
           \/ k \in I /\ \A j \in I : k <= j
<1>1. CASE I # {}
    <2>1. I \in SUBSET Nat
        OBVIOUS
    <2>2. Min(I) \in I /\ \A j \in I : Min(I) <= j
        BY <1>1, <2>1, MinIsLeast
    <2> QED  BY <1>1, <2>2
<1> QED  BY <1>1

\* Insertion puts the event where it belongs.
LEMMA InsertSortedKeeps ==
    ASSUME NEW s, Sorted(s), NEW ev \in EventKey, ev \notin ToSet(s)
    PROVE  Sorted(InsertSorted(s, ev)) /\ ToSet(InsertSorted(s, ev)) = ToSet(s) \union {ev}
<1> DEFINE n == Len(s)
           I == {i \in 1 .. n : Less(ev, s[i])}
           k == SelectInSeq(s, LAMBDA x : Less(ev, x))
           t == InsertSorted(s, ev)
<1>1. s \in Seq(EventKey) /\ n \in Nat /\ \A i \in 1 .. n : s[i] \in EventKey
    BY DEF Sorted
<1>2. \A i, j \in 1 .. n : i < j => Less(s[i], s[j])
    BY DEF Sorted
<1>3. ToSet(s) = {s[i] : i \in 1 .. n}
    BY <1>1, ElementsOf
<1>4. \A i \in 1 .. n : Less(ev, s[i]) \/ Less(s[i], ev)
    <2> TAKE i \in 1 .. n
    <2>1. s[i] \in EventKey /\ s[i] # ev
        BY <1>1, <1>3
    <2> QED  BY <2>1, LessIsOrder
<1>5. k = IF I # {} THEN Min(I) ELSE 0
    BY DEF SelectInSeq
<1>6. I \in SUBSET (1 .. n)
    OBVIOUS
<1>7. \/ I = {} /\ k = 0
      \/ k \in I /\ \A j \in I : k <= j
    BY <1>1, <1>5, <1>6, SelectedIs
<1>8. t = IF k = 0 THEN Append(s, ev) ELSE InsertAt(s, k, ev)
    BY DEF InsertSorted
<1>9. \A i \in 1 .. n : i \in I <=> Less(ev, s[i])
    OBVIOUS
<1> HIDE DEF n, I, k, t
\* Where the event is, and what is before and after it.
<1>10. \E p \in 1 .. n + 1 :
          /\ t \in Seq(EventKey) /\ Len(t) = n + 1
          /\ \A i \in 1 .. n + 1 : t[i] = IF i < p THEN s[i] ELSE IF i = p THEN ev ELSE s[i - 1]
          /\ \A i \in 1 .. n : i < p => Less(s[i], ev)
          /\ \A i \in 1 .. n : p <= i => Less(ev, s[i])
    <2>1. CASE I = {} /\ k = 0
        <3>1. t = Append(s, ev)
            BY <1>8, <2>1
        <3>2. /\ t \in Seq(EventKey) /\ Len(t) = n + 1
              /\ \A i \in 1 .. n + 1 : t[i] = IF i = n + 1 THEN ev ELSE s[i]
            BY <1>1, <3>1 DEF n
        <3>3. \A i \in 1 .. n : Less(s[i], ev)
            BY <1>4, <1>9, <2>1
        <3>4. n + 1 \in 1 .. n + 1
            BY <1>1
        <3> QED  BY <1>1, <3>2, <3>3, <3>4
    <2>2. CASE k \in I /\ \A j \in I : k <= j
        <3>1. k \in 1 .. n /\ k # 0
            BY <1>1, <1>6, <2>2
        <3>2. t = InsertAt(s, k, ev)
            BY <1>8, <3>1
        <3>3. /\ t \in Seq(EventKey) /\ Len(t) = n + 1
              /\ \A i \in 1 .. n + 1 : t[i] = IF i < k THEN s[i] ELSE IF i = k THEN ev ELSE s[i - 1]
            <4>1. /\ InsertAt(s, k, ev) \in Seq(EventKey) /\ Len(InsertAt(s, k, ev)) = Len(s) + 1
                  /\ \A i \in 1 .. Len(s) + 1 :
                         InsertAt(s, k, ev)[i] =
                             IF i < k THEN s[i] ELSE IF i = k THEN ev ELSE s[i - 1]
                <5>1. s \in Seq(EventKey) /\ ev \in EventKey /\ k \in 1 .. Len(s)
                    BY <1>1, <3>1 DEF n
                <5> HIDE DEF n
                <5> QED  BY ONLY <5>1, InsertAtIs
            <4> QED  BY <3>2, <4>1 DEF n
        <3>4. ASSUME NEW i \in 1 .. n, i < k PROVE Less(s[i], ev)
            <4>1. i \notin I
                BY <1>1, <2>2, <3>1, <3>4
            <4> QED  BY <1>4, <1>9, <4>1
        <3>5. ASSUME NEW i \in 1 .. n, k <= i PROVE Less(ev, s[i])
            <4>1. Less(ev, s[k]) /\ s[k] \in EventKey /\ s[i] \in EventKey
                BY <1>1, <1>9, <2>2, <3>1
            <4>2. k = i \/ Less(s[k], s[i])
                BY <1>1, <1>2, <3>1, <3>5
            <4> QED  BY <4>1, <4>2, LessIsOrder
        <3>6. k \in 1 .. n + 1
            BY <1>1, <3>1
        <3> QED  BY <3>3, <3>4, <3>5, <3>6
    <2> QED  BY <1>7, <2>1, <2>2
<1>11. PICK p \in 1 .. n + 1 :
          /\ t \in Seq(EventKey) /\ Len(t) = n + 1
          /\ \A i \in 1 .. n + 1 : t[i] = IF i < p THEN s[i] ELSE IF i = p THEN ev ELSE s[i - 1]
          /\ \A i \in 1 .. n : i < p => Less(s[i], ev)
          /\ \A i \in 1 .. n : p <= i => Less(ev, s[i])
    BY <1>10
<1>12. ASSUME NEW i \in 1 .. n + 1, NEW j \in 1 .. n + 1, i < j PROVE Less(t[i], t[j])
    <2>1. CASE j < p
        BY <1>1, <1>2, <1>11, <1>12, <2>1
    <2>2. CASE j = p
        <3>1. t[i] = s[i] /\ t[j] = ev /\ i \in 1 .. n
            BY <1>1, <1>11, <1>12, <2>2
        <3> QED  BY <1>11, <1>12, <2>2, <3>1
    <2>3. CASE i = p
        <3>1. t[i] = ev /\ t[j] = s[j - 1] /\ j - 1 \in 1 .. n /\ p <= j - 1
            BY <1>1, <1>11, <1>12, <2>3
        <3> QED  BY <1>11, <3>1
    <2>4. CASE i < p /\ p < j
        <3>1. t[i] = s[i] /\ t[j] = s[j - 1] /\ i \in 1 .. n /\ j - 1 \in 1 .. n
              /\ i < p /\ p <= j - 1
            BY <1>1, <1>11, <1>12, <2>4
        <3>2. i < j - 1
            BY <1>1, <2>4, <3>1
        <3> QED  BY <1>2, <3>1, <3>2
    <2>5. CASE p < i
        <3>1. t[i] = s[i - 1] /\ t[j] = s[j - 1] /\ i - 1 \in 1 .. n /\ j - 1 \in 1 .. n
              /\ i - 1 < j - 1
            BY <1>1, <1>11, <1>12, <2>5
        <3> QED  BY <1>2, <3>1
    <2> QED  BY <1>1, <1>11, <1>12, <2>1, <2>2, <2>3, <2>4, <2>5
<1>13. ToSet(t) = {t[i] : i \in 1 .. n + 1}
    BY <1>11, ElementsOf
<1>14. {t[i] : i \in 1 .. n + 1} = {s[i] : i \in 1 .. n} \union {ev}
    <2>1. ASSUME NEW i \in 1 .. n + 1 PROVE t[i] \in {s[j] : j \in 1 .. n} \union {ev}
        <3>1. i < p => i \in 1 .. n
            BY <1>1, <1>11
        <3>2. i > p => i - 1 \in 1 .. n
            BY <1>1, <1>11
        <3>3. i < p \/ i = p \/ i > p
            BY <1>1, <1>11
        <3>4. /\ i < p => t[i] = s[i]
              /\ i = p => t[i] = ev
              /\ i > p => t[i] = s[i - 1]
            BY <1>1, <1>11
        <3> QED  BY <3>1, <3>2, <3>3, <3>4
    <2>2. t[p] = ev
        BY <1>1, <1>11
    <2>3. ASSUME NEW i \in 1 .. n PROVE \E j \in 1 .. n + 1 : t[j] = s[i]
        <3>1. CASE i < p
            <4>1. i \in 1 .. n + 1 /\ t[i] = s[i]
                BY <1>1, <1>11, <3>1
            <4> QED  BY <4>1
        <3>2. CASE p <= i
            <4>1. i + 1 \in 1 .. n + 1 /\ ~ (i + 1 < p) /\ i + 1 # p /\ (i + 1) - 1 = i
                BY <1>1, <1>11, <3>2
            <4>2. t[i + 1] = s[(i + 1) - 1]
                BY <1>11, <4>1
            <4> QED  BY <4>1, <4>2
        <3> QED  BY <1>1, <1>11, <3>1, <3>2
    <2> QED  BY <2>1, <2>2, <2>3
<1>15. Sorted(t)
    BY <1>11, <1>12 DEF Sorted
<1> QED  BY <1>3, <1>13, <1>14, <1>15 DEF t

\* The first event is the earliest.
LEMMA HeadIsFirst ==
    ASSUME NEW s, Sorted(s), s # <<>>
    PROVE  /\ First(ToSet(s), Head(s)) /\ Head(s) \in EventKey
           /\ Sorted(Tail(s)) /\ ToSet(Tail(s)) = ToSet(s) \ {Head(s)}
<1> DEFINE n == Len(s)
           t == Tail(s)
<1>1. /\ s \in Seq(EventKey) /\ n \in Nat /\ 1 <= n /\ Head(s) = s[1]
      /\ \A i \in 1 .. n : s[i] \in EventKey
    BY DEF Sorted
<1>2. \A i, j \in 1 .. n : i < j => Less(s[i], s[j])
    BY DEF Sorted
<1>3. t \in Seq(EventKey) /\ Len(t) = n - 1 /\ \A i \in 1 .. n - 1 : t[i] = s[i + 1]
    <2>1. s # <<>>
        OBVIOUS
    <2>2. /\ Tail(s) \in Seq(EventKey) /\ Len(Tail(s)) = Len(s) - 1
          /\ \A i \in 1 .. Len(Tail(s)) : Tail(s)[i] = s[i + 1]
        BY <1>1, <2>1, HeadTailProperties
    <2> QED  BY <2>2
<1> HIDE DEF t
<1>4. ToSet(s) = {s[i] : i \in 1 .. n} /\ ToSet(t) = {t[i] : i \in 1 .. n - 1}
    <2>1. ToSet(s) = {s[i] : i \in 1 .. n}
        BY <1>1, ElementsOf
    <2>2. ToSet(t) = {t[i] : i \in 1 .. Len(t)}
        BY <1>3, ElementsOf
    <2> QED  BY <1>3, <2>1, <2>2
<1> HIDE DEF n
<1>5. ASSUME NEW i \in 2 .. n PROVE Less(s[1], s[i]) /\ s[i] # s[1]
    <2>1. Less(s[1], s[i]) /\ s[1] \in EventKey
        BY <1>1, <1>2
    <2> QED  BY <2>1, LessIsOrder
<1>6. First(ToSet(s), s[1])
    BY <1>1, <1>4, <1>5 DEF First
<1>7. Sorted(t)
    <2>1. ASSUME NEW i \in 1 .. n - 1, NEW j \in 1 .. n - 1, i < j PROVE Less(t[i], t[j])
        <3>1. i + 1 \in 1 .. n /\ j + 1 \in 1 .. n /\ i + 1 < j + 1
            BY <1>1, <2>1
        <3> QED  BY <1>2, <1>3, <3>1
    <2> QED  BY <1>3, <2>1 DEF Sorted
<1>8. ToSet(t) = ToSet(s) \ {s[1]}
    <2>1. ASSUME NEW i \in 1 .. n - 1 PROVE t[i] \in ToSet(s) \ {s[1]}
        <3>1. i + 1 \in 1 .. n /\ i + 1 \in 2 .. n
            BY <1>1
        <3> QED  BY <1>3, <1>4, <1>5, <3>1
    <2>2. ASSUME NEW i \in 1 .. n, s[i] # s[1] PROVE s[i] \in ToSet(t)
        <3>1. i # 1
            BY <2>2
        <3>2. i - 1 \in 1 .. n - 1 /\ (i - 1) + 1 = i
            BY <1>1, <3>1
        <3>3. t[i - 1] = s[(i - 1) + 1]
            BY <1>3, <3>2
        <3> QED  BY <1>4, <3>2, <3>3
    <2> QED  BY <1>4, <2>1, <2>2
<1> QED  BY <1>1, <1>6, <1>7, <1>8 DEF t

\* The event with the uid is removed, and no other.
LEMMA EraseKeeps ==
    ASSUME NEW s, Sorted(s), NEW ev \in ToSet(s), \A a \in ToSet(s) : a.uid = ev.uid => a = ev
    PROVE  Sorted(Erase(s, ev)) /\ ToSet(Erase(s, ev)) = ToSet(s) \ {ev}
<1> DEFINE n == Len(s)
           I == {i \in 1 .. n : s[i].uid = ev.uid}
           k == SelectInSeq(s, LAMBDA x : x.uid = ev.uid)
           t == Erase(s, ev)
<1>1. s \in Seq(EventKey) /\ n \in Nat /\ \A i \in 1 .. n : s[i] \in EventKey
    BY DEF Sorted
<1>2. \A i, j \in 1 .. n : i < j => Less(s[i], s[j])
    BY DEF Sorted
<1>3. ToSet(s) = {s[i] : i \in 1 .. n}
    BY <1>1, ElementsOf
<1>4. k = IF I # {} THEN Min(I) ELSE 0
    BY DEF SelectInSeq
<1>5. I \in SUBSET (1 .. n) /\ I # {}
    BY <1>3
<1>6. k \in I
    BY <1>1, <1>4, <1>5, SelectedIs
<1>7. k \in 1 .. n /\ s[k] = ev
    <2>1. s[k].uid = ev.uid /\ k \in 1 .. n
        BY <1>6
    <2> QED  BY <1>3, <2>1
<1>8. t = RemoveAt(s, k)
    BY DEF Erase
<1> HIDE DEF n, I, k, t
<1>9. /\ t \in Seq(EventKey) /\ Len(t) = n - 1
      /\ \A i \in 1 .. n - 1 : t[i] = IF i < k THEN s[i] ELSE s[i + 1]
    BY <1>1, <1>7, <1>8, RemoveAtIs DEF n
<1>10. ASSUME NEW i \in 1 .. n - 1, NEW j \in 1 .. n - 1, i < j PROVE Less(t[i], t[j])
    <2> DEFINE a == IF i < k THEN i ELSE i + 1
               b == IF j < k THEN j ELSE j + 1
    <2>1. t[i] = s[a] /\ t[j] = s[b]
        BY <1>9
    <2>2. a \in 1 .. n /\ b \in 1 .. n /\ a < b
        BY <1>1, <1>7, <1>10
    <2> QED  BY <1>2, <2>1, <2>2
<1>11. Sorted(t)
    BY <1>9, <1>10 DEF Sorted
<1>12. ToSet(t) = {t[i] : i \in 1 .. n - 1}
    BY <1>9, ElementsOf
<1>13. ASSUME NEW i \in 1 .. n, i # k PROVE s[i] # ev /\ s[i] \in ToSet(t)
    <2>1. Less(s[i], s[k]) \/ Less(s[k], s[i])
        BY <1>1, <1>2, <1>7, <1>13
    <2>2. s[i] # ev
        BY <1>1, <1>7, <2>1, LessIsOrder
    <2>3. CASE i < k
        <3>1. i \in 1 .. n - 1 /\ t[i] = s[i]
            BY <1>1, <1>7, <1>9, <2>3
        <3> QED  BY <1>12, <2>2, <3>1
    <2>4. CASE k < i
        <3>1. i - 1 \in 1 .. n - 1 /\ ~ (i - 1 < k) /\ (i - 1) + 1 = i
            BY <1>1, <1>7, <2>4
        <3>2. t[i - 1] = s[(i - 1) + 1]
            BY <1>9, <3>1
        <3> QED  BY <1>12, <2>2, <3>1, <3>2
    <2> QED  BY <1>1, <1>7, <1>13, <2>3, <2>4
<1>14. ASSUME NEW i \in 1 .. n - 1 PROVE \E j \in 1 .. n : j # k /\ t[i] = s[j]
    <2>1. CASE i < k
        <3>1. i \in 1 .. n /\ i # k /\ t[i] = s[i]
            BY <1>1, <1>7, <1>9, <2>1
        <3> QED  BY <3>1
    <2>2. CASE k <= i
        <3>1. i + 1 \in 1 .. n /\ i + 1 # k /\ t[i] = s[i + 1]
            BY <1>1, <1>7, <1>9, <2>2
        <3> QED  BY <3>1
    <2> QED  BY <1>1, <1>7, <2>1, <2>2
<1>15. ToSet(t) = ToSet(s) \ {ev}
    BY <1>3, <1>7, <1>12, <1>13, <1>14
<1> QED  BY <1>11, <1>15 DEF t

\* Whole days: those before a boundary are the times before it.
LEMMA WholeDays ==
    ASSUME NEW w \in Nat, w > 0, NEW u \in Nat
    PROVE  /\ u \div w \in Nat
           /\ \A k \in Nat : k * w \in Nat /\ (u < k * w <=> u \div w < k)
<1> DEFINE q == u \div w
           r == u % w
<1>1. u = w * q + r /\ q \in Nat /\ r \in 0 .. (w - 1)
    OBVIOUS
<1> HIDE DEF q, r
<1>2. ASSUME NEW k \in Nat PROVE k * w \in Nat /\ (u < k * w <=> q < k)
    <2>1. k * w \in Nat /\ q * w \in Nat /\ w * q = q * w /\ (q + 1) * w = q * w + w
        BY <1>1
    <2>2. q * w <= u /\ u < (q + 1) * w
        BY <1>1, <2>1
    <2>3. CASE q < k
        <3>1. q + 1 <= k
            BY <1>1, <2>3
        <3> DEFINE e == k - (q + 1)
        <3>2. e \in Nat /\ k = (q + 1) + e
            BY <1>1, <3>1
        <3> HIDE DEF e
        <3>3. e * w \in Nat /\ k * w = (q + 1) * w + e * w
            BY <1>1, <3>2
        <3> QED  BY <2>1, <2>2, <2>3, <3>3
    <2>4. CASE k <= q
        <3> DEFINE e == q - k
        <3>1. e \in Nat /\ q = k + e
            BY <1>1, <2>4
        <3> HIDE DEF e
        <3>2. e * w \in Nat /\ q * w = k * w + e * w
            BY <3>1
        <3> QED  BY <1>1, <2>1, <2>2, <2>4, <3>2
    <2> QED  BY <1>1, <2>3, <2>4
<1> QED  BY <1>1, <1>2 DEF q

\* An earlier day has earlier times.
LEMMA EarlierDay ==
    ASSUME NEW w \in Nat, w > 0, NEW u \in Nat, NEW v \in Nat
    PROVE  /\ u \div w < v \div w => u < v
           /\ u <= v => u \div w <= v \div w
<1>1. u \div w \in Nat /\ v \div w \in Nat
    BY WholeDays
<1>2. PICK k \in Nat : k = v \div w
    BY <1>1
<1>3. k * w \in Nat /\ (u < k * w <=> u \div w < k) /\ (v < k * w <=> v \div w < k)
    BY WholeDays
<1>4. u \div w < v \div w => u < v
    BY <1>1, <1>2, <1>3
<1>5. PICK m \in Nat : m = u \div w
    BY <1>1
<1>6. m * w \in Nat /\ (v < m * w <=> v \div w < m) /\ (u < m * w <=> u \div w < m)
    BY WholeDays
<1>7. u <= v => u \div w <= v \div w
    BY <1>1, <1>5, <1>6
<1> QED  BY <1>4, <1>7

\* The remainder is the only number below n that a multiple of n adds to x.
LEMMA SameQuotient ==
    ASSUME NEW n \in Nat, n > 0, NEW s \in Nat, NEW d \in Nat,
           NEW y \in 0 .. (n - 1), NEW z \in 0 .. (n - 1), n * s + y = n * d + z
    PROVE  z = y
<1>1. CASE s + 1 <= d
    <2> DEFINE e == d - (s + 1)
    <2>1. e \in Nat /\ d = (s + 1) + e
        BY <1>1
    <2> HIDE DEF e
    <2>2. n * d = n * s + n + n * e /\ n * e \in Nat /\ n * s \in Nat
        BY <2>1
    <2> QED  BY <2>2
<1>2. CASE d + 1 <= s
    <2> DEFINE e == s - (d + 1)
    <2>1. e \in Nat /\ s = (d + 1) + e
        BY <1>2
    <2> HIDE DEF e
    <2>2. n * s = n * d + n + n * e /\ n * e \in Nat /\ n * d \in Nat
        BY <2>1
    <2> QED  BY <2>2
<1>3. CASE s = d
    <2>1. n * s \in Nat /\ n * d = n * s
        BY <1>3
    <2> QED  BY <2>1
<1> QED  BY <1>1, <1>2, <1>3

\* Days are numbered modulo the number of buckets.
LEMMA DayNumbers ==
    ASSUME NEW n \in Nat, n > 0, NEW a \in Nat, NEW b \in Nat
    PROVE  /\ a % n \in 0 .. (n - 1)
           /\ ((a % n) + b) % n = (a + b) % n
           /\ a <= b /\ b - a < n /\ a % n = b % n => a = b
<1>1. \A x \in Nat : /\ x = n * (x \div n) + (x % n)
                     /\ x \div n \in Nat /\ x % n \in 0 .. (n - 1)
    OBVIOUS
<1> DEFINE p == a \div n
           r == a % n
<1>2. p \in Nat /\ r \in 0 .. (n - 1) /\ a = n * p + r
    BY <1>1
<1>3. ((a % n) + b) % n = (a + b) % n
    <2> DEFINE x == r + b
               q == x \div n
               y == x % n
    <2>1. x \in Nat /\ q \in Nat /\ y \in 0 .. (n - 1) /\ x = n * q + y
        BY <1>1, <1>2
    <2> HIDE DEF p, r, x, q, y
    <2>2. a + b = n * (p + q) + y
        <3>1. x = r + b
            BY DEF x
        <3>2. n * (p + q) = n * p + n * q /\ n * p \in Nat /\ n * q \in Nat
            BY <1>2, <2>1
        <3> QED  BY <1>2, <2>1, <3>1, <3>2
    <2>3. p + q \in Nat /\ a + b \in Nat
        BY <1>2, <2>1
    <2>4. (a + b) % n = y
        <3> DEFINE d == (a + b) \div n
                   z == (a + b) % n
        <3>1. a + b = n * d + z /\ d \in Nat /\ z \in 0 .. (n - 1)
            BY <1>1, <2>3
        <3> HIDE DEF d, z
        <3> DEFINE s == p + q
        <3>2. s \in Nat /\ n * s + y = n * d + z
            BY <2>2, <2>3, <3>1
        <3> HIDE DEF s
        <3>3. z = y
            BY <2>1, <3>1, <3>2, SameQuotient
        <3> QED  BY <3>3 DEF z
    <2> QED  BY <2>4 DEF y, x, r
<1>4. ASSUME a <= b, b - a < n, a % n = b % n PROVE a = b
    <2> DEFINE q == b \div n
    <2>1. q \in Nat /\ b = n * q + r
        BY <1>1, <1>4
    <2> HIDE DEF p, q, r
    <2>2. p <= q
        <3> SUFFICES ASSUME q + 1 <= p PROVE FALSE
            BY <1>2, <2>1
        <3> DEFINE e == p - (q + 1)
        <3>1. e \in Nat /\ p = (q + 1) + e
            BY <1>2, <2>1
        <3> HIDE DEF e
        <3>2. n * p = n * q + n + n * e /\ n * e \in Nat /\ n * q \in Nat
            BY <2>1, <3>1
        <3> QED  BY <1>2, <1>4, <2>1, <3>2
    <2>3. p = q
        <3> SUFFICES ASSUME p + 1 <= q PROVE FALSE
            BY <1>2, <2>1, <2>2
        <3> DEFINE e == q - (p + 1)
        <3>1. e \in Nat /\ q = (p + 1) + e
            BY <1>2, <2>1
        <3> HIDE DEF e
        <3>2. n * q = n * p + n + n * e /\ n * e \in Nat /\ n * p \in Nat
            BY <1>2, <3>1
        <3> QED  BY <1>2, <1>4, <2>1, <3>2
    <2> QED  BY <1>2, <2>1, <2>3
<1> QED  BY <1>1, <1>3, <1>4

\* A calendar: its events are sorted into the bucket of their day, none is before the
\* time at which it stands, and the current day and its end are those of that time.
CalendarRecord(c) ==
    /\ c.nBuckets \in Nat /\ c.nBuckets > 0
    /\ c \in [kind : {"calendar"}, buckets : [0 .. c.nBuckets - 1 -> Seq(EventKey)], qSize : Int,
              nBuckets : Nat, width : Nat \ {0}, lastPrio : Nat, lastBucket : Nat,
              bucketTop : Nat]

InBucket(c, b, s) ==
    Sorted(s) /\ \A e \in ToSet(s) : Hash(c, e.ts) = b /\ c.lastPrio <= e.ts

Calendar(c) ==
    /\ CalendarRecord(c)
    /\ \A b \in 0 .. c.nBuckets - 1 : InBucket(c, b, c.buckets[b])
    /\ c.lastBucket = (c.lastPrio \div c.width) % c.nBuckets
    /\ c.bucketTop = (c.lastPrio \div c.width + 1) * c.width

\* The types of the fields.
LEMMA CalendarTypes ==
    ASSUME NEW c, CalendarRecord(c)
    PROVE  /\ c.nBuckets \in Nat /\ c.nBuckets > 0 /\ c.width \in Nat /\ c.width > 0
           /\ c.lastPrio \in Nat /\ c.lastBucket \in Nat /\ c.bucketTop \in Nat
           /\ DOMAIN c.buckets = 0 .. c.nBuckets - 1
           /\ \A b \in 0 .. c.nBuckets - 1 : c.buckets[b] \in Seq(EventKey)
           /\ \A ts \in Nat : ts \div c.width \in Nat /\ Hash(c, ts) \in 0 .. c.nBuckets - 1
<1>1. /\ c.nBuckets \in Nat /\ c.nBuckets > 0 /\ c.width \in Nat /\ c.width > 0
      /\ c.lastPrio \in Nat /\ c.lastBucket \in Nat /\ c.bucketTop \in Nat
      /\ c.buckets \in [0 .. c.nBuckets - 1 -> Seq(EventKey)]
    BY DEF CalendarRecord
<1>2. ASSUME NEW ts \in Nat
      PROVE  ts \div c.width \in Nat /\ Hash(c, ts) \in 0 .. c.nBuckets - 1
    <2>1. PICK w \in Nat, n \in Nat : w = c.width /\ n = c.nBuckets /\ w > 0 /\ n > 0
        BY <1>1
    <2>2. PICK q \in Nat : q = ts \div w
        BY <2>1, WholeDays
    <2>3. q % n \in 0 .. (n - 1)
        BY <2>1, DayNumbers
    <2> QED  BY <2>1, <2>2, <2>3 DEF Hash
<1> QED  BY <1>1, <1>2

\* The events of a calendar, by their buckets.
LEMMA EventsAre ==
    ASSUME NEW c, Calendar(c)
    PROVE  /\ CalendarEvents(c) \subseteq EventKey
           /\ \A b \in 0 .. c.nBuckets - 1 : ToSet(c.buckets[b]) \subseteq CalendarEvents(c)
           /\ \A e \in CalendarEvents(c) : /\ Hash(c, e.ts) \in 0 .. c.nBuckets - 1
                                           /\ e \in ToSet(c.buckets[Hash(c, e.ts)])
                                           /\ c.lastPrio <= e.ts
<1>1. CalendarRecord(c) /\ \A b \in 0 .. c.nBuckets - 1 : InBucket(c, b, c.buckets[b])
    BY DEF Calendar
<1>2. /\ DOMAIN c.buckets = 0 .. c.nBuckets - 1
      /\ \A b \in 0 .. c.nBuckets - 1 : c.buckets[b] \in Seq(EventKey)
    BY <1>1, CalendarTypes
<1>3. \A b \in 0 .. c.nBuckets - 1 : ToSet(c.buckets[b]) \subseteq EventKey
    BY <1>2, ElementsOf
<1>4. ASSUME NEW e \in CalendarEvents(c)
      PROVE  \E b \in 0 .. c.nBuckets - 1 : e \in ToSet(c.buckets[b])
    BY <1>2 DEF CalendarEvents
<1>5. \A b \in 0 .. c.nBuckets - 1 : ToSet(c.buckets[b]) \subseteq CalendarEvents(c)
    BY <1>2 DEF CalendarEvents
<1>6. ASSUME NEW e \in CalendarEvents(c)
      PROVE  /\ e \in EventKey /\ c.lastPrio <= e.ts /\ Hash(c, e.ts) \in 0 .. c.nBuckets - 1
             /\ e \in ToSet(c.buckets[Hash(c, e.ts)])
    <2>1. PICK b \in 0 .. c.nBuckets - 1 : e \in ToSet(c.buckets[b])
        BY <1>4
    <2>2. Hash(c, e.ts) = b /\ c.lastPrio <= e.ts
        BY <1>1, <2>1 DEF InBucket
    <2> QED  BY <1>3, <2>1, <2>2
<1> QED  BY <1>5, <1>6

\* Every day a whole year ahead has its bucket, and the events of a day that is reached
\* within a year are known by the end of that day.
LEMMA DaysOfYear ==
    ASSUME NEW c, Calendar(c), NEW ts \in Nat, c.lastPrio <= ts
    PROVE  /\ \A i \in 0 .. c.nBuckets - 1 :
                 /\ Day(c, i) \in 0 .. c.nBuckets - 1
                 /\ Hash(c, ts) = Day(c, i) /\ ts < c.bucketTop + i * c.width
                        => ts \div c.width = c.lastPrio \div c.width + i
           /\ LET i == ts \div c.width - c.lastPrio \div c.width
              IN  /\ i \in Nat
                  /\ i < c.nBuckets => /\ Day(c, i) = Hash(c, ts)
                                       /\ ts < c.bucketTop + i * c.width
<1>1. CalendarRecord(c)
    BY DEF Calendar
<1>2. PICK n \in Nat, w \in Nat, p \in Nat :
          n = c.nBuckets /\ w = c.width /\ p = c.lastPrio /\ n > 0 /\ w > 0
    BY <1>1, CalendarTypes
<1>3. PICK T \in Nat : T = p \div w
    BY <1>2, WholeDays
<1>4. PICK D \in Nat : D = ts \div w
    BY <1>2, WholeDays
<1>5. T <= D
    BY <1>2, <1>3, <1>4, EarlierDay
<1>6. c.lastBucket = T % n /\ c.bucketTop = (T + 1) * w
    BY <1>2, <1>3 DEF Calendar
<1>7. Hash(c, ts) = D % n
    BY <1>2, <1>4 DEF Hash
<1>8. ASSUME NEW i \in Nat
      PROVE  /\ Day(c, i) = (T + i) % n /\ Day(c, i) \in 0 .. n - 1
             /\ ts < c.bucketTop + i * c.width <=> D < T + 1 + i
    <2>1. Day(c, i) = ((T % n) + i) % n
        BY <1>2, <1>6 DEF Day
    <2>2. PICK m \in Nat : m = T + i
        OBVIOUS
    <2>3. ((T % n) + i) % n = m % n /\ m % n \in 0 .. (n - 1)
        <3>1. n \in Nat /\ n > 0 /\ T \in Nat /\ i \in Nat /\ m \in Nat
            BY <1>2
        <3>2. ((T % n) + i) % n = (T + i) % n
            BY ONLY <3>1, DayNumbers
        <3>3. m % n \in 0 .. (n - 1)
            BY ONLY <3>1, DayNumbers
        <3> QED  BY <2>2, <3>2, <3>3
    <2>4. PICK k \in Nat : k = T + 1 + i
        OBVIOUS
    <2>5. k * w = (T + 1) * w + i * w
        BY <2>4
    <2>6. ts < k * w <=> D < k
        BY <1>2, <1>4, WholeDays
    <2> QED  BY <1>2, <1>6, <2>1, <2>2, <2>3, <2>4, <2>5, <2>6
<1>9. ASSUME NEW i \in 0 .. n - 1, D % n = (T + i) % n, D < T + 1 + i PROVE D = T + i
    <2>1. PICK m \in Nat : m = T + i
        OBVIOUS
    <2>2. D <= m /\ m - D < n
        BY <1>2, <1>5, <1>9, <2>1
    <2> QED  BY <1>2, <1>9, <2>1, <2>2, DayNumbers
<1>10. \A i \in 0 .. c.nBuckets - 1 :
           /\ Day(c, i) \in 0 .. c.nBuckets - 1
           /\ Hash(c, ts) = Day(c, i) /\ ts < c.bucketTop + i * c.width
                  => ts \div c.width = c.lastPrio \div c.width + i
    <2> TAKE i \in 0 .. c.nBuckets - 1
    <2>1. i \in 0 .. n - 1 /\ i \in Nat
        BY <1>2
    <2> QED  BY <1>2, <1>3, <1>4, <1>7, <1>8, <1>9, <2>1
<1>11. PICK i \in Nat : i = D - T
    BY <1>5
<1>12. T + i = D /\ D < T + 1 + i
    BY <1>11
<1>13. Day(c, i) = Hash(c, ts) /\ ts < c.bucketTop + i * c.width
    BY <1>7, <1>8, <1>12
<1> QED  BY <1>2, <1>3, <1>4, <1>10, <1>11, <1>13

\* The first event of a bucket that is not empty.
LEMMA FirstOfBucket ==
    ASSUME NEW c, Calendar(c), NEW b \in 0 .. c.nBuckets - 1, c.buckets[b] # <<>>
    PROVE  LET h == Head(c.buckets[b])
           IN  /\ First(ToSet(c.buckets[b]), h) /\ h \in EventKey /\ h.ts \in Nat
               /\ h \in CalendarEvents(c) /\ Hash(c, h.ts) = b /\ c.lastPrio <= h.ts
               /\ InBucket(c, b, Tail(c.buckets[b]))
               /\ ToSet(Tail(c.buckets[b])) = ToSet(c.buckets[b]) \ {h}
<1> DEFINE s == c.buckets[b]
           h == Head(s)
<1>1. Sorted(s) /\ \A e \in ToSet(s) : Hash(c, e.ts) = b /\ c.lastPrio <= e.ts
    BY DEF Calendar, InBucket
<1>2. /\ First(ToSet(s), h) /\ h \in EventKey
      /\ Sorted(Tail(s)) /\ ToSet(Tail(s)) = ToSet(s) \ {h}
    BY <1>1, HeadIsFirst
<1>3. h \in ToSet(s) /\ h.ts \in Nat
    BY <1>2 DEF First, EventKey
<1>4. h \in CalendarEvents(c)
    BY <1>3, EventsAre
<1> QED  BY <1>1, <1>2, <1>3, <1>4 DEF InBucket

\* When an event of this year is found, no other is earlier.
LEMMA DueIsFirst ==
    ASSUME NEW c, Calendar(c), DueDays(c) # {}
    PROVE  LET b == NextBucket(c)
               h == Head(c.buckets[b])
           IN  /\ b \in 0 .. c.nBuckets - 1 /\ c.buckets[b] # <<>>
               /\ First(CalendarEvents(c), h)
               /\ NextDay(c) \in 0 .. c.nBuckets - 1
               /\ h.ts \div c.width = c.lastPrio \div c.width + NextDay(c)
<1>1. CalendarRecord(c)
    BY DEF Calendar
<1>2. PICK n \in Nat, w \in Nat, p \in Nat :
          n = c.nBuckets /\ w = c.width /\ p = c.lastPrio /\ n > 0 /\ w > 0
    BY <1>1, CalendarTypes
<1>3. DueDays(c) \in SUBSET Nat /\ DueDays(c) \subseteq 0 .. n - 1
    BY <1>2 DEF DueDays
<1>4. \E i \in DueDays(c) : \A j \in DueDays(c) : i <= j
    BY <1>3, LeastExists
<1>5. PICK i \in DueDays(c) : i = NextDay(c) /\ \A j \in DueDays(c) : i <= j
    BY <1>4 DEF NextDay
<1>6. PICK b : b = Day(c, i)
    OBVIOUS
<1>7. NextBucket(c) = b
    BY <1>5, <1>6 DEF NextBucket
<1>8. i \in 0 .. n - 1 /\ c.buckets[b] # <<>> /\ Head(c.buckets[b]).ts < c.bucketTop + i * c.width
    BY <1>2, <1>5, <1>6 DEF DueDays
<1>9. b \in 0 .. n - 1
    <2>1. p \in Nat /\ p <= p
        BY <1>2
    <2> QED  BY <1>2, <1>6, <1>8, <2>1, DaysOfYear
<1>10. PICK h : h = Head(c.buckets[b])
    OBVIOUS
<1>11. /\ First(ToSet(c.buckets[b]), h) /\ h \in EventKey /\ h.ts \in Nat
       /\ h \in CalendarEvents(c) /\ Hash(c, h.ts) = b /\ p <= h.ts
    BY <1>2, <1>8, <1>9, <1>10, FirstOfBucket
<1>12. h.ts \div w = p \div w + i
    BY <1>2, <1>6, <1>8, <1>10, <1>11, DaysOfYear
<1>13. ASSUME NEW e \in CalendarEvents(c), e # h PROVE Less(h, e)
    <2>1. PICK g \in 0 .. n - 1 : g = Hash(c, e.ts) /\ e \in ToSet(c.buckets[g]) /\ p <= e.ts
        BY <1>2, EventsAre
    <2>2. e \in EventKey /\ e.ts \in Nat /\ h \in EventKey /\ h.ts \in Nat
        BY <1>11, EventsAre DEF EventKey
    <2>3. h.ts \div w \in Nat /\ e.ts \div w \in Nat /\ p \div w \in Nat
        BY <1>2, <2>2, WholeDays
    <2>4. PICK D \in Nat, E \in Nat, T \in Nat :
              D = h.ts \div w /\ E = e.ts \div w /\ T = p \div w
        BY <2>3
    <2>5. D = T + i /\ i \in Nat
        BY <1>8, <1>12, <2>4
    <2>6. T <= E
        BY <1>2, <2>1, <2>2, <2>4, EarlierDay
    <2>7. PICK j \in Nat : j = E - T
        BY <2>6
    <2>8. D < E => Less(h, e)
        <3>1. D < E => h.ts < e.ts
            BY <1>2, <2>2, <2>4, EarlierDay
        <3> QED  BY <3>1 DEF Less
    <2>9. CASE j < n
        <3>1. Day(c, j) = g /\ e.ts < c.bucketTop + j * c.width
            BY <1>2, <2>1, <2>2, <2>4, <2>7, <2>9, DaysOfYear
        <3>2. c.buckets[g] # <<>>
            <4>1. c.buckets[g] \in Seq(EventKey)
                BY <1>1, <1>2, CalendarTypes
            <4>2. \E k \in 1 .. Len(c.buckets[g]) : c.buckets[g][k] = e
                BY <2>1, <4>1, ElementsOf
            <4> QED  BY <4>2
        <3>3. PICK f : f = Head(c.buckets[g])
            OBVIOUS
        <3>4. First(ToSet(c.buckets[g]), f) /\ f.ts \in Nat
            BY <1>2, <3>2, <3>3, FirstOfBucket
        <3>5. f = e \/ Less(f, e)
            BY <2>1, <3>4 DEF First
        <3>6. f.ts <= e.ts
            BY <2>2, <3>4, <3>5 DEF Less
        <3>7. PICK top \in Nat : top = c.bucketTop + j * c.width
            <4>1. c.bucketTop \in Nat /\ c.width \in Nat
                BY <1>1, CalendarTypes
            <4>2. j * c.width \in Nat
                BY <4>1
            <4> QED  BY <4>1, <4>2
        <3>8. j \in DueDays(c)
            <4>1. f.ts < top /\ j \in 0 .. c.nBuckets - 1
                BY <1>2, <2>2, <2>9, <3>1, <3>4, <3>6, <3>7
            <4> QED  BY <3>1, <3>2, <3>3, <3>7, <4>1 DEF DueDays
        <3>9. i <= j
            BY <1>5, <3>8
        <3>10. CASE i = j
            <4>1. e \in ToSet(c.buckets[b])
                BY <1>6, <2>1, <3>1, <3>10
            <4> QED  BY <1>11, <1>13, <4>1 DEF First
        <3>11. CASE i # j
            BY <2>5, <2>6, <2>7, <2>8, <3>9, <3>11
        <3> QED  BY <3>10, <3>11
    <2>10. CASE n <= j
        <3>1. i < j
            BY <1>8, <2>10
        <3> QED  BY <2>5, <2>6, <2>7, <2>8, <3>1
    <2> QED  BY <1>2, <2>7, <2>9, <2>10
<1>14. First(CalendarEvents(c), h)
    BY <1>11, <1>13 DEF First
<1> QED  BY <1>2, <1>5, <1>7, <1>8, <1>9, <1>10, <1>12, <1>14

\* When none is of this year, the earliest of the first events of the buckets is taken.
LEMMA MinIsFirst ==
    ASSUME NEW c, Calendar(c), DueDays(c) = {}, CalendarEvents(c) # {}
    PROVE  LET b == NextBucket(c)
               h == Head(c.buckets[b])
           IN  /\ b \in 0 .. c.nBuckets - 1 /\ c.buckets[b] # <<>>
               /\ First(CalendarEvents(c), h)
<1> DEFINE full == {b \in DOMAIN c.buckets : c.buckets[b] # <<>>}
           H(b) == Head(c.buckets[b])
<1>1. CalendarRecord(c)
    BY DEF Calendar
<1>2. /\ DOMAIN c.buckets = 0 .. c.nBuckets - 1
      /\ \A b \in 0 .. c.nBuckets - 1 : c.buckets[b] \in Seq(EventKey)
    BY <1>1, CalendarTypes
<1>3. ASSUME NEW e \in CalendarEvents(c)
      PROVE  Hash(c, e.ts) \in full /\ e \in ToSet(c.buckets[Hash(c, e.ts)])
    <2>1. PICK g \in 0 .. c.nBuckets - 1 : g = Hash(c, e.ts) /\ e \in ToSet(c.buckets[g])
        BY EventsAre
    <2>2. c.buckets[g] \in Seq(EventKey)
        BY <1>2
    <2>3. \E k \in 1 .. Len(c.buckets[g]) : c.buckets[g][k] = e
        BY <2>1, <2>2, ElementsOf
    <2>4. c.buckets[g] # <<>>
        BY <2>3
    <2> QED  BY <1>2, <2>1, <2>4
<1>4. ASSUME NEW b \in full
      PROVE  /\ b \in 0 .. c.nBuckets - 1 /\ c.buckets[b] # <<>>
             /\ First(ToSet(c.buckets[b]), H(b)) /\ H(b) \in EventKey /\ H(b).ts \in Nat
             /\ H(b) \in CalendarEvents(c) /\ Hash(c, H(b).ts) = b
    <2>1. b \in 0 .. c.nBuckets - 1 /\ c.buckets[b] # <<>>
        BY <1>2
    <2> QED  BY <2>1, FirstOfBucket
<1>5. NextBucket(c) = CHOOSE b \in full : \A d \in full \ {b} : Less(H(b), H(d))
    BY DEF NextBucket, MinBucket
<1> HIDE DEF full, H
<1>6. \E b \in full : \A d \in full \ {b} : Less(H(b), H(d))
    <2> DEFINE S == {H(b).ts : b \in full}
    <2>1. S \in SUBSET Nat /\ S # {}
        BY <1>3, <1>4
    <2>2. PICK x \in S : \A y \in S : x <= y
        BY <2>1, LeastExists
    <2>3. PICK b \in full : H(b).ts = x
        BY <2>2
    <2>4. ASSUME NEW d \in full \ {b} PROVE Less(H(b), H(d))
        <3>1. H(b).ts <= H(d).ts
            BY <2>2, <2>3
        <3>2. H(b).ts # H(d).ts
            BY <1>4, <2>3, <2>4
        <3>3. H(b).ts \in Nat /\ H(d).ts \in Nat
            BY <1>4, <2>3, <2>4
        <3> QED  BY <3>1, <3>2, <3>3 DEF Less
    <2> QED  BY <2>3, <2>4
<1>7. PICK b \in full : b = NextBucket(c) /\ \A d \in full \ {b} : Less(H(b), H(d))
    BY <1>5, <1>6
<1>8. ASSUME NEW e \in CalendarEvents(c), e # H(b) PROVE Less(H(b), e)
    <2>1. PICK d \in full : e \in ToSet(c.buckets[d])
        BY <1>3
    <2>2. First(ToSet(c.buckets[d]), H(d)) /\ H(d) \in EventKey /\ H(b) \in EventKey
        BY <1>4
    <2>3. e = H(d) \/ Less(H(d), e)
        BY <2>1, <2>2 DEF First
    <2>4. d = b \/ Less(H(b), H(d))
        BY <1>7
    <2>5. e \in EventKey
        BY EventsAre
    <2> QED  BY <1>8, <2>2, <2>3, <2>4, <2>5, LessIsOrder
<1>9. First(CalendarEvents(c), H(b))
    BY <1>4, <1>8 DEF First
<1> QED  BY <1>4, <1>7, <1>9 DEF H

\* CalendarScheduler::PeekNext finds the earliest of all events, whatever the width of a
\* day, the number of buckets, and how many years ahead the events are.
THEOREM CalendarFindsFirst ==
    ASSUME NEW c, Calendar(c), CalendarEvents(c) # {}
    PROVE  First(CalendarEvents(c), CalendarPeek(c))
<1>1. CASE DueDays(c) # {}
    BY <1>1, DueIsFirst DEF CalendarPeek
<1>2. CASE DueDays(c) = {}
    BY <1>2, MinIsFirst DEF CalendarPeek
<1> QED  BY <1>1, <1>2

\* A bucket of which the list is replaced.
LEMMA BucketReplaced ==
    ASSUME NEW c, Calendar(c), NEW b \in 0 .. c.nBuckets - 1, NEW s, InBucket(c, b, s),
           NEW d, d = [c EXCEPT !.buckets[b] = s]
    PROVE  /\ Calendar(d)
           /\ CalendarEvents(d) = (CalendarEvents(c) \ ToSet(c.buckets[b])) \union ToSet(s)
           /\ d.nBuckets = c.nBuckets /\ d.width = c.width /\ d.lastPrio = c.lastPrio
           /\ d.lastBucket = c.lastBucket /\ d.bucketTop = c.bucketTop
<1> DEFINE B == 0 .. c.nBuckets - 1
<1>1. CalendarRecord(c) /\ s \in Seq(EventKey)
    BY DEF Calendar, InBucket, Sorted
<1>2. /\ d.buckets = [c.buckets EXCEPT ![b] = s] /\ d.kind = c.kind /\ d.qSize = c.qSize
      /\ d.nBuckets = c.nBuckets /\ d.width = c.width /\ d.lastPrio = c.lastPrio
      /\ d.lastBucket = c.lastBucket /\ d.bucketTop = c.bucketTop
    BY <1>1 DEF CalendarRecord
<1>3. c.buckets \in [B -> Seq(EventKey)]
    BY <1>1 DEF CalendarRecord
<1>4. d.buckets \in [B -> Seq(EventKey)]
    BY <1>1, <1>2, <1>3
<1>5. CalendarRecord(d)
    BY <1>1, <1>2, <1>4 DEF CalendarRecord
<1>6. \A ts : Hash(d, ts) = Hash(c, ts)
    BY <1>2 DEF Hash
<1>7. d.buckets[b] = s /\ \A g \in B : g # b => d.buckets[g] = c.buckets[g]
    <2>1. PICK q \in [B -> Seq(EventKey)] : q = c.buckets
        BY <1>3
    <2>2. [q EXCEPT ![b] = s][b] = s /\ \A g \in B : g # b => [q EXCEPT ![b] = s][g] = q[g]
        OBVIOUS
    <2> QED  BY <1>2, <2>1, <2>2
<1>8. \A g \in B : InBucket(d, g, d.buckets[g])
    <2> TAKE g \in B
    <2>1. InBucket(c, g, d.buckets[g])
        BY <1>7 DEF Calendar
    <2> QED  BY <1>2, <1>6, <2>1 DEF InBucket
<1>9. Calendar(d)
    BY <1>2, <1>5, <1>8 DEF Calendar
<1>10. DOMAIN c.buckets = B /\ DOMAIN d.buckets = B
    BY <1>3, <1>4
<1>11. \A e : e \in CalendarEvents(c) <=> \E g \in B : e \in ToSet(c.buckets[g])
    BY <1>10 DEF CalendarEvents
<1>12. \A e : e \in CalendarEvents(d) <=> \E g \in B : e \in ToSet(d.buckets[g])
    BY <1>10 DEF CalendarEvents
\* No event is in two buckets.
<1>13. \A g \in B, h \in B : \A e : e \in ToSet(c.buckets[g]) /\ e \in ToSet(c.buckets[h]) => g = h
    BY DEF Calendar, InBucket
<1>14. ASSUME NEW e
       PROVE  e \in CalendarEvents(d)
                  <=> e \in (CalendarEvents(c) \ ToSet(c.buckets[b])) \union ToSet(s)
    <2>1. CASE e \in ToSet(s)
        BY <1>7, <1>12, <2>1
    <2>2. CASE e \notin ToSet(s)
        <3>1. e \in CalendarEvents(d) <=> \E g \in B : g # b /\ e \in ToSet(c.buckets[g])
            BY <1>7, <1>12, <2>2
        <3>2. (\E g \in B : g # b /\ e \in ToSet(c.buckets[g]))
                  <=> e \in CalendarEvents(c) /\ e \notin ToSet(c.buckets[b])
            BY <1>11, <1>13
        <3> QED  BY <2>2, <3>1, <3>2
    <2> QED  BY <2>1, <2>2
<1> QED  BY <1>2, <1>9, <1>14

\* CalendarScheduler::Insert before it resizes: an event that is not in the past of the
\* calendar is added, and no other is moved or lost.
THEOREM CalendarInserts ==
    ASSUME NEW c, Calendar(c), NEW ev \in EventKey, c.lastPrio <= ev.ts,
           ev \notin CalendarEvents(c)
    PROVE  /\ Calendar(DoInsert(c, ev))
           /\ CalendarEvents(DoInsert(c, ev)) = CalendarEvents(c) \union {ev}
<1>1. CalendarRecord(c) /\ ev.ts \in Nat
    BY DEF Calendar, EventKey
<1>2. PICK b \in 0 .. c.nBuckets - 1 : b = Hash(c, ev.ts)
    BY <1>1, CalendarTypes
<1>3. Sorted(c.buckets[b]) /\ \A e \in ToSet(c.buckets[b]) : Hash(c, e.ts) = b /\ c.lastPrio <= e.ts
    BY DEF Calendar, InBucket
<1>4. ToSet(c.buckets[b]) \subseteq CalendarEvents(c)
    BY EventsAre
<1>5. PICK s : s = InsertSorted(c.buckets[b], ev)
    OBVIOUS
<1>6. Sorted(s) /\ ToSet(s) = ToSet(c.buckets[b]) \union {ev}
    BY <1>3, <1>4, <1>5, InsertSortedKeeps
<1>7. InBucket(c, b, s)
    BY <1>2, <1>3, <1>6 DEF InBucket
<1>8. PICK d : d = [c EXCEPT !.buckets[b] = s]
    OBVIOUS
<1>9. DoInsert(c, ev) = d
    <2>1. CalendarRecord(c)
        BY <1>1
    <2> QED  BY <1>2, <1>5, <1>8 DEF DoInsert
<1>10. /\ Calendar(d)
       /\ CalendarEvents(d) = (CalendarEvents(c) \ ToSet(c.buckets[b])) \union ToSet(s)
    BY <1>7, <1>8, BucketReplaced
<1> QED  BY <1>4, <1>6, <1>9, <1>10

\* CalendarScheduler::Remove before it resizes: the event with that uid goes, and no other.
THEOREM CalendarErases ==
    ASSUME NEW c, Calendar(c), NEW ev \in CalendarEvents(c),
           \A a, b \in CalendarEvents(c) : a.uid = b.uid => a = b
    PROVE  /\ Calendar(DoErase(c, ev))
           /\ CalendarEvents(DoErase(c, ev)) = CalendarEvents(c) \ {ev}
<1>1. PICK b \in 0 .. c.nBuckets - 1 : b = Hash(c, ev.ts) /\ ev \in ToSet(c.buckets[b])
    BY EventsAre
<1>2. Sorted(c.buckets[b]) /\ \A e \in ToSet(c.buckets[b]) : Hash(c, e.ts) = b /\ c.lastPrio <= e.ts
    BY DEF Calendar, InBucket
<1>3. ToSet(c.buckets[b]) \subseteq CalendarEvents(c)
    BY EventsAre
<1>4. PICK s : s = Erase(c.buckets[b], ev)
    OBVIOUS
<1>5. \A a \in ToSet(c.buckets[b]) : a.uid = ev.uid => a = ev
    BY <1>3
<1>6. Sorted(s) /\ ToSet(s) = ToSet(c.buckets[b]) \ {ev}
    BY <1>1, <1>2, <1>4, <1>5, EraseKeeps
<1>7. InBucket(c, b, s)
    BY <1>2, <1>6 DEF InBucket
<1>8. PICK d : d = [c EXCEPT !.buckets[b] = s]
    OBVIOUS
<1>9. DoErase(c, ev) = d
    BY <1>1, <1>4, <1>8 DEF DoErase
<1>10. /\ Calendar(d)
       /\ CalendarEvents(d) = (CalendarEvents(c) \ ToSet(c.buckets[b])) \union ToSet(s)
    BY <1>7, <1>8, BucketReplaced
<1> QED  BY <1>1, <1>3, <1>6, <1>9, <1>10

\* The calendar moves on to a time that is not after any of its events.
LEMMA CalendarMovesOn ==
    ASSUME NEW d, Calendar(d), NEW f, CalendarRecord(f), f.buckets = d.buckets,
           f.nBuckets = d.nBuckets, f.width = d.width,
           \A e \in CalendarEvents(d) : f.lastPrio <= e.ts,
           f.lastBucket = (f.lastPrio \div f.width) % f.nBuckets,
           f.bucketTop = (f.lastPrio \div f.width + 1) * f.width
    PROVE  Calendar(f) /\ CalendarEvents(f) = CalendarEvents(d)
<1>1. \A ts : Hash(f, ts) = Hash(d, ts)
    BY DEF Hash
<1>2. ASSUME NEW b \in 0 .. d.nBuckets - 1 PROVE InBucket(f, b, d.buckets[b])
    <2>1. InBucket(d, b, d.buckets[b])
        BY DEF Calendar
    <2>2. ToSet(d.buckets[b]) \subseteq CalendarEvents(d)
        BY EventsAre
    <2> QED  BY <1>1, <2>1, <2>2 DEF InBucket
<1>3. Calendar(f)
    BY <1>2 DEF Calendar
<1> QED  BY <1>3 DEF CalendarEvents

\* CalendarScheduler::RemoveNext before it resizes: the earliest event goes, and the
\* calendar stands at its day, in whatever year.
THEOREM CalendarRemovesFirst ==
    ASSUME NEW c, Calendar(c), CalendarEvents(c) # {}
    PROVE  /\ Calendar(DoRemoveNext(c))
           /\ CalendarEvents(DoRemoveNext(c)) = CalendarEvents(c) \ {CalendarPeek(c)}
           /\ DoRemoveNext(c).lastPrio = CalendarPeek(c).ts
<1>1. CalendarRecord(c)
    BY DEF Calendar
<1>2. PICK h : h = CalendarPeek(c)
    OBVIOUS
<1>3. PICK b \in 0 .. c.nBuckets - 1 :
          /\ b = NextBucket(c) /\ c.buckets[b] # <<>> /\ h = Head(c.buckets[b])
          /\ First(CalendarEvents(c), h)
    <2>1. CASE DueDays(c) # {}
        BY <1>2, <2>1, DueIsFirst DEF CalendarPeek
    <2>2. CASE DueDays(c) = {}
        BY <1>2, <2>2, MinIsFirst DEF CalendarPeek
    <2> QED  BY <2>1, <2>2
<1>4. PICK s : s = Tail(c.buckets[b])
    OBVIOUS
<1>5. /\ h \in EventKey /\ h.ts \in Nat /\ Hash(c, h.ts) = b /\ InBucket(c, b, s)
      /\ ToSet(s) = ToSet(c.buckets[b]) \ {h} /\ h \in ToSet(c.buckets[b])
    BY <1>3, <1>4, FirstOfBucket DEF First
<1>6. PICK d : d = [c EXCEPT !.buckets[b] = s]
    OBVIOUS
<1>7. /\ Calendar(d)
      /\ CalendarEvents(d) = (CalendarEvents(c) \ ToSet(c.buckets[b])) \union ToSet(s)
      /\ d.nBuckets = c.nBuckets /\ d.width = c.width /\ d.lastPrio = c.lastPrio
      /\ d.lastBucket = c.lastBucket /\ d.bucketTop = c.bucketTop
    BY <1>5, <1>6, BucketReplaced
<1>8. CalendarEvents(d) = CalendarEvents(c) \ {h}
    <2>1. ToSet(c.buckets[b]) \subseteq CalendarEvents(c)
        BY EventsAre
    <2> QED  BY <1>5, <1>7, <2>1
<1>9. \A e \in CalendarEvents(d) : h.ts <= e.ts
    <2> TAKE e \in CalendarEvents(d)
    <2>1. Less(h, e)
        BY <1>3, <1>8 DEF First
    <2>2. e \in EventKey /\ e.ts \in Nat
        BY <1>8, EventsAre DEF EventKey
    <2> QED  BY <1>5, <2>1, <2>2 DEF Less
<1>10. PICK p \in Nat, lb \in {(h.ts \div d.width) % d.nBuckets},
            top \in {(h.ts \div d.width + 1) * d.width} :
          p = h.ts
    BY <1>5
<1>11. PICK f : f = [d EXCEPT !.lastPrio = p, !.lastBucket = lb, !.bucketTop = top]
    OBVIOUS
<1>12. Calendar(f) /\ CalendarEvents(f) = CalendarEvents(d)
    <2>1. CalendarRecord(d)
        BY <1>7 DEF Calendar
    <2>2. /\ f.buckets = d.buckets /\ f.kind = d.kind /\ f.qSize = d.qSize
          /\ f.nBuckets = d.nBuckets /\ f.width = d.width /\ f.lastPrio = p
          /\ f.lastBucket = lb /\ f.bucketTop = top
        BY <1>11, <2>1 DEF CalendarRecord
    <2>3. lb \in Nat /\ top \in Nat
        <3>1. PICK w \in Nat, n \in Nat : w = d.width /\ n = d.nBuckets /\ w > 0 /\ n > 0
            BY <2>1, CalendarTypes
        <3>2. PICK q \in Nat : q = p \div w
            BY <3>1, WholeDays
        <3>3. q % n \in Nat /\ (q + 1) * w \in Nat
            BY <3>1
        <3> QED  BY <1>10, <3>1, <3>2, <3>3
    <2>4. CalendarRecord(f)
        BY <1>11, <2>1, <2>2, <2>3 DEF CalendarRecord
    <2>5. \A e \in CalendarEvents(d) : f.lastPrio <= e.ts
        BY <1>9, <1>10, <2>2
    <2>6. /\ f.lastBucket = (f.lastPrio \div f.width) % f.nBuckets
          /\ f.bucketTop = (f.lastPrio \div f.width + 1) * f.width
        BY <1>10, <2>2
    <2> QED  BY <1>7, <2>2, <2>4, <2>5, <2>6, CalendarMovesOn
<1>13. lb = b /\ lb = Hash(c, h.ts)
    BY <1>5, <1>7, <1>10 DEF Hash
<1>14. top = (h.ts \div c.width + 1) * c.width
    BY <1>7, <1>10
<1>15. DueDays(c) # {} => top = c.bucketTop + NextDay(c) * c.width
    <2> SUFFICES ASSUME DueDays(c) # {} PROVE top = c.bucketTop + NextDay(c) * c.width
        OBVIOUS
    <2>1. /\ NextDay(c) \in 0 .. c.nBuckets - 1
          /\ h.ts \div c.width = c.lastPrio \div c.width + NextDay(c)
        BY <1>3, DueIsFirst
    <2>2. c.lastPrio \in Nat /\ c.width \in Nat
        BY <1>1, CalendarTypes
    <2>3. c.lastPrio \div c.width \in Nat
        BY <1>1, <2>2, CalendarTypes
    <2>4. PICK i \in Nat, w \in Nat, T \in Nat :
              i = NextDay(c) /\ w = c.width /\ T = c.lastPrio \div c.width
        BY <2>1, <2>2, <2>3
    <2>5. c.bucketTop = (T + 1) * w
        BY <2>4 DEF Calendar
    <2>6. top = (T + i + 1) * w
        BY <1>14, <2>1, <2>4
    <2>7. (T + i + 1) * w = (T + 1) * w + i * w
        OBVIOUS
    <2> QED  BY <2>4, <2>5, <2>6, <2>7
<1>16. DoRemoveNext(c) = f
    <2> DEFINE rest == [c EXCEPT !.buckets[b] = s, !.lastPrio = p]
    <2>1. f = [rest EXCEPT !.lastBucket = lb, !.bucketTop = top]
        BY <1>1, <1>6, <1>11 DEF CalendarRecord
    <2>2. rest.bucketTop = c.bucketTop
        BY <1>1 DEF CalendarRecord
    <2>3. rest = [c EXCEPT !.buckets[NextBucket(c)] = Tail(@), !.lastPrio = CalendarPeek(c).ts]
        BY <1>2, <1>3, <1>4, <1>10
    <2> HIDE DEF rest
    <2>4. DoRemoveNext(c) =
              IF DueDays(c) # {}
              THEN [rest EXCEPT !.lastBucket = b, !.bucketTop = @ + NextDay(c) * c.width]
              ELSE [rest EXCEPT !.lastBucket = Hash(c, h.ts),
                                !.bucketTop = (h.ts \div c.width + 1) * c.width]
        BY <1>2, <1>3, <2>3 DEF DoRemoveNext
    <2> QED  BY <1>13, <1>14, <1>15, <2>1, <2>2, <2>4
<1>17. f.lastPrio = h.ts
    BY <1>7, <1>10, <1>11 DEF Calendar, CalendarRecord
<1> QED  BY <1>2, <1>8, <1>12, <1>16, <1>17

\* CalendarScheduler::Init.
THEOREM NewCalendarIsEmpty ==
    ASSUME NEW n \in Nat, n > 0, NEW w \in Nat, w > 0, NEW p \in Nat
    PROVE  Calendar(NewCalendar(n, w, p)) /\ CalendarEvents(NewCalendar(n, w, p)) = {}
<1> DEFINE c == NewCalendar(n, w, p)
<1>1. /\ c.buckets = [i \in 0 .. n - 1 |-> <<>>] /\ c.nBuckets = n /\ c.width = w
      /\ c.lastPrio = p /\ c.lastBucket = (p \div w) % n /\ c.bucketTop = (p \div w + 1) * w
    BY DEF NewCalendar
<1>2. CalendarRecord(c)
    <2>1. PICK q \in Nat : q = p \div w
        BY WholeDays
    <2>2. q % n \in Nat /\ (q + 1) * w \in Nat
        OBVIOUS
    <2>3. [i \in 0 .. n - 1 |-> <<>>] \in [0 .. n - 1 -> Seq(EventKey)]
        OBVIOUS
    <2>4. c \in [kind : {"calendar"}, buckets : [0 .. n - 1 -> Seq(EventKey)], qSize : Int,
                 nBuckets : Nat, width : Nat \ {0}, lastPrio : Nat, lastBucket : Nat,
                 bucketTop : Nat]
        BY <2>1, <2>2, <2>3 DEF NewCalendar
    <2> QED  BY <1>1, <2>4 DEF CalendarRecord
<1> HIDE DEF c
<1>3. <<>> \in Seq(EventKey) /\ ToSet(<<>>) = {} /\ Sorted(<<>>)
    <2>1. <<>> \in Seq(EventKey) /\ Len(<<>>) = 0
        OBVIOUS
    <2>2. ToSet(<<>>) = {}
        BY DEF ToSet
    <2> QED  BY <2>1, <2>2 DEF Sorted
<1>4. Calendar(c)
    BY <1>1, <1>2, <1>3 DEF Calendar, InBucket
<1>5. CalendarEvents(c) = {}
    BY <1>1, <1>3 DEF CalendarEvents
<1> QED  BY <1>4, <1>5 DEF c

-----------------------------------------------------------------------------
(* Loops: functions of the number of turns.                                *)

\* What holds before the first turn, and after a turn if before it, holds after all.
LEMMA Turns ==
    ASSUME NEW n \in Nat, NEW K, 0 \in K, \A k \in 1 .. n : k - 1 \in K => k \in K
    PROVE  \A k \in 0 .. n : k \in K
<1> SUFFICES ASSUME \E k \in 0 .. n : k \notin K PROVE FALSE
    OBVIOUS
<1> DEFINE S == {k \in 0 .. n : k \notin K}
<1>1. S \in SUBSET Nat /\ S # {}
    OBVIOUS
<1>2. PICK k \in S : \A j \in S : k <= j
    BY <1>1, LeastExists
<1>3. k \in 1 .. n /\ k \notin K
    BY <1>2
<1>4. k - 1 \in 0 .. n /\ k - 1 < k
    BY <1>3
<1>5. k - 1 \in K
    BY <1>2, <1>4
<1> QED  BY <1>3, <1>5

\* The turns of BottomUp.
LEMMA UpTurns ==
    ASSUME NEW h, NEW i \in Nat
    PROVE  \E g : /\ g[0] = [heap |-> h, at |-> i]
                  /\ \A k \in 1 .. i : g[k] = Up(g[k - 1])
                  /\ BottomUp(h, i) = g[i].heap
<1> DEFINE x == [heap |-> h, at |-> i]
           Of(m, g) == g = [n \in 0 .. m |-> IF n = 0 THEN x ELSE Up(g[n - 1])]
           K == {m \in 0 .. i : \E g : Of(m, g)}
           G == CHOOSE g : Of(i, g)
<1>1. BottomUp(h, i) = G[i].heap
    BY DEF BottomUp
<1> HIDE DEF x
<1>2. 0 \in K
    <2>1. PICK g : g = [n \in 0 .. 0 |-> x]
        OBVIOUS
    <2>2. Of(0, g)
        BY <2>1
    <2> HIDE DEF Of
    <2> QED  BY <2>2
<1>3. ASSUME NEW m \in 1 .. i, m - 1 \in K PROVE m \in K
    <2>1. PICK g : Of(m - 1, g)
        BY <1>3
    <2>2. PICK f : f = [n \in 0 .. m |-> IF n = 0 THEN x ELSE Up(g[n - 1])]
        OBVIOUS
    <2>3. \A n \in 0 .. m - 1 : f[n] = g[n]
        BY <2>1, <2>2
    <2>4. \A n \in 1 .. m : n - 1 \in 0 .. m - 1 /\ g[n - 1] = f[n - 1]
        BY <2>3
    <2>5. \A n \in 0 .. m : f[n] = IF n = 0 THEN x ELSE Up(f[n - 1])
        <3> TAKE n \in 0 .. m
        <3>1. CASE n = 0
            BY <3>1, <2>2
        <3>2. CASE n # 0
            <4>1. n \in 1 .. m
                BY <3>2
            <4>2. g[n - 1] = f[n - 1]
                BY <4>1, <2>4
            <4>3. f[n] = Up(g[n - 1])
                BY <3>2, <2>2
            <4> QED  BY <3>2, <4>2, <4>3
        <3> QED  BY <3>1, <3>2
    <2>6. Of(m, f)
        BY <2>2, <2>5
    <2> HIDE DEF Of
    <2> QED  BY <2>6
<1>4. i \in K
    <2> HIDE DEF K
    <2> QED  BY <1>2, <1>3, Turns
<1>5. Of(i, G)
    <2> HIDE DEF Of
    <2> QED  BY <1>4
<1> HIDE DEF G
<1>6. G[0] = x /\ \A k \in 1 .. i : G[k] = Up(G[k - 1])
    BY <1>5
<1> QED  BY <1>1, <1>6 DEF x

\* The turns of TopDown.
LEMMA DownTurns ==
    ASSUME NEW h, NEW i \in Nat, NEW len \in Nat, len = Len(h)
    PROVE  \E g : /\ g[0] = [heap |-> h, at |-> i]
                  /\ \A k \in 1 .. len : g[k] = Down(g[k - 1])
                  /\ TopDown(h, i) = g[len].heap
<1> DEFINE x == [heap |-> h, at |-> i]
           Of(m, g) == g = [n \in 0 .. m |-> IF n = 0 THEN x ELSE Down(g[n - 1])]
           K == {m \in 0 .. len : \E g : Of(m, g)}
           G == CHOOSE g : Of(len, g)
<1>1. TopDown(h, i) = G[len].heap
    BY DEF TopDown
<1> HIDE DEF x
<1>2. 0 \in K
    <2>1. PICK g : g = [n \in 0 .. 0 |-> x]
        OBVIOUS
    <2>2. Of(0, g)
        BY <2>1
    <2> HIDE DEF Of
    <2> QED  BY <2>2
<1>3. ASSUME NEW m \in 1 .. len, m - 1 \in K PROVE m \in K
    <2>1. PICK g : Of(m - 1, g)
        BY <1>3
    <2>2. PICK f : f = [n \in 0 .. m |-> IF n = 0 THEN x ELSE Down(g[n - 1])]
        OBVIOUS
    <2>3. \A n \in 0 .. m - 1 : f[n] = g[n]
        BY <2>1, <2>2
    <2>4. \A n \in 1 .. m : n - 1 \in 0 .. m - 1 /\ g[n - 1] = f[n - 1]
        BY <2>3
    <2>5. \A n \in 0 .. m : f[n] = IF n = 0 THEN x ELSE Down(f[n - 1])
        <3> TAKE n \in 0 .. m
        <3>1. CASE n = 0
            BY <3>1, <2>2
        <3>2. CASE n # 0
            <4>1. n \in 1 .. m
                BY <3>2
            <4>2. g[n - 1] = f[n - 1]
                BY <4>1, <2>4
            <4>3. f[n] = Down(g[n - 1])
                BY <3>2, <2>2
            <4> QED  BY <3>2, <4>2, <4>3
        <3> QED  BY <3>1, <3>2
    <2>6. Of(m, f)
        BY <2>2, <2>5
    <2> HIDE DEF Of
    <2> QED  BY <2>6
<1>4. len \in K
    <2> HIDE DEF K
    <2>1. \A m \in 1 .. len : m - 1 \in K => m \in K
        BY <1>3
    <2>2. \A m \in 0 .. len : m \in K
        BY <1>2, <2>1, Turns
    <2> QED  BY <2>2
<1>5. Of(len, G)
    <2> HIDE DEF Of
    <2> QED  BY <1>4
<1> HIDE DEF G
<1>6. G[0] = x /\ \A k \in 1 .. len : G[k] = Down(G[k - 1])
    BY <1>5
<1> QED  BY <1>1, <1>6 DEF x

\* The events that Taken takes.
LEMMA TakenTurns ==
    ASSUME NEW c, NEW i \in Nat
    PROVE  \E g : /\ g[0] = c
                  /\ \A k \in 1 .. i : g[k] = DoRemoveNext(g[k - 1])
                  /\ Taken(c, i) = g[i]
<1> DEFINE x == c
           Of(m, g) == g = [n \in 0 .. m |-> IF n = 0 THEN x ELSE DoRemoveNext(g[n - 1])]
           K == {m \in 0 .. i : \E g : Of(m, g)}
           G == CHOOSE g : Of(i, g)
<1>1. Taken(c, i) = G[i]
    BY DEF Taken
<1> HIDE DEF x
<1>2. 0 \in K
    <2>1. PICK g : g = [n \in 0 .. 0 |-> x]
        OBVIOUS
    <2>2. Of(0, g)
        BY <2>1
    <2> HIDE DEF Of
    <2> QED  BY <2>2
<1>3. ASSUME NEW m \in 1 .. i, m - 1 \in K PROVE m \in K
    <2>1. PICK g : Of(m - 1, g)
        BY <1>3
    <2>2. PICK f : f = [n \in 0 .. m |-> IF n = 0 THEN x ELSE DoRemoveNext(g[n - 1])]
        OBVIOUS
    <2>3. \A n \in 0 .. m - 1 : f[n] = g[n]
        BY <2>1, <2>2
    <2>4. \A n \in 1 .. m : n - 1 \in 0 .. m - 1 /\ g[n - 1] = f[n - 1]
        BY <2>3
    <2>5. \A n \in 0 .. m : f[n] = IF n = 0 THEN x ELSE DoRemoveNext(f[n - 1])
        <3> TAKE n \in 0 .. m
        <3>1. CASE n = 0
            BY <3>1, <2>2
        <3>2. CASE n # 0
            <4>1. n \in 1 .. m
                BY <3>2
            <4>2. g[n - 1] = f[n - 1]
                BY <4>1, <2>4
            <4>3. f[n] = DoRemoveNext(g[n - 1])
                BY <3>2, <2>2
            <4> QED  BY <3>2, <4>2, <4>3
        <3> QED  BY <3>1, <3>2
    <2>6. Of(m, f)
        BY <2>2, <2>5
    <2> HIDE DEF Of
    <2> QED  BY <2>6
<1>4. i \in K
    <2> HIDE DEF K
    <2> QED  BY <1>2, <1>3, Turns
<1>5. Of(i, G)
    <2> HIDE DEF Of
    <2> QED  BY <1>4
<1> HIDE DEF G
<1>6. G[0] = x /\ \A k \in 1 .. i : G[k] = DoRemoveNext(G[k - 1])
    BY <1>5
<1> QED  BY <1>1, <1>6 DEF x

\* The terms of Total.
LEMMA TotalTurns ==
    ASSUME NEW f, NEW i \in Nat
    PROVE  \E g : /\ g[0] = 0
                  /\ \A k \in 1 .. i : g[k] = g[k - 1] + f[k]
                  /\ Total(f, i) = g[i]
<1> DEFINE x == 0
           Of(m, g) == g = [n \in 0 .. m |-> IF n = 0 THEN x ELSE g[n - 1] + f[n]]
           K == {m \in 0 .. i : \E g : Of(m, g)}
           G == CHOOSE g : Of(i, g)
<1>1. Total(f, i) = G[i]
    BY DEF Total
<1> HIDE DEF x
<1>2. 0 \in K
    <2>1. PICK g : g = [n \in 0 .. 0 |-> x]
        OBVIOUS
    <2>2. Of(0, g)
        BY <2>1
    <2> HIDE DEF Of
    <2> QED  BY <2>2
<1>3. ASSUME NEW m \in 1 .. i, m - 1 \in K PROVE m \in K
    <2>1. PICK g : Of(m - 1, g)
        BY <1>3
    <2>2. PICK e : e = [n \in 0 .. m |-> IF n = 0 THEN x ELSE g[n - 1] + f[n]]
        OBVIOUS
    <2>3. \A n \in 0 .. m - 1 : e[n] = g[n]
        BY <2>1, <2>2
    <2>4. \A n \in 1 .. m : n - 1 \in 0 .. m - 1 /\ g[n - 1] = e[n - 1]
        BY <2>3
    <2>5. \A n \in 0 .. m : e[n] = IF n = 0 THEN x ELSE e[n - 1] + f[n]
        <3> TAKE n \in 0 .. m
        <3>1. CASE n = 0
            BY <3>1, <2>2
        <3>2. CASE n # 0
            <4>1. n \in 1 .. m
                BY <3>2
            <4>2. g[n - 1] = e[n - 1]
                BY <4>1, <2>4
            <4>3. e[n] = g[n - 1] + f[n]
                BY <3>2, <2>2
            <4> QED  BY <3>2, <4>2, <4>3
        <3> QED  BY <3>1, <3>2
    <2>6. Of(m, e)
        BY <2>2, <2>5
    <2> HIDE DEF Of
    <2> QED  BY <2>6
<1>4. i \in K
    <2> HIDE DEF K
    <2> QED  BY <1>2, <1>3, Turns
<1>5. Of(i, G)
    <2> HIDE DEF Of
    <2> QED  BY <1>4
<1> HIDE DEF G
<1>6. G[0] = x /\ \A k \in 1 .. i : G[k] = G[k - 1] + f[k]
    BY <1>5
<1> QED  BY <1>1, <1>6 DEF x

\* The turns of Moved.
LEMMA MoveTurns ==
    ASSUME NEW from, NEW to, NEW len \in Nat, len = Size(from)
    PROVE  \E g : /\ g[0] = [from |-> from, to |-> to]
                  /\ \A k \in 1 .. len : g[k] = Move(g[k - 1])
                  /\ Moved(from, to) = g[len].to
<1> DEFINE x == [from |-> from, to |-> to]
           Of(m, g) == g = [n \in 0 .. m |-> IF n = 0 THEN x ELSE Move(g[n - 1])]
           K == {m \in 0 .. len : \E g : Of(m, g)}
           G == CHOOSE g : Of(len, g)
<1>1. Moved(from, to) = G[len].to
    BY DEF Moved
<1> HIDE DEF x
<1>2. 0 \in K
    <2>1. PICK g : g = [n \in 0 .. 0 |-> x]
        OBVIOUS
    <2>2. Of(0, g)
        BY <2>1
    <2> HIDE DEF Of
    <2> QED  BY <2>2
<1>3. ASSUME NEW m \in 1 .. len, m - 1 \in K PROVE m \in K
    <2>1. PICK g : Of(m - 1, g)
        BY <1>3
    <2>2. PICK f : f = [n \in 0 .. m |-> IF n = 0 THEN x ELSE Move(g[n - 1])]
        OBVIOUS
    <2>3. \A n \in 0 .. m - 1 : f[n] = g[n]
        BY <2>1, <2>2
    <2>4. \A n \in 1 .. m : n - 1 \in 0 .. m - 1 /\ g[n - 1] = f[n - 1]
        BY <2>3
    <2>5. \A n \in 0 .. m : f[n] = IF n = 0 THEN x ELSE Move(f[n - 1])
        <3> TAKE n \in 0 .. m
        <3>1. CASE n = 0
            BY <3>1, <2>2
        <3>2. CASE n # 0
            <4>1. n \in 1 .. m
                BY <3>2
            <4>2. g[n - 1] = f[n - 1]
                BY <4>1, <2>4
            <4>3. f[n] = Move(g[n - 1])
                BY <3>2, <2>2
            <4> QED  BY <3>2, <4>2, <4>3
        <3> QED  BY <3>1, <3>2
    <2>6. Of(m, f)
        BY <2>2, <2>5
    <2> HIDE DEF Of
    <2> QED  BY <2>6
<1>4. len \in K
    <2> HIDE DEF K
    <2> QED  BY <1>2, <1>3, Turns
<1>5. Of(len, G)
    <2> HIDE DEF Of
    <2> QED  BY <1>4
<1> HIDE DEF G
<1>6. G[0] = x /\ \A k \in 1 .. len : G[k] = Move(G[k - 1])
    BY <1>5
<1> QED  BY <1>1, <1>6 DEF x

-----------------------------------------------------------------------------
(* HeapScheduler.                                                          *)

\* An array of events without repetitions.
Array(h) ==
    h \in Seq(EventKey) /\ \A i, j \in 1 .. Len(h) : h[i] = h[j] => i = j

\* No event is earlier than its parent.
Heap(h) ==
    Array(h) /\ \A j \in 2 .. Len(h) : ~ Less(h[j], h[j \div 2])

\* The same of all keys, and that "not earlier" is transitive.
LEMMA Order ==
    \A a, b, c \in EventKey :
        /\ ~ Less(a, a)
        /\ Less(a, b) => ~ Less(b, a)
        /\ a # b => Less(a, b) \/ Less(b, a)
        /\ Less(a, b) /\ Less(b, c) => Less(a, c)
        /\ ~ Less(a, b) /\ ~ Less(b, c) => ~ Less(a, c)
<1> TAKE a, b, c \in EventKey
<1>1. /\ ~ Less(a, a)
      /\ Less(a, b) => ~ Less(b, a)
      /\ a # b => Less(a, b) \/ Less(b, a)
      /\ Less(a, b) /\ Less(b, c) => Less(a, c)
    BY LessIsOrder
<1>2. /\ a.ts \in Nat /\ b.ts \in Nat /\ c.ts \in Nat
      /\ a.uid \in Nat /\ b.uid \in Nat /\ c.uid \in Nat
    BY DEF EventKey
<1>3. ~ Less(a, b) /\ ~ Less(b, c) => ~ Less(a, c)
    BY <1>2 DEF Less
<1> QED  BY <1>1, <1>3

\* The parent of an index, and its children.
LEMMA Halves ==
    \A j \in Nat : /\ j \div 2 \in Nat
                   /\ j >= 2 => j \div 2 >= 1
                   /\ j >= 1 => j \div 2 < j
                   /\ (2 * j) \div 2 = j /\ (2 * j + 1) \div 2 = j
                   /\ j = 2 * (j \div 2) \/ j = 2 * (j \div 2) + 1
OBVIOUS

\* Exch changes the places of two events.
LEMMA ExchIs ==
    ASSUME NEW h, Array(h), NEW a \in 1 .. Len(h), NEW b \in 1 .. Len(h)
    PROVE  /\ Array(Exch(h, a, b)) /\ Len(Exch(h, a, b)) = Len(h)
           /\ ToSet(Exch(h, a, b)) = ToSet(h)
<1>1. PICK len \in Nat : len = Len(h) /\ DOMAIN h = 1 .. len /\ h \in [1 .. len -> EventKey]
    BY DEF Array
<1>2. PICK g : g = Exch(h, a, b)
    OBVIOUS
<1>3. g = [k \in 1 .. len |-> IF k = b THEN h[a] ELSE IF k = a THEN h[b] ELSE h[k]]
    BY <1>1, <1>2 DEF Exch
<1>4. a \in 1 .. len /\ b \in 1 .. len
    BY <1>1
<1>5. g \in [1 .. len -> EventKey]
    BY <1>1, <1>3, <1>4
<1>6. g \in Seq(EventKey) /\ Len(g) = len
    BY <1>5
<1>7. \A k \in 1 .. len : g[k] = IF k = a THEN h[b] ELSE IF k = b THEN h[a] ELSE h[k]
    BY <1>3, <1>4
<1>8. \A i, j \in 1 .. len : h[i] = h[j] => i = j
    BY <1>1 DEF Array
<1>9. \A i, j \in 1 .. len : g[i] = g[j] => i = j
    BY <1>4, <1>7, <1>8
<1>10. Array(g)
    BY <1>6, <1>9 DEF Array
<1>11. ToSet(g) = ToSet(h)
    <2>1. /\ \A x : x \in ToSet(g) <=> \E i \in 1 .. len : g[i] = x
          /\ \A x : x \in ToSet(h) <=> \E i \in 1 .. len : h[i] = x
        BY <1>1, <1>6 DEF ToSet
    <2>2. ASSUME NEW x \in ToSet(g) PROVE x \in ToSet(h)
        BY <2>1, <1>4, <1>7
    <2>3. ASSUME NEW x \in ToSet(h) PROVE x \in ToSet(g)
        <3>1. PICK i \in 1 .. len : h[i] = x
            BY <2>1, <2>3
        <3>2. PICK j \in 1 .. len : j = IF i = a THEN b ELSE IF i = b THEN a ELSE i
            BY <1>4
        <3>3. g[j] = x
            BY <1>7, <1>4, <3>1, <3>2
        <3> QED  BY <2>1, <3>3
    <2> QED  BY <2>2, <2>3
<1> QED  BY <1>1, <1>2, <1>6, <1>10, <1>11

\* The events of the array after Exch.
LEMMA ExchAt ==
    ASSUME NEW h, Array(h), NEW a \in 1 .. Len(h), NEW b \in 1 .. Len(h), NEW k \in 1 .. Len(h)
    PROVE  Exch(h, a, b)[k] = IF k = a THEN h[b] ELSE IF k = b THEN h[a] ELSE h[k]
<1>1. h \in Seq(EventKey) /\ DOMAIN h = 1 .. Len(h)
    BY DEF Array
<1> QED  BY <1>1 DEF Exch

\* No event is earlier than the root.
LEMMA RootIsFirst ==
    ASSUME NEW h, Heap(h), h # <<>>
    PROVE  First(ToSet(h), Head(h))
<1>1. PICK len \in Nat : len = Len(h) /\ len >= 1 /\ Head(h) = h[1] /\ h \in [1 .. len -> EventKey]
    BY DEF Heap, Array
<1>2. \A j \in 2 .. len : ~ Less(h[j], h[j \div 2])
    BY <1>1 DEF Heap
<1>3. \A i \in 1 .. len : ~ Less(h[i], h[1])
    <2> SUFFICES ASSUME \E i \in 1 .. len : Less(h[i], h[1]) PROVE FALSE
        OBVIOUS
    <2> DEFINE S == {i \in 1 .. len : Less(h[i], h[1])}
    <2>1. S \in SUBSET Nat /\ S # {}
        OBVIOUS
    <2>2. PICK i \in S : \A j \in S : i <= j
        BY <2>1, LeastExists
    <2>3. i \in 1 .. len /\ Less(h[i], h[1]) /\ h[i] \in EventKey /\ h[1] \in EventKey
        BY <1>1, <2>2
    <2>4. i # 1
        BY <2>3, Order
    <2>5. PICK p \in 1 .. len : p = i \div 2 /\ p < i
        BY <2>3, <2>4, Halves
    <2>6. ~ Less(h[i], h[p]) /\ ~ Less(h[p], h[1]) /\ h[p] \in EventKey
        BY <2>3, <2>4, <2>5, <1>1, <1>2, <2>2
    <2> QED  BY <2>3, <2>6, Order
<1>4. \A x : x \in ToSet(h) <=> \E i \in 1 .. len : h[i] = x
    BY <1>1 DEF ToSet
<1>5. h[1] \in ToSet(h)
    BY <1>1, <1>4
<1>6. ASSUME NEW b \in ToSet(h) \ {h[1]} PROVE Less(h[1], b)
    <2>1. PICK i \in 1 .. len : h[i] = b
        BY <1>4, <1>6
    <2> QED  BY <2>1, <1>1, <1>3, <1>6, Order
<1> QED  BY <1>1, <1>5, <1>6 DEF First

\* A state of the loop of BottomUp: only the event at x.at may be earlier than its parent.
Rising(x) ==
    /\ Array(x.heap) /\ x.at \in 1 .. Len(x.heap)
    /\ \A j \in 2 .. Len(x.heap) :
          /\ j # x.at => ~ Less(x.heap[j], x.heap[j \div 2])
          /\ j \div 2 = x.at /\ x.at >= 2 => ~ Less(x.heap[j], x.heap[x.at \div 2])

\* A turn of BottomUp.
LEMMA UpKeeps ==
    ASSUME NEW x, Rising(x), NEW y, y = Up(x)
    PROVE  /\ Rising(y) /\ ToSet(y.heap) = ToSet(x.heap) /\ Len(y.heap) = Len(x.heap)
           /\ \/ y = x /\ Heap(x.heap)
              \/ y.at < x.at
<1>1. PICK h \in {x.heap}, at \in {x.at}, len \in Nat :
          /\ len = Len(h) /\ at \in 1 .. len /\ Array(h) /\ h \in [1 .. len -> EventKey]
    BY DEF Rising, Array
<1>2. \A j \in 2 .. len : /\ j # at => ~ Less(h[j], h[j \div 2])
                          /\ j \div 2 = at /\ at >= 2 => ~ Less(h[j], h[at \div 2])
    BY <1>1 DEF Rising
<1>3. CASE ~ (at # 1 /\ Less(h[at], h[at \div 2]))
    <2>1. y = x
        BY <1>1, <1>3 DEF Up
    <2>2. \A j \in 2 .. len : ~ Less(h[j], h[j \div 2])
        BY <1>2, <1>3
    <2> QED  BY <2>1, <2>2, <1>1 DEF Heap
<1>4. CASE at # 1 /\ Less(h[at], h[at \div 2])
    <2>1. PICK p \in 1 .. len : p = at \div 2 /\ p < at
        BY <1>1, <1>4, Halves
    <2>2. PICK g : g = Exch(h, at, p)
        OBVIOUS
    <2>3. y.heap = g /\ y.at = p
        BY <1>1, <1>4, <2>1, <2>2 DEF Up
    <2>4. /\ Array(g) /\ Len(g) = len /\ ToSet(g) = ToSet(h)
          /\ \A k \in 1 .. len : g[k] = IF k = at THEN h[p] ELSE IF k = p THEN h[at] ELSE h[k]
        <3> DEFINE e == Exch(h, at, p)
        <3>1. Array(h) /\ at \in 1 .. Len(h) /\ p \in 1 .. Len(h)
            BY <1>1, <2>1
        <3>2. Array(e) /\ Len(e) = Len(h) /\ ToSet(e) = ToSet(h)
            BY ONLY <3>1, ExchIs
        <3>3. ASSUME NEW k \in 1 .. Len(h)
              PROVE  e[k] = IF k = at THEN h[p] ELSE IF k = p THEN h[at] ELSE h[k]
            BY ONLY <3>1, ExchAt, k \in 1 .. Len(h)
        <3> QED  BY <3>2, <3>3, <2>2, <1>1
    <2>5. h[at] \in EventKey /\ h[p] \in EventKey /\ Less(h[at], h[p])
        BY <1>1, <2>1, <1>4
    <2>6. ASSUME NEW j \in 2 .. len PROVE /\ j # p => ~ Less(g[j], g[j \div 2])
                                          /\ j \div 2 = p /\ p >= 2 => ~ Less(g[j], g[p \div 2])
        <3>1. PICK q \in 1 .. len : q = j \div 2 /\ q < j
            BY Halves
        <3>2. h[j] \in EventKey /\ h[q] \in EventKey
            BY <1>1
        <3>3. CASE j = at
            <4>1. g[j] = h[p] /\ g[q] = h[at] /\ q = p
                BY <3>1, <3>3, <2>1, <2>4
            <4>2. ~ Less(g[j], g[q])
                BY <4>1, <2>5, Order
            <4>3. ASSUME p >= 2 PROVE ~ Less(g[j], g[p \div 2])
                <5>1. PICK r \in 1 .. len : r = p \div 2 /\ r < p
                    BY <4>3, Halves
                <5>2. g[r] = h[r]
                    BY <5>1, <2>1, <2>4
                <5>3. p \in 2 .. len /\ p # at
                    BY <4>3, <2>1
                <5>4. ~ Less(h[p], h[r])
                    BY <5>1, <5>3, <1>2
                <5> QED  BY <5>1, <5>2, <5>4, <4>1
            <4> QED  BY <3>1, <4>2, <4>3
        <3>4. CASE j # at /\ q = p
            <4>1. g[j] = h[j] /\ g[q] = h[at]
                BY <3>1, <3>4, <2>1, <2>4
            <4>2. ~ Less(h[j], h[p])
                BY <3>1, <3>4, <1>2
            <4>3. ~ Less(h[j], h[at])
                BY <4>2, <3>2, <2>5, Order
            <4>4. ASSUME p >= 2 PROVE ~ Less(g[j], g[p \div 2])
                <5>1. PICK r \in 1 .. len : r = p \div 2 /\ r < p
                    BY <4>4, Halves
                <5>2. g[r] = h[r] /\ h[r] \in EventKey
                    BY <5>1, <2>1, <2>4, <1>1
                <5>3. p \in 2 .. len /\ p # at
                    BY <4>4, <2>1
                <5>4. ~ Less(h[p], h[r])
                    BY <5>1, <5>3, <1>2
                <5>5. ~ Less(h[j], h[r])
                    BY <5>4, <4>2, <5>2, <3>2, <2>5, Order
                <5> QED  BY <5>1, <5>2, <5>5, <4>1
            <4> QED  BY <3>1, <4>1, <4>3, <4>4
        <3>5. CASE j # at /\ q # p /\ q = at /\ j # p
            <4>1. g[j] = h[j] /\ g[q] = h[p]
                BY <3>1, <3>5, <2>1, <2>4
            <4>2. at >= 2
                BY <1>1, <1>4
            <4>3. ~ Less(h[j], h[p])
                BY <3>1, <3>5, <4>2, <2>1, <1>2
            <4> QED  BY <3>1, <3>5, <4>1, <4>3
        <3>6. CASE j # at /\ q # p /\ q # at /\ j # p
            <4>1. g[j] = h[j] /\ g[q] = h[q]
                BY <3>1, <3>6, <2>1, <2>4
            <4>2. ~ Less(h[j], h[q])
                BY <3>1, <3>6, <1>2
            <4> QED  BY <3>1, <3>6, <4>1, <4>2
        <3>7. CASE j = p
            BY <3>7, <3>1
        <3> QED  BY <3>3, <3>4, <3>5, <3>6, <3>7
    <2>7. Rising(y)
        BY <2>1, <2>3, <2>4, <2>6 DEF Rising
    <2> QED  BY <2>7, <2>1, <2>3, <2>4, <1>1
<1> QED  BY <1>3, <1>4

\* In a heap no event moves up.
LEMMA HeapStays ==
    ASSUME NEW x, Rising(x), Heap(x.heap)
    PROVE  Up(x) = x
<1>1. PICK h \in {x.heap}, at \in {x.at} : at \in 1 .. Len(h) /\ Len(h) \in Nat
    BY DEF Rising, Array
<1>2. at # 1 => ~ Less(h[at], h[at \div 2])
    BY <1>1 DEF Heap
<1> QED  BY <1>1, <1>2 DEF Up

\* BottomUp from an index whose event alone may be earlier than its parent.
LEMMA BottomUpSorts ==
    ASSUME NEW h, NEW i \in Nat, Rising([heap |-> h, at |-> i])
    PROVE  Heap(BottomUp(h, i)) /\ ToSet(BottomUp(h, i)) = ToSet(h)
<1>1. PICK x : x = [heap |-> h, at |-> i]
    OBVIOUS
<1>2. PICK g : /\ g[0] = x
               /\ \A k \in 1 .. i : g[k] = Up(g[k - 1])
               /\ BottomUp(h, i) = g[i].heap
    BY <1>1, UpTurns
<1>3. Rising(x) /\ x.heap = h /\ x.at = i /\ i >= 1
    BY <1>1 DEF Rising
<1> DEFINE P(k) == /\ Rising(g[k]) /\ ToSet(g[k].heap) = ToSet(h)
                   /\ Heap(g[k].heap) \/ g[k].at + k <= i
           K == {k \in 0 .. i : P(k)}
<1>4. 0 \in K
    <2>1. P(0)
        BY <1>2, <1>3
    <2> HIDE DEF P
    <2> QED  BY <2>1
<1>5. ASSUME NEW k \in 1 .. i, k - 1 \in K PROVE k \in K
    <2>1. PICK a \in {g[k - 1]}, b \in {g[k]} : b = Up(a)
        BY <1>2
    <2>2. /\ Rising(a) /\ ToSet(a.heap) = ToSet(h)
          /\ Heap(a.heap) \/ a.at + (k - 1) <= i
        BY <1>5, <2>1
    <2>3. /\ Rising(b) /\ ToSet(b.heap) = ToSet(a.heap) /\ Len(b.heap) = Len(a.heap)
          /\ \/ b = a /\ Heap(a.heap)
             \/ b.at < a.at
        BY <2>1, <2>2, UpKeeps
    <2>4. a.at \in Nat /\ b.at \in Nat
        BY <2>2, <2>3 DEF Rising, Array
    <2>5. Heap(b.heap) \/ b.at + k <= i
        <3>1. CASE b.at < a.at /\ a.at + (k - 1) <= i
            BY <3>1, <2>4
        <3>2. CASE Heap(a.heap)
            <4>1. b = a
                BY <3>2, <2>1, HeapStays, <2>2
            <4> QED  BY <4>1, <3>2
        <3> QED  BY <3>1, <3>2, <2>2, <2>3
    <2>6. P(k)
        BY <2>1, <2>2, <2>3, <2>5
    <2> HIDE DEF P
    <2> QED  BY <2>6
<1>6. i \in K
    <2> HIDE DEF K
    <2> QED  BY <1>4, <1>5, Turns
<1>7. P(i)
    <2> HIDE DEF P
    <2> QED  BY <1>6
<1>8. Heap(g[i].heap)
    BY <1>7 DEF Rising, Array
<1> QED  BY <1>2, <1>7, <1>8

\* Insert.
LEMMA HeapInserts ==
    ASSUME NEW h, Heap(h), NEW ev \in EventKey, ev \notin ToSet(h),
           NEW k, k = BottomUp(Append(h, ev), Len(h) + 1)
    PROVE  Heap(k) /\ ToSet(k) = ToSet(h) \union {ev}
<1>1. PICK len \in Nat : len = Len(h) /\ h \in [1 .. len -> EventKey] /\ h \in Seq(EventKey)
    BY DEF Heap, Array
<1>2. PICK g \in {Append(h, ev)}, i \in Nat : i = len + 1
    OBVIOUS
<1>3. /\ g \in Seq(EventKey) /\ Len(g) = i
      /\ \A j \in 1 .. i : g[j] = IF j = i THEN ev ELSE h[j]
    BY <1>1, <1>2
<1>4. \A j \in 1 .. len : h[j] \in ToSet(h)
    BY <1>1, ElementsOf
<1>5. /\ \A a, b \in 1 .. len : h[a] = h[b] => a = b
      /\ \A j \in 2 .. len : ~ Less(h[j], h[j \div 2])
    BY <1>1 DEF Heap, Array
<1>6. Array(g)
    <2>1. ASSUME NEW a \in 1 .. i, NEW b \in 1 .. i, g[a] = g[b] PROVE a = b
        <3>1. \A j \in 1 .. i : j = i \/ j \in 1 .. len
            BY <1>2
        <3> QED  BY <3>1, <2>1, <1>3, <1>4, <1>5
    <2> QED  BY <2>1, <1>3 DEF Array
<1>7. PICK x : x = [heap |-> g, at |-> i]
    OBVIOUS
<1>8. Rising(x)
    <2>1. ASSUME NEW j \in 2 .. i PROVE /\ j # i => ~ Less(g[j], g[j \div 2])
                                        /\ ~ (j \div 2 = i /\ i >= 2)
        <3>1. PICK q \in 1 .. i : q = j \div 2 /\ q < j
            BY Halves
        <3>2. ASSUME j # i PROVE ~ Less(g[j], g[q])
            <4>1. j \in 2 .. len /\ q \in 1 .. len
                BY <3>1, <3>2, <1>2
            <4>2. g[j] = h[j] /\ g[q] = h[q]
                BY <4>1, <1>2, <1>3
            <4> QED  BY <4>1, <4>2, <3>1, <1>5
        <3> QED  BY <3>1, <3>2
    <2> QED  BY <2>1, <1>2, <1>3, <1>6, <1>7 DEF Rising
<1>9. k = BottomUp(g, i)
    BY <1>1, <1>2
<1>10. Heap(k) /\ ToSet(k) = ToSet(g)
    BY <1>7, <1>8, <1>9, BottomUpSorts
<1>11. ToSet(g) = ToSet(h) \union {ev}
    <2>1. /\ \A x1 : x1 \in ToSet(g) <=> \E j \in 1 .. i : g[j] = x1
          /\ \A x1 : x1 \in ToSet(h) <=> \E j \in 1 .. len : h[j] = x1
        BY <1>1, <1>3, ElementsOf
    <2>2. \A x1 : x1 \in ToSet(g) => x1 \in ToSet(h) \union {ev}
        BY <2>1, <1>2, <1>3
    <2>3. \A x1 \in ToSet(h) : x1 \in ToSet(g)
        BY <2>1, <1>2, <1>3
    <2>4. ev \in ToSet(g)
        BY <2>1, <1>2, <1>3
    <2> QED  BY <2>2, <2>3, <2>4
<1> QED  BY <1>10, <1>11

\* A state of the loop of TopDown: only the children of x.at may be earlier than their parent.
Sinking(x) ==
    /\ Array(x.heap) /\ x.at \in Nat /\ x.at >= 1
    /\ \A j \in 2 .. Len(x.heap) :
          /\ j \div 2 # x.at => ~ Less(x.heap[j], x.heap[j \div 2])
          /\ j \div 2 = x.at /\ x.at >= 2 => ~ Less(x.heap[j], x.heap[x.at \div 2])

\* The smaller child.
LEMMA SmallerChild ==
    ASSUME NEW h, Array(h), NEW at \in Nat, at >= 1, 2 * at <= Len(h),
           NEW s, s = IF 2 * at + 1 <= Len(h) /\ ~ Less(h[2 * at], h[2 * at + 1])
                      THEN 2 * at + 1 ELSE 2 * at
    PROVE  /\ s \in 1 .. Len(h) /\ s > at /\ s \div 2 = at
           /\ \A j \in 2 .. Len(h) : j \div 2 = at => ~ Less(h[j], h[s])
<1>1. PICK len \in Nat : len = Len(h) /\ h \in [1 .. len -> EventKey]
    BY DEF Array
<1>2. PICK l \in Nat, r \in Nat : l = 2 * at /\ r = 2 * at + 1
    OBVIOUS
<1>3. \A j \in 2 .. len : j \div 2 = at => j = l \/ j = r
    BY <1>2
<1>4. l \in 1 .. len /\ h[l] \in EventKey /\ (r <= len => h[r] \in EventKey)
    BY <1>1, <1>2
<1>5. s = IF r <= len /\ ~ Less(h[l], h[r]) THEN r ELSE l
    BY <1>1, <1>2
<1>6. s \in 1 .. len /\ s > at /\ s \div 2 = at
    BY <1>1, <1>2, <1>5
<1>7. \A j \in 2 .. len : j \div 2 = at => ~ Less(h[j], h[s])
    <2> TAKE j \in 2 .. len
    <2> HAVE j \div 2 = at
    <2>1. j = l \/ (j = r /\ r <= len)
        BY <1>3
    <2>2. ~ Less(h[l], h[l]) /\ (r <= len => ~ Less(h[r], h[r]))
        BY <1>4, Order
    <2>3. r <= len /\ Less(h[l], h[r]) => ~ Less(h[r], h[l])
        BY <1>4, Order
    <2> QED  BY <2>1, <2>2, <2>3, <1>5
<1> QED  BY <1>1, <1>6, <1>7

\* A turn of TopDown.
LEMMA DownKeeps ==
    ASSUME NEW x, Sinking(x), NEW y, y = Down(x)
    PROVE  /\ Sinking(y) /\ ToSet(y.heap) = ToSet(x.heap) /\ Len(y.heap) = Len(x.heap)
           /\ \/ y = x /\ Heap(x.heap)
              \/ y.at > x.at
<1>1. PICK h \in {x.heap}, at \in {x.at}, len \in Nat :
          /\ len = Len(h) /\ at \in Nat /\ at >= 1 /\ Array(h) /\ h \in [1 .. len -> EventKey]
    BY DEF Sinking, Array
<1>2. \A j \in 2 .. len : /\ j \div 2 # at => ~ Less(h[j], h[j \div 2])
                          /\ j \div 2 = at /\ at >= 2 => ~ Less(h[j], h[at \div 2])
    BY <1>1 DEF Sinking
<1>3. PICK s : s = IF 2 * at + 1 <= len /\ ~ Less(h[2 * at], h[2 * at + 1])
                   THEN 2 * at + 1 ELSE 2 * at
    OBVIOUS
<1>4. y = IF 2 * at > len \/ Less(h[at], h[s]) THEN x
          ELSE [heap |-> Exch(h, at, s), at |-> s]
    BY <1>1, <1>3 DEF Down
<1>5. CASE 2 * at > len
    <2>1. \A j \in 2 .. len : j \div 2 # at
        BY <1>1, <1>5
    <2>2. Heap(h)
        BY <2>1, <1>1, <1>2 DEF Heap
    <2> QED  BY <2>2, <1>4, <1>5, <1>1
<1>6. CASE ~ (2 * at > len)
    <2>1. /\ s \in 1 .. len /\ s > at /\ s \div 2 = at
          /\ \A j \in 2 .. len : j \div 2 = at => ~ Less(h[j], h[s])
        <3>1. Array(h) /\ at \in Nat /\ at >= 1 /\ 2 * at <= Len(h)
            BY <1>1, <1>6
        <3>2. s = IF 2 * at + 1 <= Len(h) /\ ~ Less(h[2 * at], h[2 * at + 1])
                  THEN 2 * at + 1 ELSE 2 * at
            BY <1>1, <1>3
        <3>3. /\ s \in 1 .. Len(h) /\ s > at /\ s \div 2 = at
              /\ \A j \in 2 .. Len(h) : j \div 2 = at => ~ Less(h[j], h[s])
            BY ONLY <3>1, <3>2, SmallerChild
        <3> QED  BY <3>3, <1>1
    <2>2. /\ at \in 1 .. len /\ h[at] \in EventKey /\ h[s] \in EventKey
          /\ \A j \in 1 .. len : h[j] \in EventKey
        BY <1>1, <2>1
    <2>3. CASE Less(h[at], h[s])
        <3>1. ASSUME NEW j \in 2 .. len PROVE ~ Less(h[j], h[j \div 2])
            <4>1. CASE j \div 2 = at
                <5>1. ~ Less(h[j], h[s]) /\ h[j] \in EventKey
                    BY <4>1, <2>1, <2>2
                <5>2. ~ Less(h[j], h[at])
                    BY <5>1, <2>2, <2>3, Order
                <5> QED  BY <5>2, <4>1
            <4> QED  BY <4>1, <1>2
        <3>2. Heap(h)
            BY <3>1, <1>1 DEF Heap
        <3> QED  BY <3>2, <1>4, <2>3, <1>1
    <2>4. CASE ~ Less(h[at], h[s])
        <3>1. PICK g \in {Exch(h, at, s)} : y.heap = g /\ y.at = s
            BY <1>4, <1>6, <2>4
        <3>2. /\ Array(g) /\ Len(g) = len /\ ToSet(g) = ToSet(h)
              /\ \A k \in 1 .. len : g[k] = IF k = at THEN h[s] ELSE IF k = s THEN h[at] ELSE h[k]
            <4> DEFINE e == Exch(h, at, s)
            <4>1. Array(h) /\ at \in 1 .. Len(h) /\ s \in 1 .. Len(h)
                BY <1>1, <2>1, <2>2
            <4>2. Array(e) /\ Len(e) = Len(h) /\ ToSet(e) = ToSet(h)
                BY ONLY <4>1, ExchIs
            <4>3. ASSUME NEW k \in 1 .. Len(h)
                  PROVE  e[k] = IF k = at THEN h[s] ELSE IF k = s THEN h[at] ELSE h[k]
                BY ONLY <4>1, ExchAt, k \in 1 .. Len(h)
            <4> QED  BY <4>2, <4>3, <1>1
        <3>3. ASSUME NEW j \in 2 .. len PROVE /\ j \div 2 # s => ~ Less(g[j], g[j \div 2])
                                              /\ j \div 2 = s /\ s >= 2 => ~ Less(g[j], g[s \div 2])
            <4>1. PICK q \in 1 .. len : q = j \div 2 /\ q < j
                BY Halves
            <4>2. h[j] \in EventKey /\ h[q] \in EventKey
                BY <2>2
            <4>3. CASE q = s
                <5>1. j # at /\ j # s
                    BY <4>1, <4>3, <2>1
                <5>2. g[j] = h[j] /\ g[at] = h[s]
                    BY <5>1, <3>2, <2>2
                <5>3. ~ Less(h[j], h[s])
                    BY <4>1, <4>3, <2>1, <1>2
                <5> QED  BY <4>1, <4>3, <5>2, <5>3, <2>1
            <4>4. CASE j = s
                <5>1. q = at /\ g[j] = h[at] /\ g[q] = h[s]
                    BY <4>1, <4>4, <2>1, <2>2, <3>2
                <5> QED  BY <5>1, <2>4, <4>1, <4>4, <2>1
            <4>5. CASE q = at /\ j # s
                <5>1. g[j] = h[j] /\ g[q] = h[s]
                    BY <4>1, <4>5, <2>1, <3>2
                <5> QED  BY <5>1, <4>1, <4>5, <2>1
            <4>6. CASE j = at /\ q # s
                <5>1. g[j] = h[s] /\ g[q] = h[q]
                    BY <4>1, <4>6, <2>1, <3>2
                <5>2. at >= 2 /\ s \in 2 .. len /\ s \div 2 = at
                    BY <4>6, <2>1
                <5>3. ~ Less(h[s], h[at \div 2])
                    BY <5>2, <1>2
                <5> QED  BY <5>1, <5>3, <4>1, <4>6
            <4>7. CASE j # at /\ j # s /\ q # at /\ q # s
                <5>1. g[j] = h[j] /\ g[q] = h[q]
                    BY <4>1, <4>7, <3>2
                <5>2. ~ Less(h[j], h[q])
                    BY <4>1, <4>7, <1>2
                <5> QED  BY <5>1, <5>2, <4>1, <4>7
            <4> QED  BY <4>3, <4>4, <4>5, <4>6, <4>7
        <3>4. Sinking(y)
            BY <3>1, <3>2, <3>3, <2>1, <1>1 DEF Sinking
        <3> QED  BY <3>1, <3>2, <3>4, <2>1, <1>1
    <2> QED  BY <2>3, <2>4
<1> QED  BY <1>5, <1>6, <1>1

\* In a heap no event moves down.
LEMMA HeapStaysDown ==
    ASSUME NEW x, Sinking(x), Heap(x.heap)
    PROVE  Down(x) = x
<1>1. PICK h \in {x.heap}, at \in {x.at}, len \in Nat :
          /\ len = Len(h) /\ at \in Nat /\ at >= 1 /\ Array(h) /\ h \in [1 .. len -> EventKey]
    BY DEF Sinking, Array
<1>2. PICK s : s = IF 2 * at + 1 <= len /\ ~ Less(h[2 * at], h[2 * at + 1])
                   THEN 2 * at + 1 ELSE 2 * at
    OBVIOUS
<1>3. Down(x) = IF 2 * at > len \/ Less(h[at], h[s]) THEN x
                ELSE [heap |-> Exch(h, at, s), at |-> s]
    BY <1>1, <1>2 DEF Down
<1>4. CASE 2 * at <= len
    <2>0. s = 2 * at \/ (s = 2 * at + 1 /\ s <= len)
        BY <1>2
    <2>1. s \in 2 .. len /\ s \div 2 = at /\ s # at /\ at \in 1 .. len
        <3>1. at \in Nat /\ at >= 1 /\ len \in Nat
            BY <1>1
        <3> QED  BY ONLY <3>1, <2>0, <1>4
    <2>2. h[s] # h[at]
        BY <1>1, <2>1 DEF Array
    <2>3. ~ Less(h[s], h[at])
        BY <1>1, <2>1 DEF Heap
    <2>4. Less(h[at], h[s])
        BY <2>1, <2>2, <2>3, <1>1, Order
    <2> QED  BY <2>4, <1>3
<1> QED  BY <1>1, <1>3, <1>4

\* TopDown from an index whose children alone may be earlier than it.
LEMMA TopDownSorts ==
    ASSUME NEW h, NEW i \in Nat, Sinking([heap |-> h, at |-> i])
    PROVE  /\ Heap(TopDown(h, i)) /\ ToSet(TopDown(h, i)) = ToSet(h)
           /\ Len(TopDown(h, i)) = Len(h)
<1>1. PICK x : x = [heap |-> h, at |-> i]
    OBVIOUS
<1>2. Sinking(x) /\ x.heap = h /\ x.at = i /\ i >= 1
    BY <1>1 DEF Sinking
<1>3. PICK len \in Nat : len = Len(h)
    BY <1>2 DEF Sinking, Array
<1>4. PICK g : /\ g[0] = x
               /\ \A k \in 1 .. len : g[k] = Down(g[k - 1])
               /\ TopDown(h, i) = g[len].heap
    BY <1>1, <1>3, DownTurns
<1> DEFINE P(k) == /\ Sinking(g[k]) /\ ToSet(g[k].heap) = ToSet(h) /\ Len(g[k].heap) = len
                   /\ Heap(g[k].heap) \/ g[k].at > k
           K == {k \in 0 .. len : P(k)}
<1>5. 0 \in K
    <2>1. P(0)
        BY <1>2, <1>3, <1>4
    <2> HIDE DEF P
    <2> QED  BY <2>1
<1>6. ASSUME NEW k \in 1 .. len, k - 1 \in K PROVE k \in K
    <2>1. PICK a \in {g[k - 1]}, b \in {g[k]} : b = Down(a)
        BY <1>4
    <2>2. /\ Sinking(a) /\ ToSet(a.heap) = ToSet(h) /\ Len(a.heap) = len
          /\ Heap(a.heap) \/ a.at > k - 1
        BY <1>6, <2>1
    <2>3. /\ Sinking(b) /\ ToSet(b.heap) = ToSet(a.heap) /\ Len(b.heap) = Len(a.heap)
          /\ \/ b = a /\ Heap(a.heap)
             \/ b.at > a.at
        BY <2>1, <2>2, DownKeeps
    <2>4. a.at \in Nat /\ b.at \in Nat
        BY <2>2, <2>3 DEF Sinking
    <2>5. Heap(b.heap) \/ b.at > k
        <3>1. CASE b.at > a.at /\ a.at > k - 1
            BY <3>1, <2>4
        <3>2. CASE Heap(a.heap)
            <4>1. b = a
                BY <3>2, <2>1, <2>2, HeapStaysDown
            <4> QED  BY <4>1, <3>2
        <3> QED  BY <3>1, <3>2, <2>2, <2>3
    <2>6. P(k)
        BY <2>1, <2>2, <2>3, <2>5
    <2> HIDE DEF P
    <2> QED  BY <2>6
<1>7. len \in K
    <2> HIDE DEF K
    <2>1. \A k \in 1 .. len : k - 1 \in K => k \in K
        BY <1>6
    <2>2. \A k \in 0 .. len : k \in K
        BY <1>5, <2>1, Turns
    <2> QED  BY <2>2
<1>8. P(len)
    <2> HIDE DEF P
    <2> QED  BY <1>7
<1>9. Heap(g[len].heap)
    <2>1. PICK a \in {g[len]} : Sinking(a) /\ Len(a.heap) = len /\ (Heap(a.heap) \/ a.at > len)
        BY <1>8
    <2>2. CASE a.at > len
        <3>1. \A j \in 2 .. len : j \div 2 # a.at
            BY <2>2, <2>1 DEF Sinking
        <3> QED  BY <3>1, <2>1 DEF Sinking, Heap
    <2> QED  BY <2>1, <2>2
<1> QED  BY <1>3, <1>4, <1>8, <1>9

\* RemoveNext.
LEMMA HeapRemovesFirst ==
    ASSUME NEW h, Heap(h), h # <<>>, NEW k, k = HeapErase(h, 1)
    PROVE  Heap(k) /\ ToSet(k) = ToSet(h) \ {Head(h)} /\ Len(k) = Len(h) - 1
<1>1. PICK len \in Nat : /\ len = Len(h) /\ len >= 1 /\ Head(h) = h[1] /\ Array(h)
                         /\ h \in [1 .. len -> EventKey]
    BY DEF Heap, Array
<1>2. PICK e \in {Exch(h, 1, len)} : TRUE
    OBVIOUS
<1>3. Array(e) /\ Len(e) = len
    <2>1. Array(h) /\ 1 \in 1 .. Len(h) /\ len \in 1 .. Len(h)
        BY <1>1
    <2> QED  BY <2>1, <1>1, ExchIs
<1>4. ASSUME NEW j \in 1 .. len
      PROVE  e[j] = IF j = 1 THEN h[len] ELSE IF j = len THEN h[1] ELSE h[j]
    <2>1. Array(h) /\ 1 \in 1 .. Len(h) /\ len \in 1 .. Len(h) /\ j \in 1 .. Len(h)
        BY <1>1
    <2> QED  BY ONLY <2>1, ExchAt, e \in {Exch(h, 1, len)}
<1>5. PICK m \in Nat : m = len - 1
    <2>1. len - 1 \in Nat
        BY <1>1
    <2> QED  BY ONLY <2>1
<1>15. PICK f : f = Front(e)
    OBVIOUS
<1>6. f \in Seq(EventKey) /\ Len(f) = m /\ \A j \in 1 .. m : f[j] = e[j]
    <2>1. e \in Seq(EventKey) /\ f = SubSeq(e, 1, m)
        BY <1>3, <1>5, <1>15 DEF Front, Array
    <2> QED  BY <2>1, <1>1, <1>3, <1>5
<1>7. \A j \in 1 .. m : f[j] = IF j = 1 THEN h[len] ELSE h[j]
    BY <1>4, <1>5, <1>6
<1>8. \A a, b \in 1 .. len : h[a] = h[b] => a = b
    BY <1>1 DEF Array
<1>9. Array(f)
    <2>1. \A a, b \in 1 .. m : f[a] = f[b] => a = b
        BY <1>1, <1>5, <1>7, <1>8
    <2> QED  BY <2>1, <1>6 DEF Array
<1>10. PICK x : x = [heap |-> f, at |-> 1]
    OBVIOUS
<1>11. Sinking(x)
    <2>1. \A j \in 2 .. m : j \div 2 # 1 => ~ Less(f[j], f[j \div 2])
        <3> TAKE j \in 2 .. m
        <3> HAVE j \div 2 # 1
        <3>1. PICK q \in 2 .. m : q = j \div 2
            OBVIOUS
        <3>2. f[j] = h[j] /\ f[q] = h[q] /\ j \in 2 .. len
            BY <3>1, <1>5, <1>7
        <3>3. ~ Less(h[j], h[j \div 2])
            BY <3>2, <1>1 DEF Heap
        <3> QED  BY <3>1, <3>2, <3>3
    <2> QED  BY <2>1, <1>6, <1>9, <1>10 DEF Sinking
<1>12. k = TopDown(f, 1)
    BY <1>1, <1>2, <1>15 DEF HeapErase
<1>13. Heap(k) /\ ToSet(k) = ToSet(f) /\ Len(k) = Len(f)
    BY <1>10, <1>11, <1>12, TopDownSorts
<1>14. ToSet(f) = ToSet(h) \ {Head(h)}
    <2>1. /\ \A a : a \in ToSet(f) <=> \E j \in 1 .. m : f[j] = a
          /\ \A a : a \in ToSet(h) <=> \E j \in 1 .. len : h[j] = a
        BY <1>1, <1>6 DEF ToSet
    <2>2. ASSUME NEW a \in ToSet(f) PROVE a \in ToSet(h) \ {h[1]}
        <3>1. PICK j \in 1 .. m : f[j] = a
            BY <2>1, <2>2
        <3>2. PICK i \in 1 .. len : i = IF j = 1 THEN len ELSE j
            <4>1. len \in 1 .. len /\ j \in 1 .. len
                BY <1>1, <1>5
            <4>2. j = 1 \/ j # 1
                OBVIOUS
            <4> QED  BY ONLY <4>1, <4>2
        <3>3. h[i] = a /\ i # 1
            BY <3>1, <3>2, <1>5, <1>7
        <3> QED  BY <3>3, <2>1, <1>1, <1>8
    <2>3. ASSUME NEW a \in ToSet(h) \ {h[1]} PROVE a \in ToSet(f)
        <3>1. PICK i \in 1 .. len : h[i] = a /\ i # 1
            BY <2>1, <2>3
        <3>2. PICK j \in 1 .. m : j = IF i = len THEN 1 ELSE i
            BY <3>1, <1>5
        <3>3. f[j] = a
            BY <3>1, <3>2, <1>7
        <3> QED  BY <3>3, <2>1
    <2> QED  BY <2>2, <2>3, <1>1
<1> QED  BY <1>1, <1>5, <1>6, <1>13, <1>14

-----------------------------------------------------------------------------
(* CalendarScheduler: its size and its resizing.                           *)

TakenStep(c, n) == Taken(c, n + 1) = DoRemoveNext(Taken(c, n))

\* Taking one event more is one DoRemoveNext more.
LEMMA TakenIs ==
    ASSUME NEW c
    PROVE  Taken(c, 0) = c /\ \A n \in Nat : TakenStep(c, n)
<1>1. Taken(c, 0) = c
    <2>1. PICK g : /\ g[0] = c
                   /\ Taken(c, 0) = g[0]
        BY TakenTurns
    <2> QED  BY <2>1
<1>2. ASSUME NEW n \in Nat PROVE Taken(c, n + 1) = DoRemoveNext(Taken(c, n))
    <2>1. PICK m \in Nat : m = n + 1
        OBVIOUS
    <2>2. PICK f : /\ f[0] = c
                   /\ \A k \in 1 .. n : f[k] = DoRemoveNext(f[k - 1])
                   /\ Taken(c, n) = f[n]
        BY TakenTurns
    <2>3. PICK g : /\ g[0] = c
                   /\ \A k \in 1 .. m : g[k] = DoRemoveNext(g[k - 1])
                   /\ Taken(c, m) = g[m]
        BY TakenTurns
    <2> DEFINE K == {k \in 0 .. n : f[k] = g[k]}
    <2>4. 0 \in K
        BY <2>2, <2>3
    <2>5. ASSUME NEW k \in 1 .. n, k - 1 \in K PROVE k \in K
        <3>1. f[k - 1] = g[k - 1] /\ k \in 1 .. m
            BY <2>5, <2>1
        <3>2. f[k] = DoRemoveNext(f[k - 1]) /\ g[k] = DoRemoveNext(g[k - 1])
            BY <3>1, <2>2, <2>3
        <3> QED  BY <3>1, <3>2
    <2>6. n \in K
        <3> HIDE DEF K
        <3> QED  BY <2>4, <2>5, Turns
    <2>7. m \in 1 .. m /\ m - 1 = n
        BY <2>1
    <2> QED  BY <2>1, <2>2, <2>3, <2>6, <2>7
<1> QED  BY <1>1, <1>2 DEF TakenStep

TotalStep(f, n) == Total(f, n + 1) = Total(f, n) + f[n + 1]

\* A sum of one term more.
LEMMA TotalIs ==
    ASSUME NEW f
    PROVE  Total(f, 0) = 0 /\ \A n \in Nat : TotalStep(f, n)
<1>1. Total(f, 0) = 0
    <2>1. PICK g : /\ g[0] = 0
                   /\ Total(f, 0) = g[0]
        BY TotalTurns
    <2> QED  BY <2>1
<1>2. ASSUME NEW n \in Nat PROVE Total(f, n + 1) = Total(f, n) + f[n + 1]
    <2>1. PICK m \in Nat : m = n + 1
        OBVIOUS
    <2>2. PICK e : /\ e[0] = 0
                   /\ \A k \in 1 .. n : e[k] = e[k - 1] + f[k]
                   /\ Total(f, n) = e[n]
        BY TotalTurns
    <2>3. PICK g : /\ g[0] = 0
                   /\ \A k \in 1 .. m : g[k] = g[k - 1] + f[k]
                   /\ Total(f, m) = g[m]
        BY TotalTurns
    <2> DEFINE K == {k \in 0 .. n : e[k] = g[k]}
    <2>4. 0 \in K
        BY <2>2, <2>3
    <2>5. ASSUME NEW k \in 1 .. n, k - 1 \in K PROVE k \in K
        <3>1. e[k - 1] = g[k - 1] /\ k \in 1 .. m
            BY <2>5, <2>1
        <3>2. e[k] = e[k - 1] + f[k] /\ g[k] = g[k - 1] + f[k]
            BY <3>1, <2>2, <2>3
        <3> QED  BY <3>1, <3>2
    <2>6. n \in K
        <3> HIDE DEF K
        <3> QED  BY <2>4, <2>5, Turns
    <2>7. m \in 1 .. m /\ m - 1 = n
        BY <2>1
    <2> QED  BY <2>1, <2>2, <2>3, <2>6, <2>7
<1> QED  BY <1>1, <1>2 DEF TotalStep

\* The sum of numbers is a number.
LEMMA TotalIsNat ==
    ASSUME NEW m \in Nat, NEW f, \A k \in 1 .. m : f[k] \in Nat
    PROVE  Total(f, m) \in Nat
<1> DEFINE K == {k \in 0 .. m : Total(f, k) \in Nat}
<1>1. 0 \in K
    BY TotalIs
<1>2. ASSUME NEW k \in 1 .. m, k - 1 \in K PROVE k \in K
    <2>1. PICK j \in Nat : j = k - 1
        OBVIOUS
    <2>2. Total(f, j) \in Nat /\ f[k] \in Nat
        BY <1>2, <2>1
    <2>3. TotalStep(f, j)
        BY TotalIs
    <2>4. Total(f, k) = Total(f, j) + f[k]
        BY <2>1, <2>3 DEF TotalStep
    <2> QED  BY <2>2, <2>4
<1>3. m \in K
    <2> HIDE DEF K
    <2> QED  BY <1>1, <1>2, Turns
<1> QED  BY <1>3

\* n events are in the calendar.
Holds(c, n) ==
    Calendar(c) /\ IsFiniteSet(CalendarEvents(c)) /\ Cardinality(CalendarEvents(c)) = n

\* DoRemoveNext leaves one event less, and none before the one it takes.
LEMMA RemovingHolds ==
    ASSUME NEW n \in Nat, n > 0, NEW c, Holds(c, n), NEW d, d = DoRemoveNext(c)
    PROVE  /\ Holds(d, n - 1)
           /\ CalendarPeek(c) \in EventKey /\ CalendarPeek(c) \in CalendarEvents(c)
           /\ CalendarEvents(d) = CalendarEvents(c) \ {CalendarPeek(c)}
           /\ d.lastPrio = CalendarPeek(c).ts
<1>1. PICK S \in {CalendarEvents(c)}, a \in {CalendarPeek(c)} : TRUE
    OBVIOUS
<1>2. Calendar(c) /\ IsFiniteSet(S) /\ Cardinality(S) = n
    BY <1>1 DEF Holds
<1>3. S # {}
    BY <1>2, FS_EmptySet
<1>4. a \in S /\ S \subseteq EventKey
    BY <1>1, <1>2, <1>3, CalendarFindsFirst, EventsAre DEF First
<1>5. Calendar(d) /\ CalendarEvents(d) = S \ {a} /\ d.lastPrio = a.ts
    BY <1>1, <1>2, <1>3, CalendarRemovesFirst
<1>6. IsFiniteSet(S \ {a}) /\ Cardinality(S \ {a}) = n - 1
    BY <1>2, <1>4, FS_RemoveElement
<1> QED  BY <1>1, <1>4, <1>5, <1>6 DEF Holds

\* So many events are left after k have been taken.
LEMMA TakenHolds ==
    ASSUME NEW n \in Nat, NEW c, Holds(c, n)
    PROVE  \A k \in 0 .. n : Holds(Taken(c, k), n - k)
<1> DEFINE K == {k \in 0 .. n : Holds(Taken(c, k), n - k)}
<1>1. 0 \in K
    BY TakenIs
<1>2. ASSUME NEW k \in 1 .. n, k - 1 \in K PROVE k \in K
    <2>1. PICK j \in Nat : j = k - 1
        OBVIOUS
    <2>2. PICK d \in {Taken(c, j)}, e \in {Taken(c, k)} : TRUE
        OBVIOUS
    <2>3. e = DoRemoveNext(d)
        <3>1. TakenStep(c, j)
            BY TakenIs
        <3> QED  BY <2>1, <2>2, <3>1 DEF TakenStep
    <2>4. PICK m \in Nat : m = n - j /\ m > 0 /\ m - 1 = n - k
        BY <2>1
    <2>5. Holds(d, m)
        BY <1>2, <2>1, <2>2, <2>4
    <2>6. Holds(e, m - 1)
        BY <2>3, <2>4, <2>5, RemovingHolds
    <2> QED  BY <2>2, <2>4, <2>6
<1>3. \A k \in 0 .. n : k \in K
    <2> HIDE DEF K
    <2>1. \A k \in 1 .. n : k - 1 \in K => k \in K
        BY <1>2
    <2> QED  BY <1>1, <2>1, Turns
<1> QED  BY <1>3

\* The events are taken in the order of their times.
LEMMA TakenInOrder ==
    ASSUME NEW n \in Nat, NEW c, Holds(c, n)
    PROVE  /\ \A k \in 0 .. n - 1 : CalendarPeek(Taken(c, k)).ts \in Nat
           /\ \A k \in 1 .. n - 1 : CalendarPeek(Taken(c, k - 1)).ts <= CalendarPeek(Taken(c, k)).ts
<1>1. ASSUME NEW k \in 0 .. n - 1 PROVE CalendarPeek(Taken(c, k)).ts \in Nat
    <2>1. PICK m \in Nat : m = n - k /\ m > 0
        OBVIOUS
    <2>2. Holds(Taken(c, k), m)
        BY <2>1, TakenHolds
    <2>3. CalendarPeek(Taken(c, k)) \in EventKey
        BY <2>1, <2>2, RemovingHolds
    <2> QED  BY <2>3 DEF EventKey
<1>2. ASSUME NEW k \in 1 .. n - 1
      PROVE  CalendarPeek(Taken(c, k - 1)).ts <= CalendarPeek(Taken(c, k)).ts
    <2>1. PICK j \in Nat : j = k - 1
        OBVIOUS
    <2>2. PICK d \in {Taken(c, j)} : TRUE
        OBVIOUS
    <2>10. PICK e \in {Taken(c, k)} : TRUE
        OBVIOUS
    <2>3. e = DoRemoveNext(d)
        <3>1. TakenStep(c, j)
            BY TakenIs
        <3> QED  BY <2>1, <2>2, <2>10, <3>1 DEF TakenStep
    <2>4. PICK m \in Nat : m = n - j /\ m > 1 /\ m - 1 = n - k
        BY <2>1
    <2>5. Holds(d, m)
        BY <2>1, <2>2, <2>4, TakenHolds
    <2>6. PICK l \in Nat : l = m - 1 /\ l > 0
        BY <2>4
    <2>7. Holds(e, l)
        BY <2>4, <2>6, <2>10, TakenHolds
    <2>8. e.lastPrio = CalendarPeek(d).ts
        BY <2>3, <2>4, <2>5, RemovingHolds
    <2>9. CalendarPeek(e) \in CalendarEvents(e) /\ Calendar(e)
        BY <2>6, <2>7, RemovingHolds DEF Holds
    <2>11. e.lastPrio <= CalendarPeek(e).ts
        BY <2>9, EventsAre
    <2> QED  BY <2>1, <2>2, <2>10, <2>8, <2>11
<1> QED  BY <1>1, <1>2

\* The gaps between the sampled events.
LEMMA GapsAre ==
    ASSUME NEW q \in Nat, q >= 2, NEW c, Holds(c, q), c.qSize = q
    PROVE  \E m \in Nat : m > 0 /\ m = NSamples(c) - 1 /\ \A k \in 1 .. m : Gaps(c)[k] \in Nat
<1>1. PICK n \in Nat : n = NSamples(c) /\ n <= q /\ n >= 2
    <2>1. PICK n \in Nat :
              n = IF q <= 5 THEN q ELSE IF 5 + q \div 10 > 25 THEN 25 ELSE 5 + q \div 10
        OBVIOUS
    <2>2. n <= q /\ n >= 2
        BY <2>1
    <2> QED  BY <2>1, <2>2 DEF NSamples
<1>2. PICK m \in Nat : m = n - 1 /\ m > 0
    BY <1>1
<1>3. PICK sample : sample = [k \in 1 .. n |-> CalendarPeek(Taken(c, k - 1)).ts]
    OBVIOUS
<1>4. Gaps(c) = [k \in 1 .. m |-> sample[k + 1] - sample[k]]
    BY <1>1, <1>2, <1>3 DEF Gaps
<1>5. ASSUME NEW k \in 1 .. m PROVE Gaps(c)[k] \in Nat
    <2>1. PICK j \in Nat : j = k + 1
        OBVIOUS
    <2>2. j \in 1 .. n /\ k \in 1 .. n /\ j - 1 = k
        BY <2>1, <1>2
    <2>3. sample[k] = CalendarPeek(Taken(c, k - 1)).ts /\ sample[j] = CalendarPeek(Taken(c, k)).ts
        BY <2>2, <1>3
    <2>4. Gaps(c)[k] = sample[j] - sample[k]
        BY <1>4, <2>1
    <2>5. k \in 0 .. q - 1 /\ k - 1 \in 0 .. q - 1 /\ k \in 1 .. q - 1
        BY <1>1, <1>2
    <2>6. /\ CalendarPeek(Taken(c, k - 1)).ts \in Nat /\ CalendarPeek(Taken(c, k)).ts \in Nat
          /\ CalendarPeek(Taken(c, k - 1)).ts <= CalendarPeek(Taken(c, k)).ts
        BY <2>5, TakenInOrder
    <2> QED  BY <2>3, <2>4, <2>6
<1> QED  BY <1>1, <1>2, <1>5

\* The width of the days is positive.
LEMMA NewWidthIs ==
    ASSUME NEW c, c.qSize \in Nat, Holds(c, c.qSize)
    PROVE  CalculateNewWidth(c) \in Nat /\ CalculateNewWidth(c) > 0
<1>1. CASE c.qSize < 2
    BY <1>1 DEF CalculateNewWidth
<1>2. CASE c.qSize >= 2
    <2>1. PICK m \in Nat : m > 0 /\ m = NSamples(c) - 1 /\ \A k \in 1 .. m : Gaps(c)[k] \in Nat
        BY <1>2, GapsAre
    <2>2. PICK gap : gap = Gaps(c)
        OBVIOUS
    <2>3. PICK t \in Nat : t = Total(gap, m)
        BY <2>1, <2>2, TotalIsNat
    <2>4. PICK twiceAvg \in Nat : twiceAvg = 2 * (t \div m)
        <3>1. t \div m \in Nat
            BY <2>1, WholeDays
        <3> QED  BY <3>1
    <2>5. PICK small : small = [k \in 1 .. m |-> IF gap[k] <= twiceAvg THEN gap[k] ELSE 0]
        OBVIOUS
    <2>6. \A k \in 1 .. m : small[k] \in Nat
        BY <2>1, <2>2, <2>5
    <2>7. Total(small, m) \in Nat
        BY <2>6, TotalIsNat
    <2>8. WidthOf(gap, m) = 3 * Total(small, m)
        BY <2>3, <2>4, <2>5 DEF WidthOf
    <2>9. PICK width \in Nat : width = WidthOf(Gaps(c), NSamples(c) - 1)
        BY <2>1, <2>2, <2>7, <2>8
    <2>10. CalculateNewWidth(c) = IF c.qSize < 2 \/ width = 0 THEN 1 ELSE width
        BY <2>9 DEF CalculateNewWidth
    <2> QED  BY <2>9, <2>10
<1> QED  BY <1>1, <1>2

\* Only the number of events is changed.
LEMMA SizeChanges ==
    ASSUME NEW c, Calendar(c), NEW q \in Int, NEW d, d = [c EXCEPT !.qSize = q]
    PROVE  /\ Calendar(d) /\ CalendarEvents(d) = CalendarEvents(c)
           /\ d.lastPrio = c.lastPrio /\ d.qSize = q /\ d.nBuckets = c.nBuckets
<1>1. PICK n \in Nat :
          /\ n = c.nBuckets /\ n > 0
          /\ c \in [kind : {"calendar"}, buckets : [0 .. n - 1 -> Seq(EventKey)], qSize : Int,
                    nBuckets : Nat, width : Nat \ {0}, lastPrio : Nat, lastBucket : Nat,
                    bucketTop : Nat]
    BY DEF Calendar, CalendarRecord
<1>2. d \in [kind : {"calendar"}, buckets : [0 .. n - 1 -> Seq(EventKey)], qSize : Int,
             nBuckets : Nat, width : Nat \ {0}, lastPrio : Nat, lastBucket : Nat,
             bucketTop : Nat]
    BY <1>1
<1>3. /\ d.buckets = c.buckets /\ d.nBuckets = c.nBuckets /\ d.width = c.width
      /\ d.lastPrio = c.lastPrio /\ d.qSize = q
      /\ d.lastBucket = c.lastBucket /\ d.bucketTop = c.bucketTop
    BY <1>1
<1>4. CalendarRecord(d)
    BY <1>1, <1>2, <1>3 DEF CalendarRecord
<1>5. /\ d.lastBucket = (d.lastPrio \div d.width) % d.nBuckets
      /\ d.bucketTop = (d.lastPrio \div d.width + 1) * d.width
    BY <1>3 DEF Calendar
<1>6. \A e \in CalendarEvents(c) : d.lastPrio <= e.ts
    BY <1>3, EventsAre
<1>7. Calendar(d) /\ CalendarEvents(d) = CalendarEvents(c)
    BY <1>3, <1>4, <1>5, <1>6, CalendarMovesOn
<1> QED  BY <1>3, <1>7

\* The turns of Resize.
LEMMA ResizeTurns ==
    ASSUME NEW c, NEW newSize, NEW len \in Nat, len = c.qSize,
           NEW fresh,
           fresh = [NewCalendar(newSize, CalculateNewWidth(c), c.lastPrio)
                       EXCEPT !.qSize = c.qSize]
    PROVE  \E g : /\ g[0] = [to |-> fresh, left |-> CalendarEvents(c)]
                  /\ \A k \in 1 .. len : g[k] = Refill(g[k - 1])
                  /\ Resize(c, newSize) = g[len].to
<1> DEFINE x == [to |-> fresh, left |-> CalendarEvents(c)]
           Of(m, g) == g = [n \in 0 .. m |-> IF n = 0 THEN x ELSE Refill(g[n - 1])]
           K == {m \in 0 .. len : \E g : Of(m, g)}
           G == CHOOSE g : Of(len, g)
<1>1. Resize(c, newSize) = G[len].to
    BY DEF Resize
<1> HIDE DEF x
<1>2. 0 \in K
    <2>1. PICK g : g = [n \in 0 .. 0 |-> x]
        OBVIOUS
    <2>2. Of(0, g)
        BY <2>1
    <2> HIDE DEF Of
    <2> QED  BY <2>2
<1>3. ASSUME NEW m \in 1 .. len, m - 1 \in K PROVE m \in K
    <2>1. PICK g : Of(m - 1, g)
        BY <1>3
    <2>2. PICK f : f = [n \in 0 .. m |-> IF n = 0 THEN x ELSE Refill(g[n - 1])]
        OBVIOUS
    <2>3. \A n \in 0 .. m - 1 : f[n] = g[n]
        BY ONLY <2>1, <2>2, len \in Nat, m \in 1 .. len
    <2>4. \A n \in 1 .. m : n - 1 \in 0 .. m - 1 /\ g[n - 1] = f[n - 1]
        BY <2>3
    <2>5. \A n \in 0 .. m : f[n] = IF n = 0 THEN x ELSE Refill(f[n - 1])
        <3> TAKE n \in 0 .. m
        <3>1. CASE n = 0
            BY <3>1, <2>2
        <3>2. CASE n # 0
            <4>1. n \in 1 .. m
                BY <3>2
            <4>2. g[n - 1] = f[n - 1]
                BY <4>1, <2>4
            <4>3. f[n] = Refill(g[n - 1])
                BY <3>2, <2>2
            <4> QED  BY <3>2, <4>2, <4>3
        <3> QED  BY <3>1, <3>2
    <2>6. Of(m, f)
        BY <2>2, <2>5
    <2> HIDE DEF Of
    <2> QED  BY <2>6
<1>4. len \in K
    <2> HIDE DEF K
    <2> QED  BY <1>2, <1>3, Turns
<1>5. Of(len, G)
    <2> HIDE DEF Of
    <2> QED  BY <1>4
<1> HIDE DEF G
<1>6. G[0] = x /\ \A k \in 1 .. len : G[k] = Refill(G[k - 1])
    BY <1>5
<1> QED  BY <1>1, <1>6 DEF x

\* A turn: one more event is in its bucket.
LEMMA RefillKeeps ==
    ASSUME NEW c, Calendar(c), NEW x, Calendar(x.to), x.to.lastPrio = c.lastPrio,
           NEW n \in Nat, n > 0, IsFiniteSet(x.left), Cardinality(x.left) = n,
           x.left \subseteq CalendarEvents(c), CalendarEvents(x.to) = CalendarEvents(c) \ x.left,
           NEW y, y = Refill(x)
    PROVE  /\ Calendar(y.to) /\ y.to.lastPrio = c.lastPrio /\ y.to.qSize = x.to.qSize
           /\ IsFiniteSet(y.left) /\ Cardinality(y.left) = n - 1
           /\ y.left \subseteq CalendarEvents(c)
           /\ CalendarEvents(y.to) = CalendarEvents(c) \ y.left
<1>1. PICK to \in {x.to}, L \in {x.left}, S \in {CalendarEvents(c)} : TRUE
    OBVIOUS
<1>2. L # {}
    BY <1>1, FS_EmptySet
<1>3. PICK ev : ev = (CHOOSE e \in L : TRUE)
    OBVIOUS
<1>4. ev \in L
    BY <1>2, <1>3
<1>5. y.to = DoInsert(to, ev) /\ y.left = L \ {ev}
    BY <1>1, <1>3 DEF Refill
<1>6. ev \in S /\ ev \in EventKey /\ c.lastPrio <= ev.ts
    BY <1>1, <1>4, EventsAre
<1>7. Calendar(to) /\ to.lastPrio <= ev.ts /\ ev \notin CalendarEvents(to)
    BY <1>1, <1>4, <1>6
<1>8. Calendar(y.to) /\ CalendarEvents(y.to) = CalendarEvents(to) \union {ev}
    BY <1>5, <1>6, <1>7, CalendarInserts
<1>9. y.to.lastPrio = to.lastPrio /\ y.to.qSize = to.qSize
    <2>1. CalendarRecord(to)
        BY <1>7 DEF Calendar
    <2> QED  BY <2>1, <1>5 DEF DoInsert, CalendarRecord
<1>10. IsFiniteSet(L \ {ev}) /\ Cardinality(L \ {ev}) = n - 1
    BY <1>1, <1>4, FS_RemoveElement
<1>11. CalendarEvents(y.to) = S \ y.left
    BY <1>1, <1>4, <1>5, <1>6, <1>8
<1> QED  BY <1>1, <1>5, <1>8, <1>9, <1>10, <1>11

\* Resize keeps the events.
LEMMA ResizeKeeps ==
    ASSUME NEW c, c.qSize \in Nat, Holds(c, c.qSize), NEW newSize \in Nat, newSize > 0
    PROVE  /\ Holds(Resize(c, newSize), c.qSize) /\ Resize(c, newSize).qSize = c.qSize
           /\ CalendarEvents(Resize(c, newSize)) = CalendarEvents(c)
           /\ Resize(c, newSize).lastPrio = c.lastPrio
<1>1. PICK len \in Nat : len = c.qSize /\ Holds(c, len)
    OBVIOUS
<1>2. PICK w \in Nat : w = CalculateNewWidth(c) /\ w > 0
    BY NewWidthIs
<1>3. Calendar(c) /\ c.lastPrio \in Nat
    BY CalendarTypes DEF Holds, Calendar
<1>4. PICK new \in {NewCalendar(newSize, w, c.lastPrio)} : TRUE
    OBVIOUS
<1>5. PICK fresh : fresh = [new EXCEPT !.qSize = c.qSize]
    OBVIOUS
<1>6. /\ Calendar(fresh) /\ CalendarEvents(fresh) = {} /\ fresh.qSize = c.qSize
      /\ fresh.lastPrio = c.lastPrio
    <2>1. Calendar(new) /\ CalendarEvents(new) = {} /\ new.lastPrio = c.lastPrio
        <3>1. Calendar(new) /\ CalendarEvents(new) = {}
            BY <1>2, <1>3, <1>4, NewCalendarIsEmpty
        <3>2. new.lastPrio = c.lastPrio
            BY <1>4 DEF NewCalendar
        <3> QED  BY <3>1, <3>2
    <2>2. /\ Calendar(fresh) /\ CalendarEvents(fresh) = CalendarEvents(new)
          /\ fresh.lastPrio = new.lastPrio /\ fresh.qSize = c.qSize
        BY <1>5, <2>1, SizeChanges
    <2> QED  BY <2>1, <2>2
<1>7. PICK g : /\ g[0] = [to |-> fresh, left |-> CalendarEvents(c)]
               /\ \A k \in 1 .. len : g[k] = Refill(g[k - 1])
               /\ Resize(c, newSize) = g[len].to
    BY <1>1, <1>2, <1>4, <1>5, ResizeTurns
<1> DEFINE P(k) == /\ Calendar(g[k].to) /\ g[k].to.lastPrio = c.lastPrio
                   /\ g[k].to.qSize = c.qSize
                   /\ IsFiniteSet(g[k].left) /\ Cardinality(g[k].left) = len - k
                   /\ g[k].left \subseteq CalendarEvents(c)
                   /\ CalendarEvents(g[k].to) = CalendarEvents(c) \ g[k].left
           K == {k \in 0 .. len : P(k)}
<1>8. 0 \in K
    <2>1. P(0)
        BY <1>1, <1>6, <1>7 DEF Holds
    <2> HIDE DEF P
    <2> QED  BY <2>1
<1>9. ASSUME NEW k \in 1 .. len, k - 1 \in K PROVE k \in K
    <2>1. PICK x \in {g[k - 1]}, y \in {g[k]} : y = Refill(x)
        BY <1>7
    <2>2. PICK n \in Nat : n = len - (k - 1) /\ n > 0 /\ n - 1 = len - k
        OBVIOUS
    <2>3. P(k - 1)
        <3> HIDE DEF P
        <3> QED  BY <1>9
    <2>4. /\ Calendar(x.to) /\ x.to.lastPrio = c.lastPrio /\ x.to.qSize = c.qSize
          /\ IsFiniteSet(x.left) /\ Cardinality(x.left) = n
          /\ x.left \subseteq CalendarEvents(c)
          /\ CalendarEvents(x.to) = CalendarEvents(c) \ x.left
        BY <2>1, <2>2, <2>3
    <2>5. /\ Calendar(y.to) /\ y.to.lastPrio = c.lastPrio /\ y.to.qSize = x.to.qSize
          /\ IsFiniteSet(y.left) /\ Cardinality(y.left) = n - 1
          /\ y.left \subseteq CalendarEvents(c) /\ CalendarEvents(y.to) = CalendarEvents(c) \ y.left
        BY <2>1, <2>2, <2>4, <1>3, RefillKeeps
    <2>6. P(k)
        BY <2>1, <2>2, <2>4, <2>5
    <2> HIDE DEF P
    <2> QED  BY <2>6
<1>10. len \in K
    <2> HIDE DEF K
    <2> QED  BY <1>8, <1>9, Turns
<1>11. P(len)
    <2> HIDE DEF P
    <2> QED  BY <1>10
<1>12. PICK d \in {Resize(c, newSize)}, left \in {g[len].left} : d = g[len].to
    BY <1>7
<1>13. IsFiniteSet(left) /\ Cardinality(left) = 0
    BY <1>11, <1>12
<1>14. left = {}
    BY <1>13, FS_EmptySet
<1>15. /\ Calendar(d) /\ d.lastPrio = c.lastPrio /\ d.qSize = c.qSize
       /\ CalendarEvents(d) = CalendarEvents(c)
    BY <1>11, <1>12, <1>14
<1> QED  BY <1>1, <1>12, <1>15 DEF Holds

-----------------------------------------------------------------------------
(* The schedulers.                                                         *)

\* The data is what its kind of scheduler keeps it to be.
Valid(s) ==
    \/ s \in [kind : {"list"}, events : Seq(EventKey)] /\ Sorted(s.events)
    \/ s \in [kind : {"heap"}, events : Seq(EventKey)] /\ Heap(s.events)
    \/ s.kind = "calendar" /\ s.qSize \in Nat /\ Holds(s, s.qSize)

\* No event is before it.
StartOf(s) == IF s.kind = "calendar" THEN s.lastPrio ELSE 0

\* A new scheduler is empty.
LEMMA CreatedIsValid ==
    ASSUME NEW kind \in {"list", "heap", "calendar"}, NEW s, s = Create(kind)
    PROVE  Valid(s) /\ Contents(s) = {} /\ StartOf(s) = 0
<1>1. CASE kind # "calendar"
    <2>1. s = [kind |-> kind, events |-> <<>>]
        BY <1>1 DEF Create
    <2>2. <<>> \in Seq(EventKey) /\ Len(<<>>) = 0 /\ ToSet(<<>>) = {}
        BY DEF ToSet
    <2>3. Sorted(<<>>) /\ Heap(<<>>)
        BY <2>2 DEF Sorted, Heap, Array
    <2>4. Valid(s)
        <3> HIDE DEF Sorted, Heap
        <3> QED  BY <1>1, <2>1, <2>2, <2>3 DEF Valid
    <2> QED  BY <1>1, <2>1, <2>2, <2>4 DEF Contents, StartOf
<1>2. CASE kind = "calendar"
    <2>1. PICK p \in {0} : s = NewCalendar(2, 1, p)
        BY <1>2 DEF Create
    <2>2. Calendar(s) /\ CalendarEvents(s) = {}
        BY <2>1, NewCalendarIsEmpty
    <2>3. s.kind = "calendar" /\ s.qSize = 0 /\ s.lastPrio = 0
        BY <2>1 DEF NewCalendar
    <2>4. Holds(s, 0)
        BY <2>2, FS_EmptySet DEF Holds
    <2> QED  BY <2>2, <2>3, <2>4 DEF Valid, Contents, StartOf
<1> QED  BY <1>1, <1>2

\* What a valid scheduler says of its events.
LEMMA ValidIs ==
    ASSUME NEW s, Valid(s)
    PROVE  /\ Contents(s) \subseteq EventKey /\ Size(s) \in Nat
           /\ IsEmpty(s) <=> Contents(s) = {}
           /\ Size(s) = 0 <=> Contents(s) = {}
           /\ StartOf(s) \in Nat
           /\ \A e \in Contents(s) : StartOf(s) <= e.ts
<1>1. CASE s \in [kind : {"list", "heap"}, events : Seq(EventKey)]
    <2>1. PICK q \in Seq(EventKey) : q = s.events
        BY <1>1
    <2>2. /\ s.kind # "calendar" /\ Contents(s) = ToSet(q) /\ Size(s) = Len(q)
          /\ StartOf(s) = 0 /\ (IsEmpty(s) <=> q = <<>>)
        BY <1>1, <2>1 DEF Contents, Size, StartOf, IsEmpty
    <2>3. /\ ToSet(q) \subseteq EventKey /\ Len(q) \in Nat
          /\ \A x : x \in ToSet(q) <=> \E i \in 1 .. Len(q) : q[i] = x
        BY ElementsOf
    <2>4. ToSet(q) = {} <=> Len(q) = 0
        <3>1. ASSUME Len(q) # 0 PROVE ToSet(q) # {}
            <4>1. 1 \in 1 .. Len(q)
                BY <2>3, <3>1
            <4>2. q[1] \in ToSet(q)
                BY <4>1, <2>3
            <4> QED  BY <4>2
        <3>2. ASSUME Len(q) = 0 PROVE ToSet(q) = {}
            <4>1. 1 .. Len(q) = {}
                BY <3>2
            <4> QED  BY <4>1, <2>3
        <3> QED  BY <3>1, <3>2
    <2>5. q = <<>> <=> Len(q) = 0
        OBVIOUS
    <2>6. \A e \in EventKey : 0 <= e.ts
        BY DEF EventKey
    <2> QED  BY <2>2, <2>3, <2>4, <2>5, <2>6
<1>2. CASE s.kind = "calendar" /\ s.qSize \in Nat /\ Holds(s, s.qSize)
    <2>1. PICK n \in Nat : n = s.qSize /\ Holds(s, n)
        BY <1>2
    <2>2. PICK S : S = CalendarEvents(s)
        OBVIOUS
    <2>3. IsFiniteSet(S) /\ Cardinality(S) = n /\ Calendar(s)
        BY <2>1, <2>2 DEF Holds
    <2>4. n = 0 <=> S = {}
        BY <2>3, FS_EmptySet
    <2>5. Contents(s) = S /\ Size(s) = n /\ StartOf(s) = s.lastPrio /\ (IsEmpty(s) <=> n = 0)
        BY <1>2, <2>1, <2>2 DEF Contents, Size, StartOf, IsEmpty
    <2>6. s.lastPrio \in Nat
        BY <2>3, CalendarTypes DEF Calendar
    <2>7. S \subseteq EventKey /\ \A e \in S : s.lastPrio <= e.ts
        BY <2>2, <2>3, EventsAre
    <2> QED  BY <2>4, <2>5, <2>6, <2>7
<1> QED  BY <1>1, <1>2 DEF Valid

\* Insert adds the event.
LEMMA InsertAdds ==
    ASSUME NEW s, Valid(s), NEW ev \in EventKey, ev \notin Contents(s), StartOf(s) <= ev.ts,
           NEW t, t = Insert(s, ev)
    PROVE  Valid(t) /\ Contents(t) = Contents(s) \union {ev} /\ StartOf(t) = StartOf(s)
<1>1. CASE s \in [kind : {"list"}, events : Seq(EventKey)] /\ Sorted(s.events)
    <2>0. PICK q : q = s.events
        OBVIOUS
    <2>1. PICK r : r = InsertSorted(q, ev)
        OBVIOUS
    <2>2. t = [s EXCEPT !.events = r]
        BY <1>1, <2>0, <2>1 DEF Insert
    <2>3. Contents(s) = ToSet(q) /\ StartOf(s) = 0
        BY <1>1, <2>0, <2>1 DEF Contents, StartOf
    <2>4. Sorted(r) /\ ToSet(r) = ToSet(q) \union {ev}
        BY <1>1, <2>0, <2>1, <2>3, InsertSortedKeeps
    <2>5. r \in Seq(EventKey)
        BY <2>4 DEF Sorted
    <2>6. t \in [kind : {"list"}, events : Seq(EventKey)] /\ t.events = r /\ t.kind = "list"
        BY <1>1, <2>2, <2>5
    <2>7. Valid(t)
        BY <2>4, <2>6 DEF Valid
    <2>8. Contents(t) = ToSet(r) /\ StartOf(t) = 0
        BY <2>6 DEF Contents, StartOf
    <2> QED  BY <2>3, <2>4, <2>7, <2>8
<1>2. CASE s \in [kind : {"heap"}, events : Seq(EventKey)] /\ Heap(s.events)
    <2>0. PICK q : q = s.events
        OBVIOUS
    <2>1. PICK r : r = BottomUp(Append(q, ev), Len(q) + 1)
        OBVIOUS
    <2>2. t = [s EXCEPT !.events = r]
        BY <1>2, <2>0, <2>1 DEF Insert
    <2>3. Contents(s) = ToSet(q) /\ StartOf(s) = 0
        BY <1>2, <2>0, <2>1 DEF Contents, StartOf
    <2>4. Heap(r) /\ ToSet(r) = ToSet(q) \union {ev}
        BY <1>2, <2>0, <2>1, <2>3, HeapInserts
    <2>5. r \in Seq(EventKey)
        BY <2>4 DEF Heap, Array
    <2>6. t \in [kind : {"heap"}, events : Seq(EventKey)] /\ t.events = r /\ t.kind = "heap"
        BY <1>2, <2>2, <2>5
    <2>7. Valid(t)
        BY <2>4, <2>6 DEF Valid
    <2>8. Contents(t) = ToSet(r) /\ StartOf(t) = 0
        BY <2>6 DEF Contents, StartOf
    <2> QED  BY <2>3, <2>4, <2>7, <2>8
<1>3. CASE s.kind = "calendar" /\ s.qSize \in Nat /\ Holds(s, s.qSize)
    <2>1. PICK n \in Nat : n = s.qSize /\ Holds(s, n)
        BY <1>3
    <2>2. PICK S : S = CalendarEvents(s)
        OBVIOUS
    <2>3. /\ Calendar(s) /\ IsFiniteSet(S) /\ Cardinality(S) = n
          /\ Contents(s) = S /\ StartOf(s) = s.lastPrio
        BY <1>3, <2>1, <2>2 DEF Holds, Contents, StartOf
    <2>4. PICK c : c = DoInsert(s, ev)
        OBVIOUS
    <2>5. Calendar(c) /\ CalendarEvents(c) = S \union {ev}
        BY <2>2, <2>3, <2>4, CalendarInserts
    <2>6. c.lastPrio = s.lastPrio /\ c.qSize = n
        <3>1. CalendarRecord(s)
            BY <2>3 DEF Calendar
        <3> QED  BY <3>1, <2>1, <2>4 DEF DoInsert, CalendarRecord
    <2>7. PICK m \in Nat : m = n + 1
        OBVIOUS
    <2>8. PICK d : d = [c EXCEPT !.qSize = m]
        OBVIOUS
    <2>9. /\ Calendar(d) /\ CalendarEvents(d) = S \union {ev}
          /\ d.lastPrio = s.lastPrio /\ d.qSize = m
        BY <2>5, <2>6, <2>7, <2>8, SizeChanges
    <2>10. IsFiniteSet(S \union {ev}) /\ Cardinality(S \union {ev}) = m
        BY <2>3, <2>7, FS_AddElement
    <2>11. Holds(d, m)
        BY <2>9, <2>10 DEF Holds
    <2>12. t = ResizeUp(d)
        BY <1>3, <2>4, <2>6, <2>7, <2>8 DEF Insert
    <2>13. /\ Holds(t, m) /\ t.qSize = m /\ CalendarEvents(t) = CalendarEvents(d)
           /\ t.lastPrio = d.lastPrio
        <3>0. d.nBuckets \in Nat /\ d.nBuckets > 0
            BY <2>9 DEF Calendar, CalendarRecord
        <3>1. PICK k \in Nat : k = d.nBuckets * 2 /\ k > 0
            BY ONLY <3>0
        <3>2. d.qSize \in Nat /\ Holds(d, d.qSize)
            BY <2>9, <2>11
        <3>3. /\ Holds(Resize(d, k), d.qSize) /\ Resize(d, k).qSize = d.qSize
              /\ CalendarEvents(Resize(d, k)) = CalendarEvents(d)
              /\ Resize(d, k).lastPrio = d.lastPrio
            BY <3>1, <3>2, ResizeKeeps
        <3>4. t = d \/ t = Resize(d, k)
            BY <2>12, <3>1 DEF ResizeUp
        <3> QED  BY <3>3, <3>4, <2>9, <2>11
    <2>14. t.kind = "calendar"
        BY <2>13 DEF Holds, Calendar, CalendarRecord
    <2>15. Valid(t)
        BY <2>13, <2>14 DEF Valid
    <2>16. Contents(t) = CalendarEvents(t) /\ StartOf(t) = t.lastPrio
        BY <2>14 DEF Contents, StartOf
    <2> QED  BY <2>3, <2>9, <2>13, <2>15, <2>16
<1> QED  BY <1>1, <1>2, <1>3 DEF Valid

\* PeekNext returns the earliest event.
LEMMA PeekIsFirst ==
    ASSUME NEW s, Valid(s), Contents(s) # {}
    PROVE  First(Contents(s), PeekNext(s))
<1>1. CASE /\ s \in [kind : {"list", "heap"}, events : Seq(EventKey)]
           /\ Sorted(s.events) \/ Heap(s.events)
    <2>1. PICK q \in Seq(EventKey) : q = s.events
        BY <1>1
    <2>2. Contents(s) = ToSet(q) /\ PeekNext(s) = Head(q)
        BY <1>1, <2>1 DEF Contents, PeekNext
    <2>3. q # <<>>
        <3> SUFFICES ASSUME q = <<>> PROVE FALSE
            OBVIOUS
        <3>1. ToSet(q) = {}
            BY DEF ToSet
        <3> QED  BY <3>1, <2>2
    <2>4. CASE Sorted(q)
        BY <2>2, <2>3, <2>4, HeadIsFirst
    <2>5. CASE Heap(q)
        BY <2>2, <2>3, <2>5, RootIsFirst
    <2> QED  BY <1>1, <2>1, <2>4, <2>5
<1>2. CASE s.kind = "calendar" /\ s.qSize \in Nat /\ Holds(s, s.qSize)
    <2>1. Calendar(s) /\ Contents(s) = CalendarEvents(s) /\ PeekNext(s) = CalendarPeek(s)
        BY <1>2 DEF Holds, Contents, PeekNext
    <2> QED  BY <2>1, CalendarFindsFirst
<1> QED  BY <1>1, <1>2 DEF Valid

\* DoRemoveNext leaves the counter of the events to its caller.
LEMMA RemovingKeepsSize ==
    ASSUME NEW c, CalendarRecord(c)
    PROVE  DoRemoveNext(c).qSize = c.qSize
<1>1. PICK n \in Nat :
          /\ n = c.nBuckets
          /\ c \in [kind : {"calendar"}, buckets : [0 .. n - 1 -> Seq(EventKey)], qSize : Int,
                    nBuckets : Nat, width : Nat \ {0}, lastPrio : Nat, lastBucket : Nat,
                    bucketTop : Nat]
    BY DEF CalendarRecord
<1>2. PICK rest : rest = [c EXCEPT !.buckets[NextBucket(c)] = Tail(@),
                                   !.lastPrio = CalendarPeek(c).ts]
    OBVIOUS
<1>3. rest.qSize = c.qSize /\ DOMAIN rest = DOMAIN c
    BY <1>1, <1>2
<1>4. DoRemoveNext(c) =
          IF DueDays(c) # {}
          THEN [rest EXCEPT !.lastBucket = NextBucket(c), !.bucketTop = @ + NextDay(c) * c.width]
          ELSE [rest EXCEPT !.lastBucket = Hash(c, CalendarPeek(c).ts),
                            !.bucketTop = (CalendarPeek(c).ts \div c.width + 1) * c.width]
    BY <1>2 DEF DoRemoveNext
<1>5. "qSize" \in DOMAIN rest
    BY <1>1, <1>3
<1> QED  BY <1>3, <1>4, <1>5

\* ResizeDown keeps the events.
LEMMA ResizeDownKeeps ==
    ASSUME NEW d, NEW m \in Nat, d.qSize = m, Holds(d, m), NEW t, t = ResizeDown(d)
    PROVE  /\ Holds(t, m) /\ t.qSize = m /\ CalendarEvents(t) = CalendarEvents(d)
           /\ t.lastPrio = d.lastPrio
<1>1. d.nBuckets \in Nat /\ d.nBuckets > 0
    BY DEF Holds, Calendar, CalendarRecord
<1>2. PICK k \in Nat : k = d.nBuckets \div 2
    BY ONLY <1>1
<1>3. t = IF m < k THEN Resize(d, k) ELSE d
    BY <1>2 DEF ResizeDown
<1>4. CASE m < k
    <2>1. d.qSize \in Nat /\ Holds(d, d.qSize) /\ k > 0
        BY <1>4
    <2>2. /\ Holds(Resize(d, k), d.qSize) /\ Resize(d, k).qSize = d.qSize
          /\ CalendarEvents(Resize(d, k)) = CalendarEvents(d)
          /\ Resize(d, k).lastPrio = d.lastPrio
        BY <2>1, ResizeKeeps
    <2> QED  BY <2>2, <1>3, <1>4
<1> QED  BY <1>3, <1>4

\* RemoveNext removes the event that PeekNext returns.
LEMMA RemoveNextRemoves ==
    ASSUME NEW s, Valid(s), Contents(s) # {}, NEW t, t = RemoveNext(s)
    PROVE  /\ Valid(t) /\ Contents(t) = Contents(s) \ {PeekNext(s)}
           /\ StartOf(t) <= PeekNext(s).ts /\ Size(t) = Size(s) - 1
<1>1. PeekNext(s) \in EventKey /\ PeekNext(s).ts \in Nat
    <2>1. PeekNext(s) \in EventKey
        BY PeekIsFirst, ValidIs DEF First
    <2> QED  BY <2>1 DEF EventKey
<1>2. ASSUME NEW q \in Seq(EventKey), q = s.events, s.kind # "calendar"
      PROVE  Contents(s) = ToSet(q) /\ PeekNext(s) = Head(q) /\ Size(s) = Len(q) /\ q # <<>>
    <2>1. Contents(s) = ToSet(q) /\ PeekNext(s) = Head(q) /\ Size(s) = Len(q)
        BY <1>2 DEF Contents, PeekNext, Size
    <2>2. q # <<>>
        <3> SUFFICES ASSUME q = <<>> PROVE FALSE
            OBVIOUS
        <3>1. ToSet(q) = {}
            BY DEF ToSet
        <3> QED  BY <3>1, <2>1
    <2> QED  BY <2>1, <2>2
<1>3. CASE s \in [kind : {"list"}, events : Seq(EventKey)] /\ Sorted(s.events)
    <2>1. PICK q \in Seq(EventKey) : q = s.events
        BY <1>3
    <2>2. PICK r : r = Tail(q)
        OBVIOUS
    <2>3. t = [s EXCEPT !.events = r]
        BY <1>3, <2>1, <2>2 DEF RemoveNext
    <2>4. Contents(s) = ToSet(q) /\ PeekNext(s) = Head(q) /\ Size(s) = Len(q) /\ q # <<>>
        BY <1>2, <1>3, <2>1
    <2>5. Sorted(r) /\ ToSet(r) = ToSet(q) \ {Head(q)}
        BY <1>3, <2>1, <2>2, <2>4, HeadIsFirst
    <2>6. r \in Seq(EventKey) /\ Len(r) = Len(q) - 1
        BY <2>2, <2>4
    <2>7. t \in [kind : {"list"}, events : Seq(EventKey)] /\ t.events = r /\ t.kind = "list"
        BY <1>3, <2>3, <2>6
    <2>8. Valid(t)
        BY <2>5, <2>7 DEF Valid
    <2>9. Contents(t) = ToSet(r) /\ StartOf(t) = 0 /\ Size(t) = Len(r)
        BY <2>7 DEF Contents, StartOf, Size
    <2> QED  BY <1>1, <2>4, <2>5, <2>6, <2>8, <2>9
<1>4. CASE s \in [kind : {"heap"}, events : Seq(EventKey)] /\ Heap(s.events)
    <2>1. PICK q \in Seq(EventKey) : q = s.events
        BY <1>4
    <2>2. PICK r : r = HeapErase(q, 1)
        OBVIOUS
    <2>3. t = [s EXCEPT !.events = r]
        BY <1>4, <2>1, <2>2 DEF RemoveNext
    <2>4. Contents(s) = ToSet(q) /\ PeekNext(s) = Head(q) /\ Size(s) = Len(q) /\ q # <<>>
        BY <1>2, <1>4, <2>1
    <2>5. Heap(r) /\ ToSet(r) = ToSet(q) \ {Head(q)} /\ Len(r) = Len(q) - 1
        BY <1>4, <2>1, <2>2, <2>4, HeapRemovesFirst
    <2>6. r \in Seq(EventKey)
        BY <2>5 DEF Heap, Array
    <2>7. t \in [kind : {"heap"}, events : Seq(EventKey)] /\ t.events = r /\ t.kind = "heap"
        BY <1>4, <2>3, <2>6
    <2>8. Valid(t)
        BY <2>5, <2>7 DEF Valid
    <2>9. Contents(t) = ToSet(r) /\ StartOf(t) = 0 /\ Size(t) = Len(r)
        BY <2>7 DEF Contents, StartOf, Size
    <2> QED  BY <1>1, <2>4, <2>5, <2>8, <2>9
<1>5. CASE s.kind = "calendar" /\ s.qSize \in Nat /\ Holds(s, s.qSize)
    <2>1. PICK n \in Nat : n = s.qSize /\ Holds(s, n)
        BY <1>5
    <2>2. PICK S : S = CalendarEvents(s)
        OBVIOUS
    <2>3. Contents(s) = S /\ PeekNext(s) = CalendarPeek(s) /\ Size(s) = n
        BY <1>5, <2>1, <2>2 DEF Contents, PeekNext, Size
    <2>4. n > 0
        BY <2>1, <2>2, <2>3, FS_EmptySet DEF Holds
    <2>5. PICK c : c = DoRemoveNext(s)
        OBVIOUS
    <2>6. PICK m \in Nat : m = n - 1
        BY ONLY <2>4, n \in Nat
    <2>7. /\ Holds(c, m) /\ CalendarEvents(c) = S \ {PeekNext(s)} /\ c.lastPrio = PeekNext(s).ts
        BY <2>1, <2>2, <2>3, <2>4, <2>5, <2>6, RemovingHolds
    <2>8. c.qSize = n
        <3>1. CalendarRecord(s)
            BY <2>1 DEF Holds, Calendar
        <3> QED  BY <3>1, <2>1, <2>5, RemovingKeepsSize
    <2>9. PICK d : d = [c EXCEPT !.qSize = m]
        OBVIOUS
    <2>10. /\ Calendar(d) /\ CalendarEvents(d) = CalendarEvents(c)
           /\ d.lastPrio = c.lastPrio /\ d.qSize = m
        BY <2>6, <2>7, <2>9, SizeChanges DEF Holds
    <2>11. Holds(d, m)
        BY <2>7, <2>10 DEF Holds
    <2>12. t = ResizeDown(d)
        BY <1>5, <2>5, <2>6, <2>8, <2>9 DEF RemoveNext
    <2>13. /\ Holds(t, m) /\ t.qSize = m /\ CalendarEvents(t) = CalendarEvents(d)
           /\ t.lastPrio = d.lastPrio
        BY <2>10, <2>11, <2>12, ResizeDownKeeps
    <2>14. t.kind = "calendar"
        BY <2>13 DEF Holds, Calendar, CalendarRecord
    <2>15. Valid(t)
        BY <2>13, <2>14 DEF Valid
    <2>16. Contents(t) = CalendarEvents(t) /\ StartOf(t) = t.lastPrio /\ Size(t) = t.qSize
        BY <2>14 DEF Contents, StartOf, Size
    <2> QED  BY <1>1, <2>3, <2>6, <2>7, <2>10, <2>13, <2>15, <2>16
<1> QED  BY <1>3, <1>4, <1>5 DEF Valid

\* Remove takes the event out of a list or of a calendar.
LEMMA RemoveThisRemoves ==
    ASSUME NEW s, Valid(s), s.kind \in {"list", "calendar"}, NEW ev \in Contents(s),
           \A a, b \in Contents(s) : a.uid = b.uid => a = b,
           NEW t, t = RemoveThis(s, ev)
    PROVE  Valid(t) /\ Contents(t) = Contents(s) \ {ev} /\ StartOf(t) = StartOf(s)
<1>1. CASE s \in [kind : {"list"}, events : Seq(EventKey)] /\ Sorted(s.events)
    <2>1. PICK q \in Seq(EventKey) : q = s.events
        BY <1>1
    <2>2. PICK r : r = Erase(q, ev)
        OBVIOUS
    <2>3. t = [s EXCEPT !.events = r]
        BY <1>1, <2>1, <2>2 DEF RemoveThis
    <2>4. Contents(s) = ToSet(q) /\ StartOf(s) = 0
        BY <1>1, <2>1 DEF Contents, StartOf
    <2>5. ev \in ToSet(q) /\ \A a \in ToSet(q) : a.uid = ev.uid => a = ev
        BY <2>4
    <2>6. Sorted(r) /\ ToSet(r) = ToSet(q) \ {ev}
        BY <1>1, <2>1, <2>2, <2>5, EraseKeeps
    <2>7. r \in Seq(EventKey)
        BY <2>6 DEF Sorted
    <2>8. t \in [kind : {"list"}, events : Seq(EventKey)] /\ t.events = r /\ t.kind = "list"
        BY <1>1, <2>3, <2>7
    <2>9. Valid(t)
        BY <2>6, <2>8 DEF Valid
    <2>10. Contents(t) = ToSet(r) /\ StartOf(t) = 0
        BY <2>8 DEF Contents, StartOf
    <2> QED  BY <2>4, <2>6, <2>9, <2>10
<1>2. CASE s.kind = "calendar" /\ s.qSize \in Nat /\ Holds(s, s.qSize)
    <2>1. PICK n \in Nat : n = s.qSize /\ Holds(s, n)
        BY <1>2
    <2>2. PICK S : S = CalendarEvents(s)
        OBVIOUS
    <2>3. /\ Contents(s) = S /\ StartOf(s) = s.lastPrio /\ Calendar(s)
          /\ IsFiniteSet(S) /\ Cardinality(S) = n
        BY <1>2, <2>1, <2>2 DEF Contents, StartOf, Holds
    <2>4. PICK c : c = DoErase(s, ev)
        OBVIOUS
    <2>5. Calendar(c) /\ CalendarEvents(c) = S \ {ev}
        BY <2>2, <2>3, <2>4, CalendarErases
    <2>6. c.lastPrio = s.lastPrio /\ c.qSize = n
        <3>1. CalendarRecord(s)
            BY <2>3 DEF Calendar
        <3> QED  BY <3>1, <2>1, <2>4 DEF DoErase, CalendarRecord
    <2>7. n > 0 /\ IsFiniteSet(S \ {ev}) /\ Cardinality(S \ {ev}) = n - 1
        BY <2>3, FS_RemoveElement, FS_EmptySet
    <2>8. PICK m \in Nat : m = n - 1
        BY ONLY <2>7, n \in Nat
    <2>9. PICK d : d = [c EXCEPT !.qSize = m]
        OBVIOUS
    <2>10. /\ Calendar(d) /\ CalendarEvents(d) = CalendarEvents(c)
           /\ d.lastPrio = c.lastPrio /\ d.qSize = m
        BY <2>5, <2>8, <2>9, SizeChanges
    <2>11. Holds(d, m)
        BY <2>5, <2>7, <2>8, <2>10 DEF Holds
    <2>12. t = ResizeDown(d)
        BY <1>2, <2>4, <2>6, <2>8, <2>9 DEF RemoveThis
    <2>13. /\ Holds(t, m) /\ t.qSize = m /\ CalendarEvents(t) = CalendarEvents(d)
           /\ t.lastPrio = d.lastPrio
        BY <2>10, <2>11, <2>12, ResizeDownKeeps
    <2>14. t.kind = "calendar"
        BY <2>13 DEF Holds, Calendar, CalendarRecord
    <2>15. Valid(t)
        BY <2>13, <2>14 DEF Valid
    <2>16. Contents(t) = CalendarEvents(t) /\ StartOf(t) = t.lastPrio
        BY <2>14 DEF Contents, StartOf
    <2> QED  BY <2>3, <2>5, <2>6, <2>10, <2>13, <2>15, <2>16
<1>3. ~ (s \in [kind : {"heap"}, events : Seq(EventKey)])
    OBVIOUS
<1> QED  BY <1>1, <1>2, <1>3 DEF Valid

\* A turn of SetScheduler: one more event has been moved.
LEMMA MoveKeeps ==
    ASSUME NEW x, Valid(x.from), Valid(x.to), StartOf(x.to) = 0, Contents(x.from) # {},
           Contents(x.from) \cap Contents(x.to) = {}, NEW y, y = Move(x)
    PROVE  /\ Valid(y.from) /\ Valid(y.to) /\ StartOf(y.to) = 0
           /\ Contents(y.from) \cap Contents(y.to) = {}
           /\ Contents(y.from) \union Contents(y.to) = Contents(x.from) \union Contents(x.to)
           /\ Size(y.from) = Size(x.from) - 1
<1>1. PICK f \in {x.from}, to \in {x.to} : TRUE
    OBVIOUS
<1>2. PICK a : a = PeekNext(f)
    OBVIOUS
<1>3. a \in Contents(f)
    BY <1>1, <1>2, PeekIsFirst DEF First
<1>4. a \in EventKey /\ a.ts \in Nat /\ a \notin Contents(to)
    <2>1. a \in EventKey
        BY <1>1, <1>3, ValidIs
    <2> QED  BY <2>1, <1>1, <1>3 DEF EventKey
<1>5. y.from = RemoveNext(f) /\ y.to = Insert(to, a)
    BY <1>1, <1>2 DEF Move
<1>6. /\ Valid(y.from) /\ Contents(y.from) = Contents(f) \ {a}
      /\ Size(y.from) = Size(f) - 1
    BY <1>1, <1>2, <1>5, RemoveNextRemoves
<1>7. StartOf(to) <= a.ts
    BY <1>1, <1>4
<1>8. Valid(y.to) /\ Contents(y.to) = Contents(to) \union {a} /\ StartOf(y.to) = StartOf(to)
    BY <1>1, <1>4, <1>5, <1>7, InsertAdds
<1> QED  BY <1>1, <1>3, <1>4, <1>6, <1>8

\* SetScheduler keeps the events.
LEMMA MovedKeeps ==
    ASSUME NEW from, Valid(from), NEW to, Valid(to), Contents(to) = {}, StartOf(to) = 0,
           NEW t, t = Moved(from, to)
    PROVE  Valid(t) /\ Contents(t) = Contents(from) /\ StartOf(t) = 0
<1>1. PICK len \in Nat : len = Size(from)
    BY ValidIs
<1>2. PICK g : /\ g[0] = [from |-> from, to |-> to]
               /\ \A k \in 1 .. len : g[k] = Move(g[k - 1])
               /\ t = g[len].to
    BY <1>1, MoveTurns
<1> DEFINE P(k) == /\ Valid(g[k].from) /\ Valid(g[k].to) /\ StartOf(g[k].to) = 0
                   /\ Contents(g[k].from) \cap Contents(g[k].to) = {}
                   /\ Contents(g[k].from) \union Contents(g[k].to) = Contents(from)
                   /\ Size(g[k].from) = len - k
           K == {k \in 0 .. len : P(k)}
<1>3. 0 \in K
    <2>1. P(0)
        BY <1>1, <1>2
    <2> HIDE DEF P
    <2> QED  BY <2>1
<1>4. ASSUME NEW k \in 1 .. len, k - 1 \in K PROVE k \in K
    <2>1. PICK x \in {g[k - 1]}, y \in {g[k]} : y = Move(x)
        BY <1>2
    <2>2. PICK n \in Nat : n = len - (k - 1) /\ n > 0 /\ n - 1 = len - k
        OBVIOUS
    <2>3. P(k - 1)
        <3> HIDE DEF P
        <3> QED  BY <1>4
    <2>4. /\ Valid(x.from) /\ Valid(x.to) /\ StartOf(x.to) = 0
          /\ Contents(x.from) \cap Contents(x.to) = {}
          /\ Contents(x.from) \union Contents(x.to) = Contents(from)
          /\ Size(x.from) = n
        BY <2>1, <2>2, <2>3
    <2>5. Contents(x.from) # {}
        BY <2>2, <2>4, ValidIs
    <2>6. /\ Valid(y.from) /\ Valid(y.to) /\ StartOf(y.to) = 0
          /\ Contents(y.from) \cap Contents(y.to) = {}
          /\ Contents(y.from) \union Contents(y.to) = Contents(x.from) \union Contents(x.to)
          /\ Size(y.from) = Size(x.from) - 1
        BY <2>1, <2>4, <2>5, MoveKeeps
    <2>7. P(k)
        BY <2>1, <2>2, <2>4, <2>6
    <2> HIDE DEF P
    <2> QED  BY <2>7
<1>5. len \in K
    <2> HIDE DEF K
    <2> QED  BY <1>3, <1>4, Turns
<1>6. P(len)
    <2> HIDE DEF P
    <2> QED  BY <1>5
<1>7. PICK f \in {g[len].from} : Valid(f) /\ Size(f) = 0
    BY <1>6
<1>8. Contents(f) = {}
    BY <1>7, ValidIs
<1> QED  BY <1>2, <1>6, <1>7, <1>8

-----------------------------------------------------------------------------
(* The event lists implement EventList.                                    *)

\* What PeekNext returns is the event that the abstract list has first.
LEMMA PeekIsEarliest ==
    ASSUME NEW s, Valid(s)
    PROVE  (IF IsEmpty(s) THEN None ELSE PeekNext(s)) = Abstract!Earliest(Contents(s))
<1>1. PICK S : S = Contents(s)
    OBVIOUS
<1>2. S \subseteq EventKey /\ (IsEmpty(s) <=> S = {})
    BY <1>1, ValidIs
<1>3. CASE S = {}
    BY <1>1, <1>2, <1>3 DEF Abstract!Earliest
<1>4. CASE S # {}
    <2>1. PICK p : p = PeekNext(s)
        OBVIOUS
    <2>2. p \in S /\ \A b \in S \ {p} : Less(p, b)
        BY <1>1, <1>4, <2>1, PeekIsFirst DEF First
    <2>3. ASSUME NEW a \in S, \A b \in S \ {a} : Less(a, b) PROVE a = p
        BY <2>2, <2>3, <1>2, Order
    <2>4. Abstract!Earliest(S) = CHOOSE a \in S : \A b \in S \ {a} : Less(a, b)
        BY <1>4 DEF Abstract!Earliest, Abstract!Less, Less
    <2>5. Abstract!Earliest(S) = p
        BY <2>2, <2>3, <2>4
    <2> QED  BY <1>1, <1>2, <1>4, <2>1, <2>5
<1> QED  BY <1>3, <1>4

\* The data is valid, its events have different uids, which have been given
\* out, and the next day of a calendar is not past the time.
EventListInv ==
    /\ Valid(scheduler) /\ StartOf(scheduler) <= Now
    /\ uid \in Nat /\ (taken = None \/ taken \in EventKey)
    /\ \A a \in Contents(scheduler) : a.uid < uid
    /\ \A a, b \in Contents(scheduler) : a.uid = b.uid => a = b

\* The time is a number.
LEMMA NowIs ==
    ASSUME taken = None \/ taken \in EventKey PROVE Now \in Nat
BY DEF Now, EventKey

\* Schedule adds an event and keeps the invariant.
LEMMA ScheduleIs ==
    ASSUME EventListInv, NEW delay \in Delay, Schedule(delay)
    PROVE  /\ EventListInv'
           /\ \E a : /\ a \notin Contents(scheduler)
                     /\ Contents(scheduler)' = Contents(scheduler) \union {a}
<1>1. PICK s \in {scheduler}, t \in {scheduler'} : TRUE
    OBVIOUS
<1>2. PICK now \in Nat : now = Now
    BY NowIs DEF EventListInv
<1>3. delay \in Nat /\ uid \in Nat
    BY EventListsAssumption DEF EventListInv
<1>4. PICK ev \in EventKey : ev = [ts |-> now + delay, uid |-> uid]
    <2>1. now + delay \in Nat
        BY <1>3
    <2>2. [ts |-> now + delay, uid |-> uid] \in EventKey
        BY <2>1, <1>3 DEF EventKey
    <2> QED  BY ONLY <2>2
<1>5. ev.ts = now + delay /\ ev.uid = uid
    BY <1>4
<1>6. t = Insert(s, ev) /\ uid' = uid + 1 /\ taken' = taken
    BY <1>1, <1>2, <1>4 DEF Schedule
<1>7. /\ Valid(s) /\ StartOf(s) <= now
      /\ \A a \in Contents(s) : a.uid < uid
      /\ \A a, b \in Contents(s) : a.uid = b.uid => a = b
    BY <1>1, <1>2 DEF EventListInv
<1>8. Contents(s) \subseteq EventKey /\ StartOf(s) \in Nat /\ \A a \in EventKey : a.uid \in Nat
    BY <1>7, ValidIs DEF EventKey
<1>9. ev \notin Contents(s) /\ StartOf(s) <= ev.ts
    BY <1>2, <1>3, <1>5, <1>7, <1>8
<1>10. Valid(t) /\ Contents(t) = Contents(s) \union {ev} /\ StartOf(t) = StartOf(s)
    BY <1>6, <1>7, <1>9, InsertAdds
<1>11. \A a \in Contents(t) : a.uid < uid + 1
    BY <1>3, <1>5, <1>7, <1>8, <1>10
<1>12. \A a, b \in Contents(t) : a.uid = b.uid => a = b
    BY <1>3, <1>5, <1>7, <1>8, <1>10
<1>13. Now' = now
    BY <1>2, <1>6 DEF Now
<1>14. EventListInv'
    BY <1>1, <1>3, <1>6, <1>7, <1>10, <1>11, <1>12, <1>13 DEF EventListInv
<1> QED  BY <1>1, <1>9, <1>10, <1>14

\* ProcessOneEvent removes the event that PeekNext returns and keeps the invariant.
LEMMA ProcessOneEventIs ==
    ASSUME EventListInv, ProcessOneEvent
    PROVE  /\ EventListInv' /\ Contents(scheduler) # {} /\ ~ IsEmpty(scheduler)
           /\ Contents(scheduler)' = Contents(scheduler) \ {PeekNext(scheduler)}
<1>1. PICK s \in {scheduler}, t \in {scheduler'} : TRUE
    OBVIOUS
<1>2. /\ Valid(s) /\ uid \in Nat
      /\ \A a \in Contents(s) : a.uid < uid
      /\ \A a, b \in Contents(s) : a.uid = b.uid => a = b
    BY <1>1 DEF EventListInv
<1>3. PICK p : p = PeekNext(s)
    OBVIOUS
<1>4. ~ IsEmpty(s) /\ taken' = p /\ t = RemoveNext(s) /\ uid' = uid
    BY <1>1, <1>3 DEF ProcessOneEvent
<1>5. Contents(s) # {} /\ Contents(s) \subseteq EventKey
    BY <1>2, <1>4, ValidIs
<1>6. p \in EventKey
    BY <1>2, <1>3, <1>5, PeekIsFirst DEF First
<1>7. Valid(t) /\ Contents(t) = Contents(s) \ {p} /\ StartOf(t) <= p.ts
    BY <1>2, <1>3, <1>4, <1>5, RemoveNextRemoves
<1>8. Now' = p.ts
    BY <1>4, <1>6, EventListsAssumption DEF Now, EventKey
<1>9. EventListInv'
    BY <1>1, <1>2, <1>4, <1>6, <1>7, <1>8 DEF EventListInv
<1> QED  BY <1>1, <1>3, <1>4, <1>5, <1>7, <1>9

\* RemoveEvent removes its event and keeps the invariant.
LEMMA RemoveEventIs ==
    ASSUME EventListInv, RemoveFrom \subseteq {"list", "calendar"},
           NEW ev \in Contents(scheduler), RemoveEvent(ev)
    PROVE  EventListInv' /\ Contents(scheduler)' = Contents(scheduler) \ {ev}
<1>1. PICK s \in {scheduler}, t \in {scheduler'} : TRUE
    OBVIOUS
<1>2. /\ Valid(s) /\ uid \in Nat
      /\ \A a \in Contents(s) : a.uid < uid
      /\ \A a, b \in Contents(s) : a.uid = b.uid => a = b
    BY <1>1 DEF EventListInv
<1>3. /\ s.kind \in {"list", "calendar"} /\ t = RemoveThis(s, ev)
      /\ uid' = uid /\ taken' = taken
    BY <1>1 DEF RemoveEvent
<1>4. Valid(t) /\ Contents(t) = Contents(s) \ {ev} /\ StartOf(t) = StartOf(s)
    BY <1>1, <1>2, <1>3, RemoveThisRemoves
<1>5. Now' = Now
    BY <1>3 DEF Now
<1>6. EventListInv'
    BY <1>1, <1>2, <1>3, <1>4, <1>5 DEF EventListInv
<1> QED  BY <1>1, <1>4, <1>6

\* SetScheduler keeps the events and the invariant.
LEMMA SetSchedulerIs ==
    ASSUME EventListInv, NEW kind \in {"list", "heap", "calendar"}, SetScheduler(kind)
    PROVE  EventListInv' /\ Contents(scheduler)' = Contents(scheduler)
<1>1. PICK s \in {scheduler}, t \in {scheduler'} : TRUE
    OBVIOUS
<1>2. /\ Valid(s) /\ uid \in Nat
      /\ \A a \in Contents(s) : a.uid < uid
      /\ \A a, b \in Contents(s) : a.uid = b.uid => a = b
    BY <1>1 DEF EventListInv
<1>3. PICK new : new = Create(kind)
    OBVIOUS
<1>4. Valid(new) /\ Contents(new) = {} /\ StartOf(new) = 0
    BY <1>3, CreatedIsValid
<1>5. t = Moved(s, new) /\ uid' = uid /\ taken' = taken
    BY <1>1, <1>3 DEF SetScheduler
<1>6. Valid(t) /\ Contents(t) = Contents(s) /\ StartOf(t) = 0
    BY <1>2, <1>4, <1>5, MovedKeeps
<1>7. Now' = Now /\ Now \in Nat
    BY <1>5, NowIs DEF Now, EventListInv
<1>8. EventListInv'
    BY <1>1, <1>2, <1>5, <1>6, <1>7 DEF EventListInv
<1> QED  BY <1>1, <1>6, <1>8

\* ListScheduler, HeapScheduler (from which nothing is removed out of turn) and
\* CalendarScheduler are what Scheduler promises, and stay it when they are exchanged.
THEOREM SchedulersImplementEventList ==
    ASSUME RemoveFrom \subseteq {"list", "calendar"}
    PROVE  Spec => ImplementsEventList
<1> DEFINE first == IF IsEmpty(scheduler) THEN None ELSE PeekNext(scheduler)
<1>1. Init => EventListInv /\ Abstract!Init
    <2> SUFFICES ASSUME Init PROVE EventListInv /\ Abstract!Init
        OBVIOUS
    <2>1. PICK kind \in {"list", "heap", "calendar"} : scheduler = Create(kind)
        BY DEF Init
    <2>2. Valid(scheduler) /\ Contents(scheduler) = {} /\ StartOf(scheduler) = 0
        BY <2>1, CreatedIsValid
    <2>3. uid = 1 /\ taken = None
        BY DEF Init
    <2>4. IsEmpty(scheduler)
        BY <2>2, ValidIs
    <2> QED  BY <2>2, <2>3, <2>4 DEF EventListInv, Now, Abstract!Init
<1>2. EventListInv /\ [Next]_vars
          => EventListInv' /\ [Abstract!Next]_<<Contents(scheduler), first, taken>>
    <2> SUFFICES ASSUME EventListInv, [Next]_vars
                 PROVE  EventListInv' /\ [Abstract!Next]_<<Contents(scheduler), first, taken>>
        OBVIOUS
    <2> DEFINE events == Contents(scheduler)
    <2>1. first = Abstract!Earliest(events)
        BY PeekIsEarliest DEF EventListInv
    <2>2. ASSUME EventListInv' PROVE first' = Abstract!Earliest(events')
        <3>1. PICK t : t = scheduler'
            OBVIOUS
        <3>2. Valid(t)
            BY <2>2, <3>1 DEF EventListInv
        <3>3. (IF IsEmpty(t) THEN None ELSE PeekNext(t)) = Abstract!Earliest(Contents(t))
            BY <3>2, PeekIsEarliest
        <3> QED  BY <3>1, <3>3
    <2>3. CASE \E delay \in Delay : Schedule(delay)
        <3>1. PICK delay \in Delay : Schedule(delay)
            BY <2>3
        <3>2. EventListInv' /\ \E a : a \notin events /\ events' = events \union {a}
            BY <3>1, ScheduleIs
        <3>3. first' = Abstract!Earliest(events') /\ taken' = taken
            BY <2>2, <3>1, <3>2 DEF Schedule
        <3>4. Abstract!Insert
            BY <3>2, <3>3 DEF Abstract!Insert, Abstract!Change
        <3> QED  BY <3>2, <3>4 DEF Abstract!Next
    <2>4. CASE ProcessOneEvent
        <3>1. /\ EventListInv' /\ events # {} /\ ~ IsEmpty(scheduler)
              /\ events' = events \ {PeekNext(scheduler)}
            BY <2>4, ProcessOneEventIs
        <3>2. first = PeekNext(scheduler) /\ taken' = first
            BY <3>1, <2>4 DEF ProcessOneEvent
        <3>3. first' = Abstract!Earliest(events')
            BY <2>2, <3>1
        <3>4. Abstract!RemoveNext
            BY <3>1, <3>2, <3>3 DEF Abstract!RemoveNext, Abstract!Change
        <3> QED  BY <3>1, <3>4 DEF Abstract!Next
    <2>5. CASE \E ev \in Contents(scheduler) : RemoveEvent(ev)
        <3>1. PICK ev \in Contents(scheduler) : RemoveEvent(ev)
            BY <2>5
        <3>2. EventListInv' /\ events' = events \ {ev}
            BY <3>1, RemoveEventIs
        <3>3. first' = Abstract!Earliest(events') /\ taken' = taken
            BY <2>2, <3>1, <3>2 DEF RemoveEvent
        <3>4. Abstract!Remove
            BY <3>1, <3>2, <3>3 DEF Abstract!Remove, Abstract!Change
        <3> QED  BY <3>2, <3>4 DEF Abstract!Next
    <2>6. CASE \E kind \in {"list", "heap", "calendar"} : SetScheduler(kind)
        <3>1. PICK kind \in {"list", "heap", "calendar"} : SetScheduler(kind)
            BY <2>6
        <3>2. EventListInv' /\ events' = events
            BY <3>1, SetSchedulerIs
        <3>3. first' = Abstract!Earliest(events') /\ taken' = taken
            BY <2>2, <3>1, <3>2 DEF SetScheduler
        <3>4. UNCHANGED <<Contents(scheduler), first, taken>>
            BY <2>1, <3>2, <3>3
        <3> QED  BY <3>2, <3>4
    <2>7. CASE UNCHANGED vars
        <3>1. scheduler' = scheduler /\ uid' = uid /\ taken' = taken
            BY <2>7 DEF vars
        <3>2. EventListInv'
            BY <3>1 DEF EventListInv, Now
        <3>3. UNCHANGED <<Contents(scheduler), first, taken>>
            BY <3>1
        <3> QED  BY <3>2, <3>3
    <2> QED  BY <2>3, <2>4, <2>5, <2>6, <2>7 DEF Next
<1> QED  BY <1>1, <1>2, PTL DEF Spec, ImplementsEventList, Abstract!Spec
=============================================================================
