---------------------------- MODULE BlockAck_proof ----------------------------
(***************************************************************************)
(* BlockAck for every window, sequence number space, number of MSDUs and   *)
(* size of an A-MPDU: the originator's bookkeeping, then the recipient     *)
(* against the originator, then the delivery in order that the two ends    *)
(* promise together.  The argument is about the unreduced number b that    *)
(* the start of the transmit window stands for: every number in use at the *)
(* originator is within half the space of it, and the start of the         *)
(* scoreboard stands for a number that is not ahead of it.                 *)
(***************************************************************************)
EXTENDS BlockAck, RecipientAgreement_proof

-----------------------------------------------------------------------------
(* The transmit window.                                                    *)

\* The window w starts at number b, and what is marked in it is below limit.
WindowAt(w, b, limit) ==
    /\ w \in Window /\ b \in Nat /\ 0 < b /\ limit \in Nat /\ b <= limit
    /\ w.start = SnOf(b)
    /\ \A d \in w.marked : b + d < limit

\* Advancing loses marks, and makes none.
LEMMA AdvanceKeeps ==
    ASSUME NEW w, NEW b, NEW limit, WindowAt(w, b, limit), NEW c \in Nat, b + c <= limit
    PROVE  /\ WindowAt(WindowAdvance(w, c), b + c, limit)
           /\ Marks(WindowAdvance(w, c), b + c) \subseteq Marks(w, b)
<1> DEFINE v == WindowAdvance(w, c)
<1>1. /\ w.start = SnOf(b) /\ b \in Nat /\ w.marked \subseteq 0 .. (WinSize - 1)
      /\ \A d \in w.marked : b + d < limit
    BY DEF WindowAt, Window
<1>2. v.start = SnOf(b + c)
    BY <1>1, SnOfSum DEF WindowAdvance
<1>3. v.marked = {d \in 0 .. (WinSize - 1) : d + c \in w.marked}
    BY DEF WindowAdvance
<1>4. v \in Window
    <2>1. SnOf(w.start + c) \in SeqNo
        BY <1>1, SnOfType DEF SeqNo, WindowAt, Window
    <2> QED  BY <2>1 DEF WindowAdvance, Window
<1> HIDE DEF v
<1>5. \A d \in v.marked : d \in Nat /\ d + c \in w.marked /\ (b + c) + d = b + (d + c)
    BY <1>1, <1>3
<1>6. \A d \in v.marked : (b + c) + d < limit
    BY <1>1, <1>5
<1>7. Marks(v, b + c) \subseteq Marks(w, b)
    BY <1>5 DEF Marks
<1> QED  BY <1>1, <1>2, <1>4, <1>6, <1>7 DEF WindowAt, v

\* The head of the window is found.
LEMMA FirstUnmarkedExists ==
    ASSUME NEW w \in Window
    PROVE  /\ FirstUnmarked(w) \in 0 .. WinSize /\ FirstUnmarked(w) \notin w.marked
           /\ 0 .. (FirstUnmarked(w) - 1) \subseteq w.marked
<1> DEFINE U == (0 .. WinSize) \ w.marked
<1>1. U \in SUBSET Nat /\ U # {}
    <2>1. WinSize \in U
        BY HalfOfSpace DEF Window
    <2> QED  BY <2>1
<1>2. PICK d \in U : \A e \in U : d <= e
    BY <1>1, LeastExists
<1>3. d \in 0 .. WinSize /\ d \notin w.marked
    OBVIOUS
<1>4. \A e \in 0 .. (d - 1) : e \in w.marked
    BY <1>2, <1>3, HalfOfSpace
<1> QED  BY <1>3, <1>4 DEF FirstUnmarked

\* Advancing past the marks at the head.
LEMMA AdvanceTxKeeps ==
    ASSUME NEW w, NEW b, NEW limit, WindowAt(w, b, limit)
    PROVE  \E c \in Nat : /\ b + c <= limit
                          /\ \A e \in b .. (b + c - 1) : e \in Marks(w, b)
                          /\ WindowAt(AdvanceTxWindow(w), b + c, limit)
                          /\ Marks(AdvanceTxWindow(w), b + c) \subseteq Marks(w, b)
<1> DEFINE c == FirstUnmarked(w)
<1>1. w \in Window /\ b \in Nat /\ limit \in Nat /\ b <= limit
    BY DEF WindowAt
<1>2. c \in Nat /\ 0 .. (c - 1) \subseteq w.marked
    BY <1>1, FirstUnmarkedExists
<1> HIDE DEF c
<1>3. \A e \in b .. (b + c - 1) : e - b \in w.marked /\ e = b + (e - b)
    BY <1>1, <1>2
<1>4. b + c <= limit
    <2>1. CASE c = 0
        BY <1>1, <2>1
    <2>2. CASE c # 0
        <3>1. c - 1 \in w.marked
            BY <1>2, <2>2
        <3>2. b + (c - 1) < limit
            BY <3>1 DEF WindowAt
        <3> QED  BY <1>1, <1>2, <3>2
    <2> QED  BY <2>1, <2>2
<1>5. \A e \in b .. (b + c - 1) : e \in Marks(w, b)
    BY <1>3 DEF Marks
<1>6. /\ WindowAt(WindowAdvance(w, c), b + c, limit)
      /\ Marks(WindowAdvance(w, c), b + c) \subseteq Marks(w, b)
    BY <1>2, <1>4, AdvanceKeeps
<1> QED  BY <1>2, <1>4, <1>5, <1>6 DEF AdvanceTxWindow, c

-----------------------------------------------------------------------------
(* What the originator keeps.                                              *)

\* The MPDUs that may still be looked at.
Kept(q) == q.edca \union q.expiring

\* The numbers in use, against the window that starts at b: no MPDU of the queue
\* is so old that it would seem new, none has the number of one that is marked,
\* and those outstanding are in the window.
NumbersAt(q, b, limit) ==
    /\ limit <= q.nextSeq /\ q.nextSeq <= b + WinSize
    /\ \A m \in q.edca : q.seq[m] # 0 => q.nextSeq - WinSize <= q.seq[m]
    /\ \A m \in q.expiring : q.seq[m] # 0 => b - SEQNO_SPACE_HALF_SIZE <= q.seq[m]
    /\ \A m \in Kept(q) : q.seq[m] # 0 => q.seq[m] < q.nextSeq /\ q.seq[m] \notin Marks(q.win, b)
    /\ \A m \in q.baq : b <= q.seq[m] /\ q.seq[m] < limit

At(q, b, limit) == WindowAt(q.win, b, limit) /\ NumbersAt(q, b, limit)

\* Numbers are given in the order of the queue; what has been sent has one; an
\* outstanding MPDU is in the queue.
Ordered(q) ==
    /\ \A m, k \in Kept(q) : q.seq[m] # 0 /\ q.seq[k] # 0 /\ m < k => q.seq[m] < q.seq[k]
    /\ \A m \in q.edca, k \in Kept(q) : q.seq[k] # 0 /\ m < k => q.seq[m] # 0
    /\ \A m \in q.retry \union q.inflight : q.seq[m] # 0
    /\ q.baq \subseteq q.edca /\ q.inflight \subseteq q.edca
    /\ q.expiring \intersect q.edca = {}

\* What was sent and is not in flight any more is a retry.
Resent(q) == \A m \in q.edca \ q.inflight : q.seq[m] # 0 => m \in q.retry

\* limit is a bound of the numbers that have been on the air.
Sound(q, limit) ==
    /\ q \in OriginatorType /\ Ordered(q) /\ Resent(q) /\ q.baq \subseteq q.inflight
    /\ \E b : At(q, b, limit)

\* q2 is q with fewer MPDUs: those taken out of the queue may be about to fire
\* their Expired trace, and MPDUs that have a number may be marked as retries.
Smaller(q, q2) ==
    /\ q2 \in OriginatorType /\ q2.seq = q.seq /\ q2.nextSeq = q.nextSeq
    /\ q2.edca \subseteq q.edca /\ q2.baq \subseteq q.baq \intersect q2.edca
    /\ q2.expiring \subseteq q.expiring \union q.edca /\ q2.expiring \intersect q2.edca = {}
    /\ q2.inflight \subseteq q.inflight \intersect q2.edca
    /\ \A m \in q2.retry : m \in q.retry \/ q.seq[m] # 0

LEMMA TypeFields ==
    ASSUME NEW q \in OriginatorType
    PROVE  /\ q.edca \subseteq Msdu /\ q.seq \in [Msdu -> Int] /\ q.nextSeq \in Int
           /\ q.retry \subseteq Msdu /\ q.inflight \subseteq Msdu /\ q.baq \subseteq Msdu
           /\ q.win \in Window /\ q.expiring \subseteq Msdu
           /\ \A m \in Msdu : q.seq[m] \in Int
BY DEF OriginatorType

\* Fewer MPDUs are in order too.
LEMMA SmallerOrdered ==
    ASSUME NEW q \in OriginatorType, Ordered(q), NEW q2, Smaller(q, q2)
    PROVE  Ordered(q2) /\ Kept(q2) \subseteq Kept(q)
<1>1. Kept(q2) \subseteq Kept(q)
    BY DEF Smaller, Kept
<1>2. \A m \in q2.retry \union q2.inflight : q2.seq[m] # 0
    BY DEF Smaller, Ordered
<1>3. q2.seq = q.seq /\ q2.edca \subseteq q.edca
    BY DEF Smaller
<1> QED  BY <1>1, <1>2, <1>3 DEF Ordered, Smaller

\* The window has advanced past what is no longer outstanding.
LEMMA SmallerAt ==
    ASSUME NEW q \in OriginatorType, Ordered(q), NEW q2, Smaller(q, q2), NEW b, NEW limit,
           At(q, b, limit), NEW b2, WindowAt(q2.win, b2, limit), b <= b2,
           Marks(q2.win, b2) \subseteq Marks(q.win, b), \A m \in q2.baq : b2 <= q.seq[m],
           \A m \in q2.expiring : q.seq[m] # 0 => b2 - SEQNO_SPACE_HALF_SIZE <= q.seq[m]
    PROVE  At(q2, b2, limit)
<1>1. Kept(q2) \subseteq Kept(q) /\ b \in Nat /\ b2 \in Nat /\ q.nextSeq \in Int
    BY SmallerOrdered, TypeFields DEF At, WindowAt
<1>2. limit <= q2.nextSeq /\ q2.nextSeq <= b2 + WinSize
    BY <1>1, HalfOfSpace DEF At, NumbersAt, Smaller
<1>3. q2.seq = q.seq /\ q2.nextSeq = q.nextSeq /\ q2.edca \subseteq q.edca /\ q2.baq \subseteq q.baq
    BY DEF Smaller
<1> QED  BY <1>1, <1>2, <1>3 DEF At, NumbersAt

\* If the window has not moved.
LEMMA SmallerStill ==
    ASSUME NEW q \in OriginatorType, Ordered(q), NEW q2, Smaller(q, q2), NEW b, NEW limit,
           At(q, b, limit), q2.win = q.win
    PROVE  At(q2, b, limit)
<1>1. q \in OriginatorType /\ Ordered(q) /\ q2 \in OriginatorType
    BY DEF Smaller
<1>2. At(q, b, limit)
    OBVIOUS
<1>3. ASSUME NEW m \in q2.expiring, q.seq[m] # 0 PROVE b - SEQNO_SPACE_HALF_SIZE <= q.seq[m]
    <2>1. CASE m \in q.expiring
        BY <1>2, <1>3, <2>1 DEF At, NumbersAt
    <2>2. CASE m \in q.edca
        <3>1. /\ q.nextSeq - WinSize <= q.seq[m] /\ limit <= q.nextSeq /\ b <= limit
              /\ b \in Nat /\ limit \in Nat /\ q.nextSeq \in Int /\ q.seq[m] \in Int
            BY <1>1, <1>2, <1>3, <2>2, TypeFields DEF At, NumbersAt, WindowAt
        <3> QED  BY <3>1, HalfOfSpace
    <2> QED  BY <2>1, <2>2 DEF Smaller
<1>4. \A m \in q2.baq : b <= q.seq[m]
    BY <1>2 DEF At, NumbersAt, Smaller
<1>5. WindowAt(q2.win, b, limit) /\ b <= b /\ Marks(q2.win, b) \subseteq Marks(q.win, b)
    BY <1>2 DEF At, WindowAt
<1> QED  BY <1>1, <1>2, <1>3, <1>4, <1>5, SmallerAt

\* What QosUtilsIsOldPacket and GetDistance say of the numbers in use.
LEMMA AgeOf ==
    ASSUME NEW q \in OriginatorType, NEW b, NEW limit, At(q, b, limit), NEW m \in Msdu,
           b - SEQNO_SPACE_HALF_SIZE <= q.seq[m], q.seq[m] < q.nextSeq
    PROVE  /\ IsOld(q, m) <=> q.seq[m] < b
           /\ b <= q.seq[m] => Distance(q, m) = q.seq[m] - b /\ Distance(q, m) < WinSize
<1>1. /\ q.seq[m] \in Int /\ b \in Nat /\ q.nextSeq \in Int /\ q.nextSeq <= b + WinSize
      /\ q.win.start = SnOf(b)
    BY TypeFields DEF At, WindowAt, NumbersAt
<1>2. q.seq[m] < b + SEQNO_SPACE_SIZE
    BY <1>1, HalfOfSpace
<1>3. GetDistance(SnOf(q.seq[m]), SnOf(b))
        = IF b <= q.seq[m] THEN q.seq[m] - b ELSE SEQNO_SPACE_SIZE + q.seq[m] - b
    BY <1>1, <1>2, DistanceValue
<1>4. IsOld(q, m) <=> GetDistance(SnOf(q.seq[m]), SnOf(b)) >= SEQNO_SPACE_HALF_SIZE
    BY <1>1 DEF IsOld, IsOldPacket, OSn
<1>5. Distance(q, m) = GetDistance(SnOf(q.seq[m]), SnOf(b))
    BY <1>1 DEF Distance, OSn
<1> QED  BY <1>1, <1>3, <1>4, <1>5, HalfOfSpace

\* That of an MPDU of the queue.
LEMMA QueuedAge ==
    ASSUME NEW q \in OriginatorType, NEW b, NEW limit, At(q, b, limit), NEW m \in Msdu,
           q.nextSeq - WinSize <= q.seq[m], q.seq[m] < q.nextSeq
    PROVE  /\ IsOld(q, m) <=> q.seq[m] < b
           /\ b <= q.seq[m] => Distance(q, m) = q.seq[m] - b /\ Distance(q, m) < WinSize
<1>1. /\ q.seq[m] \in Int /\ b \in Nat /\ q.nextSeq \in Int /\ limit \in Nat
      /\ b <= limit /\ limit <= q.nextSeq
    BY TypeFields DEF At, WindowAt, NumbersAt
<1>2. b - SEQNO_SPACE_HALF_SIZE <= q.seq[m]
    BY <1>1, HalfOfSpace
<1> QED  BY <1>2, AgeOf

-----------------------------------------------------------------------------
(* How the window moves.                                                   *)

\* A BlockAckReq is queued, or will be with the next data.
Pending(q) == q.bar = "queued" \/ q.barIfData

\* The numbers marked in the window, and those of A that are marked next.
Covered(q, b, A) == Marks(q.win, b) \union {q.seq[m] : m \in A}

\* The window moves from b to b2 as the MPDUs of A are acknowledged: nothing else is
\* marked, and what it passes is marked unless a BlockAckReq is to announce it.
Moves(q, b, q2, b2, A) ==
    /\ b <= b2 /\ Marks(q2.win, b2) \subseteq Covered(q, b, A)
    /\ Pending(q) => Pending(q2)
    /\ Pending(q2) \/ b .. (b2 - 1) \subseteq Covered(q, b, A)
    /\ q.retry \subseteq q2.retry

Moved(q, q2, A, limit) ==
    \E b, b2 \in Nat : At(q, b, limit) /\ At(q2, b2, limit) /\ Moves(q, b, q2, b2, A)

\* The window has not moved.
StaysPut(q, q2) ==
    /\ q2.win = q.win /\ q.retry \subseteq q2.retry
    /\ Pending(q) => Pending(q2)

LEMMA StaysPutMoves ==
    ASSUME NEW q, NEW q2, StaysPut(q, q2), NEW b \in Nat
    PROVE  Moves(q, b, q2, b, {})
<1>1. b .. (b - 1) = {}
    OBVIOUS
<1> QED  BY <1>1 DEF StaysPut, Moves, Covered

\* Two moves in a row.
LEMMA MovesTwice ==
    ASSUME NEW q, NEW b \in Nat, NEW q2, NEW b2 \in Nat, NEW q3, NEW b3 \in Nat, NEW A, NEW C,
           Moves(q, b, q2, b2, A), Moves(q2, b2, q3, b3, C),
           C = {} \/ q2.seq = q.seq
    PROVE  Moves(q, b, q3, b3, A \union C)
<1>1. /\ b <= b2 /\ b2 <= b3 /\ b <= b3
    BY DEF Moves
<1>2. Covered(q, b, A) \subseteq Covered(q, b, A \union C)
    BY DEF Covered
<1>3. Covered(q2, b2, C) \subseteq Covered(q, b, A \union C)
    <2>1. Covered(q2, b2, C) = Marks(q2.win, b2) \union {q.seq[m] : m \in C}
        <3>1. CASE C = {}
            BY <3>1 DEF Covered
        <3>2. CASE q2.seq = q.seq
            BY <3>2 DEF Covered
        <3> QED  BY <3>1, <3>2
    <2>2. Marks(q2.win, b2) \subseteq Covered(q, b, A \union C)
        BY <1>2 DEF Moves
    <2> QED  BY <2>1, <2>2 DEF Covered
<1>4. Marks(q3.win, b3) \subseteq Covered(q, b, A \union C)
    BY <1>3 DEF Moves
<1>5. (Pending(q) => Pending(q3)) /\ q.retry \subseteq q3.retry
    BY DEF Moves
<1>6. ASSUME ~ Pending(q3) PROVE b .. (b3 - 1) \subseteq Covered(q, b, A \union C)
    <2>1. /\ b .. (b2 - 1) \subseteq Covered(q, b, A)
          /\ b2 .. (b3 - 1) \subseteq Covered(q2, b2, C)
        BY <1>6 DEF Moves
    <2>2. \A e \in b .. (b3 - 1) : e \in b .. (b2 - 1) \/ e \in b2 .. (b3 - 1)
        OBVIOUS
    <2> QED  BY <1>2, <1>3, <2>1, <2>2
<1> QED  BY <1>1, <1>4, <1>5, <1>6 DEF Moves

LEMMA MovesThenStays ==
    ASSUME NEW q, NEW b \in Nat, NEW q2, NEW b2 \in Nat, NEW q3, NEW A,
           Moves(q, b, q2, b2, A), StaysPut(q2, q3), q2.seq = q.seq
    PROVE  Moves(q, b, q3, b2, A)
<1>1. Moves(q2, b2, q3, b2, {})
    BY StaysPutMoves
<1>2. Moves(q, b, q3, b2, A \union {})
    BY <1>1, MovesTwice
<1>3. A \union {} = A
    OBVIOUS
<1> QED  BY <1>2, <1>3

LEMMA StaysThenMoves ==
    ASSUME NEW q, NEW b \in Nat, NEW q2, NEW b2 \in Nat, NEW q3, NEW A,
           StaysPut(q, q2), q2.seq = q.seq, Moves(q2, b, q3, b2, A)
    PROVE  Moves(q, b, q3, b2, A)
<1>1. Moves(q, b, q2, b, {})
    BY StaysPutMoves
<1>2. Moves(q, b, q3, b2, {} \union A)
    BY <1>1, MovesTwice
<1>3. {} \union A = A
    OBVIOUS
<1> QED  BY <1>2, <1>3

\* The number that the start of the window stands for is the only one.
LEMMA UniqueStart ==
    ASSUME NEW q \in OriginatorType, NEW q2 \in OriginatorType, NEW b, NEW b2, NEW limit, NEW limit2,
           At(q, b, limit), At(q2, b2, limit2), q2.win.start = q.win.start,
           limit <= q2.nextSeq, limit2 <= q.nextSeq
    PROVE  b = b2
<1>1. /\ b \in Nat /\ b2 \in Nat /\ limit \in Nat /\ limit2 \in Nat /\ b <= limit /\ b2 <= limit2
      /\ q.nextSeq \in Int /\ q2.nextSeq \in Int /\ q.nextSeq <= b + WinSize
      /\ q2.nextSeq <= b2 + WinSize /\ SnOf(b) = SnOf(b2)
    BY TypeFields DEF At, WindowAt, NumbersAt
<1>2. b <= b2 + WinSize /\ b2 <= b + WinSize
    BY <1>1, HalfOfSpace
<1>3. b < b2 + SEQNO_SPACE_SIZE /\ b2 < b + SEQNO_SPACE_SIZE
    BY <1>1, <1>2, HalfOfSpace
<1> QED  BY <1>1, <1>3, SnOfInjective

LEMMA MovedTwice ==
    ASSUME NEW q \in OriginatorType, NEW q2 \in OriginatorType, NEW q3, NEW limit, NEW A, NEW C,
           Moved(q, q2, A, limit), Moved(q2, q3, C, limit), q2.seq = q.seq
    PROVE  Moved(q, q3, A \union C, limit)
<1>1. PICK b \in Nat, b2 \in Nat : At(q, b, limit) /\ At(q2, b2, limit) /\ Moves(q, b, q2, b2, A)
    BY DEF Moved
<1>2. PICK c \in Nat, b3 \in Nat : At(q2, c, limit) /\ At(q3, b3, limit) /\ Moves(q2, c, q3, b3, C)
    BY DEF Moved
<1>3. c = b2
    BY <1>1, <1>2, UniqueStart DEF At, NumbersAt
<1>4. Moves(q, b, q3, b3, A \union C)
    BY <1>1, <1>2, <1>3, MovesTwice
<1> QED  BY <1>1, <1>2, <1>4 DEF Moved

\* Both states are sound, and the window is the same.
LEMMA StaysMoved ==
    ASSUME NEW q, NEW q2, NEW limit, Sound(q, limit), Sound(q2, limit), StaysPut(q, q2)
    PROVE  Moved(q, q2, {}, limit)
<1>1. q \in OriginatorType /\ q2 \in OriginatorType
    BY DEF Sound
<1>2. PICK b, b2 : At(q, b, limit) /\ At(q2, b2, limit)
    BY DEF Sound
<1>3. q2.win.start = q.win.start /\ limit <= q2.nextSeq /\ limit <= q.nextSeq
    BY <1>2 DEF StaysPut, At, NumbersAt
<1>4. b = b2 /\ b \in Nat
    BY <1>1, <1>2, <1>3, UniqueStart DEF At, WindowAt
<1>5. Moves(q, b, q2, b, {})
    BY <1>4, StaysPutMoves
<1> QED  BY <1>2, <1>4, <1>5 DEF Moved

\* An operation that hands out no number, and queues nothing.
Proceeds(q, q2, A) ==
    /\ q2.seq = q.seq /\ q2.nextSeq = q.nextSeq /\ q2.edca \subseteq q.edca
    /\ Moved(q, q2, A, q.nextSeq)

LEMMA ProceedsTwice ==
    ASSUME NEW q \in OriginatorType, NEW q2 \in OriginatorType, NEW q3, NEW A, NEW C,
           Proceeds(q, q2, A), Proceeds(q2, q3, C)
    PROVE  Proceeds(q, q3, A \union C)
BY MovedTwice DEF Proceeds

LEMMA ThenProceeds ==
    ASSUME NEW q \in OriginatorType, NEW q2 \in OriginatorType, NEW q3, NEW A,
           Proceeds(q, q2, A), Proceeds(q2, q3, {})
    PROVE  Proceeds(q, q3, A)
<1>1. Proceeds(q, q3, A \union {})
    BY ProceedsTwice
<1>2. A \union {} = A
    OBVIOUS
<1> QED  BY <1>1, <1>2

LEMMA StaysProceeds ==
    ASSUME NEW q, NEW q2, Sound(q, q.nextSeq), Sound(q2, q.nextSeq), StaysPut(q, q2),
           q2.seq = q.seq, q2.nextSeq = q.nextSeq, q2.edca \subseteq q.edca
    PROVE  Proceeds(q, q2, {})
BY StaysMoved DEF Proceeds

-----------------------------------------------------------------------------
(* The operations of the originator.                                       *)

\* The outstanding MPDUs of gone are given up, and a BlockAckReq announces it.
GaveUp(q, q2, gone) ==
    /\ q2 \in OriginatorType /\ gone \subseteq q.baq
    /\ q2.edca = q.edca \ gone /\ q2.inflight = q.inflight \ gone /\ q2.baq = q.baq \ gone
    /\ q2.seq = q.seq /\ q2.nextSeq = q.nextSeq /\ q2.retry = q.retry
    /\ q2.expiring = q.expiring /\ q2.barIfData = q.barIfData
    /\ q2.bar = "queued" \/ (gone = {} /\ q2.bar = q.bar)

LEMMA GaveUpSmaller ==
    ASSUME NEW q \in OriginatorType, Ordered(q), NEW q2, NEW gone, GaveUp(q, q2, gone)
    PROVE  Smaller(q, q2)
BY DEF GaveUp, Smaller, Ordered

LEMMA DequeueFields ==
    ASSUME NEW q \in OriginatorType, NEW M
    PROVE  LET q2 == Dequeue(q, M)
           IN  /\ q2 \in OriginatorType /\ q2.edca = q.edca \ M /\ q2.inflight = q.inflight \ M
               /\ q2.seq = q.seq /\ q2.nextSeq = q.nextSeq /\ q2.retry = q.retry
               /\ q2.baq = q.baq /\ q2.win = q.win /\ q2.bar = q.bar /\ q2.barIfData = q.barIfData
               /\ q2.expiring = q.expiring /\ q2.explicitBar = q.explicitBar
BY DEF Dequeue, OriginatorType

\* NotifyDiscardedMpdu: the window moves past the MPDU, and what it passes is
\* given up.  Those about to be discarded come later.
LEMMA DiscardAt ==
    ASSUME NEW q \in OriginatorType, Ordered(q), NEW b, NEW limit, At(q, b, limit), NEW m \in Msdu,
           m \in q.retry \union q.inflight =>
              /\ b - SEQNO_SPACE_HALF_SIZE <= q.seq[m] /\ q.seq[m] < limit
              /\ \A k \in q.expiring : q.seq[k] # 0 => q.seq[m] < q.seq[k],
           NEW q2, q2 = NotifyDiscardedMpdu(q, m)
    PROVE  \E b2 \in Nat, gone \in SUBSET q.baq :
              /\ GaveUp(q, q2, gone)
              /\ At(q2, b2, limit) /\ b <= b2 /\ \A k \in gone : q.seq[k] < b2
              /\ m \in q.retry \union q.inflight => q.seq[m] < b2
              /\ Moves(q, b, q2, b2, {}) /\ (q2.bar = "queued" \/ q2 = q)
<1>1. /\ b \in Nat /\ limit \in Nat /\ q.nextSeq \in Int /\ q.win \in Window /\ limit <= q.nextSeq
      /\ q.nextSeq <= b + WinSize /\ WindowAt(q.win, b, limit) /\ q.seq[m] \in Int
    BY TypeFields DEF At, WindowAt, NumbersAt
<1>0. Moves(q, b, q, b, {})
    BY <1>1, StaysPutMoves DEF StaysPut
<1>2. CASE m \notin q.retry /\ m \notin q.inflight
    <2>1. q2 = q
        BY <1>2 DEF NotifyDiscardedMpdu
    <2>2. GaveUp(q, q2, {}) /\ {} \in SUBSET q.baq
        BY <2>1 DEF GaveUp
    <2> QED  BY <1>0, <1>1, <1>2, <2>1, <2>2
<1>3. CASE m \in q.retry \union q.inflight
    <2>1. b - SEQNO_SPACE_HALF_SIZE <= q.seq[m] /\ q.seq[m] < limit /\ q.seq[m] < q.nextSeq
        BY <1>1, <1>3
    <2>2. /\ IsOld(q, m) <=> q.seq[m] < b
          /\ b <= q.seq[m] => Distance(q, m) = q.seq[m] - b
        BY <2>1, AgeOf
    <2>3. CASE IsOld(q, m)
        <3>1. q2 = q
            BY <2>3 DEF NotifyDiscardedMpdu
        <3>2. GaveUp(q, q2, {}) /\ {} \in SUBSET q.baq
            BY <3>1 DEF GaveUp
        <3> QED  BY <1>0, <1>1, <2>2, <2>3, <3>1, <3>2
    <2>4. CASE ~ IsOld(q, m)
        <3> DEFINE s == q.seq[m] - b + 1
                   w == WindowAdvance(q.win, s)
                   win == AdvanceTxWindow(w)
                   gone == {k \in q.baq : IsOldPacket(win.start, OSn(q, k))}
        <3>1. Distance(q, m) + 1 = s /\ s \in Nat /\ b + s = q.seq[m] + 1 /\ b + s <= limit
            BY <1>1, <2>1, <2>2, <2>4
        <3>2. q2 = [Dequeue(q, gone) EXCEPT !.baq = @ \ gone, !.win = win, !.bar = "queued"]
            BY <1>3, <2>4, <3>1 DEF NotifyDiscardedMpdu
        <3>3. WindowAt(w, b + s, limit) /\ Marks(w, b + s) \subseteq Marks(q.win, b)
            BY <1>1, <3>1, AdvanceKeeps
        <3> HIDE DEF s, w
        <3>4. PICK c \in Nat : /\ b + s + c <= limit
                               /\ \A e \in b + s .. (b + s + c - 1) : e \in Marks(w, b + s)
                               /\ WindowAt(win, b + s + c, limit)
                               /\ Marks(win, b + s + c) \subseteq Marks(w, b + s)
            BY <3>3, AdvanceTxKeeps
        <3> DEFINE b2 == b + s + c
        <3>5. b2 \in Nat /\ b <= b2 /\ q.seq[m] < b2 /\ b2 <= limit
            BY <1>1, <3>1, <3>4
        <3>6. b2 <= b + WinSize
            <4> HIDE DEF b2
            <4> QED  BY <1>1, <3>5, HalfOfSpace
        <3>7. \A k \in q.baq : k \in gone <=> q.seq[k] < b2
            <4> SUFFICES ASSUME NEW k \in q.baq PROVE k \in gone <=> q.seq[k] < b2
                OBVIOUS
            <4>1. k \in q.edca /\ k \in Msdu /\ q.seq[k] \in Int /\ b <= q.seq[k] /\ b > 0
                BY <1>1, TypeFields DEF Ordered, At, NumbersAt, WindowAt
            <4>2. q.nextSeq - WinSize <= q.seq[k] /\ q.seq[k] < q.nextSeq
                BY <1>1, <4>1 DEF At, NumbersAt, Kept
            <4>3. b2 - SEQNO_SPACE_HALF_SIZE <= q.seq[k] /\ q.seq[k] < b2 + SEQNO_SPACE_SIZE
                BY <1>1, <3>5, <3>6, <4>1, <4>2, HalfOfSpace
            <4>4. win.start = SnOf(b2)
                BY <3>4 DEF WindowAt
            <4>5. GetDistance(SnOf(q.seq[k]), SnOf(b2))
                    = IF b2 <= q.seq[k] THEN q.seq[k] - b2 ELSE SEQNO_SPACE_SIZE + q.seq[k] - b2
                BY <3>5, <4>1, <4>3, DistanceValue
            <4>6. k \in gone <=> GetDistance(SnOf(q.seq[k]), SnOf(b2)) >= SEQNO_SPACE_HALF_SIZE
                BY <4>4 DEF IsOldPacket, OSn
            <4>7. q.seq[k] < b2 + SEQNO_SPACE_HALF_SIZE
                BY <1>1, <3>5, <4>1, <4>2, HalfOfSpace
            <4> HIDE DEF b2, gone
            <4> QED  BY <3>5, <4>1, <4>3, <4>5, <4>6, <4>7, HalfOfSpace
        <3>8. win \in Window
            BY <3>4 DEF WindowAt
        <3> HIDE DEF gone, win
        <3>9. gone \in SUBSET q.baq
            BY DEF gone
        <3>10. /\ q2.edca = q.edca \ gone /\ q2.inflight = q.inflight \ gone
               /\ q2.baq = q.baq \ gone /\ q2.win = win
            BY <3>2 DEF Dequeue, OriginatorType
        <3>11. GaveUp(q, q2, gone)
            <4>1. q2 \in OriginatorType
                <5> DEFINE q1 == Dequeue(q, gone)
                <5>1. q1 \in OriginatorType
                    BY DequeueFields
                <5> HIDE DEF q1
                <5>2. [q1 EXCEPT !.baq = @ \ gone, !.win = win, !.bar = "queued"] \in OriginatorType
                    BY <3>8, <5>1 DEF OriginatorType
                <5>3. q2 = [q1 EXCEPT !.baq = @ \ gone, !.win = win, !.bar = "queued"]
                    BY <3>2 DEF q1
                <5> QED  BY <5>2, <5>3
            <4>2. /\ q2.seq = q.seq /\ q2.nextSeq = q.nextSeq /\ q2.retry = q.retry
                  /\ q2.expiring = q.expiring /\ q2.barIfData = q.barIfData /\ q2.bar = "queued"
                BY <3>2 DEF Dequeue, OriginatorType
            <4> QED  BY <3>9, <3>10, <4>1, <4>2 DEF GaveUp
        <3>12. Smaller(q, q2)
            BY <3>11, GaveUpSmaller
        <3>13. \A k \in q2.baq : b2 <= q.seq[k]
            <4> SUFFICES ASSUME NEW k \in q2.baq PROVE b2 <= q.seq[k]
                OBVIOUS
            <4>1. k \in q.baq /\ k \notin gone /\ k \in Msdu /\ q.seq[k] \in Int
                BY <3>10, TypeFields
            <4> QED  BY <3>5, <3>7, <4>1
        <3>14. \A k \in q2.expiring : q.seq[k] # 0 => b2 - SEQNO_SPACE_HALF_SIZE <= q.seq[k]
            <4> SUFFICES ASSUME NEW k \in q2.expiring, q.seq[k] # 0
                         PROVE  b2 - SEQNO_SPACE_HALF_SIZE <= q.seq[k]
                OBVIOUS
            <4>1. k \in q.expiring /\ k \in Msdu /\ q.seq[k] \in Int
                BY <3>11, TypeFields DEF GaveUp
            <4>2. q.seq[m] < q.seq[k]
                BY <1>3, <4>1
            <4>3. b <= q.seq[m]
                BY <1>1, <2>2, <2>4
            <4> QED  BY <1>1, <3>5, <3>6, <4>1, <4>2, <4>3, HalfOfSpace
        <3>15. At(q2, b2, limit)
            <4>1. WindowAt(q2.win, b2, limit) /\ Marks(q2.win, b2) \subseteq Marks(q.win, b)
                BY <3>3, <3>4, <3>10
            <4> HIDE DEF b2
            <4> QED  BY <3>5, <3>12, <3>13, <3>14, <4>1, SmallerAt
        <3>16. \A k \in gone : q.seq[k] < b2
            BY <3>7, <3>9
        <3>17. q2.bar = "queued" /\ Moves(q, b, q2, b2, {})
            <4>1. q2.bar = "queued" /\ q2.retry = q.retry /\ b <= b2
                BY <3>2, <3>5 DEF Dequeue, OriginatorType
            <4>2. Marks(q2.win, b2) \subseteq Marks(q.win, b)
                BY <3>3, <3>4, <3>10
            <4> HIDE DEF b2
            <4> QED  BY <4>1, <4>2 DEF Moves, Covered, Pending
        <3> QED  BY <3>5, <3>9, <3>11, <3>15, <3>16, <3>17
    <2> QED  BY <2>3, <2>4
<1> QED  BY <1>2, <1>3

\* Of the outstanding MPDUs, gone are given up and back are to be sent again.
Handled(q, q2, gone, back) ==
    /\ q2 \in OriginatorType /\ gone \subseteq q.baq /\ back \subseteq q.baq
    /\ q2.edca = q.edca \ gone /\ q2.inflight = q.inflight \ (gone \union back)
    /\ q2.baq = q.baq \ (gone \union back)
    /\ q2.seq = q.seq /\ q2.nextSeq = q.nextSeq
    /\ q.retry \union back \subseteq q2.retry /\ q2.retry \subseteq q.retry \union q.baq
    /\ q2.expiring = q.expiring /\ q2.barIfData = q.barIfData
    /\ q2.bar = "queued" \/ (gone = {} /\ q2.bar = q.bar)

LEMMA HandledSmaller ==
    ASSUME NEW q \in OriginatorType, Ordered(q), NEW q2, NEW gone, NEW back,
           Handled(q, q2, gone, back), back \intersect gone = {}, NEW b, NEW limit, At(q, b, limit)
    PROVE  Smaller(q, q2)
<1>1. \A m \in q.baq : m \in Msdu /\ q.seq[m] \in Int /\ 0 < b /\ b \in Nat /\ b <= q.seq[m]
    BY TypeFields DEF At, NumbersAt, WindowAt
<1>2. \A m \in q.baq : q.seq[m] # 0
    BY <1>1
<1>3. \A m \in q2.retry : m \in q.retry \/ q.seq[m] # 0
    BY <1>2 DEF Handled
<1>4. q2.baq \subseteq q.baq \intersect q2.edca
    BY DEF Handled, Ordered
<1>5. q2.inflight \subseteq q.inflight \intersect q2.edca
    BY DEF Handled, Ordered
<1>6. q2.expiring \subseteq q.expiring \union q.edca /\ q2.expiring \intersect q2.edca = {}
    BY DEF Handled, Ordered
<1> QED  BY <1>3, <1>4, <1>5, <1>6 DEF Handled, Smaller

\* What HandleInFlightMpdus does with M.
HandledAs(q, q2, M, status) ==
    \E gone, back \in SUBSET q.baq :
       /\ Handled(q, q2, gone, back) /\ back \intersect gone = {}
       /\ back \subseteq M /\ \A m \in back : m > expired
       /\ IF status = "STAY_INFLIGHT"
          THEN back = {} /\ (\A m \in M : m <= expired => m \in gone)
          ELSE M \subseteq gone \union back

\* HandleInFlightMpdus: what has expired is given up with what the window passes,
\* the rest is sent again or stays outstanding.
LEMMA HandleAt ==
    ASSUME NEW q \in OriginatorType, Ordered(q), NEW b, NEW limit, At(q, b, limit),
           q.expiring = {}, NEW M \in SUBSET q.baq, NEW status, q.baq \subseteq q.retry \union q.inflight,
           expired \in Nat, NEW q2, q2 = HandleInFlightMpdus(q, M, status)
    PROVE  /\ HandledAs(q, q2, M, status)
           /\ \E b2 \in Nat : At(q2, b2, limit) /\ Moves(q, b, q2, b2, {})
<1> DEFINE dead == {m \in M : m <= expired}
           live == M \ dead
           q1 == IF dead = {} THEN q ELSE NotifyDiscardedMpdu(q, Max(dead))
           Q == [Dequeue(q1, dead) EXCEPT !.baq = @ \ (M \ live)]
<1>0. /\ \A m \in q.baq : /\ m \in Msdu /\ m \in Nat /\ q.seq[m] \in Int /\ b <= q.seq[m]
                          /\ q.seq[m] < limit /\ b \in Nat /\ 0 < b
      /\ limit <= q.nextSeq /\ limit \in Nat /\ q.nextSeq \in Int
    BY TypeFields, BlockAckAssumption DEF At, NumbersAt, WindowAt, Msdu
<1>1. \A m \in M : ~ IsOld(q, m)
    <2> TAKE m \in M
    <2>1. b - SEQNO_SPACE_HALF_SIZE <= q.seq[m] /\ q.seq[m] < q.nextSeq /\ ~ (q.seq[m] < b)
        BY <1>0, HalfOfSpace
    <2> QED  BY <1>0, <2>1, AgeOf
<1>2. M \intersect q.edca = M
    BY DEF Ordered
<1>3. q2 = IF status = "STAY_INFLIGHT" THEN Q
           ELSE [Q EXCEPT !.baq = @ \ live, !.inflight = @ \ live, !.retry = @ \union live]
    <2> DEFINE old == {m \in M : IsOld(q, m)}
    <2>1. old = {}
        BY <1>1
    <2>2. {m \in M \ old : m <= expired} = dead
        BY <2>1
    <2>3. old \union dead = dead /\ M \ (old \union dead) = live
        BY <2>1
    <2> HIDE DEF dead, live, old
    <2> QED  BY <1>2, <2>2, <2>3 DEF HandleInFlightMpdus, old
<1>4. \E b2 \in Nat, gone \in SUBSET q.baq :
         /\ GaveUp(q, q1, gone) /\ At(q1, b2, limit) /\ b <= b2 /\ dead \subseteq gone
         /\ Moves(q, b, q1, b2, {})
    <2>1. CASE dead = {}
        <3>1. GaveUp(q, q1, {})
            BY <2>1 DEF GaveUp
        <3>2. b \in Nat /\ Moves(q, b, q, b, {})
            BY StaysPutMoves DEF At, WindowAt, StaysPut
        <3> QED  BY <2>1, <3>1, <3>2
    <2>2. CASE dead # {}
        <3>1. dead \in SUBSET Nat /\ expired \in Nat /\ (\A y \in dead : y <= expired)
            BY <1>0
        <3> DEFINE n == Max(dead)
        <3> HIDE DEF dead
        <3>2. n \in dead /\ \A y \in dead : y <= n
            BY <2>2, <3>1, MaxIsGreatest
        <3> HIDE DEF n
        <3> USE DEF dead
        <3>3. n \in q.baq /\ n \in Msdu /\ n \in q.retry \union q.inflight
            BY <1>0, <3>2
        <3>4. b - SEQNO_SPACE_HALF_SIZE <= q.seq[n] /\ q.seq[n] < limit
            BY <1>0, <3>3, HalfOfSpace
        <3>5. \A k \in q.expiring : q.seq[k] # 0 => q.seq[n] < q.seq[k]
            OBVIOUS
        <3>7. q1 = NotifyDiscardedMpdu(q, n)
            BY <2>2 DEF n
        <3> HIDE DEF q1
        <3>6. PICK b2 \in Nat, gone \in SUBSET q.baq :
                 /\ GaveUp(q, q1, gone) /\ At(q1, b2, limit) /\ b <= b2
                 /\ n \in q.retry \union q.inflight => q.seq[n] < b2
                 /\ Moves(q, b, q1, b2, {})
            BY <3>3, <3>4, <3>5, <3>7, DiscardAt
        <3>8. ASSUME NEW y \in dead PROVE y \in gone
            <4>1. y \in q.baq /\ y <= n
                BY <3>2
            <4>2. q.seq[y] <= q.seq[n]
                <5>1. q.seq[y] \in Int /\ q.seq[n] \in Int /\ q.seq[y] # 0 /\ q.seq[n] # 0 /\ y \in Nat /\ n \in Nat
                    BY <1>0, <3>3, <4>1
                <5>2. y \in Kept(q) /\ n \in Kept(q)
                    BY <3>3, <4>1 DEF Kept, Ordered
                <5>3. CASE y = n
                    BY <5>1, <5>3
                <5>4. CASE y < n
                    BY <5>1, <5>2, <5>4 DEF Ordered
                <5> QED  BY <4>1, <5>1, <5>3, <5>4
            <4>3. q.seq[y] < b2 /\ ~ (b2 <= q.seq[y])
                BY <1>0, <3>3, <3>6, <4>1, <4>2
            <4>4. q1.seq = q.seq /\ q1.baq = q.baq \ gone
                BY <3>6, <3>7 DEF GaveUp
            <4>5. y \notin q1.baq
                BY <3>6, <3>7, <4>3, <4>4 DEF At, NumbersAt
            <4> QED  BY <4>1, <4>4, <4>5
        <3> QED  BY <3>6, <3>7, <3>8
    <2> QED  BY <2>1, <2>2
<1>5. PICK b2 \in Nat, gone \in SUBSET q.baq :
         /\ GaveUp(q, q1, gone) /\ At(q1, b2, limit) /\ b <= b2 /\ dead \subseteq gone
         /\ Moves(q, b, q1, b2, {})
    BY <1>4
<1>6. live \subseteq q.baq /\ \A m \in live : m > expired
    BY <1>0
<1>7. M \ live = dead
    OBVIOUS
<1> HIDE DEF q1, dead, live
<1>8. q1 \in OriginatorType
    BY <1>5 DEF GaveUp
<1>9. /\ Q \in OriginatorType /\ Q.edca = q.edca \ gone /\ Q.inflight = q.inflight \ gone
      /\ Q.baq = q.baq \ gone /\ Q.seq = q.seq /\ Q.nextSeq = q.nextSeq /\ Q.retry = q.retry
      /\ Q.expiring = q.expiring /\ Q.barIfData = q.barIfData /\ Q.win = q1.win
      /\ Q.bar = "queued" \/ (gone = {} /\ Q.bar = q.bar)
    <2> DEFINE D == Dequeue(q1, dead)
    <2>1. /\ D \in OriginatorType /\ D.edca = q1.edca \ dead /\ D.inflight = q1.inflight \ dead
          /\ D.seq = q1.seq /\ D.nextSeq = q1.nextSeq /\ D.retry = q1.retry
          /\ D.baq = q1.baq /\ D.win = q1.win /\ D.bar = q1.bar /\ D.barIfData = q1.barIfData
          /\ D.expiring = q1.expiring /\ D.explicitBar = q1.explicitBar
        BY <1>8, DequeueFields
    <2> HIDE DEF D
    <2>2. Q = [D EXCEPT !.baq = @ \ dead]
        BY <1>7 DEF D
    <2> HIDE DEF Q
    <2>3. /\ Q \in OriginatorType /\ Q.edca = D.edca /\ Q.inflight = D.inflight
          /\ Q.baq = D.baq \ dead /\ Q.seq = D.seq /\ Q.nextSeq = D.nextSeq /\ Q.retry = D.retry
          /\ Q.expiring = D.expiring /\ Q.barIfData = D.barIfData /\ Q.win = D.win /\ Q.bar = D.bar
        BY <2>1, <2>2 DEF OriginatorType
    <2> QED  BY <1>5, <2>1, <2>3 DEF GaveUp
<1> HIDE DEF Q
<1>12. /\ Q.bar = q1.bar /\ q1.seq = q.seq /\ q1.barIfData = q.barIfData /\ q1.retry = q.retry
       /\ b \in Nat
    BY <1>5, <1>8, DequeueFields DEF Q, GaveUp, OriginatorType, At, WindowAt
<1>10. CASE status = "STAY_INFLIGHT"
    <2>1. q2 = Q
        BY <1>3, <1>10
    <2>2. Handled(q, q2, gone, {})
        BY <1>9, <2>1 DEF Handled
    <2>3. Smaller(q1, q2) /\ q2.win = q1.win /\ Ordered(q1)
        <3>1. Smaller(q, q1) /\ Ordered(q1)
            BY <1>5, GaveUpSmaller, SmallerOrdered
        <3> QED  BY <1>5, <1>9, <2>1, <3>1 DEF Smaller, GaveUp, Ordered
    <2>4. At(q2, b2, limit)
        BY <1>5, <1>8, <2>3, SmallerStill
    <2>5. \A m \in M : m <= expired => m \in gone
        BY <1>5 DEF dead
    <2>6. Moves(q, b, q2, b2, {})
        <3>1. StaysPut(q1, q2)
            BY <1>9, <1>12, <2>1 DEF StaysPut, Pending
        <3> QED  BY <1>5, <1>12, <3>1, MovesThenStays
    <2>7. HandledAs(q, q2, M, status)
        BY <1>5, <1>10, <2>2, <2>5 DEF HandledAs
    <2> QED  BY <1>5, <2>4, <2>6, <2>7
<1>11. CASE status # "STAY_INFLIGHT"
    <2> DEFINE back == live \ gone
    <2>1. q2 = [Q EXCEPT !.baq = @ \ live, !.inflight = @ \ live, !.retry = @ \union live]
        BY <1>3, <1>11
    <2>2. /\ q2 \in OriginatorType /\ q2.edca = Q.edca /\ q2.inflight = Q.inflight \ live
          /\ q2.baq = Q.baq \ live /\ q2.seq = Q.seq /\ q2.nextSeq = Q.nextSeq
          /\ q2.retry = Q.retry \union live /\ q2.expiring = Q.expiring
          /\ q2.barIfData = Q.barIfData /\ q2.win = Q.win /\ q2.bar = Q.bar
        <3>1. live \subseteq Msdu /\ Q \in OriginatorType
            BY <1>0, <1>6, <1>9
        <3> DEFINE Q2 == [Q EXCEPT !.baq = @ \ live, !.inflight = @ \ live, !.retry = @ \union live]
        <3>2. Q2 \in OriginatorType
            BY <3>1 DEF OriginatorType
        <3>3. /\ Q2.edca = Q.edca /\ Q2.inflight = Q.inflight \ live
              /\ Q2.baq = Q.baq \ live /\ Q2.seq = Q.seq /\ Q2.nextSeq = Q.nextSeq
              /\ Q2.retry = Q.retry \union live /\ Q2.expiring = Q.expiring
              /\ Q2.barIfData = Q.barIfData /\ Q2.win = Q.win /\ Q2.bar = Q.bar
            BY <3>1 DEF OriginatorType
        <3>4. q2 = Q2
            BY <2>1
        <3> HIDE DEF Q2
        <3> QED  BY <3>2, <3>3, <3>4
    <2>3. Handled(q, q2, gone, back)
        BY <1>6, <1>9, <2>2 DEF Handled
    <2>4. Smaller(q1, q2) /\ q2.win = q1.win /\ Ordered(q1)
        <3>1. Smaller(q, q1) /\ Ordered(q1)
            BY <1>5, GaveUpSmaller, SmallerOrdered
        <3>2. Smaller(q, q2)
            BY <2>3, HandledSmaller
        <3>3. /\ q1.seq = q.seq /\ q1.nextSeq = q.nextSeq /\ q1.retry = q.retry
              /\ q1.edca = q.edca \ gone /\ q1.baq = q.baq \ gone
              /\ q1.inflight = q.inflight \ gone /\ q1.expiring = q.expiring
            BY <1>5 DEF GaveUp
        <3>4. q2.edca \subseteq q1.edca /\ q2.inflight \subseteq q1.inflight
            BY <1>9, <2>2, <3>3
        <3>5. q2.baq \subseteq q1.baq
            BY <1>9, <2>2, <3>3
        <3> QED  BY <1>9, <2>2, <3>1, <3>2, <3>3, <3>4, <3>5 DEF Smaller
    <2>5. At(q2, b2, limit)
        BY <1>5, <1>8, <2>4, SmallerStill
    <2>6. M \subseteq gone \union back /\ back \subseteq M /\ back \in SUBSET q.baq
        BY <1>5, <1>6 DEF live
    <2>7. back \intersect gone = {} /\ \A m \in back : m > expired
        BY <1>6
    <2>8. Moves(q, b, q2, b2, {})
        <3>1. StaysPut(q1, q2)
            BY <1>9, <1>12, <2>2 DEF StaysPut, Pending
        <3> QED  BY <1>5, <1>12, <3>1, MovesThenStays
    <2>9. HandledAs(q, q2, M, status)
        BY <1>5, <1>11, <2>3, <2>6, <2>7 DEF HandledAs
    <2> QED  BY <1>5, <2>5, <2>8, <2>9
<1> QED  BY <1>10, <1>11

\* What is known of an outstanding MPDU.
LEMMA OutstandingAge ==
    ASSUME NEW q \in OriginatorType, Ordered(q), NEW b, NEW limit, At(q, b, limit), NEW m \in q.baq
    PROVE  /\ m \in Msdu /\ q.seq[m] \in Int /\ b \in Nat /\ 0 < b /\ b <= q.seq[m] /\ q.seq[m] # 0
           /\ q.seq[m] < limit /\ limit \in Nat /\ limit <= q.nextSeq /\ q.nextSeq \in Int
           /\ ~ IsOld(q, m) /\ Distance(q, m) = q.seq[m] - b /\ Distance(q, m) < WinSize
           /\ Distance(q, m) \notin q.win.marked
<1>1. /\ m \in Msdu /\ q.seq[m] \in Int /\ b \in Nat /\ 0 < b /\ b <= q.seq[m]
      /\ q.seq[m] < limit /\ limit \in Nat /\ limit <= q.nextSeq /\ q.nextSeq \in Int
    BY TypeFields DEF At, NumbersAt, WindowAt
<1>2. b - SEQNO_SPACE_HALF_SIZE <= q.seq[m] /\ q.seq[m] < q.nextSeq /\ q.seq[m] # 0
    BY <1>1, HalfOfSpace
<1>3. ~ IsOld(q, m) /\ Distance(q, m) = q.seq[m] - b /\ Distance(q, m) < WinSize
    BY <1>1, <1>2, AgeOf
<1>4. q.seq[m] \notin Marks(q.win, b)
    BY <1>2 DEF Ordered, At, NumbersAt, Kept
<1>5. \A d \in q.win.marked : d # Distance(q, m)
    <2> SUFFICES ASSUME NEW d \in q.win.marked, d = Distance(q, m) PROVE FALSE
        OBVIOUS
    <2>1. b + d = q.seq[m]
        BY <1>1, <1>3
    <2> QED  BY <1>4, <2>1 DEF Marks
<1> QED  BY <1>1, <1>2, <1>3, <1>5

\* The numbers of two MPDUs kept differ.
LEMMA NumbersDiffer ==
    ASSUME NEW q \in OriginatorType, Ordered(q), NEW m \in Kept(q), NEW k \in Kept(q), m # k,
           q.seq[m] # 0, q.seq[k] # 0
    PROVE  q.seq[m] # q.seq[k]
<1>1. m \in Msdu /\ k \in Msdu /\ q.seq[m] \in Int /\ q.seq[k] \in Int /\ m \in Int /\ k \in Int
    BY TypeFields DEF Kept, Msdu
<1>2. m < k => q.seq[m] < q.seq[k]
    BY DEF Ordered
<1>3. k < m => q.seq[k] < q.seq[m]
    BY DEF Ordered
<1> QED  BY <1>1, <1>2, <1>3

\* The outstanding MPDUs of A leave the queue, marked in the window.
Acknowledge(q, A) ==
    [Dequeue(q, A) EXCEPT !.baq = @ \ A, !.win = NotifyAckedMpdus(@, q, A)]

\* The outstanding MPDUs of A are acknowledged: the window moves past those at its
\* head, and none of the others has the number of one that is marked.
LEMMA AckedAt ==
    ASSUME NEW q \in OriginatorType, Ordered(q), NEW b, NEW limit, At(q, b, limit),
           q.expiring = {}, NEW A \in SUBSET q.baq,
           NEW q2, q2 = Acknowledge(q, A)
    PROVE  /\ Smaller(q, q2) /\ q2.edca = q.edca \ A /\ q2.inflight = q.inflight \ A
           /\ q2.baq = q.baq \ A /\ q2.retry = q.retry /\ q2.expiring = q.expiring
           /\ q2.bar = q.bar /\ q2.barIfData = q.barIfData /\ q2.seq = q.seq
           /\ q2.nextSeq = q.nextSeq
           /\ \E b2 \in Nat : b <= b2 /\ At(q2, b2, limit) /\ Moves(q, b, q2, b2, A)
<1> DEFINE distances == {Distance(q, m) : m \in A}
           w0 == [q.win EXCEPT !.marked = @ \union distances]
           w == AdvanceTxWindow(w0)
<1>1. \A m \in q.baq : /\ m \in Msdu /\ q.seq[m] \in Int /\ b \in Nat /\ 0 < b /\ b <= q.seq[m]
                       /\ q.seq[m] # 0 /\ q.seq[m] < limit /\ ~ IsOld(q, m)
                       /\ Distance(q, m) = q.seq[m] - b /\ Distance(q, m) < WinSize
    BY OutstandingAge
<1>2. /\ b \in Nat /\ 0 < b /\ limit \in Nat /\ limit <= q.nextSeq /\ q.nextSeq \in Int
      /\ q.nextSeq <= b + WinSize /\ WindowAt(q.win, b, limit) /\ q.win \in Window
    BY TypeFields DEF At, NumbersAt, WindowAt
<1>3. NotifyAckedMpdus(q.win, q, A) = w
    <2>1. {k \in A : ~ IsOld(q, k)} = A
        BY <1>1
    <2> QED  BY <2>1 DEF NotifyAckedMpdus
<1>4. \A d \in distances : d \in 0 .. (WinSize - 1) /\ b + d < limit
    <2> SUFFICES ASSUME NEW m \in A
                 PROVE  Distance(q, m) \in 0 .. (WinSize - 1) /\ b + Distance(q, m) < limit
        OBVIOUS
    <2> QED  BY <1>1, HalfOfSpace
<1>5. w0 \in Window /\ w0.start = q.win.start /\ w0.marked = q.win.marked \union distances
    <2> HIDE DEF distances
    <2> QED  BY <1>2, <1>4 DEF Window
<1>6. WindowAt(w0, b, limit)
    <2> HIDE DEF w0, distances
    <2> QED  BY <1>2, <1>4, <1>5 DEF WindowAt
<1>7. \A x \in Marks(w0, b) : x \in Marks(q.win, b) \/ \E m \in A : x = q.seq[m]
    <2> SUFFICES ASSUME NEW d \in w0.marked
                 PROVE  b + d \in Marks(q.win, b) \/ \E m \in A : b + d = q.seq[m]
        BY DEF Marks
    <2>1. CASE d \in q.win.marked
        BY <2>1 DEF Marks
    <2>2. CASE d \in distances
        <3>1. PICK m \in A : d = Distance(q, m)
            BY <2>2
        <3>2. b + d = q.seq[m]
            BY <1>1, <1>2, <3>1
        <3> QED  BY <3>2
    <2> QED  BY <1>5, <2>1, <2>2
<1>8. PICK c \in Nat : /\ b + c <= limit
                       /\ \A e \in b .. (b + c - 1) : e \in Marks(w0, b)
                       /\ WindowAt(w, b + c, limit)
                       /\ Marks(w, b + c) \subseteq Marks(w0, b)
    <2> HIDE DEF w0
    <2> QED  BY <1>6, AdvanceTxKeeps
<1> DEFINE b2 == b + c
<1>9. b2 \in Nat /\ b <= b2
    BY <1>2, <1>8
<1>10. /\ q2 \in OriginatorType /\ q2.edca = q.edca \ A /\ q2.inflight = q.inflight \ A
       /\ q2.baq = q.baq \ A /\ q2.retry = q.retry /\ q2.expiring = q.expiring
       /\ q2.bar = q.bar /\ q2.barIfData = q.barIfData /\ q2.seq = q.seq
       /\ q2.nextSeq = q.nextSeq /\ q2.win = w
    <2> DEFINE D == Dequeue(q, A)
    <2>1. /\ D \in OriginatorType /\ D.edca = q.edca \ A /\ D.inflight = q.inflight \ A
          /\ D.seq = q.seq /\ D.nextSeq = q.nextSeq /\ D.retry = q.retry
          /\ D.baq = q.baq /\ D.win = q.win /\ D.bar = q.bar /\ D.barIfData = q.barIfData
          /\ D.expiring = q.expiring /\ D.explicitBar = q.explicitBar
        BY DequeueFields
    <2>2. w \in Window
        BY <1>8 DEF WindowAt
    <2> HIDE DEF D, w
    <2>3. q2 = [D EXCEPT !.baq = @ \ A, !.win = w]
        BY <1>3, <2>1 DEF D, Acknowledge
    <2>4. q2 = [D EXCEPT !.baq = D.baq \ A, !.win = w] /\ D.baq \ A \in SUBSET Msdu
        BY <2>1, <2>3 DEF OriginatorType
    <2> QED  BY <2>1, <2>2, <2>4, SMTT(30), ZenonT(60) DEF OriginatorType
<1> HIDE DEF w0, w, distances
<1>11. Smaller(q, q2)
    BY <1>10 DEF Smaller, Ordered
<1>12. \A m \in Kept(q2) : q.seq[m] # 0 => q.seq[m] < q.nextSeq /\ q.seq[m] \notin Marks(w0, b)
    <2> SUFFICES ASSUME NEW m \in Kept(q2), q.seq[m] # 0
                 PROVE  q.seq[m] < q.nextSeq /\ q.seq[m] \notin Marks(w0, b)
        OBVIOUS
    <2>1. m \in Kept(q) /\ m \notin A
        BY <1>10, <1>11, SmallerOrdered DEF Kept
    <2>2. q.seq[m] < q.nextSeq /\ q.seq[m] \notin Marks(q.win, b)
        BY <2>1 DEF At, NumbersAt
    <2>3. ASSUME NEW k \in A PROVE q.seq[k] # q.seq[m]
        <3>1. k \in Kept(q) /\ q.seq[k] # 0 /\ k # m
            BY <1>1, <2>1 DEF Kept, Ordered
        <3> QED  BY <2>1, <3>1, NumbersDiffer
    <2> QED  BY <1>7, <2>2, <2>3
<1>13. \A m \in q2.baq : b2 <= q.seq[m]
    <2> SUFFICES ASSUME NEW m \in q2.baq, q.seq[m] < b2 PROVE FALSE
        BY <1>1, <1>9, <1>10
    <2>1. m \in q.baq /\ m \in Kept(q2)
        BY <1>10, <1>11 DEF Smaller, Kept
    <2>2. q.seq[m] \in b .. (b + c - 1)
        BY <1>1, <1>2, <2>1
    <2>3. q.seq[m] \in Marks(w0, b) /\ q.seq[m] # 0
        BY <1>1, <1>8, <2>1, <2>2
    <2> QED  BY <1>12, <2>1, <2>3
<1>14. At(q2, b2, limit)
    <2>1. WindowAt(q2.win, b2, limit)
        BY <1>8, <1>10
    <2>2. limit <= q2.nextSeq /\ q2.nextSeq <= b2 + WinSize
        BY <1>2, <1>9, <1>10, HalfOfSpace
    <2>3. \A m \in q2.edca : q2.seq[m] # 0 => q2.nextSeq - WinSize <= q2.seq[m]
        BY <1>10 DEF At, NumbersAt
    <2>4. \A m \in Kept(q2) : q2.seq[m] # 0 => q2.seq[m] < q2.nextSeq /\ q2.seq[m] \notin Marks(q2.win, b2)
        BY <1>8, <1>10, <1>12
    <2>5. \A m \in q2.baq : b2 <= q2.seq[m] /\ q2.seq[m] < limit
        BY <1>1, <1>10, <1>13
    <2> QED  BY <1>10, <2>1, <2>2, <2>3, <2>4, <2>5 DEF At, NumbersAt
<1>15. Moves(q, b, q2, b2, A)
    <2>1. Marks(w0, b) \subseteq Covered(q, b, A)
        BY <1>7 DEF Covered
    <2>2. Marks(q2.win, b2) \subseteq Marks(w0, b)
        BY <1>8, <1>10
    <2>3. b .. (b2 - 1) \subseteq Marks(w0, b)
        <3>1. b2 - 1 = b + c - 1
            BY <1>2, <1>8
        <3> QED  BY <1>8, <3>1
    <2> HIDE DEF b2
    <2>4. b <= b2 /\ q.retry \subseteq q2.retry /\ (Pending(q) => Pending(q2))
        BY <1>9, <1>10 DEF Pending
    <2> QED  BY <2>1, <2>2, <2>3, <2>4 DEF Moves
<1> QED  BY <1>9, <1>10, <1>11, <1>14, <1>15

\* The bound of the numbers sent may be raised.
LEMMA RaiseLimit ==
    ASSUME NEW q \in OriginatorType, NEW b, NEW limit, At(q, b, limit), NEW top \in Nat,
           limit <= top, top <= q.nextSeq
    PROVE  At(q, b, top)
<1>1. /\ q.win \in Window /\ b \in Nat /\ 0 < b /\ limit \in Nat /\ b <= top /\ q.nextSeq \in Int
      /\ q.win.start = SnOf(b) /\ \A d \in q.win.marked : b + d < limit
    BY TypeFields DEF At, WindowAt
<1>2. \A d \in q.win.marked : b + d < top
    <2>1. \A d \in q.win.marked : d \in Int
        BY <1>1 DEF Window
    <2> QED  BY <1>1, <2>1
<1>3. \A m \in q.baq : b <= q.seq[m] /\ q.seq[m] < top
    <2> SUFFICES ASSUME NEW m \in q.baq PROVE b <= q.seq[m] /\ q.seq[m] < top
        OBVIOUS
    <2>1. b <= q.seq[m] /\ q.seq[m] < limit /\ q.seq[m] \in Int
        BY TypeFields DEF At, NumbersAt
    <2> QED  BY <1>1, <2>1
<1> QED  BY <1>1, <1>2, <1>3 DEF At, WindowAt, NumbersAt

\* StorePacket and NotifyTransmittedMpdu do not move the window: what is sent is
\* in it, or old.
LEMMA StoreAt ==
    ASSUME NEW q \in OriginatorType, Ordered(q), NEW b, NEW limit, At(q, b, limit),
           NEW M \in SUBSET q.edca, \A m \in M : q.seq[m] # 0
    PROVE  LET stored == {m \in M : ~ IsOld(q, m)}
               q2 == StorePackets(q, M)
           IN  /\ q2 = [q EXCEPT !.baq = @ \union stored] /\ q2 \in OriginatorType /\ Ordered(q2)
               /\ At(q2, b, q.nextSeq)
<1> DEFINE stored == {m \in M : ~ IsOld(q, m)}
           D == {Distance(q, m) : m \in stored}
           q2 == [q EXCEPT !.baq = @ \union stored]
<1>0. /\ b \in Nat /\ 0 < b /\ q.nextSeq \in Int /\ q.nextSeq <= b + WinSize /\ limit \in Nat
      /\ limit <= q.nextSeq /\ b <= limit
    BY TypeFields DEF At, WindowAt, NumbersAt
<1>1. \A m \in stored : /\ m \in Msdu /\ q.seq[m] \in Int /\ b <= q.seq[m] /\ q.seq[m] < q.nextSeq
                        /\ Distance(q, m) = q.seq[m] - b /\ Distance(q, m) \in 0 .. (WinSize - 1)
    <2> SUFFICES ASSUME NEW m \in stored
                 PROVE  /\ m \in Msdu /\ q.seq[m] \in Int /\ b <= q.seq[m] /\ q.seq[m] < q.nextSeq
                        /\ Distance(q, m) = q.seq[m] - b /\ Distance(q, m) \in 0 .. (WinSize - 1)
        OBVIOUS
    <2>1. m \in q.edca /\ m \in Msdu /\ q.seq[m] \in Int /\ q.seq[m] # 0 /\ ~ IsOld(q, m)
        BY TypeFields
    <2>2. q.nextSeq - WinSize <= q.seq[m] /\ q.seq[m] < q.nextSeq
        BY <2>1 DEF At, NumbersAt, Kept
    <2>3. /\ IsOld(q, m) <=> q.seq[m] < b
          /\ b <= q.seq[m] => Distance(q, m) = q.seq[m] - b /\ Distance(q, m) < WinSize
        BY <2>1, <2>2, QueuedAge
    <2> QED  BY <1>0, <2>1, <2>2, <2>3, HalfOfSpace
<1>2. StorePackets(q, M) = q2
    <2>1. CASE stored = {}
        <3>1. q2 = q
            BY <2>1 DEF OriginatorType
        <3> QED  BY <2>1, <3>1 DEF StorePackets
    <2>2. CASE stored # {}
        <3> HIDE DEF stored
        <3>1. D \in SUBSET Nat /\ D # {} /\ \A d \in D : d <= WinSize - 1
            BY <1>1, <2>2, HalfOfSpace
        <3>2. WinSize - 1 \in Nat
            BY HalfOfSpace
        <3> HIDE DEF D
        <3>3. Max(D) \in D
            BY <3>1, <3>2, MaxIsGreatest
        <3>4. Max(D) < WinSize
            <4>1. \A d \in D : d < WinSize
                BY <3>1, HalfOfSpace
            <4> QED  BY <3>3, <4>1
        <3>5. StorePackets(q, M)
                = [q EXCEPT !.baq = @ \union stored,
                            !.win = IF Max(D) < WinSize THEN @
                                    ELSE AdvanceTxWindow(WindowAdvance(@, Max(D) - WinSize + 1))]
            BY <2>2 DEF StorePackets, stored, D
        <3>6. StorePackets(q, M) = [q EXCEPT !.baq = @ \union stored, !.win = @]
            BY <3>4, <3>5
        <3> QED  BY <3>6 DEF OriginatorType
    <2> QED  BY <2>1, <2>2
<1> HIDE DEF D
<1>3. stored \subseteq q.edca /\ stored \subseteq Msdu
    BY <1>1
<1>4. /\ q2 \in OriginatorType /\ q2.baq = q.baq \union stored /\ q2.edca = q.edca /\ q2.seq = q.seq
      /\ q2.nextSeq = q.nextSeq /\ q2.win = q.win /\ q2.expiring = q.expiring
      /\ q2.retry = q.retry /\ q2.inflight = q.inflight
    <2> HIDE DEF stored
    <2> QED  BY <1>3 DEF OriginatorType
<1> HIDE DEF q2
<1>5. Kept(q2) = Kept(q)
    BY <1>4 DEF Kept
<1>6. Ordered(q2)
    <2> HIDE DEF stored
    <2> QED  BY <1>3, <1>4, <1>5 DEF Ordered
<1>7. q.nextSeq \in Nat
    BY <1>0
<1>8. At(q, b, q.nextSeq)
    BY <1>0, <1>7, RaiseLimit
<1>9. \A m \in q2.baq : b <= q2.seq[m] /\ q2.seq[m] < q.nextSeq
    <2>1. \A m \in q.baq : b <= q.seq[m] /\ q.seq[m] < q.nextSeq
        BY <1>8 DEF At, NumbersAt
    <2> HIDE DEF stored
    <2> QED  BY <1>1, <1>4, <2>1
<1>10. At(q2, b, q.nextSeq)
    <2>1. WindowAt(q2.win, b, q.nextSeq)
        BY <1>4, <1>8 DEF At
    <2> QED  BY <1>4, <1>5, <1>8, <1>9, <2>1 DEF At, NumbersAt
<1> QED  BY <1>2, <1>4, <1>6, <1>10 DEF q2

LEMMA SmallerSound ==
    ASSUME NEW q, NEW limit, Sound(q, limit), NEW q2, Smaller(q, q2), q2.win = q.win,
           q2.baq \subseteq q2.inflight, Resent(q2)
    PROVE  Sound(q2, limit)
<1>1. PICK b : At(q, b, limit)
    BY DEF Sound
<1>2. At(q2, b, limit)
    BY <1>1, SmallerStill DEF Sound
<1>3. q2 \in OriginatorType /\ Ordered(q2)
    BY SmallerOrdered DEF Sound, Smaller
<1> QED  BY <1>2, <1>3 DEF Sound

\* WipeAllExpiredMpdus takes out of the queue only MPDUs that are not in flight.
LEMMA WipeSound ==
    ASSUME NEW q, NEW limit, Sound(q, limit)
    PROVE  LET q2 == WipeAllExpiredMpdus(q)
           IN  /\ Sound(q2, limit) /\ q2.edca \subseteq q.edca /\ q2.inflight = q.inflight
               /\ q2.baq = q.baq /\ q2.seq = q.seq /\ q2.nextSeq = q.nextSeq /\ q2.retry = q.retry
               /\ q2.bar = q.bar /\ q2.barIfData = q.barIfData /\ q2.win = q.win
               /\ q2.expiring = q.expiring \union (q.edca \ q2.edca)
               /\ \A m \in q.edca \ q2.edca : m <= expired /\ m \notin q.inflight
               /\ expired \in Int => \A m \in q2.edca \ q2.inflight : m > expired
               /\ q2.explicitBar = q.explicitBar
<1> DEFINE X == {m \in q.edca : m <= expired /\ m \notin q.inflight}
           q2 == WipeAllExpiredMpdus(q)
<1>1. q \in OriginatorType /\ q.edca \subseteq Msdu /\ X \subseteq q.edca
    BY TypeFields DEF Sound
<1>2. /\ q2 \in OriginatorType /\ q2.edca = q.edca \ X /\ q2.inflight = q.inflight
      /\ q2.baq = q.baq /\ q2.seq = q.seq /\ q2.nextSeq = q.nextSeq /\ q2.retry = q.retry
      /\ q2.bar = q.bar /\ q2.barIfData = q.barIfData /\ q2.win = q.win
      /\ q2.expiring = q.expiring \union X /\ q2.explicitBar = q.explicitBar
    <2>1. q2 = [q EXCEPT !.edca = @ \ X, !.expiring = @ \union X]
        BY DEF WipeAllExpiredMpdus
    <2> HIDE DEF X, q2
    <2> QED  BY <1>1, <2>1 DEF OriginatorType
<1> HIDE DEF q2
<1>3. q.edca \ q2.edca = X
    BY <1>1, <1>2
<1>4. Smaller(q, q2) /\ q2.baq \subseteq q2.inflight /\ Resent(q2)
    BY <1>2 DEF Smaller, Sound, Ordered, Resent
<1>5. Sound(q2, limit)
    BY <1>2, <1>4, SmallerSound
<1>6. ASSUME expired \in Int, NEW m \in q2.edca \ q2.inflight PROVE m > expired
    <2>1. m \in Int /\ ~ (m <= expired)
        BY <1>1, <1>2, <1>6 DEF Msdu
    <2> QED  BY <1>6, <2>1
<1> QED  BY <1>1, <1>2, <1>3, <1>5, <1>6 DEF q2

\* Whatever becomes of the BlockAckReq, the MPDUs are the same.
SameMpdus(q, q2) ==
    /\ q2.edca = q.edca /\ q2.inflight = q.inflight /\ q2.baq = q.baq /\ q2.seq = q.seq
    /\ q2.nextSeq = q.nextSeq /\ q2.retry = q.retry /\ q2.win = q.win
    /\ q2.expiring = q.expiring /\ q2.explicitBar = q.explicitBar

LEMMA SameSound ==
    ASSUME NEW q, NEW limit, Sound(q, limit), NEW q2 \in OriginatorType, SameMpdus(q, q2)
    PROVE  Sound(q2, limit)
<1>1. Smaller(q, q2) /\ q2.baq \subseteq q2.inflight /\ Resent(q2) /\ q2.win = q.win
    BY DEF Smaller, Sound, Ordered, Resent, SameMpdus
<1> QED  BY <1>1, SmallerSound

LEMMA SetBar ==
    ASSUME NEW q \in OriginatorType, NEW bar \in {"none", "queued", "sent"},
           NEW q2, q2 = [q EXCEPT !.bar = bar]
    PROVE  q2 \in OriginatorType /\ SameMpdus(q, q2) /\ q2.bar = bar /\ q2.barIfData = q.barIfData
<1>1. q2 \in OriginatorType
    BY DEF OriginatorType
<1>2. SameMpdus(q, q2) /\ q2.bar = bar /\ q2.barIfData = q.barIfData
    BY DEF OriginatorType, SameMpdus
<1> QED  BY <1>1, <1>2

LEMMA SetBarIfData ==
    ASSUME NEW q \in OriginatorType, NEW ifData \in BOOLEAN,
           NEW q2, q2 = [q EXCEPT !.barIfData = ifData]
    PROVE  q2 \in OriginatorType /\ SameMpdus(q, q2) /\ q2.bar = q.bar /\ q2.barIfData = ifData
<1>1. q2 \in OriginatorType
    BY DEF OriginatorType
<1>2. SameMpdus(q, q2) /\ q2.bar = q.bar /\ q2.barIfData = ifData
    BY DEF OriginatorType, SameMpdus
<1> QED  BY <1>1, <1>2

LEMMA SetBoth ==
    ASSUME NEW q \in OriginatorType, NEW bar \in {"none", "queued", "sent"}, NEW ifData \in BOOLEAN,
           NEW q2, q2 = [q EXCEPT !.bar = bar, !.barIfData = ifData]
    PROVE  q2 \in OriginatorType /\ SameMpdus(q, q2) /\ q2.bar = bar /\ q2.barIfData = ifData
<1>1. q2 \in OriginatorType
    BY DEF OriginatorType
<1>2. SameMpdus(q, q2) /\ q2.bar = bar /\ q2.barIfData = ifData
    BY DEF OriginatorType, SameMpdus
<1> QED  BY <1>1, <1>2

\* GetBar may queue a BlockAckReq on account of m_sendBarIfDataQueued.
LEMMA GetBarSound ==
    ASSUME NEW q, NEW limit, Sound(q, limit)
    PROVE  LET q1 == WipeAllExpiredMpdus(q)
               q2 == GetBar(q)
           IN  /\ q2 \in OriginatorType /\ SameMpdus(q1, q2) /\ Sound(q2, limit)
               /\ q2.bar = q.bar \/ (q2.bar = "queued" /\ q.bar = "none")
               /\ q2.bar = "none" => q2.barIfData = q.barIfData /\ q.bar = "none"
               /\ q2.bar = "none" => ~ q2.barIfData \/ q2.edca = {}
<1> DEFINE q1 == WipeAllExpiredMpdus(q)
           q2 == GetBar(q)
<1>1. Sound(q1, limit) /\ q1 \in OriginatorType /\ q1.bar = q.bar /\ q1.barIfData = q.barIfData
    BY WipeSound DEF Sound
<1>2. q2 = IF q1.bar = "none" /\ q1.barIfData /\ q1.edca # {}
           THEN [q1 EXCEPT !.bar = "queued", !.barIfData = FALSE] ELSE q1
    BY DEF GetBar
<1> HIDE DEF q1, q2
<1>3. CASE q2 = q1 /\ ~ (q1.bar = "none" /\ q1.barIfData /\ q1.edca # {})
    <2>1. SameMpdus(q1, q2)
        BY <1>3 DEF SameMpdus
    <2> QED  BY <1>1, <1>3, <2>1 DEF q1, q2
<1>4. CASE q2 = [q1 EXCEPT !.bar = "queued", !.barIfData = FALSE] /\ q1.bar = "none"
    <2>1. q2 \in OriginatorType /\ SameMpdus(q1, q2) /\ q2.bar = "queued"
        BY <1>1, <1>4, SetBoth
    <2>2. Sound(q2, limit)
        BY <1>1, <2>1, SameSound
    <2> QED  BY <1>1, <1>4, <2>1, <2>2 DEF q1, q2
<1> QED  BY <1>2, <1>3, <1>4

\* DequeueBar.
LEMMA DequeueBarSound ==
    ASSUME NEW q, NEW limit, Sound(q, limit)
    PROVE  LET q2 == DequeueBar(q)
           IN  /\ q2 \in OriginatorType /\ SameMpdus(q, q2) /\ Sound(q2, limit)
               /\ q2.barIfData = q.barIfData /\ q2.bar # "sent"
               /\ q.bar = "queued" => q2.bar = "queued"
<1> DEFINE q2 == DequeueBar(q)
<1>1. CASE q.bar = "sent"
    <2>1. q2 = [q EXCEPT !.bar = "none"]
        BY <1>1 DEF DequeueBar
    <2>2. q \in OriginatorType
        BY DEF Sound
    <2> HIDE DEF q2
    <2>3. q2 \in OriginatorType /\ SameMpdus(q, q2) /\ q2.bar = "none" /\ q2.barIfData = q.barIfData
        BY <2>1, <2>2, SetBar
    <2> QED  BY <1>1, <2>3, SameSound DEF q2
<1>2. CASE q.bar # "sent"
    <2>1. q2 = q /\ q \in OriginatorType /\ SameMpdus(q, q)
        BY <1>2 DEF DequeueBar, Sound, SameMpdus
    <2> QED  BY <1>2, <2>1
<1> QED  BY <1>1, <1>2

\* HandleInFlightMpdus keeps the books.
LEMMA HandleSound ==
    ASSUME NEW q \in OriginatorType, Ordered(q), Resent(q), NEW b, NEW limit, At(q, b, limit),
           q.expiring = {}, NEW M \in SUBSET q.baq, NEW status,
           q.baq \subseteq q.retry \union q.inflight, q.baq \ M \subseteq q.inflight,
           status = "STAY_INFLIGHT" => M \subseteq q.inflight, expired \in Nat,
           NEW q2, q2 = HandleInFlightMpdus(q, M, status)
    PROVE  Sound(q2, limit) /\ HandledAs(q, q2, M, status) /\ Moved(q, q2, {}, limit)
<1>0. HandledAs(q, q2, M, status) /\ \E b2 \in Nat : At(q2, b2, limit) /\ Moves(q, b, q2, b2, {})
    BY HandleAt
<1>1. PICK gone \in SUBSET q.baq, back \in SUBSET q.baq :
         /\ Handled(q, q2, gone, back) /\ back \intersect gone = {}
         /\ back \subseteq M
         /\ IF status = "STAY_INFLIGHT" THEN back = {} ELSE M \subseteq gone \union back
    BY <1>0 DEF HandledAs
<1>2. Smaller(q, q2) /\ Ordered(q2) /\ q2 \in OriginatorType
    BY <1>1, HandledSmaller, SmallerOrdered DEF Smaller
<1>3. Resent(q2)
    BY <1>1 DEF Resent, Handled
<1>4. q2.baq \subseteq q2.inflight
    <2>1. q.baq \ (gone \union back) \subseteq q.inflight
        BY <1>1
    <2> QED  BY <1>1, <2>1 DEF Handled
<1>5. Moved(q, q2, {}, limit)
    BY <1>0 DEF Moved, At, WindowAt
<1> QED  BY <1>0, <1>2, <1>3, <1>4, <1>5 DEF Sound

\* For the MPDUs that are sent again.
LEMMA RetransmitSound ==
    ASSUME NEW q \in OriginatorType, Ordered(q), Resent(q), NEW limit, \E b : At(q, b, limit),
           q.expiring = {}, NEW M \in SUBSET q.baq,
           q.baq \subseteq q.retry \union q.inflight, q.baq \ M \subseteq q.inflight,
           expired \in Nat, NEW q2, q2 = HandleInFlightMpdus(q, M, "TO_RETRANSMIT")
    PROVE  /\ Sound(q2, limit) /\ Moved(q, q2, {}, limit)
           /\ \E gone, back \in SUBSET q.baq :
                 /\ Handled(q, q2, gone, back) /\ back \intersect gone = {}
                 /\ M \subseteq gone \union back /\ \A m \in back : m > expired
<1>1. PICK b : At(q, b, limit)
    OBVIOUS
<1> DEFINE status == "TO_RETRANSMIT"
<1>2. status # "STAY_INFLIGHT" /\ q2 = HandleInFlightMpdus(q, M, status)
    OBVIOUS
<1> HIDE DEF status
<1>3. Sound(q2, limit) /\ HandledAs(q, q2, M, status) /\ Moved(q, q2, {}, limit)
    BY <1>1, <1>2, HandleSound
<1> QED  BY <1>2, <1>3 DEF HandledAs

\* For the MPDUs that stay outstanding.
LEMMA StaySound ==
    ASSUME NEW q, NEW limit, Sound(q, limit), q.expiring = {}, NEW M \in SUBSET q.baq,
           expired \in Nat, NEW q2, q2 = HandleInFlightMpdus(q, M, "STAY_INFLIGHT")
    PROVE  /\ Sound(q2, limit) /\ Moved(q, q2, {}, limit)
           /\ \E gone \in SUBSET q.baq :
                 Handled(q, q2, gone, {}) /\ \A m \in M : m <= expired => m \in gone
<1>1. PICK b : At(q, b, limit)
    BY DEF Sound
<1> DEFINE status == "STAY_INFLIGHT"
<1>2. /\ status = "STAY_INFLIGHT" /\ q2 = HandleInFlightMpdus(q, M, status)
      /\ q \in OriginatorType /\ Ordered(q) /\ Resent(q) /\ q.baq \subseteq q.inflight
    BY DEF Sound
<1> HIDE DEF status
<1>3. Sound(q2, limit) /\ HandledAs(q, q2, M, status) /\ Moved(q, q2, {}, limit)
    BY <1>1, <1>2, HandleSound
<1> QED  BY <1>2, <1>3 DEF HandledAs

\* NotifyDiscardedMpdu keeps the books.
LEMMA DiscardSound ==
    ASSUME NEW q, NEW limit, Sound(q, limit), NEW b, At(q, b, limit), NEW m \in Msdu,
           m \in q.retry \union q.inflight =>
              /\ b - SEQNO_SPACE_HALF_SIZE <= q.seq[m] /\ q.seq[m] < limit
              /\ \A k \in q.expiring : q.seq[k] # 0 => q.seq[m] < q.seq[k],
           NEW q2, q2 = NotifyDiscardedMpdu(q, m)
    PROVE  \E b2 \in Nat, gone \in SUBSET q.baq :
              /\ GaveUp(q, q2, gone) /\ Sound(q2, limit) /\ At(q2, b2, limit) /\ b <= b2
              /\ \A k \in gone : q.seq[k] < b2
              /\ m \in q.retry \union q.inflight => q.seq[m] < b2
              /\ Moves(q, b, q2, b2, {}) /\ (q2.bar = "queued" \/ q2 = q)
<1>1. q \in OriginatorType /\ Ordered(q)
    BY DEF Sound
<1>2. PICK b2 \in Nat, gone \in SUBSET q.baq :
         /\ GaveUp(q, q2, gone) /\ At(q2, b2, limit) /\ b <= b2 /\ \A k \in gone : q.seq[k] < b2
         /\ m \in q.retry \union q.inflight => q.seq[m] < b2
         /\ Moves(q, b, q2, b2, {}) /\ (q2.bar = "queued" \/ q2 = q)
    BY <1>1, DiscardAt
<1>3. Smaller(q, q2) /\ Ordered(q2) /\ q2 \in OriginatorType
    BY <1>1, <1>2, GaveUpSmaller, SmallerOrdered DEF Smaller
<1>4. Resent(q2) /\ q2.baq \subseteq q2.inflight
    BY <1>2 DEF Resent, GaveUp, Sound
<1>5. Sound(q2, limit)
    BY <1>2, <1>3, <1>4 DEF Sound
<1> QED  BY <1>2, <1>5

\* MPDUs that are not outstanding may leave the queue.
LEMMA DequeueSound ==
    ASSUME NEW q, NEW limit, Sound(q, limit), NEW M, M \intersect q.baq = {}
    PROVE  Sound(Dequeue(q, M), limit)
<1> DEFINE q2 == Dequeue(q, M)
<1>1. q \in OriginatorType
    BY DEF Sound
<1>2. /\ q2 \in OriginatorType /\ q2.edca = q.edca \ M /\ q2.inflight = q.inflight \ M
      /\ q2.seq = q.seq /\ q2.nextSeq = q.nextSeq /\ q2.retry = q.retry
      /\ q2.baq = q.baq /\ q2.win = q.win /\ q2.expiring = q.expiring
    BY <1>1, DequeueFields
<1> HIDE DEF q2
<1>3. Smaller(q, q2) /\ Resent(q2) /\ q2.baq \subseteq q2.inflight
    BY <1>2 DEF Smaller, Sound, Ordered, Resent
<1> QED  BY <1>2, <1>3, SmallerSound DEF q2

-----------------------------------------------------------------------------
(* The assignment of sequence numbers.                                     *)

\* How many elements of S are below m.
Rank(S, m) == Cardinality({k \in S : k < m})

\* Ranks follow the order, without a gap.
LEMMA Ranks ==
    ASSUME NEW S \in SUBSET Nat, IsFiniteSet(S), NEW m \in S
    PROVE  /\ Rank(S, m) \in Nat /\ Cardinality(S) \in Nat /\ Rank(S, m) < Cardinality(S)
           /\ \A k \in S : m < k => Rank(S, m) < Rank(S, k)
           /\ Rank(S, m) = 0 \/ \E k \in S : k < m /\ Rank(S, m) = Rank(S, k) + 1
<1> DEFINE Below(x) == {k \in S : k < x}
<1>1. \A x \in S : IsFiniteSet(Below(x)) /\ Cardinality(Below(x)) \in Nat /\ x \notin Below(x)
    <2> TAKE x \in S
    <2>1. IsFiniteSet(Below(x))
        BY FS_Subset
    <2> QED  BY <2>1, FS_CardinalityType
<1>2. \A x \in S : /\ IsFiniteSet(Below(x) \union {x})
                   /\ Cardinality(Below(x) \union {x}) = Cardinality(Below(x)) + 1
    <2> TAKE x \in S
    <2> DEFINE B == Below(x)
    <2>1. IsFiniteSet(B) /\ x \notin B
        BY <1>1
    <2> HIDE DEF B
    <2>2. IsFiniteSet(B \union {x}) /\ Cardinality(B \union {x}) = Cardinality(B) + 1
        BY <2>1, FS_AddElement
    <2> QED  BY <2>2 DEF B
<1>3. Cardinality(S) \in Nat /\ Cardinality(Below(m)) < Cardinality(S)
    <2>1. Below(m) \union {m} \subseteq S
        OBVIOUS
    <2>2. Cardinality(Below(m) \union {m}) <= Cardinality(S) /\ Cardinality(S) \in Nat
        BY <2>1, FS_Subset, FS_CardinalityType
    <2> HIDE DEF Below
    <2> QED  BY <1>1, <1>2, <2>2
<1>4. ASSUME NEW k \in S, m < k PROVE Cardinality(Below(m)) < Cardinality(Below(k))
    <2>1. Below(m) \union {m} \subseteq Below(k)
        <3>1. m \in Int /\ k \in Int /\ \A x \in Below(m) : x \in S /\ x \in Int /\ x < m
            OBVIOUS
        <3>2. \A x \in Below(m) : x \in S /\ x < k
            BY <1>4, <3>1
        <3> QED  BY <1>4, <3>2
    <2> HIDE DEF Below
    <2>2. Cardinality(Below(m) \union {m}) <= Cardinality(Below(k))
        BY <1>1, <2>1, FS_Subset
    <2> QED  BY <1>1, <1>2, <2>2
<1>5. Cardinality(Below(m)) = 0 \/ \E k \in S : k < m /\ Cardinality(Below(m)) = Cardinality(Below(k)) + 1
    <2>1. CASE Below(m) = {}
        BY <2>1, FS_EmptySet
    <2>2. CASE Below(m) # {}
        <3>1. Below(m) \in SUBSET Nat /\ m \in Nat /\ \A y \in Below(m) : y <= m
            <4>1. m \in Nat /\ \A y \in Below(m) : y \in Nat /\ y < m
                OBVIOUS
            <4> HIDE DEF Below
            <4> QED  BY <4>1
        <3> DEFINE T == Below(m)
                   k == Max(T)
        <3> HIDE DEF T
        <3>2. k \in T /\ \A y \in T : y <= k
            BY <2>2, <3>1, MaxIsGreatest DEF T
        <3> HIDE DEF k
        <3>3. k \in S /\ k < m
            BY <3>2 DEF T
        <3>4. T = Below(k) \union {k}
            <4>1. \A y \in S : y \in Int
                OBVIOUS
            <4>2. \A y \in T : y \in S /\ (y < k \/ y = k)
                BY <3>2, <3>3, <4>1 DEF T
            <4>3. m \in Int
                OBVIOUS
            <4>4. \A y \in Below(k) : y \in S /\ y < m
                BY <3>3, <4>1, <4>3
            <4> QED  BY <3>2, <4>2, <4>4 DEF T
        <3> HIDE DEF Below
        <3> QED  BY <1>2, <3>3, <3>4 DEF T
    <2> QED  BY <2>1, <2>2
<1> QED  BY <1>1, <1>3, <1>4, <1>5 DEF Rank

\* The MPDUs of new have been given the next numbers.
Assigned(q, q2, new) ==
    /\ new \subseteq Msdu /\ IsFiniteSet(new) /\ q2.nextSeq = q.nextSeq + Cardinality(new)
    /\ \A m \in new : q.seq[m] = 0 /\ q.nextSeq <= q2.seq[m] /\ q2.seq[m] < q2.nextSeq
    /\ \A m \in Msdu \ new : q2.seq[m] = q.seq[m]

\* The PSDU P is in the window that starts at b, and in flight.
Fits(q, q2, P, b) ==
    /\ Sound(q2, q.nextSeq) /\ At(q2, b, q.nextSeq)
    /\ q2.edca = q.edca /\ q2.baq = q.baq /\ q2.retry = q.retry /\ q2.win = q.win
    /\ q2.bar = q.bar /\ q2.barIfData = q.barIfData /\ q2.expiring = q.expiring
    /\ q2.inflight = q.inflight \union P
    /\ Assigned(q, q2, P \ q.retry)
    /\ \A m \in P : q2.seq[m] # 0 /\ b <= q2.seq[m]
    /\ \A m \in Kept(q2) \ (P \ q.retry) : q2.seq[m] # 0 => q2.seq[m] < q.nextSeq

\* AssignSequenceNumber, for the MPDUs of a PSDU that have none: they get the next
\* numbers, in order, and stay in the window, so that WinSize numbers at most are
\* in use.
LEMMA AssignSound ==
    ASSUME NEW q, Sound(q, q.nextSeq), NEW b, At(q, b, q.nextSeq),
           \A m \in q.edca : q.seq[m] # 0 => ~ IsOld(q, m), expired \in Nat,
           \A m \in q.expiring : m <= expired, \A m \in q.edca \ q.inflight : m > expired,
           NEW P \in Psdus(q), NEW q2,
           q2 = [AssignSequenceNumbers(q, P) EXCEPT !.inflight = @ \union P]
    PROVE  Fits(q, q2, P, b)
<1> DEFINE new == {m \in P : q.seq[m] = 0}
           top == q.nextSeq + Cardinality(new)
           seq2 == [m \in Msdu |-> IF m \in new THEN q.nextSeq + Rank(new, m) ELSE q.seq[m]]
<1>1. /\ q \in OriginatorType /\ Ordered(q) /\ Resent(q) /\ q.baq \subseteq q.inflight
      /\ q.edca \subseteq Msdu /\ q.seq \in [Msdu -> Int] /\ q.expiring \subseteq Msdu
      /\ q.inflight \subseteq Msdu
    BY TypeFields DEF Sound
<1>2. /\ b \in Nat /\ 0 < b /\ q.nextSeq \in Nat /\ b <= q.nextSeq /\ q.nextSeq <= b + WinSize
      /\ q.win.start = SnOf(b) /\ WindowAt(q.win, b, q.nextSeq)
    BY DEF At, WindowAt, NumbersAt
<1>3. /\ P \subseteq q.edca /\ P \subseteq Msdu /\ P \intersect q.inflight = {}
      /\ \A m \in P, k \in q.edca \ q.inflight : k < m => k \in P
      /\ \A m \in P : IsInWindow(SnOf(SeqOrNext(q, m)), q.win.start, WinSize)
    BY <1>1 DEF Psdus, Ready
<1>4. new \in SUBSET Nat /\ new \subseteq Msdu /\ IsFiniteSet(new) /\ Msdu \subseteq Int
    <2>1. MaxMsdu \in Nat /\ 1 \in Int /\ MaxMsdu \in Int
        BY BlockAckAssumption
    <2>2. IsFiniteSet(Msdu)
        BY <2>1, FS_Interval DEF Msdu
    <2>3. Msdu \subseteq Nat /\ Msdu \subseteq Int
        BY <2>1 DEF Msdu
    <2>4. new \subseteq Msdu
        BY <1>3
    <2> HIDE DEF new
    <2> QED  BY <2>2, <2>3, <2>4, FS_Subset
<1>5. /\ Cardinality(new) \in Nat
      /\ \A m \in new : Rank(new, m) \in Nat /\ Rank(new, m) < Cardinality(new)
      /\ \A m, k \in new : m < k => Rank(new, m) < Rank(new, k)
      /\ \A m \in new : Rank(new, m) = 0 \/ \E k \in new : k < m /\ Rank(new, m) = Rank(new, k) + 1
    <2> HIDE DEF new
    <2> QED  BY <1>4, Ranks, FS_CardinalityType
<1>6. P \ q.retry = new
    <2>1. \A m \in P : q.seq[m] # 0 => m \in q.retry
        BY <1>1, <1>3 DEF Resent
    <2>2. \A m \in P : m \in q.retry => q.seq[m] # 0
        BY <1>1 DEF Ordered
    <2> QED  BY <2>1, <2>2
<1>7. \A m \in new : SeqOrNext(q, m) = q.nextSeq + Rank(new, m)
    <2> SUFFICES ASSUME NEW m \in new PROVE SeqOrNext(q, m) = q.nextSeq + Rank(new, m)
        OBVIOUS
    <2>1. {k \in Ready(q) : k < m /\ q.seq[k] = 0} = {k \in new : k < m}
        BY <1>3 DEF Ready
    <2> QED  BY <2>1 DEF SeqOrNext, Rank
<1>8. q2.seq = seq2 /\ q2.nextSeq = top
    <2>1. q.seq \in [Msdu -> Int]
        BY <1>1
    <2>2. AssignSequenceNumbers(q, P)
            = [q EXCEPT !.seq = [m \in Msdu |-> IF m \in new THEN SeqOrNext(q, m) ELSE @[m]],
                        !.nextSeq = @ + Cardinality(new)]
        BY DEF AssignSequenceNumbers
    <2>3. [m \in Msdu |-> IF m \in new THEN SeqOrNext(q, m) ELSE q.seq[m]] = seq2
        BY <1>7
    <2> DEFINE q1 == AssignSequenceNumbers(q, P)
    <2> HIDE DEF new, seq2
    <2>4. q1.seq = seq2 /\ q1.nextSeq = top
        BY <1>1, <2>2, <2>3 DEF OriginatorType
    <2>5. q2.seq = q1.seq /\ q2.nextSeq = q1.nextSeq
        <3>1. q1 = [q EXCEPT !.seq = q1.seq, !.nextSeq = q1.nextSeq]
            BY <1>1, <2>2 DEF OriginatorType
        <3> HIDE DEF q1
        <3> QED  BY <1>1, <3>1 DEF OriginatorType, q1
    <2> QED  BY <2>4, <2>5
<1>9. seq2 \in [Msdu -> Int] /\ top \in Nat
    <2> HIDE DEF new
    <2> QED  BY <1>1, <1>2, <1>5
<1>10. /\ q2 \in OriginatorType /\ q2.edca = q.edca /\ q2.baq = q.baq /\ q2.retry = q.retry
       /\ q2.win = q.win /\ q2.bar = q.bar /\ q2.barIfData = q.barIfData
       /\ q2.expiring = q.expiring /\ q2.inflight = q.inflight \union P
    <2> DEFINE q1 == AssignSequenceNumbers(q, P)
    <2>1. q1 = [q EXCEPT !.seq = q2.seq, !.nextSeq = q2.nextSeq]
        BY <1>1 DEF AssignSequenceNumbers, OriginatorType
    <2>2. q2 = [q1 EXCEPT !.inflight = @ \union P]
        BY DEF q1
    <2>3. q2.seq \in [Msdu -> Int] /\ q2.nextSeq \in Int
        BY <1>8, <1>9
    <2> HIDE DEF q1
    <2>4. /\ q1 \in OriginatorType /\ q1.edca = q.edca /\ q1.baq = q.baq /\ q1.retry = q.retry
          /\ q1.win = q.win /\ q1.bar = q.bar /\ q1.barIfData = q.barIfData
          /\ q1.expiring = q.expiring /\ q1.inflight = q.inflight
        BY <1>1, <2>1, <2>3 DEF OriginatorType
    <2> QED  BY <1>3, <2>2, <2>4 DEF OriginatorType
<1>11. Kept(q2) = Kept(q) /\ Kept(q) \subseteq Msdu
    BY <1>1, <1>10 DEF Kept
<1>12. /\ \A m \in new : /\ seq2[m] = q.nextSeq + Rank(new, m) /\ q.nextSeq <= seq2[m]
                         /\ seq2[m] < top /\ seq2[m] # 0 /\ seq2[m] \in Int
       /\ \A m \in Msdu \ new : seq2[m] = q.seq[m] /\ seq2[m] \in Int
    <2>1. \A m \in new : seq2[m] = q.nextSeq + Rank(new, m)
        BY <1>4
    <2>2. \A m \in Msdu \ new : seq2[m] = q.seq[m] /\ q.seq[m] \in Int
        BY <1>1
    <2> HIDE DEF new, seq2
    <2>3. ASSUME NEW m \in new
          PROVE  q.nextSeq <= seq2[m] /\ seq2[m] < top /\ seq2[m] # 0 /\ seq2[m] \in Int
        BY <1>2, <1>5, <2>1
    <2> QED  BY <2>1, <2>2, <2>3
<1>13. \A m \in new : q.nextSeq + Rank(new, m) < b + WinSize
    <2> DEFINE bad == {m \in new : ~ (q.nextSeq + Rank(new, m) < b + WinSize)}
               m == Min(bad)
    <2> SUFFICES ASSUME bad # {} PROVE FALSE
        OBVIOUS
    <2>1. bad \in SUBSET Nat
        BY <1>4
    <2> HIDE DEF bad
    <2>2. m \in bad /\ \A y \in bad : m <= y
        BY <2>1, MinIsLeast
    <2> HIDE DEF m
    <2> USE DEF bad
    <2>3. q.nextSeq + Rank(new, m) = b + WinSize
        <3>1. m \in new /\ Rank(new, m) \in Nat /\ ~ (q.nextSeq + Rank(new, m) < b + WinSize)
            BY <1>5, <2>2
        <3> HIDE DEF bad, new
        <3>2. CASE Rank(new, m) = 0
            BY <1>2, <3>1, <3>2, HalfOfSpace
        <3>3. ASSUME NEW k \in new, k < m, Rank(new, m) = Rank(new, k) + 1
              PROVE  q.nextSeq + Rank(new, m) = b + WinSize
            <4>1. k \notin bad
                BY <1>4, <2>2, <3>1, <3>3
            <4>2. q.nextSeq + Rank(new, k) < b + WinSize /\ Rank(new, k) \in Nat
                BY <1>5, <4>1 DEF bad
            <4> QED  BY <1>2, <3>1, <3>3, <4>2, HalfOfSpace
        <3> QED  BY <1>5, <3>1, <3>2, <3>3
    <2>4. SeqOrNext(q, m) = b + WinSize
        BY <1>7, <2>2, <2>3
    <2>5. GetDistance(SnOf(b + WinSize), SnOf(b)) = WinSize
        <3> DEFINE s == b + WinSize
        <3>1. s \in Int /\ b \in Int /\ b - SEQNO_SPACE_HALF_SIZE <= s /\ s < b + SEQNO_SPACE_SIZE
              /\ b <= s /\ s - b = WinSize
            BY <1>2, HalfOfSpace
        <3> HIDE DEF s
        <3>2. GetDistance(SnOf(s), SnOf(b)) = s - b
            BY <3>1, DistanceValue
        <3> QED  BY <3>1, <3>2 DEF s
    <2>6. IsInWindow(SnOf(b + WinSize), SnOf(b), WinSize)
        BY <1>2, <1>3, <2>2, <2>4
    <2> QED  BY <2>5, <2>6, HalfOfSpace DEF IsInWindow
<1>14. top <= b + WinSize
    <2> HIDE DEF new
    <2>1. CASE new = {}
        BY <1>2, <2>1, FS_EmptySet
    <2>2. CASE new # {}
        <3> DEFINE m == Max(new)
        <3>0. \A y \in new : y <= MaxMsdu
            BY <1>4 DEF Msdu
        <3>1. m \in new /\ \A y \in new : y <= m
            BY <1>4, <2>2, <3>0, MaxIsGreatest, BlockAckAssumption
        <3> HIDE DEF m
        <3>2. m \in Nat /\ \A y \in new : y = m \/ y < m
            <4>1. \A y \in new : y \in Nat
                BY <1>4
            <4> QED  BY <3>1, <4>1
        <3>3. new = {k \in new : k < m} \union {m}
            BY <3>1, <3>2
        <3>4. IsFiniteSet({k \in new : k < m}) /\ m \notin {k \in new : k < m}
            BY <1>4, <3>2, FS_Subset
        <3>5. Cardinality(new) = Rank(new, m) + 1
            BY <3>3, <3>4, FS_AddElement DEF Rank
        <3>6. q.nextSeq + Rank(new, m) < b + WinSize /\ Rank(new, m) \in Nat
            BY <1>5, <1>13, <3>1
        <3> QED  BY <1>2, <3>5, <3>6, HalfOfSpace
    <2> QED  BY <2>1, <2>2
<1>15. \A m \in q.edca : seq2[m] # 0 => b <= seq2[m]
    <2> SUFFICES ASSUME NEW m \in q.edca, seq2[m] # 0 PROVE b <= seq2[m]
        OBVIOUS
    <2> HIDE DEF seq2
    <2>1. CASE m \in new
        <3>1. q.nextSeq <= seq2[m] /\ seq2[m] \in Int
            BY <1>12, <2>1
        <3> QED  BY <1>2, <3>1
    <2>2. CASE m \notin new
        <3>1. m \in Msdu /\ seq2[m] = q.seq[m] /\ q.seq[m] \in Int /\ q.seq[m] # 0
            BY <1>1, <1>12, <2>2
        <3>2. q.nextSeq - WinSize <= q.seq[m] /\ q.seq[m] < q.nextSeq
            BY <3>1 DEF At, NumbersAt, Kept
        <3>3. IsOld(q, m) <=> q.seq[m] < b
            BY <1>1, <3>1, <3>2, QueuedAge
        <3> QED  BY <1>2, <3>1, <3>3
    <2> QED  BY <2>1, <2>2
<1> HIDE DEF seq2, new, top
<1>16. \A m \in Kept(q) \ new : seq2[m] # 0 => /\ seq2[m] = q.seq[m] /\ seq2[m] < q.nextSeq
                                               /\ seq2[m] \notin Marks(q.win, b)
    BY <1>11, <1>12 DEF At, NumbersAt
<1>17. NumbersAt(q2, b, q.nextSeq)
    <2>1. q.nextSeq <= q2.nextSeq /\ q2.nextSeq <= b + WinSize
        BY <1>2, <1>5, <1>8, <1>14 DEF top
    <2>2. \A m \in q2.edca : q2.seq[m] # 0 => q2.nextSeq - WinSize <= q2.seq[m]
        <3> SUFFICES ASSUME NEW m \in q.edca, seq2[m] # 0 PROVE top - WinSize <= seq2[m]
            BY <1>8, <1>10
        <3>1. b <= seq2[m] /\ seq2[m] \in Int
            BY <1>1, <1>4, <1>12, <1>15
        <3> QED  BY <1>2, <1>9, <1>14, <3>1, HalfOfSpace
    <2>3. \A m \in q2.expiring : q2.seq[m] # 0 => b - SEQNO_SPACE_HALF_SIZE <= q2.seq[m]
        <3> SUFFICES ASSUME NEW m \in q.expiring, seq2[m] # 0
                     PROVE  b - SEQNO_SPACE_HALF_SIZE <= seq2[m]
            BY <1>8, <1>10
        <3>1. m \notin new /\ m \in Kept(q)
            BY <1>1, <1>3 DEF Ordered, new, Kept
        <3>2. seq2[m] = q.seq[m]
            BY <1>16, <3>1
        <3> QED  BY <3>2 DEF At, NumbersAt
    <2>4. \A m \in Kept(q2) : q2.seq[m] # 0 => q2.seq[m] < q2.nextSeq /\ q2.seq[m] \notin Marks(q2.win, b)
        <3> SUFFICES ASSUME NEW m \in Kept(q), seq2[m] # 0
                     PROVE  seq2[m] < top /\ seq2[m] \notin Marks(q.win, b)
            BY <1>8, <1>10, <1>11
        <3>1. CASE m \in new
            <4>1. q.nextSeq <= seq2[m] /\ seq2[m] < top /\ seq2[m] \in Int
                BY <1>12, <3>1
            <4>2. \A d \in q.win.marked : b + d # seq2[m]
                <5>1. \A d \in q.win.marked : d \in Int /\ b + d < q.nextSeq
                    BY <1>2 DEF WindowAt, Window
                <5> QED  BY <1>2, <4>1, <5>1
            <4> QED  BY <4>1, <4>2 DEF Marks
        <3>2. CASE m \notin new
            <4>1. seq2[m] = q.seq[m] /\ seq2[m] < q.nextSeq /\ seq2[m] \notin Marks(q.win, b)
                BY <1>16, <3>2
            <4>2. seq2[m] \in Int
                BY <1>11, <1>12, <3>2
            <4> QED  BY <1>2, <1>5, <4>1, <4>2 DEF top
        <3> QED  BY <3>1, <3>2
    <2>5. \A m \in q2.baq : b <= q2.seq[m] /\ q2.seq[m] < q.nextSeq
        <3> SUFFICES ASSUME NEW m \in q.baq PROVE b <= seq2[m] /\ seq2[m] < q.nextSeq
            BY <1>8, <1>10
        <3>1. m \in Msdu /\ m \notin new /\ b <= q.seq[m] /\ q.seq[m] < q.nextSeq
            BY <1>1, <1>3 DEF At, NumbersAt, new
        <3> QED  BY <1>12, <3>1
    <2> QED  BY <2>1, <2>2, <2>3, <2>4, <2>5 DEF NumbersAt
<1>18. Ordered(q2)
    <2>1. ASSUME NEW m \in Kept(q), NEW k \in Kept(q), seq2[m] # 0, seq2[k] # 0, m < k
          PROVE  seq2[m] < seq2[k]
        <3>0. m \in Msdu /\ k \in Msdu /\ m \in Int /\ k \in Int
            BY <1>4, <1>11
        <3>1. CASE m \in new /\ k \in new
            BY <1>2, <1>5, <1>12, <2>1, <3>1
        <3>2. CASE m \notin new /\ k \in new
            BY <1>2, <1>12, <1>16, <2>1, <3>0, <3>2
        <3>3. CASE m \notin new /\ k \notin new
            BY <1>16, <2>1, <3>3, <1>1 DEF Ordered
        <3>4. CASE m \in new /\ k \notin new
            <4>1. m \in q.edca /\ q.seq[m] = 0
                BY <1>3, <3>4 DEF new
            <4>2. q.seq[k] # 0
                BY <1>16, <2>1, <3>4
            <4> QED  BY <1>1, <2>1, <4>1, <4>2 DEF Ordered
        <3> QED  BY <3>1, <3>2, <3>3, <3>4
    <2>2. ASSUME NEW m \in q.edca, NEW k \in Kept(q), seq2[k] # 0, m < k PROVE seq2[m] # 0
        <3>0. m \in Msdu /\ k \in Msdu /\ m \in Int /\ k \in Int
            BY <1>1, <1>4, <1>11
        <3>1. CASE k \in new
            <4>1. CASE m \in q.inflight
                <5>1. m \notin new /\ q.seq[m] # 0
                    BY <1>1, <1>3, <4>1 DEF Ordered, new
                <5> QED  BY <1>12, <3>0, <5>1
            <4>2. CASE m \notin q.inflight
                <5>1. m \in P
                    BY <1>3, <2>2, <3>1, <4>2 DEF new
                <5>2. CASE m \in new
                    BY <1>12, <5>2
                <5>3. CASE m \notin new
                    BY <1>12, <3>0, <5>1, <5>3 DEF new
                <5> QED  BY <5>2, <5>3
            <4> QED  BY <4>1, <4>2
        <3>2. CASE k \notin new
            <4>1. q.seq[k] # 0
                BY <1>16, <2>2, <3>2
            <4>2. q.seq[m] # 0
                BY <1>1, <2>2, <4>1 DEF Ordered
            <4>3. m \notin new
                BY <4>2 DEF new
            <4> QED  BY <1>12, <3>0, <4>2, <4>3
        <3> QED  BY <3>1, <3>2
    <2>3. \A m \in q2.retry \union q2.inflight : q2.seq[m] # 0
        <3> SUFFICES ASSUME NEW m \in q.retry \union q.inflight \union P PROVE seq2[m] # 0
            BY <1>8, <1>10
        <3>1. CASE m \in new
            BY <1>12, <3>1
        <3>2. CASE m \notin new
            <4>1. m \in Msdu /\ q.seq[m] # 0
                BY <1>1, <1>3, <3>2, TypeFields DEF Ordered, new
            <4> QED  BY <1>12, <3>2, <4>1
        <3> QED  BY <3>1, <3>2
    <2>4. q2.baq \subseteq q2.edca /\ q2.inflight \subseteq q2.edca /\ q2.expiring \intersect q2.edca = {}
        BY <1>1, <1>3, <1>10 DEF Ordered
    <2> QED  BY <1>8, <1>10, <1>11, <2>1, <2>2, <2>3, <2>4 DEF Ordered
<1>19. Resent(q2)
    <2> SUFFICES ASSUME NEW m \in q.edca, m \notin q.inflight, m \notin P, seq2[m] # 0
                 PROVE  m \in q.retry
        BY <1>8, <1>10 DEF Resent
    <2>1. m \in Msdu /\ m \notin new
        BY <1>1 DEF new
    <2> QED  BY <1>1, <1>12, <2>1 DEF Resent
<1>20. At(q2, b, q.nextSeq) /\ Sound(q2, q.nextSeq)
    BY <1>1, <1>2, <1>10, <1>17, <1>18, <1>19 DEF At, Sound
<1>21. \A m \in P : seq2[m] # 0 /\ b <= seq2[m]
    <2>1. \A m \in P : seq2[m] # 0
        BY <1>3, <1>12 DEF new
    <2> QED  BY <1>3, <1>15, <2>1
<1>22. Assigned(q, q2, new)
    <2>1. \A m \in new : q.seq[m] = 0
        BY DEF new
    <2> QED  BY <1>4, <1>8, <1>12, <2>1 DEF Assigned, top
<1> QED  BY <1>6, <1>8, <1>10, <1>11, <1>12, <1>16, <1>20, <1>21, <1>22 DEF Fits

-----------------------------------------------------------------------------
(* The inductive invariant.                                                *)

\* The MPDUs of the exchange that have a number and were never on the air: while
\* the CTS is awaited, they can be given it back.
Unsent(q, e) == IF e # NoExchange /\ e.phase = "rts" THEN e.psdu \ q.retry ELSE {}

Limit(q, e) == q.nextSeq - Cardinality(Unsent(q, e))

\* Without RTS, what is in flight is what is outstanding.
Tracked(q) == ~ UseRts => q.inflight = q.baq

\* Some outstanding MPDU has not expired.
Waiting(q) == \E m \in q.baq : m > expired

\* The queue, against what was queued and what has expired.
Counted(q) ==
    /\ \A m \in Kept(q) : m <= nMsdu
    /\ \A m \in Msdu : m > nMsdu => q.seq[m] = 0
    /\ \A m \in q.expiring : m <= expired

\* Between two exchanges.
Idle(q) ==
    /\ Sound(q, q.nextSeq) /\ Counted(q) /\ Tracked(q) /\ q.bar # "sent"
    /\ ~ UseRts /\ Waiting(q) => q.bar # "none"

\* The PSDU of an exchange that waits for the CTS, and of one that has been sent.
AwaitsCts(q, e) ==
    /\ UseRts /\ e.psdu \subseteq q.inflight \ q.baq
    /\ \A m \in Unsent(q, e) : Limit(q, e) <= q.seq[m]
    /\ \A m \in Kept(q) \ Unsent(q, e) : q.seq[m] # 0 => q.seq[m] < Limit(q, e)

OnTheAir(q, e) ==
    /\ \A m \in e.psdu : m \in q.baq \/ IsOld(q, m)
    /\ ~ UseRts => \/ e.kind \in {"mpduBar", "bar"} /\ q.bar # "none"
                   \/ e.kind \in {"ampdu", "mpdu"} /\ \A m \in q.baq : m > expired => m \in e.psdu

\* During an exchange.
Busy(q, e) ==
    /\ Sound(q, Limit(q, e)) /\ Counted(q) /\ Tracked(q)
    /\ q.bar = "sent" => e.kind = "bar"
    /\ \A m \in e.psdu : q.seq[m] # 0 /\ q.nextSeq - WinSize <= q.seq[m] /\ q.seq[m] < q.nextSeq
    /\ \A m, k \in e.psdu : m < k => q.seq[m] < q.seq[k]
    /\ e.kind \in {"mpdu", "mpduBar"} => \E m \in Msdu : e.psdu = {m}
    /\ e.kind = "bar" <=> e.psdu = {}
    /\ IF e.phase = "rts" THEN AwaitsCts(q, e) ELSE OnTheAir(q, e)

OriginatorInv ==
    /\ nMsdu \in 0 .. MaxMsdu /\ expired \in 0 .. nMsdu
    /\ access \in {"none", "requested", "granted"}
    /\ IF exch = NoExchange THEN access # "granted" /\ Idle(o)
       ELSE exch \in ExchangeType /\ access = "granted" /\ Busy(o, exch)

-----------------------------------------------------------------------------
(* The end of an exchange.                                                 *)

\* What is given up of B is announced; what is sent again stays in the queue.
Announced(B, q) ==
    \A m \in B : \/ m \in q.edca /\ (m > expired \/ m \in q.inflight)
                 \/ q.bar # "none" \/ q.barIfData

LEMMA WipeIdle ==
    ASSUME NEW q, Idle(q), NEW B, Announced(B, q), expired \in Nat
    PROVE  /\ Idle(WipeAllExpiredMpdus(q)) /\ Announced(B, WipeAllExpiredMpdus(q))
           /\ Proceeds(q, WipeAllExpiredMpdus(q), {})
<1> DEFINE q2 == WipeAllExpiredMpdus(q)
<1>1. Sound(q, q.nextSeq)
    BY DEF Idle
<1>2. /\ Sound(q2, q.nextSeq) /\ q2.edca \subseteq q.edca /\ q2.inflight = q.inflight
      /\ q2.baq = q.baq /\ q2.seq = q.seq /\ q2.nextSeq = q.nextSeq /\ q2.bar = q.bar
      /\ q2.win = q.win /\ q2.retry = q.retry
      /\ q2.barIfData = q.barIfData /\ q2.expiring = q.expiring \union (q.edca \ q2.edca)
      /\ \A m \in q.edca \ q2.edca : m <= expired /\ m \notin q.inflight
    BY <1>1, WipeSound
<1> HIDE DEF q2
<1>3. Counted(q2)
    BY <1>2 DEF Idle, Counted, Kept
<1>4. Idle(q2)
    BY <1>2, <1>3 DEF Idle, Tracked, Waiting
<1>5. ASSUME NEW m \in B
      PROVE  (m \in q2.edca /\ (m > expired \/ m \in q2.inflight)) \/ q2.bar # "none" \/ q2.barIfData
    <2>1. CASE q.bar # "none" \/ q.barIfData
        BY <1>2, <2>1
    <2>2. CASE m \in q.edca /\ (m > expired \/ m \in q.inflight)
        <3>1. CASE m \in q2.edca
            BY <1>2, <2>2, <3>1
        <3>2. CASE m \notin q2.edca
            <4>1. m \in Int /\ ~ (m <= expired /\ m > expired)
                BY <1>1, <2>2, TypeFields DEF Sound, Msdu
            <4> QED  BY <1>2, <2>2, <3>2, <4>1
        <3> QED  BY <3>1, <3>2
    <2> QED  BY <2>1, <2>2 DEF Announced
<1>6. Proceeds(q, q2, {})
    BY <1>1, <1>2, StaysProceeds DEF StaysPut, Pending
<1> QED  BY <1>4, <1>5, <1>6 DEF Announced, q2

LEMMA GetBarIdle ==
    ASSUME NEW q, Idle(q), NEW B, Announced(B, q), expired \in Nat
    PROVE  Idle(GetBar(q)) /\ Announced(B, GetBar(q)) /\ Proceeds(q, GetBar(q), {})
<1> DEFINE q1 == WipeAllExpiredMpdus(q)
           q2 == GetBar(q)
<1>1. Idle(q1) /\ Announced(B, q1)
    BY WipeIdle
<1>2. /\ Sound(q, q.nextSeq) /\ q1.bar = q.bar /\ q1.barIfData = q.barIfData
      /\ q1.nextSeq = q.nextSeq /\ q1.win = q.win /\ q1.retry = q.retry /\ q1.seq = q.seq
      /\ q1.edca \subseteq q.edca /\ q.bar # "sent"
    BY WipeSound DEF Idle
<1>3. /\ SameMpdus(q1, q2) /\ Sound(q2, q.nextSeq)
      /\ q2.bar = q.bar \/ (q2.bar = "queued" /\ q.bar = "none")
      /\ q2.bar = "none" => q2.barIfData = q.barIfData /\ q.bar = "none"
    BY <1>2, GetBarSound
<1> HIDE DEF q1, q2
<1>4. Counted(q2) /\ Tracked(q2) /\ (Waiting(q2) <=> Waiting(q1)) /\ q2.nextSeq = q.nextSeq
    BY <1>1, <1>2, <1>3 DEF SameMpdus, Idle, Counted, Tracked, Waiting, Kept
<1>5. Idle(q2)
    BY <1>1, <1>2, <1>3, <1>4 DEF Idle
<1>6. Announced(B, q2)
    BY <1>1, <1>2, <1>3 DEF Announced, SameMpdus
<1>7. Proceeds(q, q2, {})
    <2>1. Pending(q) => Pending(q2)
        <3>1. q.bar \in {"none", "queued", "sent"}
            BY <1>2 DEF Sound, OriginatorType
        <3>2. q2.bar = "queued" \/ (q2.bar = q.bar /\ q2.barIfData = q.barIfData)
            BY <1>2, <1>3, <3>1
        <3> QED  BY <3>2 DEF Pending
    <2>2. StaysPut(q, q2)
        BY <1>2, <1>3, <2>1 DEF StaysPut, SameMpdus
    <2> QED  BY <1>2, <1>3, <2>2, StaysProceeds DEF SameMpdus
<1> QED  BY <1>5, <1>6, <1>7 DEF q2

\* TransmissionFailed and TransmissionSucceeded.
LEMMA EndOfExchange ==
    ASSUME NEW q, Idle(q), NEW B, Announced(B, q), expired \in Nat, nMsdu \in 0 .. MaxMsdu,
           expired \in 0 .. nMsdu, UNCHANGED <<nMsdu, expired>>,
           TransmissionFailed(q) \/ TransmissionSucceeded(q)
    PROVE  OriginatorInv' /\ exch' = NoExchange /\ Proceeds(q, o', {})
           /\ \A m \in B : m \in o'.edca \/ o'.bar # "none" \/ o'.barIfData
<1>0. Sound(q, q.nextSeq) /\ StaysPut(q, q)
    BY DEF Idle, StaysPut
<1>1. \E p : Idle(p) /\ Announced(B, p) /\ Proceeds(q, p, {}) /\ Release(p)
    BY <1>0, GetBarIdle, StaysProceeds DEF TransmissionFailed, TransmissionSucceeded
<1>2. PICK p : Idle(p) /\ Announced(B, p) /\ Proceeds(q, p, {}) /\ Release(p)
    BY <1>1
<1>3. /\ o' = WipeAllExpiredMpdus(p) /\ exch' = NoExchange /\ access' \in {"none", "requested"}
    BY <1>2 DEF Release
<1>4. Idle(o') /\ Announced(B, o') /\ Proceeds(p, o', {})
    BY <1>2, <1>3, WipeIdle
<1>5. Idle(o)'
    BY <1>4 DEF Idle, Sound, Counted, Tracked, Waiting
<1>6. Proceeds(q, o', {})
    <2>1. q \in OriginatorType /\ p \in OriginatorType
        BY <1>2 DEF Idle, Sound
    <2> QED  BY <1>2, <1>4, <2>1, ThenProceeds
<1> QED  BY <1>3, <1>4, <1>5, <1>6 DEF OriginatorInv, Announced

\* An exchange is under way and its answer is due.
LEMMA AnswerFacts ==
    ASSUME OriginatorInv, NEW kinds, AnswerDue(kinds)
    PROVE  /\ Sound(o, o.nextSeq) /\ Counted(o) /\ Tracked(o) /\ o.expiring = {}
           /\ exch \in ExchangeType /\ exch # NoExchange /\ exch.kind \in kinds
           /\ o.bar = "sent" => exch.kind = "bar"
           /\ \A m, k \in exch.psdu : m < k => o.seq[m] < o.seq[k]
           /\ \A m \in exch.psdu : o.seq[m] # 0 /\ o.nextSeq - WinSize <= o.seq[m] /\ o.seq[m] < o.nextSeq
           /\ exch.kind \in {"mpdu", "mpduBar"} => \E m \in Msdu : exch.psdu = {m}
           /\ exch.kind = "bar" <=> exch.psdu = {}
           /\ OnTheAir(o, exch) /\ expired \in Nat /\ nMsdu \in 0 .. MaxMsdu /\ expired \in 0 .. nMsdu
<1>1. /\ exch # NoExchange /\ exch.phase = "answer" /\ exch.kind \in kinds /\ o.expiring = {}
      /\ exch \in ExchangeType /\ Busy(o, exch)
    BY DEF AnswerDue, OriginatorInv, Settled
<1>2. o \in OriginatorType
    BY <1>1 DEF Busy, Sound
<1>3. Limit(o, exch) = o.nextSeq
    <2>1. Unsent(o, exch) = {} /\ Cardinality({}) = 0
        BY <1>1, FS_EmptySet DEF Unsent
    <2> QED  BY <1>2, <2>1, TypeFields DEF Limit
<1>4. expired \in Nat /\ nMsdu \in 0 .. MaxMsdu /\ expired \in 0 .. nMsdu
    BY BlockAckAssumption DEF OriginatorInv
<1> QED  BY <1>1, <1>3, <1>4 DEF Busy

\* NotifyAckedMpdu and the removal of the MPDUs acknowledged keep the books.
LEMMA AckedSound ==
    ASSUME NEW q, NEW limit, Sound(q, limit), q.expiring = {}, NEW A \in SUBSET q.baq,
           NEW q2, q2 = Acknowledge(q, A)
    PROVE  /\ Sound(q2, limit) /\ q2.edca = q.edca \ A /\ q2.inflight = q.inflight \ A
           /\ q2.baq = q.baq \ A /\ q2.retry = q.retry /\ q2.expiring = q.expiring
           /\ q2.bar = q.bar /\ q2.barIfData = q.barIfData /\ q2.seq = q.seq
           /\ q2.nextSeq = q.nextSeq /\ Moved(q, q2, A, limit)
<1>1. PICK b : At(q, b, limit)
    BY DEF Sound
<1>2. q \in OriginatorType /\ Ordered(q)
    BY DEF Sound
<1>3. /\ Smaller(q, q2) /\ q2.edca = q.edca \ A /\ q2.inflight = q.inflight \ A
      /\ q2.baq = q.baq \ A /\ q2.retry = q.retry /\ q2.expiring = q.expiring
      /\ q2.bar = q.bar /\ q2.barIfData = q.barIfData /\ q2.seq = q.seq
      /\ q2.nextSeq = q.nextSeq
      /\ \E b2 \in Nat : b <= b2 /\ At(q2, b2, limit) /\ Moves(q, b, q2, b2, A)
    BY <1>1, <1>2, AckedAt
<1>4. Ordered(q2) /\ q2 \in OriginatorType
    BY <1>2, <1>3, SmallerOrdered DEF Smaller
<1>5. Resent(q2) /\ q2.baq \subseteq q2.inflight
    BY <1>3 DEF Sound, Resent
<1>6. Sound(q2, limit)
    BY <1>3, <1>4, <1>5 DEF Sound
<1>7. Moved(q, q2, A, limit)
    BY <1>1, <1>3 DEF Moved, At, WindowAt
<1> QED  BY <1>3, <1>6, <1>7

LEMMA ReceiveBlockAckStep ==
    ASSUME OriginatorInv, ReceiveBlockAck 
    PROVE  /\ OriginatorInv' /\ GivenUpStep
           /\ Proceeds(o, o', Acknowledged(o, FillBlockAckBitmap(r)))
<1> DEFINE A == Acknowledged(o, FillBlockAckBitmap(r))
           q1 == Acknowledge(o, A)
           q2 == HandleInFlightMpdus(q1, q1.baq, "TO_RETRANSMIT")
           q3 == DequeueBar(q2)
<1>1. /\ Sound(o, o.nextSeq) /\ Counted(o) /\ Tracked(o) /\ o.expiring = {}
      /\ expired \in Nat /\ nMsdu \in 0 .. MaxMsdu /\ expired \in 0 .. nMsdu
    BY AnswerFacts DEF ReceiveBlockAck
<1>2. /\ UNCHANGED <<nMsdu, expired>> /\ TransmissionSucceeded(q3) /\ acked' = acked \union A
    BY DEF ReceiveBlockAck, NotifyGotBlockAck, Acknowledge
<1>3. A \in SUBSET o.baq
    BY DEF Acknowledged
<1> HIDE DEF A, q1
<1>4. /\ Sound(q1, o.nextSeq) /\ q1.edca = o.edca \ A /\ q1.inflight = o.inflight \ A
      /\ q1.baq = o.baq \ A /\ q1.expiring = {} /\ q1.seq = o.seq /\ q1.nextSeq = o.nextSeq
      /\ Moved(o, q1, A, o.nextSeq)
    BY <1>1, <1>3, AckedSound DEF q1
<1>6. /\ q1 \in OriginatorType /\ Ordered(q1) /\ Resent(q1) /\ q1.baq \subseteq q1.inflight
      /\ \E b : At(q1, b, o.nextSeq)
    BY <1>4 DEF Sound
<1> HIDE DEF q2
<1>7. /\ Sound(q2, o.nextSeq) /\ Moved(q1, q2, {}, o.nextSeq)
      /\ \E gone, back \in SUBSET q1.baq :
            /\ Handled(q1, q2, gone, back) /\ back \intersect gone = {}
            /\ q1.baq \subseteq gone \union back /\ \A m \in back : m > expired
    BY <1>1, <1>4, <1>6, RetransmitSound DEF q2
<1>8. PICK gone \in SUBSET q1.baq, back \in SUBSET q1.baq :
         /\ Handled(q1, q2, gone, back) /\ back \intersect gone = {}
         /\ q1.baq \subseteq gone \union back /\ \A m \in back : m > expired
    BY <1>7
<1>9. /\ q2.baq = {} /\ q2.edca = q1.edca \ gone /\ q2.inflight = q1.inflight \ (gone \union back)
      /\ q2.seq = o.seq /\ q2.nextSeq = o.nextSeq /\ q2.expiring = {}
      /\ q2.bar = "queued" \/ gone = {}
    BY <1>4, <1>8 DEF Handled
<1> HIDE DEF q3
<1>10. /\ SameMpdus(q2, q3) /\ Sound(q3, o.nextSeq) /\ q3.bar # "sent"
       /\ (q2.bar = "queued" => q3.bar = "queued") /\ q3.barIfData = q2.barIfData
    BY <1>7, DequeueBarSound DEF q3
<1>11. Idle(q3)
    <2>1. /\ q3.baq = {} /\ q3.edca \subseteq o.edca /\ q3.expiring = {} /\ q3.seq = o.seq
          /\ q3.nextSeq = o.nextSeq
        BY <1>4, <1>9, <1>10 DEF SameMpdus
    <2>2. Counted(q3)
        BY <1>1, <2>1 DEF Counted, Kept
    <2>3. Tracked(q3)
        <3>1. ~ UseRts => q1.inflight = q1.baq
            BY <1>1, <1>4 DEF Tracked
        <3>2. ~ UseRts => q2.inflight = {}
            BY <1>8, <1>9, <3>1
        <3> QED  BY <1>10, <2>1, <3>2 DEF Tracked, SameMpdus
    <2> QED  BY <1>10, <2>1, <2>2, <2>3 DEF Idle, Waiting
<1>12. Announced(o.baq \ A, q3)
    <2> SUFFICES ASSUME NEW m \in o.baq \ A
                 PROVE  (m \in q3.edca /\ m > expired) \/ q3.bar # "none"
        BY DEF Announced
    <2>1. m \in q1.baq /\ m \in q1.edca
        BY <1>4, <1>6 DEF Ordered
    <2>2. CASE m \in gone
        BY <1>9, <1>10, <2>2
    <2>3. CASE m \notin gone
        BY <1>8, <1>9, <1>10, <2>1, <2>3 DEF SameMpdus
    <2> QED  BY <2>2, <2>3
<1>13. OriginatorInv' /\ Proceeds(q3, o', {}) /\ \A m \in o.baq \ A : m \in o'.edca \/ o'.bar # "none" \/ o'.barIfData
    BY <1>1, <1>2, <1>11, <1>12, EndOfExchange
<1>14. Proceeds(o, o', A)
    <2>1. /\ o \in OriginatorType /\ q1 \in OriginatorType /\ q2 \in OriginatorType
          /\ q3 \in OriginatorType
        BY <1>1, <1>4, <1>7, <1>10 DEF Sound
    <2>2. Proceeds(o, q1, A)
        BY <1>4 DEF Proceeds
    <2>3. Proceeds(q1, q2, {})
        BY <1>4, <1>7, <1>9 DEF Proceeds
    <2>4. Proceeds(q2, q3, {})
        <3>1. StaysPut(q2, q3)
            BY <1>10 DEF StaysPut, Pending, SameMpdus
        <3> QED  BY <1>7, <1>9, <1>10, <3>1, StaysProceeds DEF SameMpdus
    <2> QED  BY <1>13, <2>1, <2>2, <2>3, <2>4, ThenProceeds
<1> QED  BY <1>2, <1>13, <1>14 DEF GivenUpStep, A

\* What makes the state after an exchange idle.
LEMMA IdleAfter ==
    ASSUME NEW q, Counted(q), NEW q2, Sound(q2, q2.nextSeq), q2.edca \subseteq q.edca,
           q2.expiring = q.expiring, q2.seq = q.seq, Tracked(q2), q2.bar # "sent",
           ~ UseRts /\ Waiting(q2) => q2.bar # "none"
    PROVE  Idle(q2)
BY DEF Idle, Counted, Kept

\* An outstanding MPDU makes NeedBarRetransmission return true unless it has expired.
LEMMA OutstandingWaits ==
    ASSUME NEW q, NEW limit, Sound(q, limit)
    PROVE  Outstanding(q) = {m \in q.baq : m > expired}
<1>1. PICK b : At(q, b, limit)
    BY DEF Sound
<1>2. \A m \in q.baq : ~ IsOld(q, m) /\ m \in q.edca
    BY <1>1, OutstandingAge DEF Sound, Ordered
<1> QED  BY <1>2 DEF Outstanding

\* The exchange fails and its data frames are discarded.
LEMMA DiscardStep ==
    ASSUME OriginatorInv, AnswerDue({"ampdu", "mpdu", "bar"}), exch.kind \in {"ampdu", "mpdu"},
           NEW m \in exch.psdu, \A k \in exch.psdu : k <= m,
           NEW q2, q2 = Dequeue(NotifyDiscardedMpdu(o, m), exch.psdu)
    PROVE  Idle(q2) /\ Announced(o.baq, q2) /\ Proceeds(o, q2, {})
<1> DEFINE q1 == NotifyDiscardedMpdu(o, m)
<1>1. /\ Sound(o, o.nextSeq) /\ Counted(o) /\ Tracked(o) /\ o.expiring = {}
      /\ exch \in ExchangeType /\ exch # NoExchange
      /\ o.bar = "sent" => exch.kind = "bar"
      /\ \A k, j \in exch.psdu : k < j => o.seq[k] < o.seq[j]
      /\ \A k \in exch.psdu : o.seq[k] # 0 /\ o.nextSeq - WinSize <= o.seq[k] /\ o.seq[k] < o.nextSeq
      /\ OnTheAir(o, exch)
    BY AnswerFacts
<1>2. exch.psdu \subseteq Msdu /\ o.bar # "sent"
    BY <1>1 DEF ExchangeType
<1>3. /\ o \in OriginatorType /\ Ordered(o) /\ o.baq \subseteq o.inflight
    BY <1>1 DEF Sound
<1>4. PICK b : At(o, b, o.nextSeq)
    BY <1>1 DEF Sound
<1>5. /\ m \in Msdu /\ o.seq[m] \in Int /\ o.nextSeq \in Int /\ b \in Nat /\ b <= o.nextSeq
      /\ o.nextSeq - WinSize <= o.seq[m] /\ o.seq[m] < o.nextSeq
    BY <1>1, <1>2, <1>3, <1>4, TypeFields DEF At, WindowAt
<1>6. b - SEQNO_SPACE_HALF_SIZE <= o.seq[m]
    BY <1>5, HalfOfSpace
<1>7. \A k \in o.expiring : o.seq[k] # 0 => o.seq[m] < o.seq[k]
    BY <1>1
<1>8. q1 = NotifyDiscardedMpdu(o, m)
    OBVIOUS
<1> HIDE DEF q1
<1>9. PICK b2 \in Nat, gone \in SUBSET o.baq :
         /\ GaveUp(o, q1, gone) /\ Sound(q1, o.nextSeq) /\ At(q1, b2, o.nextSeq) /\ b <= b2
         /\ Moves(o, b, q1, b2, {})
         /\ m \in o.retry \union o.inflight => o.seq[m] < b2
    BY <1>1, <1>4, <1>5, <1>6, <1>7, <1>8, DiscardSound
<1>10. /\ q1.edca = o.edca \ gone /\ q1.inflight = o.inflight \ gone /\ q1.baq = o.baq \ gone
       /\ q1.seq = o.seq /\ q1.nextSeq = o.nextSeq /\ q1.expiring = {}
       /\ q1.bar = "queued" \/ (gone = {} /\ q1.bar = o.bar)
       /\ q1 \in OriginatorType
    BY <1>1, <1>9 DEF GaveUp
<1>11. exch.psdu \intersect q1.baq = {}
    <2> SUFFICES ASSUME NEW k \in exch.psdu, k \in q1.baq PROVE FALSE
        OBVIOUS
    <2>1. k \in o.baq /\ k \in Msdu /\ o.seq[k] \in Int /\ b2 <= o.seq[k] /\ b <= o.seq[k] /\ k \in Int /\ m \in Int
        <3>1. k \in o.baq /\ k \in Msdu /\ o.seq[k] \in Int
            BY <1>2, <1>3, <1>10, TypeFields
        <3>2. b2 <= q1.seq[k] /\ b <= o.seq[k]
            BY <1>4, <1>9, <3>1 DEF At, NumbersAt
        <3> QED  BY <1>2, <1>10, <3>1, <3>2 DEF Msdu
    <2>2. o.seq[k] <= o.seq[m]
        <3>1. k = m \/ k < m
            BY <2>1
        <3> QED  BY <1>1, <1>5, <2>1, <3>1
    <2>3. CASE m \in o.retry \union o.inflight
        BY <1>5, <1>9, <2>1, <2>2, <2>3
    <2>4. CASE m \notin o.retry \union o.inflight
        <3>1. IsOld(o, m)
            BY <1>1, <1>3, <2>4 DEF OnTheAir
        <3>2. o.seq[m] < b
            BY <1>3, <1>4, <1>5, <1>6, <3>1, AgeOf
        <3> QED  BY <1>5, <2>1, <2>2, <3>2
    <2> QED  BY <2>3, <2>4
<1>12. Sound(q2, o.nextSeq)
    BY <1>9, <1>11, DequeueSound DEF q1
<1>13. /\ q2.edca = q1.edca \ exch.psdu /\ q2.inflight = q1.inflight \ exch.psdu
       /\ q2.seq = o.seq /\ q2.nextSeq = o.nextSeq /\ q2.baq = q1.baq /\ q2.bar = q1.bar
       /\ q2.expiring = {}
    BY <1>8, <1>10, DequeueFields
<1>14. Tracked(q2)
    BY <1>1, <1>10, <1>11, <1>13 DEF Tracked
<1>15. ~ UseRts => ~ Waiting(q2)
    <2> SUFFICES ASSUME ~ UseRts, NEW k \in q2.baq, k > expired PROVE FALSE
        BY DEF Waiting
    <2>1. k \in o.baq
        BY <1>10, <1>13
    <2> QED  BY <1>1, <1>11, <1>13, <2>1 DEF OnTheAir
<1>16. Idle(q2)
    BY <1>1, <1>2, <1>10, <1>12, <1>13, <1>14, <1>15, IdleAfter
<1>17. Announced(o.baq, q2)
    <2> SUFFICES ASSUME NEW k \in o.baq
                 PROVE  (k \in q2.edca /\ k \in q2.inflight) \/ q2.bar # "none"
        BY DEF Announced
    <2>1. CASE k \in gone
        BY <1>10, <1>13, <2>1
    <2>2. CASE k \notin gone
        BY <1>3, <1>10, <1>11, <1>13, <2>2 DEF Ordered
    <2> QED  BY <2>1, <2>2
<1>18. Proceeds(o, q2, {})
    <2>1. q2.win = q1.win /\ q2.retry = q1.retry /\ q2.barIfData = q1.barIfData
        BY <1>8, <1>10, DequeueFields
    <2>2. StaysPut(q1, q2)
        BY <1>13, <2>1 DEF StaysPut, Pending
    <2>3. Proceeds(q1, q2, {})
        BY <1>9, <1>10, <1>12, <1>13, <2>2, StaysProceeds
    <2>4. Proceeds(o, q1, {})
        BY <1>4, <1>5, <1>9, <1>10 DEF Proceeds, Moved
    <2> QED  BY <1>3, <1>10, <2>3, <2>4, ThenProceeds
<1> QED  BY <1>16, <1>17, <1>18

LEMMA BlockAckTimeoutStep ==
    ASSUME OriginatorInv, BlockAckTimeout 
    PROVE  /\ OriginatorInv' /\ GivenUpStep /\ Proceeds(o, o', {})
           /\ exch.kind = "bar" => Pending(o')
<1>1. /\ Sound(o, o.nextSeq) /\ Counted(o) /\ Tracked(o) /\ o.expiring = {}
      /\ exch \in ExchangeType /\ exch # NoExchange /\ exch.kind \in {"ampdu", "bar"}
      /\ o.bar = "sent" => exch.kind = "bar"
      /\ exch.kind = "bar" <=> exch.psdu = {}
      /\ expired \in Nat /\ nMsdu \in 0 .. MaxMsdu /\ expired \in 0 .. nMsdu
    BY AnswerFacts DEF BlockAckTimeout
<1>2. UNCHANGED <<nMsdu, expired>>
    BY DEF BlockAckTimeout
<1>3. /\ o \in OriginatorType /\ Ordered(o) /\ Resent(o) /\ o.baq \subseteq o.inflight
      /\ \E b : At(o, b, o.nextSeq)
    BY <1>1 DEF Sound
<1>4. ASSUME NEW q, Idle(q), Announced(o.baq, q), TransmissionFailed(q), Proceeds(o, q, {}),
             exch.kind = "bar" => Pending(q)
      PROVE  /\ OriginatorInv' /\ GivenUpStep /\ Proceeds(o, o', {})
             /\ exch.kind = "bar" => Pending(o')
    <2>1. /\ OriginatorInv' /\ Proceeds(q, o', {})
          /\ \A m \in o.baq : m \in o'.edca \/ o'.bar # "none" \/ o'.barIfData
        BY <1>1, <1>2, <1>4, EndOfExchange
    <2>2. q \in OriginatorType
        BY <1>4 DEF Idle, Sound
    <2>3. Proceeds(o, o', {})
        BY <1>3, <1>4, <2>1, <2>2, ThenProceeds
    <2>4. Pending(q) => Pending(o')
        BY <2>1 DEF Proceeds, Moved, Moves
    <2> QED  BY <1>4, <2>1, <2>3, <2>4 DEF GivenUpStep
<1>5. /\ Idle(MissedBlockAckUseBar) /\ Announced(o.baq, MissedBlockAckUseBar)
      /\ Proceeds(o, MissedBlockAckUseBar, {}) /\ Pending(MissedBlockAckUseBar)
    <2> DEFINE M == {m \in o.baq : \A k \in Outstanding(o) : m < k}
               q == HandleInFlightMpdus(o, M, "STAY_INFLIGHT")
               q2 == MissedBlockAckUseBar
    <2>1. M \in SUBSET o.baq
        OBVIOUS
    <2>2. q = HandleBeforeOutstanding(o)
        BY DEF HandleBeforeOutstanding
    <2> HIDE DEF M, q
    <2>3. Sound(q, o.nextSeq) /\ Moved(o, q, {}, o.nextSeq) /\ \E gone \in SUBSET o.baq : Handled(o, q, gone, {})
        BY <1>1, <2>1, StaySound DEF q
    <2>4. PICK gone \in SUBSET o.baq : Handled(o, q, gone, {})
        BY <2>3
    <2>5. /\ q.edca \subseteq o.edca /\ q.expiring = {} /\ q.seq = o.seq /\ q.nextSeq = o.nextSeq
          /\ q.baq \subseteq o.baq /\ Tracked(q) /\ q \in OriginatorType
        BY <1>1, <2>4 DEF Handled, Tracked
    <2>8. ASSUME NEW p \in OriginatorType, Pending(p), SameMpdus(q, p), Sound(p, o.nextSeq)
          PROVE  Proceeds(o, p, {})
        <3>1. StaysPut(q, p)
            BY <2>8 DEF StaysPut, SameMpdus
        <3>2. Proceeds(q, p, {})
            BY <2>3, <2>5, <2>8, <3>1, StaysProceeds DEF SameMpdus
        <3>3. Proceeds(o, q, {})
            BY <2>3, <2>5 DEF Proceeds
        <3> QED  BY <1>3, <2>5, <2>8, <3>2, <3>3, ThenProceeds
    <2>6. CASE Outstanding(o) # {}
        <3>1. q2 = [q EXCEPT !.bar = "queued"]
            BY <2>2, <2>6 DEF MissedBlockAckUseBar
        <3> HIDE DEF q2
        <3>2. q2 \in OriginatorType /\ SameMpdus(q, q2) /\ q2.bar = "queued"
            BY <2>5, <3>1, SetBar
        <3>3. Sound(q2, o.nextSeq) /\ q2.nextSeq = o.nextSeq
            BY <2>3, <2>5, <3>2, SameSound DEF SameMpdus
        <3>4. Idle(q2)
            BY <1>1, <2>5, <3>2, <3>3, IdleAfter DEF SameMpdus, Tracked
        <3>5. Announced(o.baq, q2)
            BY <3>2 DEF Announced
        <3>6. Pending(q2) /\ Proceeds(o, q2, {})
            BY <2>8, <3>2, <3>3 DEF Pending
        <3> QED  BY <3>4, <3>5, <3>6 DEF q2
    <2>7. CASE Outstanding(o) = {}
        <3> DEFINE q1 == DequeueBar(q)
        <3>1. q2 = [q1 EXCEPT !.barIfData = TRUE]
            BY <2>2, <2>7 DEF MissedBlockAckUseBar
        <3> HIDE DEF q2
        <3>2. q1 \in OriginatorType /\ SameMpdus(q, q1) /\ Sound(q1, o.nextSeq) /\ q1.bar # "sent"
            BY <2>3, DequeueBarSound
        <3> HIDE DEF q1
        <3>3. q2 \in OriginatorType /\ SameMpdus(q1, q2) /\ q2.bar = q1.bar /\ q2.barIfData = TRUE
            BY <3>1, <3>2, SetBarIfData
        <3>4. Sound(q2, o.nextSeq) /\ q2.nextSeq = o.nextSeq
            BY <2>5, <3>2, <3>3, SameSound DEF SameMpdus
        <3>5. ~ Waiting(q2)
            <4>1. \A m \in o.baq : ~ (m > expired)
                BY <1>1, <2>7, OutstandingWaits
            <4> QED  BY <2>5, <3>2, <3>3, <4>1 DEF Waiting, SameMpdus
        <3>6. Idle(q2)
            BY <1>1, <2>5, <3>2, <3>3, <3>4, <3>5, IdleAfter DEF SameMpdus, Tracked
        <3>7. Announced(o.baq, q2)
            BY <3>3 DEF Announced
        <3>8. Pending(q2) /\ SameMpdus(q, q2)
            BY <3>2, <3>3 DEF Pending, SameMpdus
        <3>9. Proceeds(o, q2, {})
            BY <2>8, <3>3, <3>4, <3>8
        <3> QED  BY <3>6, <3>7, <3>8, <3>9 DEF q2
    <2> QED  BY <2>6, <2>7
<1>6. CASE o.explicitBar \/ exch.kind = "bar"
    <2>1. TransmissionFailed(MissedBlockAckUseBar)
        BY <1>6 DEF BlockAckTimeout
    <2> QED  BY <1>4, <1>5, <2>1
<1>7. CASE ~ (o.explicitBar \/ exch.kind = "bar")
    <2>1. PICK retransmit \in BOOLEAN : TransmissionFailed(MissedBlockAckResend(retransmit))
        BY <1>7 DEF BlockAckTimeout
    <2>2. CASE retransmit
        <3> DEFINE q == NotifyMissedBlockAck(o)
        <3>0. q = HandleInFlightMpdus(o, o.baq, "TO_RETRANSMIT") /\ TransmissionFailed(q)
            BY <2>1, <2>2 DEF MissedBlockAckResend, NotifyMissedBlockAck
        <3> HIDE DEF q
        <3>1. /\ Sound(q, o.nextSeq) /\ Moved(o, q, {}, o.nextSeq)
              /\ \E gone, back \in SUBSET o.baq :
                    /\ Handled(o, q, gone, back) /\ back \intersect gone = {}
                    /\ o.baq \subseteq gone \union back /\ \A m \in back : m > expired
            BY <1>1, <1>3, <3>0, RetransmitSound
        <3>2. PICK gone \in SUBSET o.baq, back \in SUBSET o.baq :
                 /\ Handled(o, q, gone, back) /\ back \intersect gone = {}
                 /\ o.baq \subseteq gone \union back /\ \A m \in back : m > expired
            BY <3>1
        <3>3. /\ q.edca = o.edca \ gone /\ q.baq = {} /\ q.inflight = o.inflight \ o.baq
              /\ q.expiring = {} /\ q.seq = o.seq /\ q.nextSeq = o.nextSeq
              /\ q.bar = "queued" \/ (gone = {} /\ q.bar = o.bar)
            BY <1>1, <3>2 DEF Handled
        <3>4. Idle(q)
            <4>1. Tracked(q) /\ ~ Waiting(q) /\ q.bar # "sent"
                BY <1>1, <1>7, <3>3 DEF Tracked, Waiting
            <4> QED  BY <1>1, <3>1, <3>3, <4>1, IdleAfter
        <3>5. Announced(o.baq, q)
            BY <1>3, <3>2, <3>3 DEF Announced, Ordered
        <3>6. Proceeds(o, q, {})
            BY <3>1, <3>3 DEF Proceeds
        <3> QED  BY <1>4, <1>7, <3>0, <3>4, <3>5, <3>6
    <2>3. CASE ~ retransmit
        <3> DEFINE m == Max(exch.psdu)
                   q == Dequeue(NotifyDiscardedMpdu(o, m), exch.psdu)
        <3>1. TransmissionFailed(q)
            BY <2>1, <2>3 DEF MissedBlockAckResend
        <3>2. m \in exch.psdu /\ \A k \in exch.psdu : k <= m
            <4>1. exch.psdu \in SUBSET Nat /\ exch.psdu # {} /\ MaxMsdu \in Nat
                  /\ \A k \in exch.psdu : k <= MaxMsdu
                BY <1>1, <1>7, BlockAckAssumption DEF ExchangeType, Msdu
            <4> QED  BY <4>1, MaxIsGreatest
        <3> HIDE DEF m
        <3>3. AnswerDue({"ampdu", "mpdu", "bar"}) /\ exch.kind \in {"ampdu", "mpdu"}
            BY <1>1, <1>7 DEF BlockAckTimeout, AnswerDue
        <3>4. Idle(q) /\ Announced(o.baq, q) /\ Proceeds(o, q, {})
            BY <3>2, <3>3, DiscardStep
        <3> QED  BY <1>4, <1>7, <3>1, <3>4
    <2> QED  BY <2>2, <2>3
<1> QED  BY <1>6, <1>7

\* NotifyGotAck: as the acknowledgment of the MPDU, if it is outstanding.
LEMMA GotAckSound ==
    ASSUME NEW q, NEW limit, Sound(q, limit), q.expiring = {}, NEW m \in Msdu,
           m \in q.baq \/ IsOld(q, m), NEW q2, q2 = NotifyGotAck(q, m)
    PROVE  /\ Sound(q2, limit) /\ q2.edca = q.edca \ ({m} \intersect q.baq)
           /\ q2.inflight = q.inflight \ ({m} \intersect q.baq) /\ q2.baq = q.baq \ {m}
           /\ q2.expiring = q.expiring /\ q2.bar = q.bar /\ q2.barIfData = q.barIfData
           /\ q2.seq = q.seq /\ q2.nextSeq = q.nextSeq
           /\ Moved(q, q2, {m} \intersect q.baq, limit)
<1> DEFINE A == {m} \intersect q.baq
           p == Acknowledge(q, A)
           win == NotifyAckedMpdus(q.win, q, A)
           q1 == [q EXCEPT !.win = win]
           d == Dequeue(q1, A)
<1>1. /\ Sound(p, limit) /\ p.edca = q.edca \ A /\ p.inflight = q.inflight \ A
      /\ p.baq = q.baq \ A /\ p.retry = q.retry /\ p.expiring = q.expiring
      /\ p.bar = q.bar /\ p.barIfData = q.barIfData /\ p.seq = q.seq
      /\ p.nextSeq = q.nextSeq /\ Moved(q, p, A, limit)
    <2>1. A \in SUBSET q.baq
        OBVIOUS
    <2> HIDE DEF A
    <2>2. p = Acknowledge(q, A)
        OBVIOUS
    <2> HIDE DEF p
    <2> QED  BY <2>1, <2>2, AckedSound
<1>2. q \in OriginatorType /\ p \in OriginatorType
    BY <1>1 DEF Sound
<1>3. p.win = win /\ p.explicitBar = q.explicitBar
    <2>1. Dequeue(q, A) \in OriginatorType /\ Dequeue(q, A).win = q.win
          /\ Dequeue(q, A).explicitBar = q.explicitBar
        BY <1>2, DequeueFields
    <2> DEFINE e == Dequeue(q, A)
    <2>2. p = [e EXCEPT !.baq = @ \ A, !.win = win]
        BY <2>1 DEF Acknowledge
    <2> HIDE DEF p, e, win
    <2>3. e \in OriginatorType /\ e.explicitBar = q.explicitBar
        BY <2>1 DEF e
    <2> QED  BY <2>2, <2>3 DEF OriginatorType
<1>4. NotifyAckedMpdus(q.win, q, {m}) = win
    <2>1. {k \in {m} : ~ IsOld(q, k)} = {k \in A : ~ IsOld(q, k)}
        <3>1. CASE m \in q.baq
            BY <3>1
        <3>2. CASE IsOld(q, m)
            BY <3>2
        <3> QED  BY <3>1, <3>2
    <2> HIDE DEF A
    <2> QED  BY <2>1 DEF NotifyAckedMpdus, win
<1>5. win \in Window
    BY <1>2, <1>3, TypeFields
<1> HIDE DEF win
<1>6. /\ q1 \in OriginatorType /\ q1.win = win /\ q1.edca = q.edca /\ q1.inflight = q.inflight
      /\ q1.seq = q.seq /\ q1.nextSeq = q.nextSeq /\ q1.retry = q.retry /\ q1.baq = q.baq
      /\ q1.bar = q.bar /\ q1.barIfData = q.barIfData /\ q1.expiring = q.expiring
      /\ q1.explicitBar = q.explicitBar
    BY <1>2, <1>5 DEF OriginatorType
<1> HIDE DEF p, A
<1>7. q2 = [d EXCEPT !.baq = @ \ {m}]
    BY <1>4 DEF NotifyGotAck, A
<1> HIDE DEF q1
<1>8. /\ d \in OriginatorType /\ d.edca = q.edca \ A /\ d.inflight = q.inflight \ A /\ d.win = win
      /\ d.seq = q.seq /\ d.nextSeq = q.nextSeq /\ d.retry = q.retry /\ d.baq = q.baq
      /\ d.bar = q.bar /\ d.barIfData = q.barIfData /\ d.expiring = q.expiring
      /\ d.explicitBar = q.explicitBar
    BY <1>6, DequeueFields
<1> HIDE DEF d
<1>9. q2 \in OriginatorType /\ q2.baq = q.baq \ {m} /\ q2.bar = q.bar /\ q2.barIfData = q.barIfData
    BY <1>7, <1>8 DEF OriginatorType
<1>10. /\ q2.edca = q.edca \ A /\ q2.inflight = q.inflight \ A /\ q2.win = win
       /\ q2.seq = q.seq /\ q2.nextSeq = q.nextSeq /\ q2.retry = q.retry
       /\ q2.expiring = q.expiring /\ q2.explicitBar = q.explicitBar
    BY <1>7, <1>8 DEF OriginatorType
<1>11. q.baq \ {m} = q.baq \ A
    BY DEF A
<1>12. SameMpdus(p, q2)
    BY <1>1, <1>3, <1>9, <1>10, <1>11 DEF SameMpdus
<1>13. Sound(q2, limit)
    BY <1>1, <1>9, <1>12, SameSound
<1>14. Moved(q, q2, A, limit)
    <2>1. Moved(p, q2, {}, limit)
        BY <1>1, <1>9, <1>12, <1>13, StaysMoved DEF StaysPut, SameMpdus, Pending
    <2>2. Moved(q, q2, A \union {}, limit)
        BY <1>1, <1>2, <2>1, MovedTwice
    <2>3. A \union {} = A
        OBVIOUS
    <2> QED  BY <2>2, <2>3
<1> QED  BY <1>9, <1>10, <1>13, <1>14 DEF A

LEMMA ReceiveNormalAckStep ==
    ASSUME OriginatorInv, ReceiveNormalAck 
    PROVE  /\ OriginatorInv' /\ GivenUpStep
           /\ \E m \in exch.psdu : /\ acked' = acked \union {m}
                                   /\ Proceeds(o, o', {m} \intersect o.baq)
<1>1. /\ Sound(o, o.nextSeq) /\ Counted(o) /\ Tracked(o) /\ o.expiring = {}
      /\ exch \in ExchangeType /\ exch # NoExchange /\ exch.kind = "mpdu"
      /\ o.bar = "sent" => exch.kind = "bar"
      /\ exch.kind \in {"mpdu", "mpduBar"} => \E m \in Msdu : exch.psdu = {m}
      /\ OnTheAir(o, exch)
      /\ expired \in Nat /\ nMsdu \in 0 .. MaxMsdu /\ expired \in 0 .. nMsdu
    BY AnswerFacts DEF ReceiveNormalAck
<1>2. PICK m \in exch.psdu :
         /\ TransmissionSucceeded(Dequeue(NotifyGotAck(o, m), {m}))
         /\ acked' = acked \union {m}
    BY DEF ReceiveNormalAck
<1>3. UNCHANGED <<nMsdu, expired>>
    BY DEF ReceiveNormalAck
<1>4. exch.psdu = {m} /\ m \in Msdu
    BY <1>1, <1>2
<1>5. m \in o.baq \/ IsOld(o, m)
    BY <1>1, <1>2 DEF OnTheAir
<1> DEFINE q == NotifyGotAck(o, m)
           q2 == Dequeue(q, {m})
<1>6. q = NotifyGotAck(o, m)
    OBVIOUS
<1> HIDE DEF q
<1>7. /\ Sound(q, o.nextSeq) /\ q.edca = o.edca \ ({m} \intersect o.baq)
      /\ q.inflight = o.inflight \ ({m} \intersect o.baq) /\ q.baq = o.baq \ {m}
      /\ q.expiring = {} /\ q.bar = o.bar /\ q.seq = o.seq /\ q.nextSeq = o.nextSeq
      /\ Moved(o, q, {m} \intersect o.baq, o.nextSeq)
    BY <1>1, <1>4, <1>5, <1>6, GotAckSound
<1>8. Sound(q2, o.nextSeq)
    BY <1>7, DequeueSound
<1>9. /\ q2.edca = q.edca \ {m} /\ q2.inflight = q.inflight \ {m}
      /\ q2.seq = o.seq /\ q2.nextSeq = o.nextSeq /\ q2.baq = q.baq /\ q2.bar = o.bar
      /\ q2.expiring = {} /\ StaysPut(q, q2)
    <2>1. q \in OriginatorType
        BY <1>7 DEF Sound
    <2> QED  BY <1>7, <2>1, DequeueFields DEF StaysPut, Pending
<1>10. q2.edca = o.edca \ {m} /\ q2.inflight = o.inflight \ {m} /\ q2.baq = o.baq \ {m}
    BY <1>7, <1>9
<1> HIDE DEF q2
<1>11. Idle(q2)
    <2>1. Tracked(q2)
        BY <1>1, <1>10 DEF Tracked
    <2>2. ~ UseRts => ~ Waiting(q2)
        BY <1>1, <1>4, <1>10 DEF OnTheAir, Waiting
    <2> QED  BY <1>1, <1>8, <1>9, <1>10, <2>1, <2>2, IdleAfter
<1>12. Announced(o.baq \ {m}, q2)
    BY <1>1, <1>10 DEF Announced, Sound, Ordered
<1>13. OriginatorInv' /\ Proceeds(q2, o', {}) /\ \A k \in o.baq \ {m} : k \in o'.edca \/ o'.bar # "none" \/ o'.barIfData
    BY <1>1, <1>2, <1>3, <1>6, <1>11, <1>12, EndOfExchange DEF q2
<1>14. Proceeds(o, o', {m} \intersect o.baq)
    <2>1. o \in OriginatorType /\ q \in OriginatorType /\ q2 \in OriginatorType
        BY <1>1, <1>7, <1>8 DEF Sound
    <2>2. Proceeds(o, q, {m} \intersect o.baq)
        BY <1>7 DEF Proceeds
    <2>3. Proceeds(q, q2, {})
        BY <1>7, <1>8, <1>9, StaysProceeds
    <2> QED  BY <1>13, <2>1, <2>2, <2>3, ThenProceeds
<1> QED  BY <1>2, <1>13, <1>14 DEF GivenUpStep

LEMMA NormalAckTimeoutStep ==
    ASSUME OriginatorInv, NormalAckTimeout 
    PROVE  OriginatorInv' /\ GivenUpStep /\ Proceeds(o, o', {})
<1>1. /\ Sound(o, o.nextSeq) /\ Counted(o) /\ Tracked(o) /\ o.expiring = {}
      /\ exch \in ExchangeType /\ exch # NoExchange /\ exch.kind = "mpdu"
      /\ o.bar = "sent" => exch.kind = "bar"
      /\ \A m \in exch.psdu : o.seq[m] # 0
      /\ exch.kind \in {"mpdu", "mpduBar"} => \E m \in Msdu : exch.psdu = {m}
      /\ OnTheAir(o, exch)
      /\ expired \in Nat /\ nMsdu \in 0 .. MaxMsdu /\ expired \in 0 .. nMsdu
    BY AnswerFacts DEF NormalAckTimeout
<1>2. UNCHANGED <<nMsdu, expired>>
    BY DEF NormalAckTimeout
<1>3. /\ o \in OriginatorType /\ Ordered(o) /\ Resent(o) /\ o.baq \subseteq o.inflight
      /\ \E b : At(o, b, o.nextSeq)
    BY <1>1 DEF Sound
<1>4. ASSUME NEW q, Idle(q), Announced(o.baq, q), TransmissionFailed(q), Proceeds(o, q, {})
      PROVE  OriginatorInv' /\ GivenUpStep /\ Proceeds(o, o', {})
    <2>1. /\ OriginatorInv' /\ Proceeds(q, o', {})
          /\ \A m \in o.baq : m \in o'.edca \/ o'.bar # "none" \/ o'.barIfData
        BY <1>1, <1>2, <1>4, EndOfExchange
    <2>2. q \in OriginatorType
        BY <1>4 DEF Idle, Sound
    <2>3. Proceeds(o, o', {})
        BY <1>3, <1>4, <2>1, <2>2, ThenProceeds
    <2> QED  BY <2>1, <2>3 DEF GivenUpStep
<1>5. PICK m \in exch.psdu, retransmit \in BOOLEAN :
         TransmissionFailed(
            IF retransmit
            THEN NotifyMissedAck([o EXCEPT !.inflight = @ \ {m}, !.retry = @ \union {m}], m)
            ELSE Dequeue(NotifyDiscardedMpdu(o, m), {m}))
    BY DEF NormalAckTimeout
<1>6. exch.psdu = {m} /\ m \in Msdu
    BY <1>1, <1>5
<1>7. CASE retransmit
    <2> DEFINE q == [o EXCEPT !.inflight = @ \ {m}, !.retry = @ \union {m}]
               M == {m} \intersect o.baq
               q2 == NotifyMissedAck(q, m)
    <2>1. TransmissionFailed(q2)
        BY <1>5, <1>7
    <2>2. /\ q \in OriginatorType /\ q.edca = o.edca /\ q.inflight = o.inflight \ {m}
          /\ q.retry = o.retry \union {m} /\ q.baq = o.baq /\ q.win = o.win /\ q.seq = o.seq
          /\ q.nextSeq = o.nextSeq /\ q.expiring = {} /\ q.bar = o.bar
          /\ q.barIfData = o.barIfData
        BY <1>1, <1>3, <1>6 DEF OriginatorType
    <2> HIDE DEF q
    <2>3. q2 = HandleInFlightMpdus(q, M, "TO_RETRANSMIT")
        BY <2>2 DEF NotifyMissedAck
    <2> HIDE DEF q2, M
    <2>4. Smaller(o, q)
        BY <1>1, <1>3, <1>6, <2>2 DEF Smaller, Ordered
    <2>5. Ordered(q) /\ \E b : At(q, b, o.nextSeq)
        BY <1>3, <2>2, <2>4, SmallerOrdered, SmallerStill
    <2>6. Resent(q)
        BY <1>3, <2>2 DEF Resent
    <2>7. /\ M \in SUBSET q.baq /\ q.baq \subseteq q.retry \union q.inflight
          /\ q.baq \ M \subseteq q.inflight
        BY <1>3, <2>2 DEF M
    <2>8. /\ Sound(q2, o.nextSeq) /\ Moved(q, q2, {}, o.nextSeq)
          /\ \E gone, back \in SUBSET q.baq :
                /\ Handled(q, q2, gone, back) /\ back \intersect gone = {}
                /\ M \subseteq gone \union back /\ \A k \in back : k > expired
        BY <1>1, <2>2, <2>3, <2>5, <2>6, <2>7, RetransmitSound, SMTT(40)
    <2>9. PICK gone \in SUBSET o.baq, back \in SUBSET o.baq :
             /\ Handled(q, q2, gone, back) /\ back \intersect gone = {}
             /\ M \subseteq gone \union back /\ \A k \in back : k > expired
        BY <2>2, <2>8
    <2>10. /\ q2.edca = o.edca \ gone /\ q2.baq = o.baq \ (gone \union back)
           /\ q2.inflight = (o.inflight \ {m}) \ (gone \union back)
           /\ q2.expiring = {} /\ q2.seq = o.seq /\ q2.nextSeq = o.nextSeq
           /\ q2.bar = "queued" \/ (gone = {} /\ q2.bar = o.bar)
        BY <2>2, <2>9 DEF Handled
    <2>11. m \notin q2.baq
        BY <2>9, <2>10 DEF M
    <2>12. Idle(q2)
        <3>1. Tracked(q2)
            BY <1>1, <2>10, <2>11 DEF Tracked
        <3>2. ~ UseRts => ~ Waiting(q2)
            BY <1>1, <1>6, <2>10, <2>11 DEF OnTheAir, Waiting
        <3>3. q2.edca \subseteq o.edca /\ q2.expiring = o.expiring /\ q2.bar # "sent"
            BY <1>1, <2>10
        <3> QED  BY <1>1, <2>8, <2>10, <3>1, <3>2, <3>3, IdleAfter
    <2>13. Announced(o.baq, q2)
        <3> SUFFICES ASSUME NEW k \in o.baq
                     PROVE  \/ k \in q2.edca /\ (k > expired \/ k \in q2.inflight)
                            \/ q2.bar # "none"
            BY DEF Announced
        <3>1. k \in o.edca /\ k \in o.inflight
            BY <1>3 DEF Ordered
        <3>2. CASE k \in gone
            BY <2>10, <3>2
        <3>3. CASE k \in back /\ k \notin gone
            BY <2>9, <2>10, <3>1, <3>3
        <3>4. CASE k \notin gone \union back
            <4>1. k # m
                BY <2>9, <3>4 DEF M
            <4> QED  BY <2>10, <3>1, <3>4, <4>1
        <3> QED  BY <3>2, <3>3, <3>4
    <2>14. Proceeds(o, q2, {})
        <3>1. PICK b : At(o, b, o.nextSeq)
            BY <1>3
        <3>2. At(q, b, o.nextSeq) /\ b \in Nat
            BY <1>3, <2>2, <2>4, <3>1, SmallerStill DEF At, WindowAt
        <3>3. StaysPut(o, q)
            BY <2>2 DEF StaysPut, Pending
        <3>4. Moved(o, q, {}, o.nextSeq)
            BY <3>1, <3>2, <3>3, StaysPutMoves DEF Moved
        <3>5. Proceeds(o, q, {})
            BY <2>2, <3>4 DEF Proceeds
        <3>6. Proceeds(q, q2, {})
            BY <2>2, <2>8, <2>10 DEF Proceeds
        <3>7. q2 \in OriginatorType
            BY <2>8 DEF Sound
        <3> QED  BY <1>3, <2>2, <3>5, <3>6, <3>7, ThenProceeds
    <2> QED  BY <1>4, <2>1, <2>12, <2>13, <2>14
<1>8. CASE ~ retransmit
    <2> DEFINE q == Dequeue(NotifyDiscardedMpdu(o, m), exch.psdu)
    <2>1. TransmissionFailed(q)
        BY <1>5, <1>6, <1>8
    <2>2. AnswerDue({"ampdu", "mpdu", "bar"}) /\ exch.kind \in {"ampdu", "mpdu"}
        BY <1>1 DEF NormalAckTimeout, AnswerDue
    <2>3. \A k \in exch.psdu : k <= m
        BY <1>6 DEF Msdu
    <2>4. Idle(q) /\ Announced(o.baq, q) /\ Proceeds(o, q, {})
        BY <2>2, <2>3, DiscardStep
    <2> QED  BY <1>4, <2>1, <2>4
<1> QED  BY <1>7, <1>8

LEMMA UnacknowledgedSentStep ==
    ASSUME OriginatorInv, UnacknowledgedSent 
    PROVE  OriginatorInv' /\ GivenUpStep /\ Proceeds(o, o', {})
<1>1. /\ Sound(o, o.nextSeq) /\ Counted(o) /\ Tracked(o)
      /\ exch \in ExchangeType /\ exch # NoExchange /\ exch.kind = "mpduBar"
      /\ o.bar = "sent" => exch.kind = "bar"
      /\ OnTheAir(o, exch)
      /\ expired \in Nat /\ nMsdu \in 0 .. MaxMsdu /\ expired \in 0 .. nMsdu
    BY AnswerFacts DEF UnacknowledgedSent
<1>2. UNCHANGED <<nMsdu, expired>> /\ TransmissionSucceeded(o)
    BY DEF UnacknowledgedSent
<1>3. Idle(o)
    BY <1>1 DEF Idle, OnTheAir
<1>4. Announced(o.baq, o)
    BY <1>1 DEF Announced, Sound, Ordered
<1>5. OriginatorInv' /\ Proceeds(o, o', {}) /\ \A m \in o.baq : m \in o'.edca \/ o'.bar # "none" \/ o'.barIfData
    BY <1>1, <1>2, <1>3, <1>4, EndOfExchange
<1> QED  BY <1>5 DEF GivenUpStep

-----------------------------------------------------------------------------
(* The exchanges that wait for a CTS.                                      *)

\* ReleaseSequenceNumbers: the numbers that were never on the air, N, are the
\* highest and are given out again.
Releasable(q, psdu, N, limit) ==
    /\ q \in OriginatorType /\ Ordered(q) /\ q.baq \subseteq q.inflight
    /\ psdu \intersect q.inflight = {} /\ psdu \subseteq Msdu
    /\ N = psdu \ q.retry /\ limit = q.nextSeq - Cardinality(N)
    /\ \A m \in N : q.seq[m] # 0 /\ limit <= q.seq[m]
    /\ \A m \in Kept(q) \ N : q.seq[m] # 0 => q.seq[m] < limit
    /\ \A m \in q.edca \ q.inflight : q.seq[m] # 0 => m \in q.retry \/ m \in N

LEMMA ReleaseSound ==
    ASSUME NEW q, NEW psdu, NEW N, NEW limit, Releasable(q, psdu, N, limit), NEW b, At(q, b, limit),
           NEW q2, q2 = ReleaseSequenceNumbers(q, psdu)
    PROVE  /\ Sound(q2, limit) /\ q2.nextSeq = limit /\ q2.edca = q.edca /\ q2.inflight = q.inflight
           /\ q2.baq = q.baq /\ q2.expiring = q.expiring /\ q2.bar = q.bar
           /\ q2.barIfData = q.barIfData /\ \A m \in Msdu : q.seq[m] = 0 => q2.seq[m] = 0
           /\ \A m \in Msdu : q2.seq[m] = IF m \in N THEN 0 ELSE q.seq[m]
           /\ StaysPut(q, q2) /\ At(q2, b, limit)
<1>0. Releasable(q, psdu, N, limit)
    OBVIOUS
<1> USE <1>0 DEF Releasable
<1>1. /\ q.seq \in [Msdu -> Int] /\ q.nextSeq \in Int /\ limit \in Nat /\ b \in Nat /\ 0 < b
      /\ limit <= q.nextSeq /\ q.nextSeq <= b + WinSize /\ WindowAt(q.win, b, limit)
      /\ Kept(q) \subseteq Msdu /\ q.edca \subseteq Msdu /\ q.baq \subseteq Msdu
      /\ q.retry \union q.inflight \subseteq Msdu
    BY TypeFields DEF At, WindowAt, NumbersAt, Kept
<1>2. {m \in psdu : m \notin q.retry /\ m \notin q.inflight} = N
    OBVIOUS
<1> DEFINE seq2 == [m \in Msdu |-> IF m \in N THEN 0 ELSE q.seq[m]]
<1>3. seq2 \in [Msdu -> Int] /\ \A m \in Msdu : seq2[m] = IF m \in N THEN 0 ELSE q.seq[m]
    BY <1>1
<1>4. q2 = [q EXCEPT !.seq = seq2, !.nextSeq = limit]
    BY <1>2 DEF ReleaseSequenceNumbers, OriginatorType
<1> HIDE DEF seq2
<1>5. /\ q2 \in OriginatorType /\ q2.seq = seq2 /\ q2.nextSeq = limit /\ q2.edca = q.edca
      /\ q2.inflight = q.inflight /\ q2.baq = q.baq /\ q2.expiring = q.expiring
      /\ q2.bar = q.bar /\ q2.barIfData = q.barIfData /\ q2.win = q.win /\ q2.retry = q.retry
    <2>1. limit \in Int
        BY <1>1
    <2> QED  BY <1>3, <1>4, <2>1 DEF OriginatorType
<1>6. Kept(q2) = Kept(q)
    BY <1>5 DEF Kept
<1>7. \A m \in Kept(q) : seq2[m] # 0 => m \notin N /\ seq2[m] = q.seq[m] /\ q.seq[m] # 0
    BY <1>1, <1>3
<1>8. \A m \in q.baq : m \notin N /\ seq2[m] = q.seq[m]
    <2> SUFFICES ASSUME NEW m \in q.baq PROVE m \notin N
        BY <1>1, <1>3
    <2>1. q.seq[m] < limit /\ q.seq[m] \in Int
        BY <1>1 DEF At, NumbersAt
    <2> QED  BY <1>1, <2>1
<1>9. Ordered(q2)
    <2>1. \A m, k \in Kept(q2) : q2.seq[m] # 0 /\ q2.seq[k] # 0 /\ m < k => q2.seq[m] < q2.seq[k]
        BY <1>5, <1>6, <1>7 DEF Ordered
    <2>2. ASSUME NEW m \in q.edca, NEW k \in Kept(q), seq2[k] # 0, m < k PROVE seq2[m] # 0
        <3>1. k \notin N /\ q.seq[k] # 0 /\ q.seq[k] < limit
            BY <1>7, <2>2
        <3>2. q.seq[m] # 0 /\ m \in Kept(q) /\ m \in Msdu
            BY <1>1, <2>2, <3>1 DEF Ordered, Kept
        <3>3. q.seq[m] < q.seq[k] /\ q.seq[m] \in Int /\ q.seq[k] \in Int
            BY <1>1, <2>2, <3>1, <3>2 DEF Ordered
        <3>4. ASSUME m \in N PROVE FALSE
            <4>1. limit <= q.seq[m]
                BY <3>4
            <4>2. limit \in Nat
                BY <1>1
            <4> QED  BY <3>1, <3>3, <4>1, <4>2
        <3> QED  BY <1>3, <3>2, <3>4
    <2>3. \A m \in q2.retry \union q2.inflight : q2.seq[m] # 0
        <3> SUFFICES ASSUME NEW m \in q.retry \union q.inflight PROVE seq2[m] # 0
            BY <1>5
        <3>1. m \in Msdu /\ m \notin N /\ q.seq[m] # 0
            BY <1>1 DEF Ordered
        <3> QED  BY <1>3, <3>1
    <2> QED  BY <1>5, <1>6, <2>1, <2>2, <2>3 DEF Ordered
<1>10. Resent(q2)
    BY <1>5, <1>7 DEF Resent, Kept
<1>11. At(q2, b, limit)
    <2>1. q2.nextSeq <= b + WinSize /\ limit <= q2.nextSeq
        BY <1>1, <1>5, HalfOfSpace
    <2>2. \A m \in q2.edca : q2.seq[m] # 0 => q2.nextSeq - WinSize <= q2.seq[m]
        <3> SUFFICES ASSUME NEW m \in q.edca, seq2[m] # 0 PROVE limit - WinSize <= seq2[m]
            BY <1>5
        <3>1. seq2[m] = q.seq[m] /\ q.nextSeq - WinSize <= q.seq[m] /\ q.seq[m] \in Int
            BY <1>1, <1>7 DEF At, NumbersAt, Kept
        <3> QED  BY <1>1, <3>1, HalfOfSpace
    <2>3. \A m \in q2.expiring : q2.seq[m] # 0 => b - SEQNO_SPACE_HALF_SIZE <= q2.seq[m]
        BY <1>5, <1>7 DEF At, NumbersAt, Kept
    <2>4. \A m \in Kept(q2) : q2.seq[m] # 0 => q2.seq[m] < q2.nextSeq /\ q2.seq[m] \notin Marks(q2.win, b)
        BY <1>5, <1>6, <1>7 DEF At, NumbersAt
    <2>5. \A m \in q2.baq : b <= q2.seq[m] /\ q2.seq[m] < limit
        BY <1>5, <1>8 DEF At, NumbersAt
    <2> QED  BY <1>1, <1>5, <2>1, <2>2, <2>3, <2>4, <2>5 DEF At, NumbersAt
<1>12. \A m \in Msdu : q.seq[m] = 0 => q2.seq[m] = 0
    BY <1>3, <1>5
<1>13. StaysPut(q, q2)
    BY <1>5 DEF StaysPut, Pending
<1> QED  BY <1>3, <1>5, <1>9, <1>10, <1>11, <1>12, <1>13 DEF Sound

\* The numbers that were never on the air are given back.
TakesBack(q, e, q2) ==
    /\ q2.nextSeq = Limit(q, e) /\ q2.edca \subseteq q.edca
    /\ \A m \in Msdu : q2.seq[m] = IF m \in Unsent(q, e) THEN 0 ELSE q.seq[m]
    /\ Moved(q, q2, {}, Limit(q, e))

\* A CTS that never comes loses nothing and gives nothing up in silence.
LEMMA CtsTimeoutStep ==
    ASSUME OriginatorInv, CtsTimeout 
    PROVE  OriginatorInv' /\ GivenUpStep /\ TakesBack(o, exch, o')
<1> DEFINE psdu == exch.psdu
           N == psdu \ o.retry
           L == Limit(o, exch)
           q0 == [o EXCEPT !.inflight = @ \ psdu]
<1>1. /\ exch # NoExchange /\ exch.phase = "rts" /\ o.expiring = {} /\ Busy(o, exch)
      /\ exch \in ExchangeType /\ expired \in Nat /\ nMsdu \in 0 .. MaxMsdu /\ expired \in 0 .. nMsdu
      /\ UNCHANGED <<nMsdu, expired>>
    BY BlockAckAssumption DEF CtsTimeout, OriginatorInv, Settled
<1>2. /\ psdu \subseteq Msdu /\ psdu \subseteq o.inflight \ o.baq /\ UseRts = TRUE
      /\ Unsent(o, exch) = N /\ L = o.nextSeq - Cardinality(N)
      /\ \A m \in N : L <= o.seq[m]
      /\ \A m \in Kept(o) \ N : o.seq[m] # 0 => o.seq[m] < L
      /\ Counted(o)
      /\ o.bar = "sent" => psdu = {}
      /\ \A m \in psdu : o.seq[m] # 0 /\ o.nextSeq - WinSize <= o.seq[m]
      /\ Sound(o, L)
    <2>1. Unsent(o, exch) = N
        BY <1>1 DEF Unsent
    <2>2. AwaitsCts(o, exch)
        BY <1>1 DEF Busy
    <2>3. psdu \subseteq Msdu
        BY <1>1 DEF ExchangeType
    <2>4. UseRts = TRUE
        BY <2>2, BlockAckAssumption DEF AwaitsCts
    <2>5. o.bar = "sent" => psdu = {}
        BY <1>1 DEF Busy
    <2> QED  BY <1>1, <2>1, <2>2, <2>3, <2>4, <2>5 DEF AwaitsCts, Busy, Limit
<1> HIDE DEF L
<1>3. /\ o \in OriginatorType /\ Ordered(o) /\ Resent(o) /\ o.baq \subseteq o.inflight
    BY <1>2 DEF Sound
<1>4. PICK b : At(o, b, L)
    BY <1>2 DEF Sound
<1>5. /\ q0 \in OriginatorType /\ q0.edca = o.edca /\ q0.inflight = o.inflight \ psdu
      /\ q0.retry = o.retry /\ q0.baq = o.baq /\ q0.win = o.win /\ q0.seq = o.seq
      /\ q0.nextSeq = o.nextSeq /\ q0.expiring = {} /\ q0.bar = o.bar
      /\ q0.barIfData = o.barIfData /\ b \in Nat
    BY <1>1, <1>2, <1>3, <1>4 DEF OriginatorType, At, WindowAt
<1> HIDE DEF q0
<1>6. Smaller(o, q0)
    BY <1>1, <1>2, <1>3, <1>5 DEF Smaller, Ordered
<1>7. Ordered(q0) /\ At(q0, b, L)
    BY <1>3, <1>4, <1>5, <1>6, SmallerOrdered, SmallerStill
<1> HIDE DEF N, psdu
<1>8. ASSUME NEW q \in OriginatorType, Ordered(q), NEW c \in Nat, At(q, c, L),
             Moves(o, b, q, c, {}), q.baq \subseteq q.inflight,
             psdu \intersect q.inflight = {}, q.edca \subseteq o.edca, q.expiring = {},
             q.inflight \subseteq o.inflight, q.retry = o.retry, q.seq = o.seq,
             q.nextSeq = o.nextSeq, q.bar # "sent", Announced(o.baq, q),
             \A m \in q.edca \ q.inflight : m \notin o.inflight \/ m \in psdu,
             TransmissionFailed(ReleaseSequenceNumbers(q, psdu))
      PROVE  OriginatorInv' /\ GivenUpStep /\ TakesBack(o, exch, o')
    <2> DEFINE q2 == ReleaseSequenceNumbers(q, psdu)
    <2>0. q2 = ReleaseSequenceNumbers(q, psdu)
        OBVIOUS
    <2> HIDE DEF q2
    <2>1. \A m \in N : q.seq[m] # 0 /\ L <= q.seq[m]
        BY <1>2, <1>8 DEF N
    <2>2. \A m \in Kept(q) \ N : q.seq[m] # 0 => q.seq[m] < L
        BY <1>2, <1>8 DEF Kept
    <2>3. \A m \in q.edca \ q.inflight : q.seq[m] # 0 => m \in q.retry \/ m \in N
        BY <1>3, <1>8 DEF Resent, N
    <2>4. N = psdu \ q.retry /\ L = q.nextSeq - Cardinality(N)
        BY <1>2, <1>8 DEF N
    <2>5. /\ Sound(q2, L) /\ q2.nextSeq = L /\ q2.edca = q.edca /\ q2.inflight = q.inflight
          /\ q2.baq = q.baq /\ q2.expiring = q.expiring /\ q2.bar = q.bar
          /\ q2.barIfData = q.barIfData /\ \A m \in Msdu : q.seq[m] = 0 => q2.seq[m] = 0
          /\ \A m \in Msdu : q2.seq[m] = IF m \in N THEN 0 ELSE q.seq[m]
          /\ StaysPut(q, q2) /\ At(q2, c, L)
        <3>1. /\ N = psdu \ q.retry /\ L = q.nextSeq - Cardinality(N)
              /\ psdu \subseteq Msdu /\ psdu \intersect q.inflight = {}
              /\ q.baq \subseteq q.inflight /\ q \in OriginatorType /\ Ordered(q) /\ At(q, c, L)
            BY <1>2, <1>8, <2>4
        <3>2. Releasable(q, psdu, N, L)
            BY <2>1, <2>2, <2>3, <3>1 DEF Releasable
        <3> QED  BY <2>0, <3>1, <3>2, ReleaseSound
    <2>6. Counted(q2)
        BY <1>2, <1>8, <2>5 DEF Counted, Kept
    <2>7. Idle(q2)
        BY <1>2, <1>8, <2>5, <2>6 DEF Idle, Tracked
    <2>8. Announced(o.baq, q2)
        BY <1>8, <2>5 DEF Announced
    <2>9. OriginatorInv' /\ Proceeds(q2, o', {}) /\ \A m \in o.baq : m \in o'.edca \/ o'.bar # "none" \/ o'.barIfData
        BY <1>1, <1>8, <2>0, <2>7, <2>8, EndOfExchange
    <2>10. Moved(o, o', {}, L)
        <3>1. PICK d \in Nat, e \in Nat : At(q2, d, L) /\ At(o', e, L) /\ Moves(q2, d, o', e, {})
            BY <2>5, <2>9 DEF Proceeds, Moved
        <3>2. d = c
            BY <2>5, <3>1, UniqueStart DEF Sound, At, NumbersAt
        <3>3. Moves(q, c, q2, c, {})
            BY <2>5, StaysPutMoves
        <3>4. Moves(q, c, o', e, {} \union {})
            BY <3>1, <3>2, <3>3, MovesTwice
        <3>5. Moves(o, b, o', e, {} \union ({} \union {}))
            BY <1>5, <1>8, <3>4, MovesTwice
        <3>6. {} \union ({} \union {}) = {}
            OBVIOUS
        <3> QED  BY <1>4, <1>5, <3>1, <3>5, <3>6 DEF Moved
    <2>11. TakesBack(o, exch, o')
        <3>1. Unsent(o, exch) = N /\ Limit(o, exch) = L
            BY <1>2 DEF L
        <3>2. o'.seq = q2.seq /\ o'.nextSeq = L /\ o'.edca \subseteq o.edca
            BY <1>8, <2>5, <2>9 DEF Proceeds
        <3>3. \A m \in Msdu : o'.seq[m] = IF m \in N THEN 0 ELSE o.seq[m]
            BY <1>8, <2>5, <3>2
        <3> QED  BY <2>10, <3>1, <3>2, <3>3 DEF TakesBack
    <2> QED  BY <2>9, <2>11 DEF GivenUpStep
<1>9. PICK retransmit \in BOOLEAN :
         TransmissionFailed(ReleaseSequenceNumbers(
             IF ~ retransmit THEN DiscardPsdu(q0, psdu)
             ELSE IF q0.bar = "sent" THEN [q0 EXCEPT !.bar = "queued"] ELSE q0, psdu))
    BY DEF CtsTimeout, q0, psdu
<1>10. CASE retransmit
    <2> DEFINE q == IF q0.bar = "sent" THEN [q0 EXCEPT !.bar = "queued"] ELSE q0
    <2>1. TransmissionFailed(ReleaseSequenceNumbers(q, psdu))
        BY <1>9, <1>10
    <2>2. q \in OriginatorType /\ SameMpdus(q0, q) /\ q.bar # "sent"
        <3>1. CASE q0.bar = "sent"
            BY <1>5, <3>1, SetBar
        <3>2. CASE q0.bar # "sent"
            BY <1>5, <3>2 DEF SameMpdus
        <3> QED  BY <3>1, <3>2
    <2>9. Moves(o, b, q, b, {})
        <3>1. q.bar = "queued" \/ q.bar = q0.bar
            BY <1>5 DEF OriginatorType
        <3>2. q.barIfData = q0.barIfData
            BY <1>5 DEF OriginatorType
        <3> HIDE DEF q
        <3>3. StaysPut(o, q)
            BY <1>5, <2>2, <3>1, <3>2 DEF StaysPut, Pending, SameMpdus
        <3> QED  BY <1>5, <3>3, StaysPutMoves
    <2> HIDE DEF q
    <2>3. Smaller(q0, q) /\ q.win = q0.win
        BY <1>7, <2>2 DEF Smaller, SameMpdus, Ordered
    <2>4. Ordered(q) /\ At(q, b, L)
        BY <1>5, <1>7, <2>3, SmallerOrdered, SmallerStill
    <2>5. /\ q.edca = o.edca /\ q.inflight = o.inflight \ psdu /\ q.baq = o.baq
          /\ q.retry = o.retry /\ q.seq = o.seq /\ q.nextSeq = o.nextSeq /\ q.expiring = {}
        BY <1>5, <2>2 DEF SameMpdus
    <2>6. q.baq \subseteq q.inflight
        BY <1>2, <1>3, <2>5
    <2>7. Announced(o.baq, q)
        BY <1>3, <2>5, <2>6 DEF Announced, Ordered
    <2>8. /\ psdu \intersect q.inflight = {} /\ q.edca \subseteq o.edca /\ q.inflight \subseteq o.inflight
          /\ \A m \in q.edca \ q.inflight : m \notin o.inflight \/ m \in psdu
        BY <2>5
    <2> QED  BY <1>5, <1>8, <2>1, <2>2, <2>4, <2>5, <2>6, <2>7, <2>8, <2>9
<1>11. CASE ~ retransmit
    <2> DEFINE sent == psdu \intersect q0.retry
               q1 == Dequeue(q0, psdu)
               q2 == IF sent = {} THEN q1 ELSE NotifyDiscardedMpdu(q1, Max(sent))
               q == IF q0.bar = "sent" THEN [q2 EXCEPT !.bar = "none"] ELSE q2
    <2>1. TransmissionFailed(ReleaseSequenceNumbers(q, psdu))
        BY <1>9, <1>11 DEF DiscardPsdu
    <2>2. /\ q1 \in OriginatorType /\ q1.edca = o.edca \ psdu /\ q1.inflight = o.inflight \ psdu
          /\ q1.retry = o.retry /\ q1.baq = o.baq /\ q1.win = o.win /\ q1.seq = o.seq
          /\ q1.nextSeq = o.nextSeq /\ q1.expiring = {} /\ q1.bar = o.bar
          /\ q1.barIfData = o.barIfData
        BY <1>5, DequeueFields
    <2> HIDE DEF q1
    <2>3. Smaller(q0, q1) /\ q1.win = q0.win
        BY <1>2, <1>5, <1>7, <2>2 DEF Smaller, Ordered
    <2>4. Ordered(q1) /\ At(q1, b, L)
        BY <1>5, <1>7, <2>3, SmallerOrdered, SmallerStill
    <2>5. \E c \in Nat, gone \in SUBSET o.baq : GaveUp(q1, q2, gone) /\ At(q2, c, L)
                                       /\ (sent = {} => gone = {} /\ q2 = q1)
                                       /\ Moves(o, b, q2, c, {})
        <3>0. b \in Nat
            BY <1>4 DEF At, WindowAt
        <3>1. CASE sent = {}
            <4>1. GaveUp(q1, q2, {})
                BY <2>2, <3>1 DEF GaveUp
            <4>2. StaysPut(o, q1) /\ q2 = q1
                BY <2>2, <3>1 DEF StaysPut, Pending
            <4>3. Moves(o, b, q1, b, {})
                BY <3>0, <4>2, StaysPutMoves
            <4> QED  BY <2>4, <3>0, <3>1, <4>1, <4>2, <4>3
        <3>2. CASE sent # {}
            <4> DEFINE m == Max(sent)
            <4>1. m \in sent
                <5>1. sent \subseteq Msdu
                    BY <1>2
                <5>2. sent # {}
                    BY <3>2
                <5> HIDE DEF sent
                <5>3. sent \in SUBSET Nat /\ MaxMsdu \in Nat /\ \A y \in sent : y <= MaxMsdu
                    BY <5>1, BlockAckAssumption DEF Msdu
                <5> QED  BY <5>2, <5>3, MaxIsGreatest
            <4>2. q2 = NotifyDiscardedMpdu(q1, m)
                BY <3>2
            <4> HIDE DEF m, q2
            <4>3. /\ m \in Msdu /\ m \in psdu /\ m \in o.retry /\ o.seq[m] \in Int /\ o.seq[m] # 0
                  /\ o.nextSeq - WinSize <= o.seq[m]
                BY <1>2, <1>3, <1>5, <4>1, TypeFields
            <4>4. m \in Kept(o) \ N
                BY <1>2, <1>3, <4>3 DEF N, Kept, Ordered
            <4>5. o.seq[m] < L
                BY <1>2, <4>3, <4>4
            <4>6. b - SEQNO_SPACE_HALF_SIZE <= o.seq[m]
                <5>1. b \in Nat /\ o.nextSeq \in Int /\ L \in Nat /\ b <= L /\ L <= o.nextSeq
                    BY <1>3, <1>4, TypeFields DEF At, WindowAt, NumbersAt
                <5> QED  BY <4>3, <5>1, HalfOfSpace
            <4>7. \E c \in Nat, gone \in SUBSET q1.baq :
                     /\ GaveUp(q1, q2, gone) /\ At(q2, c, L) /\ b <= c
                     /\ m \in q1.retry \union q1.inflight => q1.seq[m] < c
                     /\ Moves(q1, b, q2, c, {})
                BY <2>2, <2>4, <4>2, <4>3, <4>5, <4>6, DiscardAt
            <4>8. StaysPut(o, q1)
                BY <2>2 DEF StaysPut, Pending
            <4>9. PICK c \in Nat, gone \in SUBSET q1.baq :
                     GaveUp(q1, q2, gone) /\ At(q2, c, L) /\ Moves(q1, b, q2, c, {})
                BY <4>7
            <4>10. Moves(o, b, q2, c, {})
                BY <2>2, <3>0, <4>8, <4>9, StaysThenMoves
            <4> QED  BY <2>2, <3>2, <4>9, <4>10
        <3> QED  BY <3>1, <3>2
    <2>6. PICK c \in Nat, gone \in SUBSET o.baq : GaveUp(q1, q2, gone) /\ At(q2, c, L)
                                         /\ (sent = {} => gone = {} /\ q2 = q1)
                                       /\ Moves(o, b, q2, c, {})
        BY <2>5
    <2>7. sent # {} => o.bar # "sent"
        BY <1>2
    <2> HIDE DEF q2, sent
    <2>8. /\ q2 \in OriginatorType /\ Ordered(q2)
        BY <2>2, <2>4, <2>6, GaveUpSmaller, SmallerOrdered DEF GaveUp
    <2>9. /\ q \in OriginatorType /\ SameMpdus(q2, q) /\ q.bar # "sent"
          /\ gone # {} => q.bar = "queued"
        <3>1. CASE q0.bar = "sent"
            <4>1. gone = {}
                BY <1>5, <2>6, <2>7, <3>1
            <4>2. q = [q2 EXCEPT !.bar = "none"]
                BY <3>1
            <4> HIDE DEF q
            <4> QED  BY <2>8, <4>1, <4>2, SetBar
        <3>2. CASE q0.bar # "sent"
            <4>1. q = q2
                BY <3>2
            <4> HIDE DEF q
            <4> QED  BY <1>5, <2>2, <2>6, <2>8, <3>2, <4>1 DEF SameMpdus, GaveUp
        <3> QED  BY <3>1, <3>2
    <2>17. Moves(o, b, q, c, {})
        <3>1. CASE q0.bar = "sent"
            <4>1. q = [q2 EXCEPT !.bar = "none"] /\ q2.bar = "sent"
                BY <1>5, <2>2, <2>6, <2>7, <3>1
            <4> HIDE DEF q
            <4>2. q.barIfData = q2.barIfData
                BY <2>8, <4>1 DEF OriginatorType
            <4>3. StaysPut(q2, q)
                BY <2>9, <4>1, <4>2 DEF StaysPut, Pending, SameMpdus
            <4>4. q2.seq = o.seq /\ b \in Nat
                BY <1>5, <2>2, <2>6 DEF GaveUp
            <4> QED  BY <2>6, <4>3, <4>4, MovesThenStays
        <3>2. CASE q0.bar # "sent"
            <4>1. q = q2
                BY <3>2
            <4> QED  BY <2>6, <4>1
        <3> QED  BY <3>1, <3>2
    <2> HIDE DEF q
    <2>10. Smaller(q2, q) /\ q.win = q2.win
        BY <2>8, <2>9 DEF Smaller, SameMpdus, Ordered
    <2>11. Ordered(q) /\ At(q, c, L)
        BY <2>6, <2>8, <2>10, SmallerOrdered, SmallerStill
    <2>12. /\ q.edca = (o.edca \ psdu) \ gone /\ q.inflight = (o.inflight \ psdu) \ gone
           /\ q.baq = o.baq \ gone /\ q.retry = o.retry /\ q.seq = o.seq
           /\ q.nextSeq = o.nextSeq /\ q.expiring = {}
        BY <2>2, <2>6, <2>9 DEF SameMpdus, GaveUp
    <2>13. q.baq \subseteq q.inflight
        BY <1>2, <1>3, <2>12
    <2>14. Announced(o.baq, q)
        <3> SUFFICES ASSUME NEW m \in o.baq
                     PROVE  (m \in q.edca /\ m \in q.inflight) \/ q.bar # "none"
            BY DEF Announced
        <3>1. CASE m \in gone
            BY <2>9, <3>1
        <3>2. CASE m \notin gone
            BY <1>2, <1>3, <2>12, <3>2 DEF Ordered
        <3> QED  BY <3>1, <3>2
    <2>15. /\ psdu \intersect q.inflight = {} /\ q.edca \subseteq o.edca /\ q.inflight \subseteq o.inflight
        BY <2>12
    <2>16. \A m \in q.edca \ q.inflight : m \notin o.inflight \/ m \in psdu
        BY <2>12
    <2> QED  BY <1>8, <2>1, <2>9, <2>11, <2>17, <2>12, <2>13, <2>14, <2>15, <2>16
<1> QED  BY <1>10, <1>11

-----------------------------------------------------------------------------
(* Steps that leave the exchange under way.                                *)

\* A new MSDU at the tail of the queue has no number yet.
LEMMA AppendSound ==
    ASSUME NEW q, NEW limit, Sound(q, limit), NEW m \in Msdu, q.seq[m] = 0,
           \A k \in Kept(q) : k < m, NEW q2, q2 = [q EXCEPT !.edca = @ \union {m}]
    PROVE  /\ Sound(q2, limit) /\ q2.edca = q.edca \union {m} /\ q2.inflight = q.inflight
           /\ q2.baq = q.baq /\ q2.seq = q.seq /\ q2.nextSeq = q.nextSeq /\ q2.retry = q.retry
           /\ q2.bar = q.bar /\ q2.barIfData = q.barIfData /\ q2.win = q.win
           /\ q2.expiring = q.expiring
<1>1. q \in OriginatorType /\ Ordered(q) /\ Resent(q) /\ q.baq \subseteq q.inflight
    BY DEF Sound
<1>2. /\ q2 \in OriginatorType /\ q2.edca = q.edca \union {m} /\ q2.inflight = q.inflight
      /\ q2.baq = q.baq /\ q2.seq = q.seq /\ q2.nextSeq = q.nextSeq /\ q2.retry = q.retry
      /\ q2.bar = q.bar /\ q2.barIfData = q.barIfData /\ q2.win = q.win
      /\ q2.expiring = q.expiring
    BY <1>1 DEF OriginatorType
<1>3. Kept(q2) = Kept(q) \union {m}
    BY <1>2 DEF Kept
<1>4. Ordered(q2)
    <2>1. \A i, k \in Kept(q2) : q2.seq[i] # 0 /\ q2.seq[k] # 0 /\ i < k => q2.seq[i] < q2.seq[k]
        BY <1>1, <1>2, <1>3 DEF Ordered
    <2>2. ASSUME NEW i \in q2.edca, NEW k \in Kept(q2), q2.seq[k] # 0, i < k PROVE q2.seq[i] # 0
        <3>1. k \in Kept(q) /\ k < m /\ k \in Int /\ m \in Int
            BY <1>1, <1>2, <1>3, <2>2, TypeFields DEF Kept, Msdu
        <3>2. i # m
            BY <2>2, <3>1
        <3> QED  BY <1>1, <1>2, <2>2, <3>1, <3>2 DEF Ordered
    <2>3. q2.expiring \intersect q2.edca = {}
        <3>1. m \notin q.expiring
            BY DEF Kept, Msdu
        <3> QED  BY <1>1, <1>2, <3>1 DEF Ordered
    <2> QED  BY <1>1, <1>2, <2>1, <2>2, <2>3 DEF Ordered
<1>5. Resent(q2)
    BY <1>1, <1>2 DEF Resent
<1>6. \E b : At(q2, b, limit)
    <2>1. PICK b : At(q, b, limit)
        BY DEF Sound
    <2>2. At(q2, b, limit)
        BY <1>2, <1>3, <2>1 DEF At, NumbersAt
    <2> QED  BY <2>2
<1> QED  BY <1>1, <1>2, <1>4, <1>5, <1>6 DEF Sound

\* Time passes and MSDUs are queued, or expire: nothing changes for those in use.
LEMMA StayStep ==
    ASSUME OriginatorInv, nMsdu' \in 0 .. MaxMsdu, nMsdu <= nMsdu', expired' \in 0 .. nMsdu',
           expired <= expired', exch' = exch,
           access' = access \/ (access = "none" /\ access' = "requested"),
           NEW q, o' = q, Sound(q, Limit(o, exch)), q.seq = o.seq, q.nextSeq = o.nextSeq,
           q.retry = o.retry, q.inflight = o.inflight, q.baq = o.baq, q.win = o.win, q.bar = o.bar,
           \A m \in Kept(q) : m <= nMsdu' /\ (o.seq[m] # 0 => m \in Kept(o)),
           \A m \in q.expiring : m <= expired'
    PROVE  OriginatorInv' /\ GivenUpStep
<1>1. nMsdu \in Int /\ nMsdu' \in Int /\ expired \in Int /\ expired' \in Int /\ MaxMsdu \in Int
    BY BlockAckAssumption DEF OriginatorInv
<1>2. GivenUpStep
    BY DEF GivenUpStep
<1>3. Limit(q, exch) = Limit(o, exch) /\ Unsent(q, exch) = Unsent(o, exch)
    BY DEF Limit, Unsent
<1>4. ASSUME Counted(o) PROVE Counted(q)'
    <2>1. \A m \in Msdu : m > nMsdu' => q.seq[m] = 0
        <3> SUFFICES ASSUME NEW m \in Msdu, m > nMsdu' PROVE q.seq[m] = 0
            OBVIOUS
        <3>1. m > nMsdu
            BY <1>1 DEF Msdu
        <3> QED  BY <1>4, <3>1 DEF Counted
    <2> QED  BY <2>1 DEF Counted
<1>5. Waiting(q)' => Waiting(o)
    <2> SUFFICES ASSUME NEW m \in o.baq, m > expired', q \in OriginatorType PROVE m > expired
        BY DEF Waiting, Sound
    <2>1. m \in Int
        BY TypeFields DEF Msdu
    <2> QED  BY <1>1, <2>1
<1>6. CASE exch = NoExchange
    <2>1. Idle(o) /\ access # "granted" /\ Limit(o, exch) = o.nextSeq - Cardinality({})
        BY <1>6 DEF OriginatorInv, Limit, Unsent
    <2>2. Limit(o, exch) = o.nextSeq
        BY <2>1, FS_EmptySet DEF Idle, Sound, OriginatorType
    <2>3. Sound(q, q.nextSeq) /\ Tracked(q) /\ q.bar # "sent"
        BY <2>1, <2>2 DEF Idle, Tracked
    <2>4. Idle(q)'
        BY <1>4, <1>5, <2>1, <2>3 DEF Idle, Tracked
    <2>5. Idle(o)'
        BY <2>4
    <2> QED  BY <1>2, <1>6, <2>1, <2>5 DEF OriginatorInv
<1>7. CASE exch # NoExchange
    <2>1. Busy(o, exch) /\ exch \in ExchangeType /\ access = "granted"
        BY <1>7 DEF OriginatorInv
    <2>2. /\ Tracked(q) /\ \A m \in exch.psdu : IsOld(q, m) <=> IsOld(o, m)
        BY <2>1 DEF Busy, Tracked, IsOld, OSn
    <2>3. AwaitsCts(o, exch) => AwaitsCts(q, exch)
        BY <1>3 DEF AwaitsCts
    <2>4. OnTheAir(o, exch) => OnTheAir(q, exch)'
        <3>1. \A m \in q.baq : m > expired' => m > expired
            <4> SUFFICES ASSUME NEW m \in q.baq, m > expired', q \in OriginatorType PROVE m > expired
                BY DEF Sound
            <4>1. m \in Int
                BY TypeFields DEF Msdu
            <4> QED  BY <1>1, <4>1
        <3> QED  BY <2>2, <3>1 DEF OnTheAir
    <2>5. Busy(q, exch)'
        BY <1>3, <1>4, <2>1, <2>2, <2>3, <2>4 DEF Busy, Tracked
    <2>6. Busy(o, exch)'
        BY <2>5
    <2> QED  BY <1>2, <1>7, <2>1, <2>6 DEF OriginatorInv
<1> QED  BY <1>6, <1>7

\* The books, whether or not an exchange is under way.
LEMMA Books ==
    ASSUME OriginatorInv
    PROVE  /\ Sound(o, Limit(o, exch)) /\ Counted(o) /\ Tracked(o)
           /\ nMsdu \in 0 .. MaxMsdu /\ nMsdu \in Int /\ expired \in 0 .. nMsdu /\ expired \in Int
           /\ exch = NoExchange => Limit(o, exch) = o.nextSeq /\ Unsent(o, exch) = {}
<1>1. CASE exch = NoExchange
    <2>1. Idle(o) /\ Limit(o, exch) = o.nextSeq - Cardinality({}) /\ Unsent(o, exch) = {}
        BY <1>1 DEF OriginatorInv, Limit, Unsent
    <2>2. Limit(o, exch) = o.nextSeq
        BY <2>1, FS_EmptySet DEF Idle, Sound, OriginatorType
    <2> QED  BY <2>1, <2>2, BlockAckAssumption DEF OriginatorInv, Idle
<1>2. CASE exch # NoExchange
    BY <1>2, BlockAckAssumption DEF OriginatorInv, Busy
<1> QED  BY <1>1, <1>2

LEMMA EnqueueStep ==
    ASSUME OriginatorInv, Enqueue PROVE OriginatorInv' /\ GivenUpStep
<1> DEFINE q == WipeAllExpiredMpdus(o)
           m == nMsdu + 1
           q2 == [q EXCEPT !.edca = @ \union {m}]
<1>1. /\ o.expiring = {} /\ nMsdu \in 0 .. MaxMsdu /\ nMsdu < MaxMsdu /\ expired \in 0 .. nMsdu
      /\ nMsdu' = m /\ o' = q2 /\ exch' = exch /\ expired' = expired
      /\ access' = access \/ (access = "none" /\ access' = "requested")
    BY DEF Enqueue, OriginatorInv, Settled
<1>2. /\ nMsdu \in Int /\ MaxMsdu \in Int /\ m \in Msdu /\ m \in 0 .. MaxMsdu /\ expired \in 0 .. m
      /\ nMsdu <= m /\ expired <= expired /\ nMsdu < m
    BY <1>1, BlockAckAssumption DEF Msdu
<1>3. Sound(o, Limit(o, exch)) /\ Counted(o)
    BY Books
<1>4. /\ Sound(q, Limit(o, exch)) /\ q.edca \subseteq o.edca /\ q.inflight = o.inflight
      /\ q.baq = o.baq /\ q.seq = o.seq /\ q.nextSeq = o.nextSeq /\ q.retry = o.retry
      /\ q.bar = o.bar /\ q.win = o.win /\ q.expiring = o.edca \ q.edca
      /\ \A k \in o.edca \ q.edca : k <= expired
    BY <1>1, <1>3, WipeSound
<1> HIDE DEF q, m
<1>5. /\ Kept(q) = Kept(o) /\ Kept(q) \subseteq Msdu /\ \A k \in Kept(q) : k <= nMsdu
    BY <1>1, <1>3, <1>4, TypeFields DEF Kept, Counted, Sound
<1>6. \A k \in Kept(q) : k < m
    BY <1>2, <1>5 DEF Msdu
<1>7. o.seq[m] = 0
    BY <1>2, <1>3 DEF Counted
<1>8. /\ Sound(q2, Limit(o, exch)) /\ q2.edca = q.edca \union {m} /\ q2.inflight = q.inflight
      /\ q2.baq = q.baq /\ q2.seq = q.seq /\ q2.nextSeq = q.nextSeq /\ q2.retry = q.retry
      /\ q2.bar = q.bar /\ q2.win = q.win /\ q2.expiring = q.expiring
    BY <1>2, <1>4, <1>6, <1>7, AppendSound
<1> HIDE DEF q2
<1>9. \A k \in Kept(q2) : k <= m /\ (o.seq[k] # 0 => k \in Kept(o))
    <2> SUFFICES ASSUME NEW k \in Kept(q2) PROVE k <= m /\ (o.seq[k] # 0 => k \in Kept(o))
        OBVIOUS
    <2>1. CASE k = m
        BY <1>2, <1>7, <2>1 DEF Msdu
    <2>2. CASE k # m
        <3>1. k \in Kept(q)
            BY <1>8, <2>2 DEF Kept
        <3>2. k \in Int /\ k < m /\ m \in Int
            BY <1>2, <1>5, <1>6, <3>1 DEF Msdu
        <3> QED  BY <1>5, <3>1, <3>2
    <2> QED  BY <2>1, <2>2
<1>10. /\ nMsdu' \in 0 .. MaxMsdu /\ nMsdu <= nMsdu' /\ expired' \in 0 .. nMsdu' /\ expired <= expired'
       /\ \A k \in Kept(q2) : k <= nMsdu' /\ (o.seq[k] # 0 => k \in Kept(o))
       /\ \A k \in q2.expiring : k <= expired'
       /\ q2.seq = o.seq /\ q2.nextSeq = o.nextSeq /\ q2.retry = o.retry /\ q2.inflight = o.inflight
       /\ q2.baq = o.baq /\ q2.win = o.win /\ q2.bar = o.bar
    BY <1>1, <1>2, <1>4, <1>8, <1>9
<1> QED  BY <1>1, <1>8, <1>10, StayStep

LEMMA ExpireStep ==
    ASSUME OriginatorInv, Expire PROVE OriginatorInv' /\ GivenUpStep
<1>1. /\ expired < nMsdu /\ expired' = expired + 1 /\ nMsdu' = nMsdu /\ o' = o /\ exch' = exch
      /\ access' = access
    BY DEF Expire
<1>2. /\ Sound(o, Limit(o, exch)) /\ Counted(o) /\ nMsdu \in Int /\ expired \in Int
      /\ nMsdu \in 0 .. MaxMsdu /\ expired \in 0 .. nMsdu /\ Kept(o) \subseteq Msdu
    BY Books, TypeFields DEF Sound, Kept
<1>3. /\ nMsdu' \in 0 .. MaxMsdu /\ nMsdu <= nMsdu' /\ expired' \in 0 .. nMsdu' /\ expired <= expired'
    BY <1>1, <1>2
<1>4. /\ \A m \in Kept(o) : m <= nMsdu' /\ (o.seq[m] # 0 => m \in Kept(o))
      /\ \A m \in o.expiring : m <= expired'
    BY <1>1, <1>2 DEF Counted, Kept, Msdu
<1> QED  BY <1>1, <1>2, <1>3, <1>4, StayStep

\* An MPDU that has expired is let go; the window moves only with a BlockAckReq.
LetsGo(q, q2, limit) ==
    /\ q2.seq = q.seq /\ q2.nextSeq = q.nextSeq /\ q2.edca \subseteq q.edca
    /\ q2.bar = "queued" \/ (q2.win = q.win /\ q2.bar = q.bar)
    /\ Moved(q, q2, {}, limit)

\* The Expired traces of one instant are fired in the order of the queue.
LEMMA FireExpiredStep ==
    ASSUME OriginatorInv, FireExpired 
    PROVE  OriginatorInv' /\ GivenUpStep /\ LetsGo(o, o', Limit(o, exch))
<1> DEFINE m == Min(o.expiring)
           q == [o EXCEPT !.expiring = @ \ {m}]
           q2 == NotifyDiscardedMpdu(q, m)
           L == Limit(o, exch)
<1>1. o.expiring # {} /\ o' = q2 /\ UNCHANGED <<nMsdu, expired, exch, access>>
    BY DEF FireExpired, Settled
<1>2. /\ Sound(o, L) /\ Counted(o) /\ Tracked(o) /\ o \in OriginatorType /\ Ordered(o) /\ Resent(o)
      /\ o.baq \subseteq o.inflight /\ o.expiring \subseteq Msdu
    BY Books, TypeFields DEF Sound
<1>3. PICK b : At(o, b, L)
    BY <1>2 DEF Sound
<1>4. m \in o.expiring /\ m \in Msdu /\ \A k \in o.expiring : m <= k
    <2>1. o.expiring \in SUBSET Nat
        BY <1>2 DEF Msdu
    <2> QED  BY <1>1, <1>2, <2>1, MinIsLeast
<1> HIDE DEF m, L
<1>5. /\ q \in OriginatorType /\ q.edca = o.edca /\ q.inflight = o.inflight /\ q.baq = o.baq
      /\ q.retry = o.retry /\ q.seq = o.seq /\ q.nextSeq = o.nextSeq /\ q.win = o.win
      /\ q.bar = o.bar /\ q.expiring = o.expiring \ {m} /\ q.barIfData = o.barIfData
    BY <1>2 DEF OriginatorType
<1>6. q2 = NotifyDiscardedMpdu(q, m)
    OBVIOUS
<1> HIDE DEF q, q2
<1>7. Smaller(o, q) /\ Resent(q) /\ q.baq \subseteq q.inflight
    BY <1>2, <1>5 DEF Smaller, Ordered, Resent
<1>8. Sound(q, L) /\ At(q, b, L)
    BY <1>2, <1>3, <1>5, <1>7, SmallerSound, SmallerStill
<1>9. ASSUME m \in q.retry \union q.inflight
      PROVE  /\ b - SEQNO_SPACE_HALF_SIZE <= q.seq[m] /\ q.seq[m] < L
             /\ \A k \in q.expiring : q.seq[k] # 0 => q.seq[m] < q.seq[k]
    <2>1. o.seq[m] # 0 /\ m \in Kept(o) /\ m \notin o.edca
        BY <1>2, <1>4, <1>5, <1>9 DEF Ordered, Kept
    <2>2. b - SEQNO_SPACE_HALF_SIZE <= o.seq[m] /\ o.seq[m] < o.nextSeq
        BY <1>3, <1>4, <2>1 DEF At, NumbersAt
    <2>3. o.seq[m] < L
        <3>1. CASE exch = NoExchange
            BY <2>2, <3>1, Books DEF L
        <3>2. CASE exch # NoExchange /\ exch.phase # "rts"
            <4>1. L = o.nextSeq - Cardinality({})
                BY <3>2 DEF L, Limit, Unsent
            <4>2. L = o.nextSeq
                BY <1>2, <4>1, FS_EmptySet DEF OriginatorType
            <4> QED  BY <2>2, <4>2
        <3>3. CASE exch # NoExchange /\ exch.phase = "rts"
            <4>1. AwaitsCts(o, exch)
                BY <3>3 DEF OriginatorInv, Busy
            <4>2. m \notin Unsent(o, exch)
                BY <1>2, <2>1, <4>1 DEF AwaitsCts, Unsent, Ordered
            <4> QED  BY <2>1, <4>1, <4>2 DEF AwaitsCts, L
        <3> QED  BY <3>1, <3>2, <3>3
    <2>4. \A k \in q.expiring : q.seq[k] # 0 => q.seq[m] < q.seq[k]
        <3> SUFFICES ASSUME NEW k \in q.expiring, q.seq[k] # 0 PROVE q.seq[m] < q.seq[k]
            OBVIOUS
        <3>1. k \in o.expiring /\ k # m /\ m <= k /\ k \in Int /\ m \in Int
            BY <1>2, <1>4, <1>5 DEF Msdu
        <3>2. m < k
            BY <3>1
        <3> QED  BY <1>2, <1>4, <1>5, <2>1, <3>1, <3>2 DEF Ordered, Kept
    <2> QED  BY <1>5, <2>2, <2>3, <2>4
<1>10. PICK b2 \in Nat, gone \in SUBSET q.baq :
          /\ GaveUp(q, q2, gone) /\ Sound(q2, L) /\ At(q2, b2, L) /\ b <= b2
          /\ Moves(q, b, q2, b2, {}) /\ (q2.bar = "queued" \/ q2 = q)
          /\ \A k \in gone : q.seq[k] < b2
    BY <1>4, <1>6, <1>8, <1>9, DiscardSound
<1>11. /\ q2 \in OriginatorType /\ q2.edca = o.edca \ gone /\ q2.inflight = o.inflight \ gone
       /\ q2.baq = o.baq \ gone /\ q2.retry = o.retry /\ q2.seq = o.seq /\ q2.nextSeq = o.nextSeq
       /\ q2.expiring = o.expiring \ {m} /\ gone \subseteq o.baq
       /\ q2.bar = "queued" \/ (gone = {} /\ q2.bar = o.bar)
    BY <1>5, <1>10 DEF GaveUp
<1>12. Counted(q2) /\ Tracked(q2) /\ (Waiting(q2) => Waiting(o))
    BY <1>2, <1>11 DEF Counted, Kept, Tracked, Waiting
<1>13. GivenUpStep
    BY <1>1, <1>11 DEF GivenUpStep
<1>16. LetsGo(o, q2, L)
    <2>1. b \in Nat
        BY <1>3 DEF At, WindowAt
    <2>2. StaysPut(o, q)
        BY <1>5 DEF StaysPut, Pending
    <2>3. Moves(o, b, q2, b2, {})
        BY <1>5, <1>10, <2>1, <2>2, StaysThenMoves
    <2>4. q2.bar = "queued" \/ (q2.win = o.win /\ q2.bar = o.bar)
        BY <1>5, <1>10
    <2> QED  BY <1>3, <1>10, <1>11, <2>1, <2>3, <2>4 DEF LetsGo, Moved
<1>17. LetsGo(o, o', Limit(o, exch))
    BY <1>1, <1>16 DEF L
<1>14. CASE exch = NoExchange
    <2>1. Idle(o) /\ access # "granted" /\ L = o.nextSeq
        BY <1>14, Books DEF OriginatorInv, L
    <2>2. Idle(q2)
        BY <1>10, <1>11, <1>12, <2>1 DEF Idle
    <2>3. Idle(o)'
        BY <1>1, <2>2 DEF Idle, Counted, Tracked, Waiting
    <2> QED  BY <1>1, <1>13, <1>14, <1>17, <2>1, <2>3 DEF OriginatorInv
<1>15. CASE exch # NoExchange
    <2>1. Busy(o, exch) /\ exch \in ExchangeType /\ access = "granted" /\ exch.psdu \subseteq Msdu
        BY <1>15 DEF OriginatorInv, ExchangeType
    <2>2. Unsent(q2, exch) = Unsent(o, exch) /\ Limit(q2, exch) = L
        BY <1>11 DEF Unsent, Limit, L
    <2>3. AwaitsCts(o, exch) => AwaitsCts(q2, exch)
        BY <1>11, <2>2 DEF AwaitsCts, Kept, L
    <2>4. ASSUME OnTheAir(o, exch) PROVE OnTheAir(q2, exch)
        <3>1. \A k \in exch.psdu : k \in q2.baq \/ IsOld(q2, k)
            <4> SUFFICES ASSUME NEW k \in exch.psdu, k \notin q2.baq PROVE IsOld(q2, k)
                OBVIOUS
            <4>1. /\ o.nextSeq - WinSize <= o.seq[k] /\ o.seq[k] < o.nextSeq /\ k \in Msdu
                  /\ b \in Int /\ b2 \in Int /\ o.seq[k] \in Int
                BY <1>2, <1>3, <1>10, <2>1, TypeFields DEF Busy, At, WindowAt
            <4>2. o.seq[k] < b2
                <5>1. CASE k \in o.baq
                    BY <1>5, <1>10, <1>11, <5>1
                <5>2. CASE k \notin o.baq
                    <6>1. IsOld(o, k)
                        BY <2>4, <5>2 DEF OnTheAir
                    <6>2. o.seq[k] < b
                        BY <1>2, <1>3, <4>1, <6>1, QueuedAge
                    <6> QED  BY <1>10, <4>1, <6>2
                <5> QED  BY <5>1, <5>2
            <4> QED  BY <1>10, <1>11, <4>1, <4>2, QueuedAge
        <3> QED  BY <1>11, <2>4, <3>1 DEF OnTheAir
    <2>5. Busy(q2, exch)
        BY <1>10, <1>11, <1>12, <2>1, <2>2, <2>3, <2>4 DEF Busy
    <2>6. Busy(o, exch)'
        BY <1>1, <2>5 DEF Busy, Counted, Tracked, OnTheAir
    <2> QED  BY <1>1, <1>13, <1>15, <1>17, <2>1, <2>6 DEF OriginatorInv
<1> QED  BY <1>14, <1>15

\* The MPDUs of the PSDU are stored as it goes on the air, but for those that the
\* window has passed while the CTS was awaited.
LEMMA ReceiveCtsStep ==
    ASSUME OriginatorInv, ReceiveCts 
    PROVE  /\ OriginatorInv' /\ GivenUpStep /\ UseRts = TRUE /\ o'.seq = o.seq
           /\ o'.nextSeq = o.nextSeq /\ o'.win = o.win /\ o'.retry = o.retry /\ o'.edca = o.edca
<1> DEFINE P == exch.psdu
           L == Limit(o, exch)
           e == [exch EXCEPT !.phase = "air"]
           q == IF exch.kind = "mpduBar" THEN [o EXCEPT !.bar = "queued"] ELSE o
           q2 == StorePackets(q, P)
           stored == {m \in P : ~ IsOld(q, m)}
<1>1. /\ exch # NoExchange /\ exch.phase = "rts" /\ o' = q2 /\ exch' = e
      /\ UNCHANGED <<nMsdu, expired, access>>
    BY DEF ReceiveCts, Forward
<1>2. /\ Busy(o, exch) /\ AwaitsCts(o, exch) /\ exch \in ExchangeType /\ access = "granted"
      /\ Sound(o, L) /\ Counted(o) /\ Tracked(o)
    BY <1>1 DEF OriginatorInv, Busy
<1>3. /\ e \in ExchangeType /\ e # NoExchange /\ e.kind = exch.kind /\ e.psdu = P /\ e.phase = "air"
    <2>1. exch.kind # "none"
        BY <1>1, <1>2 DEF ExchangeType
    <2>2. e \in ExchangeType /\ e.kind = exch.kind /\ e.psdu = P /\ e.phase = "air"
        BY <1>1, <1>2 DEF ExchangeType
    <2> QED  BY <2>1, <2>2 DEF NoExchange
<1>4. /\ q \in OriginatorType /\ SameMpdus(o, q) /\ (q.bar = "sent" => o.bar = "sent")
    <2>1. o \in OriginatorType
        BY <1>2 DEF Sound
    <2>2. CASE exch.kind = "mpduBar"
        BY <2>1, <2>2, SetBar
    <2>3. CASE exch.kind # "mpduBar"
        BY <2>1, <2>3 DEF SameMpdus
    <2> QED  BY <2>2, <2>3
<1> HIDE DEF e, q, L
<1>5. Sound(q, L) /\ Ordered(q) /\ q.baq \subseteq q.inflight /\ Resent(q)
    BY <1>2, <1>4, SameSound DEF Sound
<1>6. PICK b : At(q, b, L)
    BY <1>5 DEF Sound
<1>7. P \in SUBSET q.edca /\ \A m \in P : q.seq[m] # 0
    BY <1>2, <1>4 DEF AwaitsCts, Busy, SameMpdus, Sound, Ordered
<1>8. /\ q2 = [q EXCEPT !.baq = @ \union stored] /\ q2 \in OriginatorType /\ Ordered(q2)
      /\ At(q2, b, q.nextSeq)
    BY <1>4, <1>5, <1>6, <1>7, StoreAt
<1> HIDE DEF q2, stored
<1>9. /\ q2.edca = o.edca /\ q2.inflight = o.inflight /\ q2.baq = o.baq \union stored
      /\ q2.retry = o.retry /\ q2.seq = o.seq /\ q2.nextSeq = o.nextSeq /\ q2.win = o.win
      /\ q2.expiring = o.expiring /\ q2.bar = q.bar
    <2>1. /\ q2.edca = q.edca /\ q2.inflight = q.inflight /\ q2.baq = q.baq \union stored
          /\ q2.retry = q.retry /\ q2.seq = q.seq /\ q2.nextSeq = q.nextSeq /\ q2.win = q.win
          /\ q2.expiring = q.expiring /\ q2.bar = q.bar
        BY <1>4, <1>8 DEF OriginatorType
    <2> QED  BY <1>4, <2>1 DEF SameMpdus
<1>10. stored \subseteq P /\ \A m \in P : m \in stored \/ IsOld(o, m)
    BY <1>4 DEF stored, IsOld, OSn, SameMpdus
<1>11. Sound(q2, q2.nextSeq)
    <2>1. Resent(q2)
        BY <1>2, <1>9 DEF Resent, Sound
    <2>2. q2.baq \subseteq q2.inflight
        BY <1>2, <1>9, <1>10 DEF AwaitsCts, Sound
    <2>3. q.nextSeq = q2.nextSeq
        BY <1>4, <1>9 DEF SameMpdus
    <2> QED  BY <1>8, <2>1, <2>2, <2>3 DEF Sound
<1>12. Limit(q2, e) = q2.nextSeq
    <2>1. Limit(q2, e) = q2.nextSeq - Cardinality({})
        BY <1>3 DEF Limit, Unsent
    <2> QED  BY <1>8, <2>1, FS_EmptySet DEF OriginatorType
<1>13. Counted(q2) /\ Tracked(q2)
    BY <1>2, <1>9, BlockAckAssumption DEF Counted, Kept, Tracked, AwaitsCts
<1>14. OnTheAir(q2, e)
    <2>1. \A m \in P : m \in q2.baq \/ IsOld(q2, m)
        BY <1>9, <1>10 DEF IsOld, OSn
    <2> QED  BY <1>2, <1>3, <2>1, BlockAckAssumption DEF OnTheAir, AwaitsCts
<1>15. Busy(q2, e)
    BY <1>2, <1>3, <1>4, <1>9, <1>11, <1>12, <1>13, <1>14 DEF Busy
<1>16. Busy(o, exch)'
    BY <1>1, <1>15 DEF Busy, Counted, Tracked, OnTheAir
<1>17. GivenUpStep
    BY <1>1, <1>9 DEF GivenUpStep
<1>18. UseRts = TRUE
    BY <1>2, BlockAckAssumption DEF AwaitsCts
<1>19. OriginatorInv'
    BY <1>1, <1>2, <1>3, <1>16 DEF OriginatorInv
<1> QED  BY <1>1, <1>9, <1>17, <1>18, <1>19

\* What the medium does to a PSDU on the air is nothing to the originator.
LEMMA AirStep ==
    ASSUME OriginatorInv, OnAir(exch), NEW e \in ExchangeType, e.kind = exch.kind,
           e.psdu = exch.psdu, e.phase \in {"air", "answer"}, exch' = e,
           UNCHANGED <<nMsdu, expired, o, access>>
    PROVE  OriginatorInv' /\ GivenUpStep
<1>1. /\ exch # NoExchange /\ exch.phase = "air" /\ Busy(o, exch) /\ access = "granted"
      /\ exch \in ExchangeType
    BY DEF OnAir, OriginatorInv
<1>2. e # NoExchange
    <2>1. exch.kind # "none"
        BY <1>1 DEF ExchangeType
    <2> QED  BY <2>1 DEF NoExchange
<1>3. Unsent(o, e) = Unsent(o, exch) /\ Limit(o, e) = Limit(o, exch)
    BY <1>1, <1>2 DEF Unsent, Limit
<1>4. OnTheAir(o, e)
    BY <1>1 DEF Busy, OnTheAir
<1>5. Busy(o, e)
    BY <1>1, <1>3, <1>4 DEF Busy
<1>6. Busy(o, exch)'
    BY <1>5 DEF Busy, Counted, Tracked, OnTheAir
<1>7. GivenUpStep
    BY DEF GivenUpStep
<1> QED  BY <1>1, <1>2, <1>6, <1>7 DEF OriginatorInv

LEMMA MediumStep ==
    ASSUME OriginatorInv, ReceiveMpdu \/ LoseMpdu \/ ReceiveBar \/ LoseBar
    PROVE  /\ OriginatorInv' /\ GivenUpStep /\ OnAir(exch)
           /\ exch'.kind = exch.kind /\ exch'.psdu = exch.psdu /\ exch'.phase \in {"air", "answer"}
<1>1. OnAir(exch) /\ UNCHANGED <<nMsdu, expired, o, access>>
    BY DEF ReceiveMpdu, LoseMpdu, ReceiveBar, LoseBar
<1>2. exch \in ExchangeType /\ exch # NoExchange
    BY <1>1 DEF OnAir, OriginatorInv
<1>3. exch' \in ExchangeType /\ exch'.kind = exch.kind /\ exch'.psdu = exch.psdu
      /\ exch'.phase \in {"air", "answer"}
    <2>1. \A m : \A got \in BOOLEAN :
             LET e == Received(exch, m, got)
             IN  e \in ExchangeType /\ e.kind = exch.kind /\ e.psdu = exch.psdu
                 /\ e.phase \in {"air", "answer"}
        BY <1>1, <1>2 DEF ExchangeType, Received, OnAir
    <2>2. CASE ReceiveMpdu \/ LoseMpdu
        <3>1. \E m : \E got \in BOOLEAN : exch' = Received(exch, m, got)
            BY <2>2 DEF ReceiveMpdu, LoseMpdu
        <3> QED  BY <2>1, <3>1
    <2>3. CASE ReceiveBar \/ LoseBar
        BY <1>2, <2>3 DEF ReceiveBar, LoseBar, ExchangeType
    <2> QED  BY <2>2, <2>3
<1>4. PICK e \in ExchangeType : /\ e.kind = exch.kind /\ e.psdu = exch.psdu /\ exch' = e
                                /\ e.phase \in {"air", "answer"}
    BY <1>3
<1> QED  BY <1>1, <1>3, <1>4, AirStep

-----------------------------------------------------------------------------
(* The start of an exchange.                                               *)

\* An exchange begins with books that are kept for its PSDU.
LEMMA BeginsWith ==
    ASSUME OriginatorInv, UNCHANGED <<nMsdu, expired>>, NEW e \in ExchangeType, e # NoExchange,
           NEW q, Busy(q, e), o.baq \subseteq q.baq, o' = q, exch' = e, access' = "granted"
    PROVE  OriginatorInv' /\ GivenUpStep
<1>1. Busy(o, exch)'
    BY DEF Busy, Counted, Tracked, OnTheAir
<1>2. GivenUpStep
    BY DEF GivenUpStep
<1> QED  BY <1>1, <1>2 DEF OriginatorInv

Begun(e, kind, P, ssn) ==
    /\ e \in ExchangeType /\ e # NoExchange /\ e.kind = kind /\ e.psdu = P
    /\ e.phase = IF UseRts THEN "rts" ELSE "air"
    /\ e.todo = P /\ e.got = FALSE /\ e.ssn = ssn

LEMMA ExchangeFields ==
    ASSUME NEW kind \in {"ampdu", "mpdu", "mpduBar", "bar"}, NEW P \in SUBSET Msdu, NEW ssn \in SeqNo,
           NEW e, e = Exchange(kind, P, ssn)
    PROVE  Begun(e, kind, P, ssn)
<1>1. /\ e \in ExchangeType /\ e.kind = kind /\ e.psdu = P
      /\ e.phase = IF UseRts THEN "rts" ELSE "air"
      /\ e.todo = P /\ e.got = FALSE /\ e.ssn = ssn
    BY BlockAckAssumption DEF Exchange, ExchangeType
<1> QED  BY <1>1 DEF Begun, NoExchange

\* A BlockAckReq is sent, for the window that starts where that of q does.
StartsBar(q, q2, e) ==
    /\ e # NoExchange /\ e.kind = "bar" /\ e.psdu = {} /\ e.todo = {} /\ e.phase # "answer"
    /\ e.got = FALSE /\ e.ssn = q.win.start /\ q2.bar = "sent"
    /\ q2.seq = q.seq /\ q2.nextSeq = q.nextSeq /\ q2.edca \subseteq q.edca
    /\ q2.win = q.win /\ q2.retry = q.retry

LEMMA SendBarStep ==
    ASSUME OriginatorInv, UNCHANGED <<nMsdu, expired>>, NEW q, Idle(q), q.baq = o.baq, SendBar(q)
    PROVE  OriginatorInv' /\ GivenUpStep /\ StartsBar(q, o', exch')
<1> DEFINE q2 == [q EXCEPT !.bar = "sent"]
           e == Exchange("bar", {}, q.win.start)
<1>1. Sound(q, q.nextSeq) /\ Counted(q) /\ Tracked(q) /\ q \in OriginatorType
    BY DEF Idle, Sound
<1>2. /\ q2 \in OriginatorType /\ SameMpdus(q, q2) /\ q2.bar = "sent" /\ Sound(q2, q.nextSeq)
    BY <1>1, SetBar, SameSound
<1>3. /\ exch' = e /\ access' = "granted" /\ o' = (IF UseRts THEN q2 ELSE StorePackets(q2, {}))
    <2>1. StartWith(q2, "bar", {}) /\ q2.win.start = q.win.start
        BY <1>2 DEF SendBar, SameMpdus
    <2> HIDE DEF q2
    <2> QED  BY <2>1 DEF StartWith, Forward
<1>4. /\ e \in ExchangeType /\ e # NoExchange /\ e.kind = "bar" /\ e.psdu = {}
      /\ e.phase = IF UseRts THEN "rts" ELSE "air"
      /\ e.todo = {} /\ e.got = FALSE /\ e.ssn = q.win.start
    <2>1. q.win.start \in SeqNo
        BY <1>1 DEF OriginatorType, Window
    <2>2. e = Exchange("bar", {}, q.win.start) /\ {} \in SUBSET Msdu
        OBVIOUS
    <2> HIDE DEF e
    <2>3. Begun(e, "bar", {}, q.win.start)
        BY <2>1, <2>2, ExchangeFields
    <2> QED  BY <2>3 DEF Begun
<1> HIDE DEF q2, e
<1>5. o' = q2
    BY <1>3 DEF StorePackets
<1>6. Unsent(q2, e) = {} /\ Limit(q2, e) = q2.nextSeq /\ q2.nextSeq = q.nextSeq
    <2>1. Unsent(q2, e) = {}
        BY <1>4 DEF Unsent
    <2>2. q2.nextSeq \in Int /\ Cardinality({}) = 0
        BY <1>2, FS_EmptySet DEF OriginatorType
    <2> QED  BY <1>2, <2>1, <2>2 DEF Limit, SameMpdus
<1>7. Counted(q2) /\ Tracked(q2)
    BY <1>1, <1>2 DEF Counted, Tracked, Kept, SameMpdus
<1>8. \A m \in Kept(q2) : q2.seq[m] # 0 => q2.seq[m] < q2.nextSeq
    BY <1>2 DEF Sound, At, NumbersAt
<1>9. Busy(q2, e)
    BY <1>2, <1>4, <1>6, <1>7, <1>8 DEF Busy, AwaitsCts, OnTheAir
<1>10. StartsBar(q, q2, e)
    BY <1>2, <1>4 DEF StartsBar, SameMpdus
<1>11. OriginatorInv' /\ GivenUpStep
    BY <1>2, <1>3, <1>4, <1>5, <1>9, BeginsWith DEF SameMpdus
<1> QED  BY <1>3, <1>5, <1>10, <1>11

\* The MPDUs of a PSDU are finitely many, and one if there are no more than one.
LEMMA PsduIsFinite ==
    ASSUME NEW P \in SUBSET Msdu
    PROVE  /\ IsFiniteSet(P) /\ Cardinality(P) \in Nat
           /\ P # {} /\ ~ (Cardinality(P) > 1) => \E m \in Msdu : P = {m}
<1>1. IsFiniteSet(P)
    <2>1. 1 \in Int /\ MaxMsdu \in Int
        BY BlockAckAssumption
    <2>2. IsFiniteSet(Msdu)
        BY <2>1, FS_Interval DEF Msdu
    <2> QED  BY <2>2, FS_Subset
<1>2. Cardinality(P) \in Nat
    BY <1>1, FS_CardinalityType
<1>3. ASSUME P # {}, ~ (Cardinality(P) > 1) PROVE \E m \in Msdu : P = {m}
    <2>1. Cardinality(P) # 0
        BY <1>1, <1>3, FS_EmptySet
    <2>2. Cardinality(P) = 1
        BY <1>2, <1>3, <2>1
    <2>3. \E m : P = {m}
        BY <1>1, <2>2, FS_Singleton
    <2> QED  BY <2>3
<1> QED  BY <1>1, <1>2, <1>3

\* An exchange with data starts, when no BlockAckReq is due.
Sends(q, q2, e) ==
    /\ e # NoExchange /\ e.kind # "bar" /\ e.psdu # {} /\ e.todo = e.psdu /\ e.got = FALSE
    /\ e.phase # "answer" /\ e.psdu \subseteq q2.edca /\ q2.edca \subseteq q.edca
    /\ Assigned(q, q2, e.psdu \ q.retry)
    /\ q2.win = q.win /\ q2.retry = q.retry /\ q2.bar # "sent"
    /\ \E b : /\ At(q, b, q.nextSeq) /\ At(q2, b, Limit(q2, e))
              /\ \A m \in e.psdu : b <= q2.seq[m]

\* The numbers of a PSDU are in the window: those it had already and those it gets.
LEMMA SendDataStep ==
    ASSUME OriginatorInv, UNCHANGED <<nMsdu, expired>>, NEW q, Idle(q), q.baq = o.baq,
           q.bar = "none", \A m \in q.edca : q.seq[m] # 0 => ~ IsOld(q, m),
           \A m \in q.edca \ q.inflight : m > expired, SendData(q)
    PROVE  OriginatorInv' /\ GivenUpStep /\ Sends(q, o', exch')
<1>1. PICK P \in Psdus(q), kind \in {"ampdu", "mpdu", "mpduBar"} :
         /\ kind \in {"mpdu", "mpduBar"} => ~ (Cardinality(P) > 1)
         /\ StartWith([AssignSequenceNumbers(q, P) EXCEPT !.inflight = @ \union P], kind, P)
    BY DEF SendData
<1> DEFINE q2 == [AssignSequenceNumbers(q, P) EXCEPT !.inflight = @ \union P]
           new == P \ q.retry
           e == Exchange(kind, P, q2.win.start)
           q3 == IF kind = "mpduBar" THEN [q2 EXCEPT !.bar = "queued"] ELSE q2
           q4 == StorePackets(q3, P)
<1>2. /\ Sound(q, q.nextSeq) /\ Counted(q) /\ Tracked(q) /\ q \in OriginatorType /\ Ordered(q)
      /\ q.baq \subseteq q.inflight
      /\ ~ UseRts => ~ Waiting(q)
    BY DEF Idle, Sound
<1>3. PICK b : At(q, b, q.nextSeq)
    BY <1>2 DEF Sound
<1>4. /\ P \subseteq q.edca /\ P \subseteq Msdu /\ P \intersect q.inflight = {} /\ P # {}
    BY <1>2, TypeFields DEF Psdus, Ready
<1>5. /\ Sound(q2, q.nextSeq) /\ At(q2, b, q.nextSeq)
      /\ q2.edca = q.edca /\ q2.baq = q.baq /\ q2.retry = q.retry /\ q2.win = q.win
      /\ q2.bar = q.bar /\ q2.barIfData = q.barIfData /\ q2.expiring = q.expiring
      /\ q2.inflight = q.inflight \union P
      /\ Assigned(q, q2, new) /\ IsFiniteSet(new) /\ q2.nextSeq = q.nextSeq + Cardinality(new)
      /\ \A m \in P : q2.seq[m] # 0 /\ b <= q2.seq[m]
      /\ \A m \in new : q.nextSeq <= q2.seq[m]
      /\ \A m \in Kept(q2) \ new : q2.seq[m] # 0 => q2.seq[m] < q.nextSeq
    <2>1. expired \in Nat /\ \A m \in q.expiring : m <= expired
        BY <1>2, Books DEF Counted
    <2>2. q2 = [AssignSequenceNumbers(q, P) EXCEPT !.inflight = @ \union P]
        OBVIOUS
    <2> HIDE DEF q2
    <2>3. Fits(q, q2, P, b)
        BY <1>2, <1>3, <2>1, <2>2, AssignSound
    <2> QED  BY <2>3 DEF Fits, Assigned
<1>6. q2.seq = [m \in Msdu |-> IF m \in P /\ q.seq[m] = 0 THEN SeqOrNext(q, m) ELSE q.seq[m]]
    BY <1>2 DEF AssignSequenceNumbers, OriginatorType
<1>7. /\ e \in ExchangeType /\ e # NoExchange /\ e.kind = kind /\ e.psdu = P
      /\ e.phase = IF UseRts THEN "rts" ELSE "air"
      /\ e.todo = P /\ e.got = FALSE
    <2>1. q2.win.start \in SeqNo
        BY <1>5 DEF Sound, OriginatorType, Window
    <2>2. e = Exchange(kind, P, q2.win.start)
        OBVIOUS
    <2> HIDE DEF q2, e
    <2>3. Begun(e, kind, P, q2.win.start)
        BY <1>4, <2>1, <2>2, ExchangeFields
    <2> QED  BY <2>3 DEF Begun
<1>8. /\ exch' = e /\ access' = "granted" /\ o' = (IF UseRts THEN q2 ELSE q4)
    <2> HIDE DEF q2
    <2> QED  BY <1>1 DEF StartWith, Forward, q2
<1> HIDE DEF q2, e, new
<1>9. q2 \in OriginatorType /\ Ordered(q2) /\ Resent(q2) /\ q2.baq \subseteq q2.inflight
    BY <1>5 DEF Sound
<1>10. /\ q.nextSeq \in Nat /\ q2.nextSeq \in Int /\ b \in Nat /\ b <= q.nextSeq
    BY <1>3, <1>9 DEF At, WindowAt, OriginatorType
<1>11. Counted(q2) /\ expired \in Int
    <2>1. \A m \in Kept(q2) : m <= nMsdu
        BY <1>2, <1>5 DEF Counted, Kept
    <2>2. ASSUME NEW m \in Msdu, m > nMsdu PROVE q2.seq[m] = 0
        <3>1. m \notin P
            <4>1. nMsdu \in Int /\ m \in Int
                BY Books DEF Msdu
            <4>2. m \in P => m <= nMsdu
                BY <1>2, <1>4 DEF Counted, Kept
            <4> QED  BY <2>2, <4>1, <4>2
        <3> QED  BY <1>2, <1>6, <2>2, <3>1 DEF Counted
    <2> QED  BY <1>2, <1>5, <2>1, <2>2, Books DEF Counted
<1>12. /\ \A m \in P : q2.seq[m] # 0 /\ q2.nextSeq - WinSize <= q2.seq[m] /\ q2.seq[m] < q2.nextSeq
       /\ \A m, k \in P : m < k => q2.seq[m] < q2.seq[k]
    BY <1>4, <1>5, <1>9 DEF At, NumbersAt, Ordered, Kept
<1>13. /\ kind \in {"mpdu", "mpduBar"} => \E m \in Msdu : P = {m}
       /\ kind # "bar"
    BY <1>1, <1>4, PsduIsFinite
<1>14. CASE UseRts
    <2>1. Unsent(q2, e) = new /\ Limit(q2, e) = q.nextSeq
        <3>1. Unsent(q2, e) = new
            BY <1>5, <1>7, <1>14 DEF Unsent, new
        <3>2. Cardinality(new) \in Nat
            BY <1>5, FS_CardinalityType
        <3> QED  BY <1>5, <1>10, <3>1, <3>2 DEF Limit
    <2>2. AwaitsCts(q2, e)
        BY <1>2, <1>4, <1>5, <1>7, <1>14, <2>1 DEF AwaitsCts
    <2>3. Busy(q2, e)
        BY <1>4, <1>5, <1>7, <1>11, <1>12, <1>13, <1>14, <2>1, <2>2 DEF Busy, Tracked
    <2>4. Sends(q, q2, e)
        BY <1>3, <1>4, <1>5, <1>7, <1>13, <1>14, <2>1, <1>2 DEF Sends, new, Idle
    <2>5. OriginatorInv' /\ GivenUpStep
        BY <1>5, <1>7, <1>8, <1>14, <2>3, BeginsWith
    <2> QED  BY <1>8, <1>14, <2>4, <2>5
<1>15. CASE ~ UseRts
    <2>1. /\ q3 \in OriginatorType /\ SameMpdus(q2, q3) /\ q3.bar # "sent"
          /\ kind = "mpduBar" => q3.bar = "queued"
        <3>1. CASE kind = "mpduBar"
            BY <1>9, <3>1, SetBar
        <3>2. CASE kind # "mpduBar"
            BY <1>5, <1>9, <3>2 DEF SameMpdus
        <3> QED  BY <3>1, <3>2
    <2> HIDE DEF q3
    <2>2. Ordered(q3) /\ At(q3, b, q.nextSeq) /\ q3.edca = q.edca
          /\ P \in SUBSET q3.edca /\ \A m \in P : q3.seq[m] # 0
        <3>1. Smaller(q2, q3) /\ q3.win = q2.win
            BY <1>9, <2>1 DEF Smaller, SameMpdus, Ordered
        <3> QED  BY <1>4, <1>5, <1>9, <2>1, <3>1, SmallerOrdered, SmallerStill DEF SameMpdus
    <2>3. \A m \in P : ~ IsOld(q3, m)
        <3> SUFFICES ASSUME NEW m \in P PROVE ~ IsOld(q3, m)
            OBVIOUS
        <3>1. /\ m \in Msdu /\ q3.seq[m] = q2.seq[m] /\ q3.nextSeq = q2.nextSeq /\ q3.seq[m] \in Int
            BY <1>4, <2>1, TypeFields DEF SameMpdus
        <3>2. b <= q3.seq[m]
            BY <1>5, <3>1
        <3>3. q3.nextSeq - WinSize <= q3.seq[m] /\ q3.seq[m] < q3.nextSeq
            BY <1>12, <3>1
        <3> QED  BY <1>10, <2>1, <2>2, <3>1, <3>2, <3>3, QueuedAge
    <2>4. /\ q4 = [q3 EXCEPT !.baq = @ \union P] /\ q4 \in OriginatorType /\ Ordered(q4)
          /\ At(q4, b, q3.nextSeq)
        <3>1. {m \in P : ~ IsOld(q3, m)} = P
            BY <2>3
        <3> QED  BY <2>1, <2>2, <3>1, StoreAt
    <2> HIDE DEF q4
    <2>5. /\ q4.edca = q.edca /\ q4.inflight = q.inflight \union P /\ q4.baq = q.baq \union P
          /\ q4.retry = q.retry /\ q4.seq = q2.seq /\ q4.nextSeq = q2.nextSeq /\ q4.win = q.win
          /\ q4.expiring = q.expiring /\ q4.bar = q3.bar
        <3>1. /\ q4.edca = q3.edca /\ q4.inflight = q3.inflight /\ q4.baq = q3.baq \union P
              /\ q4.retry = q3.retry /\ q4.seq = q3.seq /\ q4.nextSeq = q3.nextSeq
              /\ q4.win = q3.win /\ q4.expiring = q3.expiring /\ q4.bar = q3.bar
            BY <2>1, <2>4 DEF OriginatorType
        <3> QED  BY <1>5, <2>1, <3>1 DEF SameMpdus
    <2>6. Sound(q4, q4.nextSeq)
        <3>1. Resent(q4) /\ q4.baq \subseteq q4.inflight
            BY <1>2, <1>5, <1>9, <2>5 DEF Resent
        <3>2. q4.nextSeq = q3.nextSeq
            BY <2>1, <2>5 DEF SameMpdus
        <3> QED  BY <2>4, <3>1, <3>2 DEF Sound
    <2>7. Limit(q4, e) = q4.nextSeq
        <3>1. Unsent(q4, e) = {}
            BY <1>7, <1>15 DEF Unsent
        <3> QED  BY <1>10, <2>5, <3>1, FS_EmptySet DEF Limit
    <2>8. Counted(q4) /\ Tracked(q4)
        BY <1>2, <1>5, <1>11, <2>5 DEF Counted, Tracked, Kept
    <2>9. OnTheAir(q4, e)
        <3>1. \A m \in q4.baq : m > expired => m \in P
            BY <1>2, <1>15, <2>5 DEF Waiting
        <3> QED  BY <1>7, <2>1, <2>5, <3>1 DEF OnTheAir
    <2>10. Busy(q4, e)
        BY <1>4, <1>7, <1>12, <1>13, <1>15, <2>1, <2>5, <2>6, <2>7, <2>8, <2>9 DEF Busy
    <2>11. o' = q4 /\ o.baq \subseteq q4.baq
        BY <1>8, <1>15, <2>5
    <2>12. Sends(q, q4, e)
        <3>1. Assigned(q, q4, new)
            BY <1>5, <2>5 DEF Assigned
        <3>2. At(q4, b, Limit(q4, e)) /\ \A m \in P : b <= q4.seq[m]
            BY <1>5, <2>1, <2>4, <2>5, <2>7 DEF SameMpdus
        <3> QED  BY <1>3, <1>4, <1>7, <1>13, <1>15, <2>1, <2>5, <3>1, <3>2 DEF Sends, new
    <2>13. OriginatorInv' /\ GivenUpStep
        BY <1>7, <1>8, <2>10, <2>11, BeginsWith
    <2> QED  BY <1>8, <2>11, <2>12, <2>13
<1> QED  BY <1>14, <1>15

\* What the start of an exchange is: nothing to send, a BlockAckReq, or data, which
\* is not sent while a BlockAckReq is to announce what was given up.
Starts(q, q2, e) ==
    \/ e = NoExchange /\ Proceeds(q, q2, {}) /\ q2.win = q.win
    \/ StartsBar(q, q2, e)
    \/ Sends(q, q2, e) /\ ~ Pending(q)

LEMMA StartFrameExchangeStep ==
    ASSUME OriginatorInv, StartFrameExchange
    PROVE  OriginatorInv' /\ GivenUpStep /\ Starts(o, o', exch')
<1> DEFINE q1 == WipeAllExpiredMpdus(o)
           q == GetBar(o)
           old == {m \in q.edca : q.seq[m] # 0 /\ IsOld(q, m)}
           q2 == RemoveOldMpdus(q)
<1>1. /\ o.expiring = {} /\ exch = NoExchange /\ Idle(o) /\ UNCHANGED <<nMsdu, expired>>
      /\ expired \in Nat /\ expired \in Int
      /\ IF q.bar # "none" THEN SendBar(q) ELSE SendData(q2) \/ SendNothing(q2)
    BY Books DEF StartFrameExchange, OriginatorInv, Settled
<1>2. Idle(q) /\ Proceeds(o, q, {})
    <2>1. Announced({}, o)
        BY DEF Announced
    <2> QED  BY <1>1, <2>1, GetBarIdle
<1>3. /\ q.baq = o.baq /\ \A m \in q.edca \ q.inflight : m > expired
      /\ q.win = o.win /\ q.retry = o.retry /\ (q.bar = "none" => ~ q.barIfData \/ q.edca = {})
    <2>1. Sound(o, o.nextSeq)
        BY <1>1 DEF Idle
    <2>2. /\ q1.baq = o.baq /\ \A m \in q1.edca \ q1.inflight : m > expired
          /\ q1.win = o.win /\ q1.retry = o.retry
        BY <1>1, <2>1, WipeSound
    <2>3. SameMpdus(q1, q) /\ (q.bar = "none" => ~ q.barIfData \/ q.edca = {})
        BY <2>1, GetBarSound
    <2> QED  BY <2>2, <2>3 DEF SameMpdus
<1> HIDE DEF q
<1>6. q.seq = o.seq /\ q.nextSeq = o.nextSeq /\ q.edca \subseteq o.edca
    BY <1>2 DEF Proceeds
<1>4. CASE q.bar # "none"
    <2>1. OriginatorInv' /\ GivenUpStep /\ StartsBar(q, o', exch')
        BY <1>1, <1>2, <1>3, <1>4, SendBarStep
    <2>2. StartsBar(o, o', exch')
        BY <1>3, <1>6, <2>1 DEF StartsBar
    <2> QED  BY <2>1, <2>2 DEF Starts
<1>5. CASE q.bar = "none"
    <2>1. /\ Sound(q, q.nextSeq) /\ Counted(q) /\ Tracked(q) /\ q \in OriginatorType /\ Ordered(q)
          /\ ~ UseRts => ~ Waiting(q)
        BY <1>2, <1>5 DEF Idle, Sound
    <2>2. old \intersect q.baq = {}
        <3>1. PICK b : At(q, b, q.nextSeq)
            BY <2>1 DEF Sound
        <3>2. \A m \in q.baq : ~ IsOld(q, m)
            BY <2>1, <3>1, OutstandingAge
        <3> QED  BY <3>2
    <2>3. /\ Sound(q2, q.nextSeq) /\ q2.edca = q.edca \ old /\ q2.inflight = q.inflight \ old
          /\ q2.seq = q.seq /\ q2.nextSeq = q.nextSeq /\ q2.baq = q.baq /\ q2.win = q.win
          /\ q2.bar = q.bar /\ q2.expiring = q.expiring /\ q2.retry = q.retry
          /\ q2.barIfData = q.barIfData
        <3>1. q2 = Dequeue(q, old)
            BY DEF RemoveOldMpdus
        <3> HIDE DEF old, q2
        <3> QED  BY <2>1, <2>2, <3>1, DequeueSound, DequeueFields
    <2> HIDE DEF q2
    <2>4. Idle(q2)
        <3>1. Tracked(q2) /\ (Waiting(q2) <=> Waiting(q))
            BY <2>1, <2>2, <2>3 DEF Tracked, Waiting
        <3>2. /\ Sound(q2, q2.nextSeq) /\ q2.edca \subseteq q.edca /\ q2.bar # "sent"
              /\ ~ UseRts /\ Waiting(q2) => q2.bar # "none"
            BY <1>5, <2>1, <2>3, <3>1
        <3> QED  BY <2>1, <2>3, <3>1, <3>2, IdleAfter
    <2>5. /\ \A m \in q2.edca : q2.seq[m] # 0 => ~ IsOld(q2, m)
          /\ \A m \in q2.edca \ q2.inflight : m > expired
        BY <1>3, <2>3 DEF IsOld, OSn
    <2>6. CASE SendData(q2)
        <3>1. OriginatorInv' /\ GivenUpStep /\ Sends(q2, o', exch')
            BY <1>1, <1>3, <1>5, <2>3, <2>4, <2>5, <2>6, SendDataStep
        <3>2. Sends(o, o', exch')
            <4>1. PICK b : /\ At(q2, b, q2.nextSeq) /\ At(o', b, Limit(o', exch'))
                           /\ \A m \in exch'.psdu : b <= o'.seq[m]
                BY <3>1 DEF Sends
            <4>2. PICK c : At(o, c, o.nextSeq) /\ o \in OriginatorType
                BY <1>1 DEF Idle, Sound
            <4>3. q2.win = o.win /\ q2.nextSeq = o.nextSeq /\ q2 \in OriginatorType
                BY <1>3, <1>6, <2>3 DEF Sound
            <4>4. o.nextSeq <= o.nextSeq
                BY <4>2, TypeFields
            <4>5. c = b
                BY <4>1, <4>2, <4>3, <4>4, UniqueStart
            <4>6. At(o, b, o.nextSeq)
                BY <4>2, <4>5
            <4> HIDE DEF q, old
            <4> QED  BY <1>3, <1>6, <2>3, <3>1, <4>1, <4>6 DEF Sends, Assigned
        <3>3. ~ Pending(o)
            <4>1. q.edca # {} /\ ~ q.barIfData
                BY <1>3, <1>5, <2>3, <3>1 DEF Sends
            <4>2. Pending(o) => Pending(q)
                BY <1>2 DEF Proceeds, Moved, Moves
            <4> QED  BY <1>5, <4>1, <4>2 DEF Pending
        <3> QED  BY <3>1, <3>2, <3>3 DEF Starts
    <2>7. CASE SendNothing(q2)
        <3>1. o' = q2 /\ exch' = NoExchange /\ access' = "none"
            BY <2>7 DEF SendNothing
        <3>2. Idle(o)'
            BY <1>1, <2>4, <3>1 DEF Idle, Counted, Tracked, Waiting
        <3>3. GivenUpStep
            BY <1>3, <2>3, <3>1 DEF GivenUpStep
        <3>4. OriginatorInv'
            BY <1>1, <3>1, <3>2, <3>3 DEF OriginatorInv
        <3>5. Proceeds(o, q2, {})
            <4>1. Sound(q, q.nextSeq) /\ o \in OriginatorType /\ q \in OriginatorType
                BY <1>1, <1>2 DEF Idle, Sound
            <4>2. StaysPut(q, q2)
                BY <2>3 DEF StaysPut, Pending
            <4>3. Proceeds(q, q2, {})
                BY <2>3, <4>1, <4>2, StaysProceeds
            <4> QED  BY <1>2, <4>1, <4>3, ThenProceeds
        <3> QED  BY <1>3, <2>3, <3>1, <3>3, <3>4, <3>5 DEF Starts
    <2> QED  BY <1>1, <1>5, <2>6, <2>7
<1> QED  BY <1>4, <1>5

-----------------------------------------------------------------------------
(* The theorems.                                                           *)

LEMMA InitOriginator ==
    ASSUME Init PROVE OriginatorInv
<1>1. PICK explicitBar \in ExplicitBar :
          o = [edca |-> {}, seq |-> [m \in Msdu |-> 0], nextSeq |-> InitSeq,
               retry |-> {}, inflight |-> {}, baq |-> {}, win |-> WindowInit(SnOf(InitSeq)),
               bar |-> "none", barIfData |-> FALSE, expiring |-> {}, explicitBar |-> explicitBar]
    BY DEF Init
<1>2. InitSeq \in Nat /\ 0 < InitSeq
    BY BlockAckAssumption
<1>3. WindowAt(WindowInit(SnOf(InitSeq)), InitSeq, InitSeq)
    <2>1. SnOf(InitSeq) \in SeqNo
        BY <1>2, SnOfType
    <2> QED  BY <1>2, <2>1 DEF WindowAt, WindowInit, Window
<1>4. o \in OriginatorType
    <2>1. WindowInit(SnOf(InitSeq)) \in Window /\ explicitBar \in BOOLEAN
        BY <1>3, BlockAckAssumption DEF WindowAt
    <2> QED  BY <1>1, <1>2, <2>1 DEF OriginatorType
<1>5. /\ o.edca = {} /\ o.expiring = {} /\ o.retry = {} /\ o.inflight = {} /\ o.baq = {}
      /\ o.nextSeq = InitSeq /\ o.win = WindowInit(SnOf(InitSeq)) /\ o.bar = "none"
      /\ \A m \in Msdu : o.seq[m] = 0
    BY <1>1
<1>6. Sound(o, o.nextSeq)
    <2>1. At(o, InitSeq, InitSeq)
        <3>1. InitSeq <= InitSeq + WinSize
            BY <1>2, WinSizeAssumption
        <3> QED  BY <1>2, <1>3, <1>5, <3>1 DEF At, NumbersAt, Kept
    <2> QED  BY <1>4, <1>5, <2>1 DEF Sound, Ordered, Resent, Kept
<1>7. Idle(o)
    BY <1>5, <1>6 DEF Idle, Counted, Tracked, Waiting, Kept
<1> QED  BY <1>7, BlockAckAssumption DEF Init, OriginatorInv

LEMMA NextOriginator ==
    ASSUME OriginatorInv, [Next]_vars PROVE OriginatorInv' /\ GivenUpStep
<1>1. CASE Enqueue
    BY <1>1, EnqueueStep
<1>2. CASE Expire
    BY <1>2, ExpireStep
<1>3. CASE FireExpired
    BY <1>3, FireExpiredStep
<1>4. CASE StartFrameExchange
    BY <1>4, StartFrameExchangeStep
<1>5. CASE ReceiveCts
    BY <1>5, ReceiveCtsStep
<1>6. CASE CtsTimeout
    BY <1>6, CtsTimeoutStep
<1>7. CASE ReceiveMpdu \/ LoseMpdu \/ ReceiveBar \/ LoseBar
    BY <1>7, MediumStep
<1>8. CASE ReceiveBlockAck
    BY <1>8, ReceiveBlockAckStep
<1>9. CASE BlockAckTimeout
    BY <1>9, BlockAckTimeoutStep
<1>10. CASE ReceiveNormalAck
    BY <1>10, ReceiveNormalAckStep
<1>11. CASE NormalAckTimeout
    BY <1>11, NormalAckTimeoutStep
<1>12. CASE UnacknowledgedSent
    BY <1>12, UnacknowledgedSentStep
<1>13. CASE UNCHANGED vars
    <2>1. UNCHANGED <<nMsdu, expired, o, exch, access>>
        BY <1>13 DEF vars
    <2>2. OriginatorInv'
        BY <2>1 DEF OriginatorInv, Idle, Busy, Counted, Tracked, Waiting, OnTheAir
    <2> QED  BY <2>1, <2>2 DEF GivenUpStep
<1> QED  BY <1>1, <1>2, <1>3, <1>4, <1>5, <1>6, <1>7, <1>8, <1>9, <1>10, <1>11, <1>12, <1>13 DEF Next

\* The originator's books are sound in every behavior.
THEOREM OriginatorInvariant == Spec => []OriginatorInv
<1>1. Init => OriginatorInv
    BY InitOriginator
<1>2. OriginatorInv /\ [Next]_vars => OriginatorInv'
    BY NextOriginator
<1> QED  BY <1>1, <1>2, PTL DEF Spec

\* An outstanding MPDU is in the transmit window, and not marked in it.
THEOREM OutstandingIsInWindow == Spec => []OutstandingInWindow
<1>1. OriginatorInv => OutstandingInWindow
    <2> SUFFICES ASSUME OriginatorInv, NEW m \in o.baq
                 PROVE  Distance(o, m) < WinSize /\ Distance(o, m) \notin o.win.marked
        BY DEF OutstandingInWindow
    <2>1. o \in OriginatorType /\ Ordered(o) /\ \E b : At(o, b, Limit(o, exch))
        BY Books DEF Sound
    <2> QED  BY <2>1, OutstandingAge
<1> QED  BY <1>1, OriginatorInvariant, PTL

\* Without RTS, what is in flight between exchanges is what is outstanding, and a
\* BlockAckReq is queued while some of it has not expired.
THEOREM OutstandingIsTracked ==
    ASSUME ~ UseRts PROVE Spec => []OutstandingTracked
<1>1. OriginatorInv => OutstandingTracked
    <2> SUFFICES ASSUME OriginatorInv, exch = NoExchange
                 PROVE  o.inflight = o.baq /\ (Outstanding(o) # {} => o.bar # "none")
        BY DEF OutstandingTracked
    <2>1. Idle(o)
        BY DEF OriginatorInv
    <2>2. o.inflight = o.baq /\ (Waiting(o) => o.bar # "none")
        BY <2>1 DEF Idle, Tracked
    <2>3. Outstanding(o) = {m \in o.baq : m > expired}
        BY <2>1, OutstandingWaits DEF Idle
    <2> QED  BY <2>2, <2>3 DEF Waiting
<1> QED  BY <1>1, OriginatorInvariant, PTL

\* No MPDU is given up without a BlockAckReq queued or due, with RTS or without.
THEOREM NothingIsGivenUpInSilence == Spec => GivenUpIsAnnounced
<1>1. OriginatorInv /\ [Next]_vars => [GivenUpStep]_vars
    BY NextOriginator
<1> QED  BY <1>1, OriginatorInvariant, PTL DEF Spec, GivenUpIsAnnounced

-----------------------------------------------------------------------------
(* The numbers that have been given.                                       *)

Numbered(q) == {m \in Msdu : q.seq[m] # 0}

\* They are given in the order of the queue, to MPDU after MPDU, from InitSeq on; those
\* given so far are InitSeq .. nextSeq - 1, and those below the limit have been sent.
NumbersInv(q, e) ==
    /\ \A m, k \in Numbered(q) : m < k => q.seq[m] < q.seq[k]
    /\ \A m \in q.edca, k \in Numbered(q) : m < k => m \in Numbered(q)
    /\ \A m \in Numbered(q) : InitSeq <= q.seq[m] /\ q.seq[m] < q.nextSeq
    /\ \A m \in Numbered(q) \ Unsent(q, e) : q.seq[m] < Limit(q, e)
    /\ q.nextSeq = InitSeq + Cardinality(Numbered(q))

LEMMA NumberedIsFinite ==
    ASSUME NEW q
    PROVE  /\ IsFiniteSet(Numbered(q)) /\ Cardinality(Numbered(q)) \in Nat
           /\ Cardinality(Numbered(q)) <= MaxMsdu
<1>1. 1 \in Int /\ MaxMsdu \in Int /\ MaxMsdu \in Nat
    BY BlockAckAssumption
<1>2. IsFiniteSet(Msdu) /\ Cardinality(Msdu) = MaxMsdu
    BY <1>1, FS_Interval DEF Msdu
<1>3. Numbered(q) \subseteq Msdu
    BY DEF Numbered
<1>4. /\ IsFiniteSet(Numbered(q)) /\ Cardinality(Numbered(q)) <= Cardinality(Msdu)
    BY <1>2, <1>3, FS_Subset
<1> QED  BY <1>2, <1>4, FS_CardinalityType

\* No more numbers are given than MSDUs are queued.
LEMMA NumbersAreFew ==
    ASSUME NEW q, NEW e, NumbersInv(q, e)
    PROVE  q.nextSeq \in Nat /\ InitSeq <= q.nextSeq /\ q.nextSeq <= InitSeq + MaxMsdu
<1>1. Cardinality(Numbered(q)) \in Nat /\ Cardinality(Numbered(q)) <= MaxMsdu
    BY NumberedIsFinite
<1> QED  BY <1>1, BlockAckAssumption DEF NumbersInv

\* An operation that gives no number and takes none back, and queues only what is last.
LEMMA NumbersStay ==
    ASSUME NEW q, NEW e, NumbersInv(q, e), NEW q2, NEW e2, q2.seq = q.seq, q2.nextSeq = q.nextSeq,
           \A m \in q2.edca : m \in q.edca \/ \A k \in Numbered(q) : ~ (m < k),
           Unsent(q2, e2) = Unsent(q, e) \/ Unsent(q2, e2) = {}
    PROVE  NumbersInv(q2, e2)
<1>1. Numbered(q2) = Numbered(q)
    BY DEF Numbered
<1>2. \A m \in Numbered(q2) \ Unsent(q2, e2) : q2.seq[m] < Limit(q2, e2)
    <2>1. CASE Unsent(q2, e2) = Unsent(q, e)
        BY <1>1, <2>1 DEF NumbersInv, Limit
    <2>2. CASE Unsent(q2, e2) = {}
        <3>1. q.nextSeq \in Nat
            BY NumbersAreFew
        <3>2. Limit(q2, e2) = q2.nextSeq
            BY <2>2, <3>1, FS_EmptySet DEF Limit
        <3> QED  BY <1>1, <3>2 DEF NumbersInv
    <2> QED  BY <2>1, <2>2
<1> QED  BY <1>1, <1>2 DEF NumbersInv

\* The numbers of a PSDU are the next ones.
LEMMA NumbersGiven ==
    ASSUME NEW q, NumbersInv(q, NoExchange), NEW q2, NEW e, NEW new,
           Assigned(q, q2, new), new \subseteq q2.edca, q2.edca \subseteq q.edca,
           q2.edca \subseteq Msdu, Ordered(q2),
           q.seq \in [Msdu -> Int], q2.seq \in [Msdu -> Int], q.nextSeq \in Int,
           Unsent(q2, e) = new \/ Unsent(q2, e) = {}
    PROVE  NumbersInv(q2, e)
<1>1. /\ InitSeq \in Nat /\ InitSeq > 0 /\ q.nextSeq \in Nat /\ InitSeq <= q.nextSeq
      /\ Msdu \subseteq Int
    BY NumbersAreFew, BlockAckAssumption DEF Msdu
<1>2. /\ new \subseteq Msdu /\ IsFiniteSet(new) /\ q2.nextSeq = q.nextSeq + Cardinality(new)
      /\ Cardinality(new) \in Nat
      /\ \A m \in new : q.seq[m] = 0 /\ q.nextSeq <= q2.seq[m] /\ q2.seq[m] < q2.nextSeq
      /\ \A m \in Msdu \ new : q2.seq[m] = q.seq[m]
    BY FS_CardinalityType DEF Assigned
<1>3. \A m \in Numbered(q) : /\ m \in Msdu /\ m \notin new /\ q2.seq[m] = q.seq[m]
                             /\ InitSeq <= q.seq[m] /\ q.seq[m] < q.nextSeq
    BY <1>2 DEF Numbered, NumbersInv
<1>4. \A m \in new : q2.seq[m] # 0 /\ q2.seq[m] \in Int
    <2> SUFFICES ASSUME NEW m \in new PROVE q2.seq[m] # 0 /\ q2.seq[m] \in Int
        OBVIOUS
    <2>1. q2.seq[m] \in Int /\ q.nextSeq <= q2.seq[m]
        BY <1>2
    <2> QED  BY <1>1, <2>1
<1>5. Numbered(q2) = Numbered(q) \union new /\ Numbered(q) \intersect new = {}
    BY <1>2, <1>3, <1>4 DEF Numbered
<1>6. Cardinality(Numbered(q2)) = Cardinality(Numbered(q)) + Cardinality(new)
    <2>1. IsFiniteSet(Numbered(q)) /\ Cardinality(Numbered(q)) \in Nat
        BY NumberedIsFinite
    <2>2. Cardinality(Numbered(q) \intersect new) = 0
        BY <1>5, FS_EmptySet
    <2>3. Cardinality(Numbered(q) \union new)
            = Cardinality(Numbered(q)) + Cardinality(new) - Cardinality(Numbered(q) \intersect new)
        BY <1>2, <2>1, FS_Union
    <2> QED  BY <1>2, <1>5, <2>1, <2>2, <2>3
<1>7. q2.nextSeq = InitSeq + Cardinality(Numbered(q2)) /\ q.nextSeq <= q2.nextSeq
    <2>1. Cardinality(Numbered(q)) \in Nat /\ q.nextSeq = InitSeq + Cardinality(Numbered(q))
        BY NumberedIsFinite DEF NumbersInv
    <2> QED  BY <1>1, <1>2, <1>6, <2>1
<1>8. \A m \in Numbered(q2) : InitSeq <= q2.seq[m] /\ q2.seq[m] < q2.nextSeq
    <2> SUFFICES ASSUME NEW m \in Numbered(q2) PROVE InitSeq <= q2.seq[m] /\ q2.seq[m] < q2.nextSeq
        OBVIOUS
    <2>1. q2.seq[m] \in Int /\ q2.nextSeq \in Int
        BY <1>1, <1>2 DEF Numbered
    <2>2. CASE m \in new
        BY <1>1, <1>2, <2>1, <2>2
    <2>3. CASE m \in Numbered(q)
        BY <1>1, <1>3, <1>7, <2>1, <2>3
    <2> QED  BY <1>5, <2>2, <2>3
<1>9. ASSUME NEW m \in Numbered(q2), NEW k \in Numbered(q2), m < k PROVE q2.seq[m] < q2.seq[k]
    <2>1. /\ m \in Msdu /\ k \in Msdu /\ q2.seq[m] \in Int /\ q2.seq[k] \in Int
          /\ q2.seq[m] # 0 /\ q2.seq[k] # 0
        BY DEF Numbered
    <2>2. CASE m \in Numbered(q) /\ k \in Numbered(q)
        BY <1>3, <1>9, <2>2 DEF NumbersInv
    <2>3. CASE m \in Numbered(q) /\ k \in new
        BY <1>1, <1>2, <1>3, <2>1, <2>3
    <2>4. CASE m \in new /\ k \in Numbered(q)
        <3>1. m \in Numbered(q)
            BY <1>9, <2>4 DEF NumbersInv
        <3> QED  BY <1>3, <2>4, <3>1
    <2>5. CASE m \in new /\ k \in new
        BY <1>9, <2>1, <2>5 DEF Ordered, Kept
    <2> QED  BY <1>5, <2>2, <2>3, <2>4, <2>5
<1>10. ASSUME NEW m \in q2.edca, NEW k \in Numbered(q2), m < k PROVE m \in Numbered(q2)
    <2>1. CASE k \in Numbered(q)
        BY <1>5, <1>10, <2>1 DEF NumbersInv
    <2>2. CASE k \in new
        <3>1. q2.seq[k] # 0 /\ k \in Kept(q2)
            BY <1>4, <2>2 DEF Kept
        <3>2. q2.seq[m] # 0
            BY <1>10, <3>1 DEF Ordered
        <3>3. m \in Msdu
            BY <1>10
        <3> QED  BY <3>2, <3>3 DEF Numbered
    <2> QED  BY <1>5, <2>1, <2>2
<1>11. \A m \in Numbered(q2) \ Unsent(q2, e) : q2.seq[m] < Limit(q2, e)
    <2>1. CASE Unsent(q2, e) = new
        <3>1. Limit(q2, e) = q.nextSeq
            BY <1>1, <1>2, <2>1 DEF Limit
        <3> QED  BY <1>3, <1>5, <2>1, <3>1
    <2>2. CASE Unsent(q2, e) = {}
        <3>1. Limit(q2, e) = q2.nextSeq
            BY <1>1, <1>2, <2>2, FS_EmptySet DEF Limit
        <3> QED  BY <1>8, <3>1
    <2> QED  BY <2>1, <2>2
<1> QED  BY <1>7, <1>8, <1>9, <1>10, <1>11 DEF NumbersInv

\* The numbers that no PSDU was sent with are given back.
LEMMA NumbersTakenBack ==
    ASSUME NEW q, NEW e, NumbersInv(q, e), NEW q2, TakesBack(q, e, q2), AwaitsCts(q, e),
           e.psdu \subseteq Msdu, \A m \in e.psdu : q.seq[m] # 0, q.seq \in [Msdu -> Int]
    PROVE  NumbersInv(q2, NoExchange)
<1> DEFINE U == Unsent(q, e)
<1>1. /\ U \subseteq e.psdu /\ U \subseteq Numbered(q) /\ q2.nextSeq = q.nextSeq - Cardinality(U)
      /\ \A m \in Msdu : q2.seq[m] = IF m \in U THEN 0 ELSE q.seq[m]
      /\ Limit(q, e) = q2.nextSeq
    BY DEF Unsent, Numbered, TakesBack, Limit
<1> HIDE DEF U
<1>2. Numbered(q2) = Numbered(q) \ U
    BY <1>1 DEF Numbered
<1>3. /\ IsFiniteSet(Numbered(q)) /\ Cardinality(Numbered(q)) \in Nat /\ IsFiniteSet(U)
      /\ Cardinality(U) \in Nat /\ Cardinality(U) <= Cardinality(Numbered(q))
    BY <1>1, NumberedIsFinite, FS_Subset, FS_CardinalityType
<1>4. Cardinality(Numbered(q2)) = Cardinality(Numbered(q)) - Cardinality(U)
    <2>1. Numbered(q) \intersect U = U
        BY <1>1
    <2>2. Cardinality(Numbered(q) \ U) = Cardinality(Numbered(q)) - Cardinality(Numbered(q) \intersect U)
        BY <1>3, FS_Difference
    <2> QED  BY <1>2, <2>1, <2>2
<1>5. q2.nextSeq = InitSeq + Cardinality(Numbered(q2)) /\ q2.nextSeq \in Int
    <2>1. q.nextSeq = InitSeq + Cardinality(Numbered(q)) /\ InitSeq \in Nat
        BY BlockAckAssumption DEF NumbersInv
    <2> QED  BY <1>1, <1>3, <1>4, <2>1
<1>6. \A m \in Numbered(q2) : /\ m \in Numbered(q) \ U /\ q2.seq[m] = q.seq[m]
                              /\ InitSeq <= q2.seq[m] /\ q2.seq[m] < q2.nextSeq
    BY <1>1, <1>2 DEF NumbersInv, U, Numbered
<1>7. ASSUME NEW m \in q2.edca, NEW k \in Numbered(q2), m < k PROVE m \in Numbered(q2)
    <2>1. m \in Numbered(q) /\ k \in Numbered(q)
        BY <1>6, <1>7 DEF NumbersInv, TakesBack
    <2>2. q.seq[m] \in Int /\ q.seq[k] \in Int /\ q.seq[m] < q.seq[k] /\ q.seq[k] < q2.nextSeq
        BY <1>6, <1>7, <2>1 DEF NumbersInv, Numbered
    <2>3. m \notin U
        <3>1. m \in U => q2.nextSeq <= q.seq[m]
            BY <1>1 DEF U, AwaitsCts
        <3> QED  BY <1>5, <2>2, <3>1
    <2> QED  BY <1>2, <2>1, <2>3
<1>8. Unsent(q2, NoExchange) = {} /\ Limit(q2, NoExchange) = q2.nextSeq
    BY <1>5, FS_EmptySet DEF Unsent, Limit
<1>9. \A m, k \in Numbered(q2) : m < k => q2.seq[m] < q2.seq[k]
    BY <1>6 DEF NumbersInv
<1> QED  BY <1>5, <1>6, <1>7, <1>8, <1>9 DEF NumbersInv

\* What the queueing of an MSDU, the passing of time and the medium leave alone.
Untouched(q, q2) ==
    /\ q2.seq = q.seq /\ q2.nextSeq = q.nextSeq /\ q2.retry = q.retry /\ q2.win = q.win
    /\ q2.bar = q.bar /\ q2.barIfData = q.barIfData

LEMMA StayFields ==
    ASSUME OriginatorInv, Enqueue \/ Expire \/ ReceiveMpdu \/ LoseMpdu \/ ReceiveBar \/ LoseBar
    PROVE  /\ Untouched(o, o') /\ \A m \in o'.edca : m \in o.edca \/ m > nMsdu
           /\ Enqueue \/ Expire => exch' = exch
<1>1. o \in OriginatorType /\ nMsdu \in Int
    BY Books DEF Sound
<1>2. CASE Enqueue
    <2> DEFINE q == WipeAllExpiredMpdus(o)
    <2>1. o' = [q EXCEPT !.edca = @ \union {nMsdu + 1}] /\ exch' = exch
        BY <1>2 DEF Enqueue
    <2>2. Sound(o, Limit(o, exch))
        BY Books
    <2>3. /\ q \in OriginatorType /\ q.seq = o.seq /\ q.nextSeq = o.nextSeq /\ q.retry = o.retry
          /\ q.win = o.win /\ q.bar = o.bar /\ q.barIfData = o.barIfData /\ q.edca \subseteq o.edca
        BY <2>2, WipeSound DEF Sound
    <2> HIDE DEF q
    <2>4. Untouched(o, o') /\ o'.edca = q.edca \union {nMsdu + 1}
        BY <2>1, <2>3 DEF Untouched, OriginatorType
    <2>5. nMsdu + 1 > nMsdu
        BY <1>1
    <2> QED  BY <2>1, <2>3, <2>4, <2>5
<1>3. CASE ~ Enqueue
    <2>1. o' = o /\ (Expire => exch' = exch)
        BY <1>3 DEF Expire, ReceiveMpdu, LoseMpdu, ReceiveBar, LoseBar
    <2> QED  BY <1>3, <2>1 DEF Untouched
<1> QED  BY <1>2, <1>3

\* A discard marks nothing as a retry.
LEMMA FireExpiredRetry ==
    ASSUME OriginatorInv, FireExpired PROVE o'.retry = o.retry /\ exch' = exch
<1> DEFINE m == Min(o.expiring)
           q == [o EXCEPT !.expiring = @ \ {m}]
           win == AdvanceTxWindow(WindowAdvance(q.win, Distance(q, m) + 1))
           old == {k \in q.baq : IsOldPacket(win.start, OSn(q, k))}
           q2 == Dequeue(q, old)
<1>1. o' = NotifyDiscardedMpdu(q, m) /\ exch' = exch /\ o \in OriginatorType
    BY Books DEF FireExpired, Sound
<1>2. o' = q \/ o' = [q2 EXCEPT !.baq = @ \ old, !.win = win, !.bar = "queued"]
    BY <1>1 DEF NotifyDiscardedMpdu
<1>3. q \in OriginatorType /\ q.retry = o.retry
    BY <1>1 DEF OriginatorType
<1> HIDE DEF q, old, win
<1>4. q2 \in OriginatorType /\ q2.retry = q.retry
    BY <1>3 DEF Dequeue, OriginatorType
<1> HIDE DEF q2
<1> QED  BY <1>1, <1>2, <1>3, <1>4 DEF OriginatorType

\* What an exchange knows of its PSDU.
LEMMA PsduFacts ==
    ASSUME OriginatorInv, exch # NoExchange
    PROVE  /\ exch \in ExchangeType /\ exch.psdu \subseteq Msdu
           /\ \A m \in exch.psdu : o.seq[m] # 0 /\ o.seq[m] < o.nextSeq
           /\ \A m, k \in exch.psdu : m < k => o.seq[m] < o.seq[k]
           /\ exch.kind = "bar" <=> exch.psdu = {}
           /\ exch.kind \in {"mpdu", "mpduBar"} => \E m \in Msdu : exch.psdu = {m}
           /\ o.bar = "sent" => exch.kind = "bar"
           /\ exch.phase = "rts" => AwaitsCts(o, exch)
           /\ Unsent(o, exch) \subseteq Msdu
BY DEF OriginatorInv, Busy, ExchangeType, Unsent

LEMMA NextNumbers ==
    ASSUME OriginatorInv, NumbersInv(o, exch), OriginatorInv', [Next]_vars
    PROVE  NumbersInv(o', exch')
<1>1. /\ o \in OriginatorType /\ o' \in OriginatorType /\ Counted(o) /\ nMsdu \in Int /\ Ordered(o')
      /\ o.seq \in [Msdu -> Int] /\ o'.seq \in [Msdu -> Int] /\ o.nextSeq \in Int
      /\ o'.edca \subseteq Msdu
    <2>1. o \in OriginatorType /\ Counted(o) /\ nMsdu \in Int
        BY Books DEF Sound
    <2>2. o' \in OriginatorType /\ Ordered(o')
        <3>1. CASE exch' = NoExchange
            BY <3>1 DEF OriginatorInv, Idle, Sound, Ordered, Kept
        <3>2. CASE exch' # NoExchange
            BY <3>2 DEF OriginatorInv, Busy, Sound, Ordered, Kept
        <3> QED  BY <3>1, <3>2
    <2> QED  BY <2>1, <2>2, TypeFields DEF OriginatorType
<1>2. ASSUME NEW m \in Msdu, m > nMsdu PROVE \A k \in Numbered(o) : ~ (m < k)
    <2>1. \A k \in Numbered(o) : k \in Int /\ ~ (k > nMsdu)
        BY <1>1 DEF Counted, Numbered, Msdu
    <2>2. m \in Int
        BY DEF Msdu
    <2> QED  BY <1>1, <1>2, <2>1, <2>2
<1>3. ASSUME o'.seq = o.seq, o'.nextSeq = o.nextSeq, \A m \in o'.edca : m \in o.edca \/ m > nMsdu,
             Unsent(o', exch') = Unsent(o, exch) \/ Unsent(o', exch') = {}
      PROVE  NumbersInv(o', exch')
    <2>1. \A m \in o'.edca : m \in o.edca \/ \A k \in Numbered(o) : ~ (m < k)
        BY <1>1, <1>2, <1>3
    <2>2. PICK e2 : e2 = exch'
        OBVIOUS
    <2>3. NumbersInv(o', e2)
        BY <1>3, <2>1, <2>2, NumbersStay
    <2> QED  BY <2>2, <2>3
<1>4. CASE Enqueue \/ Expire
    BY <1>3, <1>4, StayFields DEF Untouched, Unsent
<1>5. CASE FireExpired
    <2>1. LetsGo(o, o', Limit(o, exch)) /\ o'.retry = o.retry /\ exch' = exch
        BY <1>5, FireExpiredStep, FireExpiredRetry
    <2> QED  BY <1>3, <2>1 DEF LetsGo, Unsent
<1>6. CASE ReceiveMpdu \/ LoseMpdu \/ ReceiveBar \/ LoseBar
    <2>1. OnAir(exch) /\ exch'.phase \in {"air", "answer"}
        BY <1>6, MediumStep
    <2>2. Unsent(o', exch') = {}
        BY <2>1 DEF Unsent
    <2> QED  BY <1>3, <1>6, <2>2, StayFields DEF Untouched
<1>7. CASE ReceiveCts
    <2>1. exch \in ExchangeType /\ exch' = [exch EXCEPT !.phase = "air"]
        BY <1>7, PsduFacts DEF ReceiveCts
    <2>2. exch'.phase = "air"
        BY <2>1 DEF ExchangeType, NoExchange
    <2>3. Unsent(o', exch') = {}
        BY <2>2 DEF Unsent
    <2> QED  BY <1>3, <1>7, <2>3, ReceiveCtsStep
<1>8. CASE ReceiveBlockAck \/ BlockAckTimeout \/ ReceiveNormalAck \/ NormalAckTimeout
           \/ UnacknowledgedSent
    <2>1. exch' = NoExchange
        BY <1>8 DEF ReceiveBlockAck, BlockAckTimeout, ReceiveNormalAck, NormalAckTimeout,
                    UnacknowledgedSent, TransmissionFailed, TransmissionSucceeded, Release
    <2>2. \E A : Proceeds(o, o', A)
        BY <1>8, ReceiveBlockAckStep, BlockAckTimeoutStep, ReceiveNormalAckStep,
           NormalAckTimeoutStep, UnacknowledgedSentStep
    <2> QED  BY <1>3, <2>1, <2>2 DEF Proceeds, Unsent
<1>9. CASE CtsTimeout
    <2>1. /\ TakesBack(o, exch, o') /\ exch # NoExchange /\ exch.phase = "rts"
          /\ exch' = NoExchange
        BY <1>9, CtsTimeoutStep DEF CtsTimeout, TransmissionFailed, Release
    <2>2. /\ AwaitsCts(o, exch) /\ exch.psdu \subseteq Msdu /\ \A m \in exch.psdu : o.seq[m] # 0
        BY <2>1, PsduFacts
    <2>3. NumbersInv(o', NoExchange)
        BY <1>1, <2>1, <2>2, NumbersTakenBack
    <2> QED  BY <2>1, <2>3
<1>10. CASE StartFrameExchange
    <2>1. Starts(o, o', exch') /\ exch = NoExchange
        BY <1>10, StartFrameExchangeStep DEF StartFrameExchange, OriginatorInv
    <2>2. CASE exch' = NoExchange /\ Proceeds(o, o', {})
        BY <1>3, <2>2 DEF Proceeds, Unsent
    <2>3. CASE StartsBar(o, o', exch')
        BY <1>3, <2>3 DEF StartsBar, Unsent
    <2>4. CASE Sends(o, o', exch')
        <3>1. PICK e : e = exch'
            OBVIOUS
        <3> DEFINE new == e.psdu \ o.retry
        <3>2. /\ Assigned(o, o', new) /\ new \subseteq o'.edca /\ o'.edca \subseteq o.edca
              /\ o'.retry = o.retry
            BY <2>4, <3>1 DEF Sends
        <3>3. Unsent(o', e) = new \/ Unsent(o', e) = {}
            BY <3>2 DEF Unsent
        <3> HIDE DEF new
        <3>4. NumbersInv(o', e)
            BY <1>1, <2>1, <3>2, <3>3, NumbersGiven
        <3> QED  BY <3>1, <3>4
    <2> QED  BY <2>1, <2>2, <2>3, <2>4 DEF Starts
<1>11. CASE UNCHANGED vars
    BY <1>3, <1>11 DEF vars
<1> QED  BY <1>4, <1>5, <1>6, <1>7, <1>8, <1>9, <1>10, <1>11 DEF Next

LEMMA InitNumbers ==
    ASSUME Init PROVE NumbersInv(o, exch)
<1>1. exch = NoExchange /\ o.edca = {} /\ o.nextSeq = InitSeq /\ \A m \in Msdu : o.seq[m] = 0
    BY DEF Init
<1>2. Numbered(o) = {} /\ Unsent(o, exch) = {} /\ Cardinality({}) = 0 /\ InitSeq \in Nat
    BY <1>1, FS_EmptySet, BlockAckAssumption DEF Numbered, Unsent
<1> QED  BY <1>1, <1>2 DEF NumbersInv

-----------------------------------------------------------------------------
(* The recipient, against the originator.                                  *)

\* The first number the recipient waits for.
FirstNumber == InitSeq - Lag

\* No exchange without RTS gives numbers back, and the recipient starts with the originator.
Prompt == ~ UseRts /\ Lag = 0

\* What keeps the numbers of one run apart: half the space has room for all of them, and
\* they fit in a window or do not wrap; or the windows follow each other, and are less than
\* a quarter of the space.
Few == /\ MaxMsdu + Lag < SEQNO_SPACE_HALF_SIZE
       /\ MaxMsdu + Lag <= WinSize \/ SnOf(FirstNumber) + Lag + MaxMsdu <= SEQNO_SPACE_SIZE

Roomy == 2 * WinSize < SEQNO_SPACE_HALF_SIZE /\ MaxMsdu <= SEQNO_SPACE_SIZE

SpaceSuffices == Few \/ (Prompt /\ Roomy)

\* A BlockAckReq that tells the recipient what to wait for no more is on its way.
BarDue(q, e) == Pending(q) \/ (q.bar = "sent" /\ ~ (e # NoExchange /\ e.got))

\* What an exchange carries is not behind the scoreboard; a BlockAckReq carries the start
\* that the transmit window had when it was queued, or one before it.
Carries(q, e, rx, sb, b) ==
    e # NoExchange =>
        /\ \A m \in e.psdu : sb <= q.seq[m]
        /\ e.todo \subseteq e.psdu /\ (e.kind # "bar" /\ e.phase # "answer" => e.todo # {})
        /\ e.kind = "mpdu" /\ e.got => e.psdu \subseteq Has(rx)
        /\ e.kind = "bar" /\ e.phase # "answer" =>
              \E s \in Int : e.ssn = SnOf(s) /\ s <= b /\ q.nextSeq - WinSize <= s

\* Unless a BlockAckReq is due, the recipient's window has reached the originator's.
Follows(q, e, W, b) ==
    /\ q.nextSeq <= W + WinSize
    /\ b <= W \/ BarDue(q, e)
    /\ q.bar = "sent" => e.ssn = q.win.start

\* The recipient rx, whose windows start at W and sb, against the originator q, whose
\* window starts at b: it has only what has been sent, it has what is marked, and what is
\* acknowledged (A), and its scoreboard is not ahead.
Linked(q, e, rx, A, W, sb, b) ==
    /\ Reordering(Msdu, rx, q.seq, q.retry, W, sb)
    /\ At(q, b, Limit(q, e))
    /\ FirstNumber <= sb /\ sb <= b
    /\ Has(rx) \subseteq Numbered(q) \ Unsent(q, e)
    /\ Marks(q.win, b) \subseteq NumbersOf(rx, q.seq)
    /\ A \subseteq Has(rx)
    /\ Carries(q, e, rx, sb, b)
    /\ Prompt => Follows(q, e, W, b)

LinkInv == \E W, sb, b \in Int : Linked(o, exch, r, acked, W, sb, b)

\* Where the windows are: within half a space, and the recipient's is not ahead of the
\* numbers given.
Near(q, rx, W, sb) ==
    /\ W \in Int /\ sb \in Int /\ q.nextSeq \in Nat /\ sb <= W /\ W <= q.nextSeq
    /\ FirstNumber \in Int /\ FirstNumber <= sb
    /\ q.nextSeq < sb + SEQNO_SPACE_HALF_SIZE
    /\ InitSeq \in Nat /\ q.nextSeq <= InitSeq + SEQNO_SPACE_SIZE
    /\ \A m \in Has(rx) : /\ m \in Msdu /\ q.seq[m] \in Int /\ q.seq[m] # 0
                          /\ InitSeq <= q.seq[m] /\ q.seq[m] < q.nextSeq

LEMMA LinkedNear ==
    ASSUME NEW q \in OriginatorType, NEW e, NEW rx, NEW A, NEW W, NEW sb, NEW b,
           NumbersInv(q, e), Linked(q, e, rx, A, W, sb, b), SpaceSuffices
    PROVE  Near(q, rx, W, sb)
<1>1. /\ W \in Int /\ sb \in Int /\ sb <= W /\ W <= sb + WinSize
      /\ W = sb \/ W - 1 \in NumbersOf(rx, q.seq)
    BY ReorderingFacts DEF Linked
<1>2. q.nextSeq \in Nat /\ q.nextSeq <= InitSeq + MaxMsdu
    BY NumbersAreFew
<1>3. /\ MaxMsdu \in Nat /\ InitSeq \in Nat /\ Lag \in Nat /\ 0 < InitSeq - Lag
      /\ FirstNumber \in Int /\ FirstNumber = InitSeq - Lag
    BY BlockAckAssumption DEF FirstNumber
<1>4. FirstNumber <= sb /\ sb <= b /\ b \in Nat /\ b <= q.nextSeq
    <2>1. /\ b \in Nat /\ Limit(q, e) \in Nat /\ b <= Limit(q, e) /\ Limit(q, e) <= q.nextSeq
          /\ FirstNumber <= sb /\ sb <= b
        BY DEF Linked, At, WindowAt, NumbersAt
    <2> QED  BY <1>2, <2>1
<1>5. \A m \in Has(rx) : /\ m \in Msdu /\ q.seq[m] \in Int /\ q.seq[m] # 0
                         /\ InitSeq <= q.seq[m] /\ q.seq[m] < q.nextSeq
    BY TypeFields DEF Linked, Numbered, NumbersInv
<1>6. W <= q.nextSeq
    <2>1. CASE W = sb
        BY <1>1, <1>2, <1>4, <2>1
    <2>2. CASE W - 1 \in NumbersOf(rx, q.seq)
        <3>1. PICK m \in Has(rx) : W - 1 = q.seq[m]
            BY <2>2 DEF NumbersOf
        <3>2. q.seq[m] < q.nextSeq
            BY <1>5, <3>1
        <3> QED  BY <1>1, <1>2, <3>1, <3>2
    <2> QED  BY <1>1, <2>1, <2>2
<1>7. q.nextSeq < sb + SEQNO_SPACE_HALF_SIZE
    <2>1. CASE Few
        <3>1. MaxMsdu + Lag < SEQNO_SPACE_HALF_SIZE
            BY <2>1 DEF Few
        <3> QED  BY <1>1, <1>2, <1>3, <1>4, <3>1, HalfOfSpace
    <2>2. CASE Prompt /\ Roomy
        <3>1. q.nextSeq <= W + WinSize /\ 2 * WinSize < SEQNO_SPACE_HALF_SIZE
            BY <2>2 DEF Linked, Follows, Roomy
        <3> QED  BY <1>1, <1>2, <3>1, HalfOfSpace
    <2> QED  BY <2>1, <2>2 DEF SpaceSuffices
<1>8. q.nextSeq <= InitSeq + SEQNO_SPACE_SIZE
    <2>1. MaxMsdu <= SEQNO_SPACE_SIZE
        <3>1. CASE Few
            <4>1. MaxMsdu + Lag < SEQNO_SPACE_HALF_SIZE
                BY <3>1 DEF Few
            <4> QED  BY <1>3, <4>1, HalfOfSpace
        <3>2. CASE Roomy
            BY <3>2 DEF Roomy
        <3> QED  BY <3>1, <3>2 DEF SpaceSuffices
    <2> QED  BY <1>2, <1>3, <2>1, HalfOfSpace
<1> QED  BY <1>1, <1>2, <1>3, <1>4, <1>5, <1>6, <1>7, <1>8 DEF Near

\* The recipient has not changed, and has what the originator marks and acknowledges.
LEMMA LinkStays ==
    ASSUME NEW q, NEW e, NEW rx, NEW A, NEW W, NEW sb, NEW b, Linked(q, e, rx, A, W, sb, b),
           NEW q2, NEW e2, NEW A2, NEW b2,
           \A m \in Has(rx) : q2.seq[m] = q.seq[m], q.retry \subseteq q2.retry,
           At(q2, b2, Limit(q2, e2)), b <= b2, \A m \in Has(rx) : m \notin Unsent(q2, e2),
           Marks(q2.win, b2) \subseteq NumbersOf(rx, q.seq), A2 \subseteq Has(rx),
           Carries(q2, e2, rx, sb, b2), Prompt => Follows(q2, e2, W, b2)
    PROVE  Linked(q2, e2, rx, A2, W, sb, b2)
<1>1. Reordering(Msdu, rx, q2.seq, q2.retry, W, sb)
    BY ReorderingKept DEF Linked
<1>2. FirstNumber <= sb /\ sb <= b2
    <2>1. sb \in Int /\ b \in Nat /\ b2 \in Nat /\ sb <= b /\ FirstNumber <= sb
        BY ReorderingFacts DEF Linked, At, WindowAt
    <2> QED  BY <2>1
<1>3. Has(rx) \subseteq Numbered(q2) \ Unsent(q2, e2)
    BY DEF Linked, Numbered
<1>4. NumbersOf(rx, q2.seq) = NumbersOf(rx, q.seq)
    BY DEF NumbersOf
<1> QED  BY <1>1, <1>2, <1>3, <1>4 DEF Linked

\* The window of the originator is where it was.
LEMMA SameWindow ==
    ASSUME NEW q \in OriginatorType, NEW b, NEW limit, At(q, b, limit), NEW q2, NEW limit2,
           Sound(q2, limit2), q2.win = q.win, q2.nextSeq = q.nextSeq
    PROVE  At(q2, b, limit2)
<1>1. PICK b2 : At(q2, b2, limit2) /\ q2 \in OriginatorType
    BY DEF Sound
<1>2. limit <= q2.nextSeq /\ limit2 <= q.nextSeq
    BY <1>1 DEF At, NumbersAt
<1>3. b = b2
    BY <1>1, <1>2, UniqueStart
<1> QED  BY <1>1, <1>3

\* The bookkeeping after a step.
LEMMA BooksAfter ==
    ASSUME OriginatorInv'
    PROVE  /\ Sound(o', Limit(o', exch')) /\ o' \in OriginatorType
           /\ exch' = NoExchange => o'.bar # "sent" /\ Limit(o', exch') = o'.nextSeq
           /\ exch' # NoExchange => exch' \in ExchangeType
<1>1. CASE exch' = NoExchange
    <2>1. Sound(o', o'.nextSeq) /\ o'.bar # "sent" /\ o' \in OriginatorType
        BY <1>1 DEF OriginatorInv, Idle, Sound
    <2>2. Limit(o', exch') = o'.nextSeq
        <3>1. Unsent(o', exch') = {} /\ o'.nextSeq \in Int
            BY <1>1, <2>1 DEF Unsent, OriginatorType
        <3> QED  BY <3>1, FS_EmptySet DEF Limit
    <2> QED  BY <1>1, <2>1, <2>2
<1>2. CASE exch' # NoExchange
    BY <1>2 DEF OriginatorInv, Busy, Sound
<1> QED  BY <1>1, <1>2

\* A step that moves no window and gives no number.
LEMMA StayLinked ==
    ASSUME OriginatorInv, OriginatorInv', NEW W, NEW sb, NEW b, Linked(o, exch, r, acked, W, sb, b),
           o'.seq = o.seq, o'.nextSeq = o.nextSeq, o'.win = o.win, o'.retry = o.retry,
           r' = r, acked' = acked, Unsent(o', exch') \subseteq Unsent(o, exch),
           Carries(o', exch', r, sb, b), Prompt => Follows(o', exch', W, b)
    PROVE  Linked(o', exch', r', acked', W, sb, b)
<1>1. PICK q2, e2 : q2 = o' /\ e2 = exch'
    OBVIOUS
<1>2. At(q2, b, Limit(q2, e2))
    <2>1. Sound(q2, Limit(q2, e2))
        BY <1>1, BooksAfter
    <2>2. o \in OriginatorType /\ At(o, b, Limit(o, exch))
        BY Books DEF Sound, Linked
    <2> QED  BY <1>1, <2>1, <2>2, SameWindow
<1>3. /\ \A m \in Has(r) : q2.seq[m] = o.seq[m] /\ m \notin Unsent(q2, e2)
      /\ o.retry \subseteq q2.retry
    BY <1>1 DEF Linked
<1>4. Marks(q2.win, b) \subseteq NumbersOf(r, o.seq) /\ acked \subseteq Has(r)
    BY <1>1 DEF Linked
<1>5. Carries(q2, e2, r, sb, b) /\ (Prompt => Follows(q2, e2, W, b))
    BY <1>1
<1>6. b <= b
    BY <1>2 DEF At, WindowAt
<1>7. Linked(q2, e2, r, acked, W, sb, b)
    BY <1>2, <1>3, <1>4, <1>5, <1>6, LinkStays
<1> QED  BY <1>1, <1>7

\* m is not on the air any more.
OffAir(e, e2, m, got) ==
    /\ e2 # NoExchange /\ e2.kind = e.kind /\ e2.psdu = e.psdu /\ e2.ssn = e.ssn
    /\ e2.todo = e.todo \ {m} /\ (e2.got <=> e.got \/ got)
    /\ e2.phase = IF e.todo = {m} THEN "answer" ELSE e.phase

LEMMA ReceivedFields ==
    ASSUME NEW e \in ExchangeType, e # NoExchange, NEW m, NEW got \in BOOLEAN,
           NEW e2, e2 = Received(e, m, got)
    PROVE  OffAir(e, e2, m, got)
<1>1. e2.kind = e.kind /\ e.kind # "none"
    BY DEF Received, ExchangeType
<1>2. e2 # NoExchange
    BY <1>1 DEF NoExchange
<1>3. /\ e2.psdu = e.psdu /\ e2.ssn = e.ssn /\ e2.todo = e.todo \ {m}
      /\ e2.phase = IF e.todo = {m} THEN "answer" ELSE e.phase
    BY DEF Received, ExchangeType
<1>4. e2.got <=> e.got \/ got
    BY DEF Received, ExchangeType
<1> QED  BY <1>1, <1>2, <1>3, <1>4 DEF OffAir

\* What is left on the air is still carried, whether the last MPDU was received or not.
LEMMA CarriesOn ==
    ASSUME NEW q, NEW e \in ExchangeType, OnAir(e), NEW rx, NEW sb, NEW b, Carries(q, e, rx, sb, b),
           e.kind # "bar", NEW m, NEW got \in BOOLEAN, NEW e2, e2 = Received(e, m, got),
           NEW rx2, NEW sb2, \A k \in e.psdu : sb2 <= q.seq[k], Has(rx) \subseteq Has(rx2),
           e.kind = "mpdu" /\ got => e.psdu \subseteq Has(rx2)
    PROVE  Carries(q, e2, rx2, sb2, b)
<1>1. /\ e # NoExchange /\ e.phase = "air"
      /\ e2 # NoExchange /\ e2.kind = e.kind /\ e2.psdu = e.psdu /\ e2.ssn = e.ssn
      /\ e2.todo = e.todo \ {m} /\ (e2.got <=> e.got \/ got)
      /\ e2.phase = IF e.todo = {m} THEN "answer" ELSE e.phase
    <2>1. e # NoExchange /\ e.phase = "air"
        BY DEF OnAir
    <2>2. OffAir(e, e2, m, got)
        BY <2>1, ReceivedFields
    <2> QED  BY <2>1, <2>2 DEF OffAir
<1>2. /\ e.todo \subseteq e.psdu /\ e.todo # {}
      /\ e.kind = "mpdu" /\ e.got => e.psdu \subseteq Has(rx)
    BY <1>1 DEF Carries
<1>3. e2.todo \subseteq e2.psdu /\ (e2.phase # "answer" => e2.todo # {})
    BY <1>1, <1>2
<1>4. e2.kind = "mpdu" /\ e2.got => e2.psdu \subseteq Has(rx2)
    BY <1>1, <1>2
<1> QED  BY <1>1, <1>3, <1>4 DEF Carries

LEMMA NothingReceivedLinked ==
    ASSUME OriginatorInv, OriginatorInv', NEW W, NEW sb, NEW b, Linked(o, exch, r, acked, W, sb, b),
           Enqueue \/ Expire \/ LoseMpdu \/ LoseBar
    PROVE  Linked(o', exch', r', acked', W, sb, b)
<1>1. Untouched(o, o') /\ r' = r /\ acked' = acked
    BY StayFields DEF Enqueue, Expire, LoseMpdu, LoseBar
<1>2. Carries(o, exch, r, sb, b) /\ (Prompt => Follows(o, exch, W, b))
    BY DEF Linked
<1>3. ASSUME Unsent(o', exch') \subseteq Unsent(o, exch), Carries(o, exch', r, sb, b),
             exch' = exch \/ (exch # NoExchange /\ exch' # NoExchange /\ exch'.ssn = exch.ssn
                              /\ (exch'.got <=> exch.got))
      PROVE  Linked(o', exch', r', acked', W, sb, b)
    <2>1. Carries(o', exch', r, sb, b)
        BY <1>1, <1>3 DEF Carries, Untouched
    <2>2. Prompt => Follows(o', exch', W, b)
        <3> SUFFICES ASSUME Prompt PROVE Follows(o', exch', W, b)
            OBVIOUS
        <3>1. /\ o.nextSeq <= W + WinSize /\ (b <= W \/ BarDue(o, exch))
              /\ (o.bar = "sent" => exch.ssn = o.win.start)
            BY <1>2 DEF Follows
        <3>2. BarDue(o, exch) => BarDue(o', exch')
            BY <1>1, <1>3 DEF BarDue, Pending, Untouched
        <3>3. o.bar = "sent" => exch # NoExchange
            BY DEF OriginatorInv, Idle
        <3>4. o'.bar = "sent" => exch'.ssn = o'.win.start
            BY <1>1, <1>3, <3>1 DEF Untouched
        <3> QED  BY <1>1, <3>1, <3>2, <3>4 DEF Follows, Untouched
    <2> QED  BY <1>1, <1>3, <2>1, <2>2, StayLinked DEF Untouched
<1>4. CASE Enqueue \/ Expire
    <2>1. exch' = exch
        BY <1>4, StayFields
    <2> QED  BY <1>1, <1>2, <1>3, <2>1 DEF Untouched, Unsent
<1>5. CASE LoseMpdu
    <2>1. OnAir(exch) /\ exch.kind # "bar" /\ exch' = Received(exch, Min(exch.todo), FALSE)
        BY <1>5 DEF LoseMpdu
    <2>2. exch \in ExchangeType /\ exch # NoExchange /\ exch.phase = "air"
        BY <2>1, PsduFacts DEF OnAir
    <2>3. PICK e2, m : e2 = exch' /\ m = Min(exch.todo)
        OBVIOUS
    <2>4. /\ e2 # NoExchange /\ e2.ssn = exch.ssn /\ (e2.got <=> exch.got)
          /\ e2.phase \in {"air", "answer"}
        <3>1. e2 = Received(exch, m, FALSE) /\ FALSE \in BOOLEAN
            BY <2>1, <2>3
        <3>2. OffAir(exch, e2, m, FALSE)
            BY <2>2, <3>1, ReceivedFields
        <3> QED  BY <2>2, <3>2 DEF OffAir
    <2>5. Carries(o, e2, r, sb, b)
        <3>1. \A k \in exch.psdu : sb <= o.seq[k]
            BY <1>2, <2>2 DEF Carries
        <3> QED  BY <1>2, <2>1, <2>2, <2>3, <3>1, CarriesOn
    <2>6. Unsent(o', exch') = {}
        BY <2>3, <2>4 DEF Unsent
    <2> QED  BY <1>3, <2>2, <2>3, <2>4, <2>5, <2>6
<1>6. CASE LoseBar
    <2>1. OnAir(exch) /\ exch.kind = "bar" /\ exch' = [exch EXCEPT !.phase = "answer"]
        BY <1>6 DEF LoseBar
    <2>2. exch \in ExchangeType /\ exch # NoExchange
        BY <2>1, PsduFacts DEF OnAir
    <2>3. /\ exch'.kind = "bar" /\ exch'.psdu = exch.psdu /\ exch'.phase = "answer"
          /\ exch'.ssn = exch.ssn /\ exch'.todo = exch.todo
        BY <2>1, <2>2 DEF ExchangeType
    <2>4. exch'.got <=> exch.got
        BY <2>1, <2>2 DEF ExchangeType
    <2>5. exch' # NoExchange
        BY <2>3 DEF NoExchange
    <2>6. Carries(o, exch', r, sb, b) /\ Unsent(o', exch') = {}
        BY <1>2, <2>1, <2>2, <2>3 DEF Carries, Unsent
    <2> QED  BY <1>3, <2>2, <2>3, <2>4, <2>5, <2>6
<1> QED  BY <1>4, <1>5, <1>6

\* The window of the originator moves from b to c, and leaves the recipient's behind only
\* if a BlockAckReq is due.
WindowGoes(q, q2, rx, W, b, c, limit) ==
    /\ c \in Nat /\ b <= c /\ At(q2, c, limit) /\ q.retry \subseteq q2.retry
    /\ Marks(q2.win, c) \subseteq NumbersOf(rx, q.seq)
    /\ b <= W => c <= W \/ Pending(q2)
    /\ Pending(q) => Pending(q2)

\* What it passes has been received, or is to be announced.
LEMMA MovedGoes ==
    ASSUME NEW q \in OriginatorType, NEW e, NEW rx, NEW A, NEW W, NEW sb, NEW b,
           Linked(q, e, rx, A, W, sb, b), NEW q2, NEW C, C \subseteq Has(rx), NEW limit,
           Moved(q, q2, C, limit), Limit(q, e) <= q.nextSeq
    PROVE  \E c : WindowGoes(q, q2, rx, W, b, c, limit)
<1>1. PICK a \in Nat, c \in Nat : At(q, a, limit) /\ At(q2, c, limit) /\ Moves(q, a, q2, c, C)
    BY DEF Moved
<1>2. a = b
    <2>1. limit <= q.nextSeq
        BY <1>1 DEF At, NumbersAt
    <2>2. At(q, b, Limit(q, e))
        BY DEF Linked
    <2> QED  BY <1>1, <2>1, <2>2, UniqueStart
<1>3. Covered(q, b, C) \subseteq NumbersOf(rx, q.seq)
    BY DEF Covered, NumbersOf, Linked
<1>4. ASSUME b <= W, ~ Pending(q2) PROVE c <= W
    <2>1. W \in Int /\ W \notin NumbersOf(rx, q.seq)
        BY ReorderingFacts DEF Linked
    <2>2. b .. (c - 1) \subseteq NumbersOf(rx, q.seq)
        BY <1>1, <1>2, <1>3, <1>4 DEF Moves
    <2>3. W \notin b .. (c - 1)
        BY <2>1, <2>2
    <2> QED  BY <1>1, <1>2, <1>4, <2>1, <2>3
<1> QED  BY <1>1, <1>2, <1>3, <1>4 DEF WindowGoes, Moves

\* An exchange ends.
LEMMA ProceedsLinked ==
    ASSUME OriginatorInv, OriginatorInv', NEW W, NEW sb, NEW b, Linked(o, exch, r, acked, W, sb, b),
           NEW A, Proceeds(o, o', A), A \subseteq Has(r), r' = r, acked' \subseteq acked \union Has(r),
           exch' = NoExchange, BarDue(o, exch) => Pending(o')
    PROVE  \E c \in Int : Linked(o', exch', r', acked', W, sb, c)
<1>1. PICK q2, A2 : q2 = o' /\ A2 = acked'
    OBVIOUS
<1>2. /\ q2.seq = o.seq /\ q2.nextSeq = o.nextSeq /\ Moved(o, q2, A, o.nextSeq)
    BY <1>1 DEF Proceeds
<1>3. o \in OriginatorType /\ Limit(o, exch) <= o.nextSeq
    <2>1. o \in OriginatorType
        BY Books DEF Sound
    <2> QED  BY <2>1 DEF Linked, At, NumbersAt
<1>4. PICK c : WindowGoes(o, q2, r, W, b, c, o.nextSeq)
    BY <1>2, <1>3, MovedGoes
<1>5. At(q2, c, Limit(q2, NoExchange)) /\ q2.bar # "sent" /\ Unsent(q2, NoExchange) = {}
    BY <1>1, <1>2, <1>4, BooksAfter DEF WindowGoes, Unsent
<1>6. Carries(q2, NoExchange, r, sb, c)
    BY DEF Carries
<1>7. ASSUME Prompt PROVE Follows(q2, NoExchange, W, c)
    <2>1. o.nextSeq <= W + WinSize /\ (b <= W \/ BarDue(o, exch))
        BY <1>7 DEF Linked, Follows
    <2>2. c <= W \/ Pending(q2)
        BY <1>1, <1>4, <2>1 DEF WindowGoes
    <2> QED  BY <1>2, <1>5, <2>1, <2>2 DEF Follows, BarDue
<1>8. Linked(q2, NoExchange, r, A2, W, sb, c)
    <2>1. /\ \A m \in Has(r) : q2.seq[m] = o.seq[m] /\ m \notin Unsent(q2, NoExchange)
          /\ o.retry \subseteq q2.retry /\ b <= c /\ Marks(q2.win, c) \subseteq NumbersOf(r, o.seq)
        BY <1>2, <1>4, <1>5 DEF WindowGoes
    <2>2. A2 \subseteq Has(r)
        BY <1>1 DEF Linked
    <2> QED  BY <1>5, <1>6, <1>7, <2>1, <2>2, LinkStays
<1>9. c \in Int
    BY <1>4 DEF WindowGoes
<1> QED  BY <1>1, <1>8, <1>9

\* No MPDU that the recipient has not got is acknowledged.
LEMMA AcknowledgedHas ==
    ASSUME NEW q \in OriginatorType, NEW e, NEW rx, NEW A, NEW W, NEW sb, NEW b,
           NumbersInv(q, e), Linked(q, e, rx, A, W, sb, b), Near(q, rx, W, sb)
    PROVE  Acknowledged(q, FillBlockAckBitmap(rx)) \subseteq Has(rx)
<1> SUFFICES ASSUME NEW m \in q.baq, OSn(q, m) \in FillBlockAckBitmap(rx) PROVE m \in Has(rx)
    BY DEF Acknowledged
<1>1. PICK d \in rx.scoreboard.marked : SnOf(q.seq[m]) = SnOf(rx.scoreboard.start + d)
    BY DEF OSn, FillBlockAckBitmap
<1>2. /\ rx.scoreboard.start = SnOf(sb) /\ sb \in Int /\ d \in Int /\ 0 <= d
    <2>1. rx.scoreboard \in Window /\ rx.scoreboard.start = SnOf(sb) /\ sb \in Int
        BY RecipientFields DEF Linked, Reordering, AgreementAt
    <2>2. d \in 0 .. (WinSize - 1)
        BY <2>1 DEF Window
    <2> QED  BY <2>1, <2>2, HalfOfSpace
<1>3. SnOf(q.seq[m]) = SnOf(sb + d)
    BY <1>1, <1>2, SnOfSum
<1>4. PICK k \in Has(rx) : sb + d = q.seq[k]
    BY DEF Linked, Reordering, Marks, NumbersOf
<1>5. /\ k \in Msdu /\ q.seq[k] \in Int /\ q.seq[k] # 0 /\ q.seq[k] < sb + WinSize
    BY ReorderingFacts DEF Linked, Near
<1>6. /\ m \in Msdu /\ q.seq[m] \in Int /\ b \in Nat /\ 0 < b /\ b <= q.seq[m]
      /\ q.seq[m] < Limit(q, e) /\ Limit(q, e) \in Nat /\ Limit(q, e) <= q.nextSeq
      /\ sb <= b /\ q.nextSeq < sb + SEQNO_SPACE_HALF_SIZE /\ q.nextSeq \in Nat
    <2>1. m \in Msdu /\ q.seq[m] \in Int
        BY TypeFields
    <2> QED  BY <2>1 DEF Linked, At, WindowAt, NumbersAt, Near
<1>7. q.seq[m] = q.seq[k]
    <2>1. q.seq[m] < q.seq[k] + SEQNO_SPACE_SIZE
        BY <1>2, <1>4, <1>5, <1>6, HalfOfSpace
    <2>2. q.seq[k] < q.seq[m] + SEQNO_SPACE_SIZE
        BY <1>2, <1>5, <1>6, HalfOfSpace
    <2> QED  BY <1>3, <1>4, <1>5, <1>6, <2>1, <2>2, SnOfInjective
<1>8. m \in Numbered(q) /\ k \in Numbered(q) /\ m \in Int /\ k \in Int
    BY <1>5, <1>6 DEF Numbered, Msdu
<1>9. ~ (m < k) /\ ~ (k < m)
    BY <1>5, <1>6, <1>7, <1>8 DEF NumbersInv
<1> QED  BY <1>8, <1>9

LEMMA EndLinked ==
    ASSUME OriginatorInv, OriginatorInv', NumbersInv(o, exch), SpaceSuffices, NEW W, NEW sb, NEW b,
           Linked(o, exch, r, acked, W, sb, b),
           ReceiveBlockAck \/ BlockAckTimeout \/ ReceiveNormalAck \/ NormalAckTimeout
               \/ UnacknowledgedSent
    PROVE  \E c \in Int : Linked(o', exch', r', acked', W, sb, c)
<1>1. exch' = NoExchange /\ r' = r /\ exch # NoExchange
    BY DEF ReceiveBlockAck, BlockAckTimeout, ReceiveNormalAck, NormalAckTimeout,
           UnacknowledgedSent, TransmissionFailed, TransmissionSucceeded, Release, AnswerDue
<1>2. o.bar = "sent" => exch.kind = "bar"
    BY <1>1, PsduFacts
<1>3. ASSUME NEW A, Proceeds(o, o', A), exch.kind # "bar" \/ exch.got PROVE BarDue(o, exch) => Pending(o')
    BY <1>1, <1>2, <1>3 DEF BarDue, Proceeds, Moved, Moves
<1>4. CASE ReceiveBlockAck
    <2> DEFINE A == Acknowledged(o, FillBlockAckBitmap(r))
    <2>1. Proceeds(o, o', A)
        BY <1>4, ReceiveBlockAckStep
    <2>2. A \subseteq Has(r)
        <3>1. o \in OriginatorType
            BY Books DEF Sound
        <3>2. Near(o, r, W, sb)
            BY <3>1, LinkedNear
        <3> QED  BY <3>1, <3>2, AcknowledgedHas
    <2>3. acked' = acked \union A /\ exch.got
        BY <1>4 DEF ReceiveBlockAck
    <2> HIDE DEF A
    <2>4. BarDue(o, exch) => Pending(o')
        BY <1>3, <2>1, <2>3
    <2> QED  BY <1>1, <2>1, <2>2, <2>3, <2>4, ProceedsLinked
<1>5. CASE BlockAckTimeout
    <2>1. Proceeds(o, o', {}) /\ (exch.kind = "bar" => Pending(o'))
        BY <1>5, BlockAckTimeoutStep
    <2>2. acked' = acked
        BY <1>5 DEF BlockAckTimeout
    <2>3. BarDue(o, exch) => Pending(o')
        BY <1>3, <2>1
    <2> QED  BY <1>1, <2>1, <2>2, <2>3, ProceedsLinked
<1>6. CASE ReceiveNormalAck
    <2>1. PICK m \in exch.psdu : acked' = acked \union {m} /\ Proceeds(o, o', {m} \intersect o.baq)
        BY <1>6, ReceiveNormalAckStep
    <2>2. exch.kind = "mpdu" /\ exch.got
        BY <1>6 DEF ReceiveNormalAck, AnswerDue
    <2>3. exch.psdu \subseteq Has(r)
        BY <1>1, <2>2 DEF Linked, Carries
    <2>4. m \in Has(r)
        BY <2>1, <2>3
    <2>5. BarDue(o, exch) => Pending(o')
        BY <1>3, <2>1, <2>2
    <2> QED  BY <1>1, <2>1, <2>4, <2>5, ProceedsLinked
<1>7. CASE NormalAckTimeout
    <2>1. Proceeds(o, o', {}) /\ acked' = acked /\ exch.kind = "mpdu"
        BY <1>7, NormalAckTimeoutStep DEF NormalAckTimeout, AnswerDue
    <2>2. BarDue(o, exch) => Pending(o')
        BY <1>3, <2>1
    <2> QED  BY <1>1, <2>1, <2>2, ProceedsLinked
<1>8. CASE UnacknowledgedSent
    <2>1. Proceeds(o, o', {}) /\ acked' = acked /\ exch.kind = "mpduBar"
        BY <1>8, UnacknowledgedSentStep DEF UnacknowledgedSent, AnswerDue
    <2>2. BarDue(o, exch) => Pending(o')
        BY <1>3, <2>1
    <2> QED  BY <1>1, <2>1, <2>2, ProceedsLinked
<1> QED  BY <1>4, <1>5, <1>6, <1>7, <1>8

\* An Expired trace is fired: only a BlockAckReq that is queued may let the window move.
LEMMA FireExpiredLinked ==
    ASSUME OriginatorInv, OriginatorInv', NEW W, NEW sb, NEW b, Linked(o, exch, r, acked, W, sb, b),
           FireExpired
    PROVE  \E c \in Int : Linked(o', exch', r', acked', W, sb, c)
<1>1. /\ LetsGo(o, o', Limit(o, exch)) /\ o'.retry = o.retry /\ exch' = exch
      /\ r' = r /\ acked' = acked
    BY FireExpiredStep, FireExpiredRetry DEF FireExpired
<1>2. PICK q2 : q2 = o'
    OBVIOUS
<1>3. /\ q2.seq = o.seq /\ q2.nextSeq = o.nextSeq /\ Moved(o, q2, {}, Limit(o, exch))
      /\ q2.bar = "queued" \/ (q2.win = o.win /\ q2.bar = o.bar)
    BY <1>1, <1>2 DEF LetsGo
<1>4. o \in OriginatorType /\ Limit(o, exch) <= o.nextSeq
    <2>1. o \in OriginatorType
        BY Books DEF Sound
    <2> QED  BY <2>1 DEF Linked, At, NumbersAt
<1>5. PICK c : WindowGoes(o, q2, r, W, b, c, Limit(o, exch))
    BY <1>3, <1>4, MovedGoes
<1>6. Unsent(q2, exch) = Unsent(o, exch) /\ Limit(q2, exch) = Limit(o, exch)
    BY <1>1, <1>2, <1>3 DEF Unsent, Limit
<1>7. Carries(q2, exch, r, sb, c)
    <2>1. Carries(o, exch, r, sb, b) /\ b \in Nat /\ c \in Nat /\ b <= c
        BY <1>5 DEF Linked, At, WindowAt, WindowGoes
    <2>2. \A s \in Int : s <= b => s <= c
        BY <2>1
    <2> QED  BY <1>3, <2>1, <2>2 DEF Carries
<1>8. ASSUME Prompt PROVE Follows(q2, exch, W, c)
    <2>1. /\ o.nextSeq <= W + WinSize /\ (b <= W \/ BarDue(o, exch))
          /\ (o.bar = "sent" => exch.ssn = o.win.start)
        BY <1>8 DEF Linked, Follows
    <2>2. CASE q2.bar = "queued"
        BY <1>3, <2>1, <2>2 DEF Follows, BarDue, Pending
    <2>3. CASE q2.win = o.win /\ q2.bar = o.bar
        <3>1. c <= W \/ BarDue(q2, exch)
            BY <1>5, <2>1, <2>3 DEF WindowGoes, BarDue
        <3> QED  BY <1>3, <2>1, <2>3, <3>1 DEF Follows
    <2> QED  BY <1>3, <2>2, <2>3
<1>9. Linked(q2, exch, r, acked, W, sb, c)
    <2>1. /\ \A m \in Has(r) : q2.seq[m] = o.seq[m] /\ m \notin Unsent(q2, exch)
          /\ o.retry \subseteq q2.retry /\ b <= c /\ Marks(q2.win, c) \subseteq NumbersOf(r, o.seq)
          /\ At(q2, c, Limit(q2, exch)) /\ acked \subseteq Has(r)
        BY <1>3, <1>5, <1>6 DEF WindowGoes, Linked
    <2> QED  BY <1>7, <1>8, <2>1, LinkStays
<1>10. c \in Int
    BY <1>5 DEF WindowGoes
<1> QED  BY <1>1, <1>2, <1>9, <1>10

\* The numbers that a CTS timeout takes back are those of MPDUs that the recipient has not.
LEMMA CtsTimeoutLinked ==
    ASSUME OriginatorInv, OriginatorInv', NEW W, NEW sb, NEW b, Linked(o, exch, r, acked, W, sb, b),
           CtsTimeout
    PROVE  \E c \in Int : Linked(o', exch', r', acked', W, sb, c)
<1>1. /\ TakesBack(o, exch, o') /\ exch # NoExchange /\ exch.phase = "rts" /\ exch' = NoExchange
      /\ r' = r /\ acked' = acked
    BY CtsTimeoutStep DEF CtsTimeout, TransmissionFailed, Release
<1>2. PICK q2 : q2 = o'
    OBVIOUS
<1>3. /\ q2.nextSeq = Limit(o, exch) /\ Moved(o, q2, {}, Limit(o, exch))
      /\ \A m \in Msdu : q2.seq[m] = IF m \in Unsent(o, exch) THEN 0 ELSE o.seq[m]
    BY <1>1, <1>2 DEF TakesBack
<1>4. o \in OriginatorType /\ Limit(o, exch) <= o.nextSeq
    <2>1. o \in OriginatorType
        BY Books DEF Sound
    <2> QED  BY <2>1 DEF Linked, At, NumbersAt
<1>5. PICK c : WindowGoes(o, q2, r, W, b, c, Limit(o, exch))
    BY <1>3, <1>4, MovedGoes
<1>6. Unsent(q2, NoExchange) = {} /\ Limit(q2, NoExchange) = Limit(o, exch)
    BY <1>1, <1>2, <1>3, BooksAfter DEF Unsent
<1>7. Carries(q2, NoExchange, r, sb, c)
    BY DEF Carries
<1>8. ~ Prompt
    BY <1>1, PsduFacts DEF AwaitsCts, Prompt
<1>9. \A m \in Has(r) : q2.seq[m] = o.seq[m]
    BY <1>3 DEF Linked, Numbered
<1>10. Linked(q2, NoExchange, r, acked, W, sb, c)
    <2>1. /\ \A m \in Has(r) : m \notin Unsent(q2, NoExchange)
          /\ o.retry \subseteq q2.retry /\ b <= c /\ Marks(q2.win, c) \subseteq NumbersOf(r, o.seq)
          /\ At(q2, c, Limit(q2, NoExchange)) /\ acked \subseteq Has(r)
        BY <1>5, <1>6 DEF WindowGoes, Linked
    <2> QED  BY <1>7, <1>8, <1>9, <2>1, LinkStays
<1>11. c \in Int
    BY <1>5 DEF WindowGoes
<1> QED  BY <1>1, <1>2, <1>10, <1>11

LEMMA ReceiveCtsLinked ==
    ASSUME OriginatorInv, OriginatorInv', NEW W, NEW sb, NEW b, Linked(o, exch, r, acked, W, sb, b),
           ReceiveCts
    PROVE  Linked(o', exch', r', acked', W, sb, b)
<1>1. /\ o'.seq = o.seq /\ o'.nextSeq = o.nextSeq /\ o'.win = o.win /\ o'.retry = o.retry
      /\ r' = r /\ acked' = acked /\ ~ Prompt
    BY ReceiveCtsStep DEF ReceiveCts, Prompt
<1>2. /\ exch # NoExchange /\ exch.phase = "rts" /\ exch' = [exch EXCEPT !.phase = "air"]
      /\ exch \in ExchangeType
    BY PsduFacts DEF ReceiveCts
<1>3. /\ exch'.kind = exch.kind /\ exch'.psdu = exch.psdu /\ exch'.phase = "air"
      /\ exch'.ssn = exch.ssn /\ exch'.todo = exch.todo
    BY <1>2 DEF ExchangeType
<1>4. exch'.got <=> exch.got
    BY <1>2 DEF ExchangeType
<1>5. Carries(o', exch', r, sb, b) /\ Unsent(o', exch') = {}
    BY <1>1, <1>2, <1>3, <1>4 DEF Linked, Carries, Unsent
<1> QED  BY <1>1, <1>5, StayLinked

\* A BlockAckReq starts out with the start of the window.
LEMMA StartBarLinked ==
    ASSUME OriginatorInv, OriginatorInv', NEW W, NEW sb, NEW b, Linked(o, exch, r, acked, W, sb, b),
           exch = NoExchange, r' = r, acked' = acked, StartsBar(o, o', exch')
    PROVE  Linked(o', exch', r', acked', W, sb, b)
<1>1. PICK q2, e : q2 = o' /\ e = exch'
    OBVIOUS
<1>2. /\ e # NoExchange /\ e.kind = "bar" /\ e.psdu = {} /\ e.todo = {} /\ e.phase # "answer" /\ ~ e.got
      /\ e.ssn = o.win.start /\ q2.bar = "sent" /\ q2.seq = o.seq /\ q2.nextSeq = o.nextSeq
      /\ q2.win = o.win /\ q2.retry = o.retry
    BY <1>1 DEF StartsBar
<1>3. /\ b \in Nat /\ b \in Int /\ o.win.start = SnOf(b) /\ o.nextSeq <= b + WinSize
      /\ o.nextSeq \in Int
    <2>1. b \in Nat /\ o.win.start = SnOf(b) /\ o.nextSeq <= b + WinSize
        BY DEF Linked, At, WindowAt, NumbersAt
    <2>2. o.nextSeq \in Int
        BY Books, TypeFields DEF Sound
    <2> QED  BY <2>1, <2>2
<1>4. Carries(q2, e, r, sb, b)
    <2>1. e.ssn = SnOf(b) /\ b <= b /\ q2.nextSeq - WinSize <= b
        BY <1>2, <1>3, HalfOfSpace
    <2> QED  BY <1>2, <1>3, <2>1 DEF Carries
<1>5. Prompt => Follows(q2, e, W, b)
    BY <1>2 DEF Linked, Follows, BarDue
<1>6. Unsent(q2, e) = {}
    BY <1>2 DEF Unsent
<1> QED  BY <1>1, <1>2, <1>4, <1>5, <1>6, StayLinked

\* Data starts out when no BlockAckReq is due, within the window of either end.
LEMMA StartDataLinked ==
    ASSUME OriginatorInv, OriginatorInv', NEW W, NEW sb, NEW b, Linked(o, exch, r, acked, W, sb, b),
           exch = NoExchange, r' = r, acked' = acked, Sends(o, o', exch'), ~ Pending(o)
    PROVE  Linked(o', exch', r', acked', W, sb, b)
<1>1. PICK q2, e : q2 = o' /\ e = exch'
    OBVIOUS
<1>2. /\ e # NoExchange /\ e.kind # "bar" /\ e.psdu # {} /\ e.todo = e.psdu /\ ~ e.got
      /\ e.phase # "answer" /\ q2.win = o.win /\ q2.retry = o.retry /\ q2.bar # "sent"
      /\ Assigned(o, q2, e.psdu \ o.retry)
    BY <1>1 DEF Sends
<1>3. PICK c : /\ At(o, c, o.nextSeq) /\ At(q2, c, Limit(q2, e))
               /\ \A m \in e.psdu : c <= q2.seq[m]
    BY <1>1 DEF Sends
<1>4. /\ o \in OriginatorType /\ q2 \in OriginatorType /\ o.bar # "sent"
      /\ e.psdu \subseteq Msdu /\ Limit(o, exch) = o.nextSeq
    <2>1. o \in OriginatorType /\ o.bar # "sent" /\ Limit(o, exch) = o.nextSeq
        BY Books DEF Sound, OriginatorInv, Idle
    <2>2. q2 \in OriginatorType /\ e \in ExchangeType
        BY <1>1, <1>2, BooksAfter
    <2> QED  BY <1>2, <2>1, <2>2 DEF ExchangeType
<1>5. c = b
    <2>1. At(o, b, o.nextSeq) /\ o.nextSeq <= o.nextSeq
        BY <1>4, TypeFields DEF Linked
    <2> QED  BY <1>3, <1>4, <2>1, UniqueStart
<1>6. \A m \in Has(r) : q2.seq[m] = o.seq[m] /\ m \notin Unsent(q2, e)
    <2>1. Unsent(q2, e) \subseteq e.psdu \ o.retry
        BY <1>2 DEF Unsent
    <2>2. \A m \in Has(r) : m \in Msdu /\ o.seq[m] # 0
        BY DEF Linked, Numbered
    <2> QED  BY <1>2, <2>1, <2>2 DEF Assigned
<1>7. /\ b \in Nat /\ sb \in Int /\ sb <= b /\ W \in Int /\ q2.nextSeq \in Int
      /\ q2.nextSeq <= b + WinSize
    BY <1>3, <1>4, <1>5, ReorderingFacts, TypeFields DEF Linked, At, WindowAt, NumbersAt
<1>8. Carries(q2, e, r, sb, b)
    <2>1. ASSUME NEW m \in e.psdu PROVE sb <= q2.seq[m]
        <3>1. q2.seq[m] \in Int /\ b <= q2.seq[m]
            BY <1>3, <1>4, <1>5, TypeFields
        <3> QED  BY <1>7, <3>1
    <2> QED  BY <1>2, <2>1 DEF Carries
<1>9. ASSUME Prompt PROVE Follows(q2, e, W, b)
    <2>1. b <= W
        BY <1>4, <1>9 DEF Linked, Follows, BarDue, Pending
    <2>2. q2.nextSeq <= W + WinSize
        BY <1>7, <2>1, HalfOfSpace
    <2> QED  BY <1>2, <2>1, <2>2 DEF Follows
<1>10. Linked(q2, e, r, acked, W, sb, b)
    <2>1. /\ At(q2, b, Limit(q2, e)) /\ b <= b /\ o.retry \subseteq q2.retry
          /\ Marks(q2.win, b) \subseteq NumbersOf(r, o.seq) /\ acked \subseteq Has(r)
        BY <1>2, <1>3, <1>5, <1>7 DEF Linked
    <2> QED  BY <1>6, <1>8, <1>9, <2>1, LinkStays
<1> QED  BY <1>1, <1>10

LEMMA StartLinked ==
    ASSUME OriginatorInv, OriginatorInv', NEW W, NEW sb, NEW b, Linked(o, exch, r, acked, W, sb, b),
           StartFrameExchange
    PROVE  \E c \in Int : Linked(o', exch', r', acked', W, sb, c)
<1>1. Starts(o, o', exch') /\ exch = NoExchange /\ r' = r /\ acked' = acked /\ o.bar # "sent"
    BY StartFrameExchangeStep DEF StartFrameExchange, OriginatorInv, Idle
<1>2. b \in Int
    BY DEF Linked, At, WindowAt
<1>3. CASE exch' = NoExchange /\ Proceeds(o, o', {})
    <2>1. BarDue(o, exch) => Pending(o')
        BY <1>1, <1>3 DEF BarDue, Proceeds, Moved, Moves
    <2> QED  BY <1>1, <1>3, <2>1, ProceedsLinked
<1>4. CASE StartsBar(o, o', exch')
    BY <1>1, <1>2, <1>4, StartBarLinked
<1>5. CASE Sends(o, o', exch') /\ ~ Pending(o)
    BY <1>1, <1>2, <1>5, StartDataLinked
<1> QED  BY <1>1, <1>3, <1>4, <1>5 DEF Starts

\* The numbers on the air are those of the first window, or far enough from a wrap of the
\* space; or they do not leave the recipient's window.
LEMMA NumbersInRange ==
    ASSUME NEW q, NEW e, NEW rx, NEW A, NEW W, NEW sb, NEW b, Linked(q, e, rx, A, W, sb, b),
           Near(q, rx, W, sb), q.nextSeq <= InitSeq + MaxMsdu, SpaceSuffices,
           NEW n \in Int, n < q.nextSeq, W + WinSize <= n
    PROVE  SnOf(n) - WinSize + 1 >= 0
<1>1. /\ W \in Int /\ sb \in Int /\ sb <= W /\ q.nextSeq \in Nat /\ FirstNumber \in Int
      /\ FirstNumber <= sb /\ InitSeq \in Nat /\ MaxMsdu \in Nat /\ Lag \in Nat
      /\ FirstNumber = InitSeq - Lag
    BY BlockAckAssumption DEF Near, FirstNumber
<1>2. ~ Prompt
    BY <1>1, HalfOfSpace DEF Linked, Follows
<1>3. SnOf(FirstNumber) + Lag + MaxMsdu <= SEQNO_SPACE_SIZE
    BY <1>1, <1>2, HalfOfSpace DEF SpaceSuffices, Few
<1> DEFINE k == n - FirstNumber
           x == SnOf(FirstNumber) + k
<1>4. k \in Int /\ WinSize <= k /\ k < Lag + MaxMsdu
    BY <1>1, HalfOfSpace
<1>5. SnOf(FirstNumber) \in Int /\ 0 <= SnOf(FirstNumber)
    BY <1>1, SnOfType, HalfOfSpace DEF SeqNo
<1>6. x \in Int /\ WinSize <= x /\ x < SEQNO_SPACE_SIZE
    BY <1>1, <1>3, <1>4, <1>5, HalfOfSpace
<1>7. SnOf(x) = SnOf(n)
    <2>1. SnOf(SnOf(FirstNumber) + k) = SnOf(FirstNumber + k)
        BY <1>1, <1>4, SnOfSum
    <2>2. FirstNumber + k = n
        BY <1>1
    <2> QED  BY <2>1, <2>2
<1> HIDE DEF x
<1>8. SnOf(x) = x
    BY <1>6, HalfOfSpace DEF SnOf
<1> QED  BY <1>6, <1>7, <1>8, HalfOfSpace

\* The recipient takes an MPDU that has been sent.
LEMMA ReceivesSent ==
    ASSUME NEW q \in OriginatorType, NEW e, NEW rx, NEW A, NEW W, NEW sb, NEW b,
           NumbersInv(q, e), Linked(q, e, rx, A, W, sb, b), Near(q, rx, W, sb), SpaceSuffices,
           NEW m \in Msdu, q.seq[m] # 0, sb <= q.seq[m], q.seq[m] < q.nextSeq,
           NEW f, f = [id |-> m, sn |-> SnOf(q.seq[m])]
    PROVE  \E p, V : /\ p = NotifyReceivedMpdu(rx, f, q.retry)
                     /\ Extended(Msdu, rx, p, {m}, q.seq, q.retry, W, sb, V,
                                 ScoreboardStart(sb, q.seq[m]))
<1> DEFINE n == q.seq[m]
<1>1. n \in Int /\ f \in Frames(Msdu) /\ f.id = m /\ f.sn = SnOf(n)
    <2>1. q.seq[m] \in Int
        BY TypeFields
    <2>2. SnOf(q.seq[m]) \in SeqNo
        BY <2>1, SnOfType
    <2> QED  BY <2>1, <2>2 DEF Frames
<1>2. sb <= n /\ n < sb + SEQNO_SPACE_HALF_SIZE
    BY <1>1, HalfOfSpace DEF Near
<1>3. ASSUME NEW k \in Has(rx) PROVE n < q.seq[k] + SEQNO_SPACE_SIZE
    <2>1. /\ q.seq[k] \in Int /\ InitSeq <= q.seq[k] /\ q.nextSeq \in Nat /\ InitSeq \in Nat
          /\ q.nextSeq <= InitSeq + SEQNO_SPACE_SIZE
        BY DEF Near
    <2> QED  BY <1>1, <2>1, HalfOfSpace
<1>4. ASSUME NEW k \in Has(rx), q.seq[k] = n PROVE k = m
    <2>1. k \in Numbered(q) /\ m \in Numbered(q) /\ k \in Int /\ m \in Int
        BY DEF Near, Numbered, Msdu
    <2>2. ~ (m < k) /\ ~ (k < m)
        BY <1>1, <1>4, <2>1 DEF NumbersInv
    <2> QED  BY <2>1, <2>2
<1>5. W + WinSize <= n => SnOf(n) - WinSize + 1 >= 0
    BY <1>1, NumbersInRange, NumbersAreFew
<1>6. Reordering(Msdu, rx, q.seq, q.retry, W, sb)
    BY DEF Linked
<1> HIDE DEF n
<1>7. q.seq[f.id] = n /\ \A k \in Has(rx) : q.seq[k] = n => k = f.id
    BY <1>1, <1>4 DEF n
<1>8. \E p, V : /\ p = NotifyReceivedMpdu(rx, f, q.retry)
                /\ Extended(Msdu, rx, p, {f.id}, q.seq, q.retry, W, sb, V, ScoreboardStart(sb, n))
    BY <1>1, <1>2, <1>3, <1>5, <1>6, <1>7, ReorderingReceives
<1> QED  BY <1>1, <1>8 DEF n

\* The recipient has moved on.
LEMMA LinkExtends ==
    ASSUME NEW q, NEW e, NEW rx, NEW A, NEW W, NEW sb, NEW b, Linked(q, e, rx, A, W, sb, b),
           Unsent(q, e) = {}, NEW p, NEW M, NEW V, NEW tb,
           Extended(Msdu, rx, p, M, q.seq, q.retry, W, sb, V, tb), M \subseteq Numbered(q),
           NEW e2, Unsent(q, e2) = {}, tb <= b, Carries(q, e2, p, tb, b),
           Prompt => Follows(q, e2, V, b)
    PROVE  Linked(q, e2, p, A, V, tb, b)
<1>1. /\ Reordering(Msdu, p, q.seq, q.retry, V, tb) /\ sb <= tb /\ W <= V
      /\ Has(p) = Has(rx) \union M
    BY DEF Extended
<1>2. Limit(q, e2) = Limit(q, e)
    BY DEF Limit
<1>3. FirstNumber <= tb
    <2>1. sb \in Int /\ tb \in Int /\ FirstNumber \in Int /\ FirstNumber <= sb
        BY <1>1, ReorderingFacts, BlockAckAssumption DEF Linked, FirstNumber
    <2> QED  BY <1>1, <2>1
<1>4. NumbersOf(rx, q.seq) \subseteq NumbersOf(p, q.seq)
    BY <1>1 DEF NumbersOf
<1> QED  BY <1>1, <1>2, <1>3, <1>4 DEF Linked

\* An MPDU is received.
LEMMA ReceiveMpduLinked ==
    ASSUME OriginatorInv, OriginatorInv', NumbersInv(o, exch), SpaceSuffices, NEW W, NEW sb, NEW b,
           Linked(o, exch, r, acked, W, sb, b), ReceiveMpdu
    PROVE  \E m, V, tb :
              /\ Numbered(o) = Numbered(o') /\ m \in Numbered(o) /\ UNCHANGED <<nMsdu, o, acked>>
              /\ Extended(Msdu, r, r', {m}, o.seq, o.retry, W, sb, V, tb)
              /\ Linked(o', exch', r', acked', V, tb, b)
<1> DEFINE m == Min(exch.todo)
<1>1. /\ OnAir(exch) /\ exch.kind # "bar" /\ r' = NotifyReceivedMpdu(r, Frame(m), o.retry)
      /\ exch' = Received(exch, m, TRUE) /\ UNCHANGED <<nMsdu, o, acked>>
    BY DEF ReceiveMpdu
<1>2. /\ exch \in ExchangeType /\ exch # NoExchange /\ exch.phase = "air" /\ exch.psdu \subseteq Msdu
      /\ \A k \in exch.psdu : o.seq[k] # 0 /\ o.nextSeq - WinSize <= o.seq[k]
                              /\ o.seq[k] < o.nextSeq
      /\ exch.kind \in {"mpdu", "mpduBar"} => \E k \in Msdu : exch.psdu = {k}
      /\ o.bar # "sent"
    BY <1>1, PsduFacts DEF OnAir, OriginatorInv, Busy
<1>3. /\ \A k \in exch.psdu : sb <= o.seq[k]
      /\ exch.todo \subseteq exch.psdu /\ exch.todo # {}
    BY <1>1, <1>2 DEF Linked, Carries
<1>4. m \in exch.todo
    <2>1. exch.todo \in SUBSET Nat
        <3>1. \A k \in Msdu : k \in Nat
            BY BlockAckAssumption DEF Msdu
        <3> QED  BY <1>2, <1>3, <3>1
    <2> QED  BY <1>3, <2>1, MinIsLeast
<1> HIDE DEF m
<1>5. /\ m \in Msdu /\ o.seq[m] # 0 /\ sb <= o.seq[m] /\ o.seq[m] < o.nextSeq
      /\ Frame(m) = [id |-> m, sn |-> SnOf(o.seq[m])]
    BY <1>2, <1>3, <1>4 DEF Frame, Sn
<1>6. o \in OriginatorType
    BY Books DEF Sound
<1>7. Near(o, r, W, sb)
    BY <1>6, LinkedNear
<1> DEFINE tb == ScoreboardStart(sb, o.seq[m])
<1>8. PICK p, V : /\ p = NotifyReceivedMpdu(r, Frame(m), o.retry)
                  /\ Extended(Msdu, r, p, {m}, o.seq, o.retry, W, sb, V, tb)
    <2>1. PICK f : f = Frame(m)
        OBVIOUS
    <2> QED  BY <1>5, <1>6, <1>7, <2>1, ReceivesSent
<1>9. tb <= b /\ \A k \in exch.psdu : tb <= o.seq[k]
    <2>1. /\ o.nextSeq \in Nat /\ b \in Nat /\ o.nextSeq <= b + WinSize /\ sb \in Int /\ sb <= b
          /\ o.seq[m] \in Int
        BY <1>5, <1>6, <1>7, TypeFields DEF Near, Linked, At, WindowAt, NumbersAt
    <2>2. tb = sb \/ tb = o.seq[m] - WinSize + 1
        BY DEF ScoreboardStart
    <2>3. tb <= b
        BY <1>5, <2>1, <2>2, HalfOfSpace
    <2>4. ASSUME NEW k \in exch.psdu PROVE tb <= o.seq[k]
        <3>1. o.seq[k] \in Int /\ sb <= o.seq[k] /\ o.nextSeq - WinSize <= o.seq[k]
            BY <1>2, <1>3, <1>6, TypeFields
        <3> QED  BY <1>5, <2>1, <2>2, <3>1, HalfOfSpace
    <2> QED  BY <2>3, <2>4
<1> HIDE DEF tb
<1>10. PICK e2 : e2 = exch'
    OBVIOUS
<1>11. OffAir(exch, e2, m, TRUE)
    <2>1. e2 = Received(exch, m, TRUE) /\ TRUE \in BOOLEAN
        BY <1>1, <1>10
    <2> QED  BY <1>2, <2>1, ReceivedFields
<1>12. Unsent(o, exch) = {} /\ Unsent(o, e2) = {}
    BY <1>2, <1>11 DEF Unsent, OffAir
<1>13. Carries(o, e2, p, tb, b)
    <2>1. Has(p) = Has(r) \union {m}
        BY <1>8 DEF Extended
    <2>2. exch.kind = "mpdu" => exch.psdu \subseteq Has(p)
        BY <1>2, <1>3, <1>4, <2>1
    <2>3. Carries(o, exch, r, sb, b) /\ e2 = Received(exch, m, TRUE) /\ TRUE \in BOOLEAN
        BY <1>1, <1>10 DEF Linked
    <2> QED  BY <1>1, <1>2, <1>9, <2>1, <2>2, <2>3, CarriesOn
<1>14. ASSUME Prompt PROVE Follows(o, e2, V, b)
    <2>1. o.nextSeq <= W + WinSize /\ (b <= W \/ BarDue(o, exch))
        BY <1>14 DEF Linked, Follows
    <2>2. W \in Int /\ V \in Int /\ W <= V /\ b \in Nat /\ o.nextSeq \in Nat
        BY <1>7, <1>8, ReorderingFacts DEF Near, Extended, Linked, At, WindowAt
    <2>3. o.nextSeq <= V + WinSize /\ (b <= W => b <= V)
        BY <2>1, <2>2, HalfOfSpace
    <2> QED  BY <1>2, <2>1, <2>3 DEF Follows, BarDue
<1>15. Linked(o, e2, p, acked, V, tb, b)
    <2>1. {m} \subseteq Numbered(o)
        BY <1>5 DEF Numbered
    <2> QED  BY <1>8, <1>9, <1>12, <1>13, <1>14, <2>1, LinkExtends
<1>16. m \in Numbered(o) /\ Numbered(o') = Numbered(o)
    BY <1>1, <1>5 DEF Numbered
<1> QED  BY <1>1, <1>5, <1>8, <1>10, <1>15, <1>16

\* A BlockAckReq is received.
LEMMA BarReceived ==
    ASSUME OriginatorInv, OriginatorInv', NumbersInv(o, exch), SpaceSuffices, NEW W, NEW sb, NEW b,
           Linked(o, exch, r, acked, W, sb, b), ReceiveBar,
           NEW s \in Int, exch.ssn = SnOf(s), s <= b, o.nextSeq - WinSize <= s,
           Prompt /\ o.bar = "sent" => s = b
    PROVE  \E V, tb :
              /\ UNCHANGED <<nMsdu, o, acked>>
              /\ Extended(Msdu, r, r', {}, o.seq, o.retry, W, sb, V, tb)
              /\ Linked(o', exch', r', acked', V, tb, b)
<1>1. /\ OnAir(exch) /\ exch.kind = "bar" /\ r' = NotifyReceivedBar(r, SnOf(s), o.retry)
      /\ exch' = [exch EXCEPT !.got = TRUE, !.phase = "answer"] /\ UNCHANGED <<nMsdu, o, acked>>
    BY DEF ReceiveBar
<1>2. /\ exch \in ExchangeType /\ exch # NoExchange /\ exch.phase = "air" /\ exch.psdu = {}
    BY <1>1, PsduFacts DEF OnAir
<1>3. o \in OriginatorType
    BY Books DEF Sound
<1>4. Near(o, r, W, sb)
    BY <1>3, LinkedNear
<1>5. /\ W - SEQNO_SPACE_HALF_SIZE <= s /\ sb - SEQNO_SPACE_HALF_SIZE <= s
      /\ s < sb + SEQNO_SPACE_HALF_SIZE
    <2>1. /\ W \in Int /\ sb \in Int /\ sb <= W /\ W <= o.nextSeq /\ o.nextSeq \in Nat
          /\ o.nextSeq < sb + SEQNO_SPACE_HALF_SIZE
        BY <1>4 DEF Near
    <2>2. b \in Nat /\ Limit(o, exch) \in Nat /\ b <= Limit(o, exch) /\ Limit(o, exch) <= o.nextSeq
        BY DEF Linked, At, WindowAt, NumbersAt
    <2> QED  BY <2>1, <2>2, HalfOfSpace
<1> DEFINE tb == BarStart(sb, s)
<1>6. PICK p, V : /\ p = NotifyReceivedBar(r, SnOf(s), o.retry) /\ s <= V
                  /\ Extended(Msdu, r, p, {}, o.seq, o.retry, W, sb, V, tb)
    <2>1. Reordering(Msdu, r, o.seq, o.retry, W, sb)
        BY DEF Linked
    <2> QED  BY <1>5, <2>1, ReorderingBar
<1>7. tb <= b
    BY DEF BarStart, Linked
<1> HIDE DEF tb
<1>8. PICK e2 : e2 = exch'
    OBVIOUS
<1>9. /\ e2.kind = "bar" /\ e2.psdu = {} /\ e2.phase = "answer" /\ e2.got = TRUE
      /\ e2.ssn = exch.ssn /\ e2.todo = exch.todo
    BY <1>1, <1>2, <1>8 DEF ExchangeType
<1>10. e2 # NoExchange /\ Unsent(o, exch) = {} /\ Unsent(o, e2) = {}
    BY <1>2, <1>9 DEF NoExchange, Unsent
<1>11. Carries(o, e2, p, tb, b)
    <2>1. exch.todo \subseteq exch.psdu
        BY <1>2 DEF Linked, Carries
    <2> QED  BY <1>2, <1>9, <2>1 DEF Carries
<1>12. ASSUME Prompt PROVE Follows(o, e2, V, b)
    <2>1. /\ o.nextSeq <= W + WinSize /\ (b <= W \/ BarDue(o, exch))
          /\ (o.bar = "sent" => exch.ssn = o.win.start)
        BY <1>12 DEF Linked, Follows
    <2>2. W \in Int /\ V \in Int /\ W <= V /\ b \in Nat /\ o.nextSeq \in Nat
        BY <1>4, <1>6, ReorderingFacts DEF Near, Extended, Linked, At, WindowAt
    <2>3. o.nextSeq <= V + WinSize /\ (b <= W => b <= V)
        BY <2>1, <2>2, HalfOfSpace
    <2>4. b <= V \/ Pending(o)
        BY <1>6, <1>12, <2>1, <2>3 DEF BarDue
    <2> QED  BY <1>9, <2>1, <2>3, <2>4 DEF Follows, BarDue
<1>13. Linked(o, e2, p, acked, V, tb, b)
    BY <1>6, <1>7, <1>10, <1>11, <1>12, LinkExtends
<1> QED  BY <1>1, <1>6, <1>8, <1>13

LEMMA ReceiveBarLinked ==
    ASSUME OriginatorInv, OriginatorInv', NumbersInv(o, exch), SpaceSuffices, NEW W, NEW sb, NEW b,
           Linked(o, exch, r, acked, W, sb, b), ReceiveBar
    PROVE  \E V, tb :
              /\ UNCHANGED <<nMsdu, o, acked>>
              /\ Extended(Msdu, r, r', {}, o.seq, o.retry, W, sb, V, tb)
              /\ Linked(o', exch', r', acked', V, tb, b)
<1>1. /\ exch # NoExchange /\ exch.kind = "bar" /\ exch.phase = "air"
    BY DEF ReceiveBar, OnAir
<1>2. CASE Prompt /\ o.bar = "sent"
    <2>1. exch.ssn = o.win.start
        BY <1>2 DEF Linked, Follows
    <2>2. b \in Nat /\ o.win.start = SnOf(b) /\ o.nextSeq <= b + WinSize
        BY DEF Linked, At, WindowAt, NumbersAt
    <2>3. o.nextSeq \in Int
        BY Books, TypeFields DEF Sound
    <2>4. b \in Int /\ b <= b /\ o.nextSeq - WinSize <= b
        BY <2>2, <2>3, HalfOfSpace
    <2> QED  BY <2>1, <2>2, <2>4, BarReceived
<1>3. CASE ~ (Prompt /\ o.bar = "sent")
    <2>1. PICK s \in Int : exch.ssn = SnOf(s) /\ s <= b /\ o.nextSeq - WinSize <= s
        BY <1>1 DEF Linked, Carries
    <2> QED  BY <1>3, <2>1, BarReceived
<1> QED  BY <1>2, <1>3

\* The invariant of the whole data path.
DataInv == OriginatorInv /\ NumbersInv(o, exch) /\ LinkInv

LEMMA NextLinked ==
    ASSUME SpaceSuffices, DataInv, OriginatorInv', [Next]_vars PROVE LinkInv'
<1>1. OriginatorInv /\ NumbersInv(o, exch)
    BY DEF DataInv
<1>2. PICK W \in Int, sb \in Int, b \in Int : Linked(o, exch, r, acked, W, sb, b)
    BY DEF DataInv, LinkInv
<1>3. ASSUME NEW V, NEW tb, NEW c, Linked(o', exch', r', acked', V, tb, c) PROVE LinkInv'
    <2>1. PICK rx : rx = r'
        OBVIOUS
    <2>2. V \in Int /\ tb \in Int /\ c \in Int
        BY <1>3, <2>1, ReorderingFacts DEF Linked, At, WindowAt
    <2> QED  BY <1>3, <2>2 DEF LinkInv
<1>4. CASE Enqueue \/ Expire \/ LoseMpdu \/ LoseBar
    BY <1>1, <1>2, <1>3, <1>4, NothingReceivedLinked
<1>5. CASE FireExpired
    BY <1>1, <1>2, <1>3, <1>5, FireExpiredLinked
<1>6. CASE StartFrameExchange
    BY <1>1, <1>2, <1>3, <1>6, StartLinked
<1>7. CASE ReceiveCts
    BY <1>1, <1>2, <1>3, <1>7, ReceiveCtsLinked
<1>8. CASE CtsTimeout
    BY <1>1, <1>2, <1>3, <1>8, CtsTimeoutLinked
<1>9. CASE ReceiveMpdu
    BY <1>1, <1>2, <1>3, <1>9, ReceiveMpduLinked
<1>10. CASE ReceiveBar
    BY <1>1, <1>2, <1>3, <1>10, ReceiveBarLinked
<1>11. CASE ReceiveBlockAck \/ BlockAckTimeout \/ ReceiveNormalAck \/ NormalAckTimeout
            \/ UnacknowledgedSent
    BY <1>1, <1>2, <1>3, <1>11, EndLinked
<1>12. CASE UNCHANGED vars
    BY <1>2, <1>12 DEF vars, LinkInv
<1> QED  BY <1>4, <1>5, <1>6, <1>7, <1>8, <1>9, <1>10, <1>11, <1>12 DEF Next

LEMMA InitLinked ==
    ASSUME Init PROVE LinkInv
<1> DEFINE F == FirstNumber
<1>1. /\ exch = NoExchange /\ acked = {} /\ o.edca = {} /\ o.nextSeq = InitSeq /\ o.bar = "none"
      /\ o.win = WindowInit(SnOf(InitSeq)) /\ o.retry = {}
      /\ r = NewRecipient(SnOf(F), NoSn, <<>>)
    BY DEF Init, FirstNumber
<1>2. /\ F \in Int /\ F <= InitSeq /\ InitSeq \in Int /\ Lag \in Nat /\ F = InitSeq - Lag
    BY BlockAckAssumption DEF FirstNumber
<1> HIDE DEF F
<1>3. RecipientOK(r, Msdu)
    <2>1. SnOf(F) \in SeqNo /\ NoSn \in Int /\ <<>> \in Seq(Msdu)
        BY <1>2, SnOfType DEF NoSn
    <2> QED  BY <1>1, <2>1, NewRecipientTyped
<1>4. /\ r.scoreboard.start = SnOf(F) /\ r.winStartB = SnOf(F) /\ r.buffered = {}
      /\ r.lastSn = NoSn /\ r.up = <<>> /\ r.scoreboard.marked = {}
    BY <1>1 DEF NewRecipient, WindowInit
<1>5. AgreementAt(r, o.seq, o.retry, F, F)
    <2>1. UpOK(r, o.seq)
        BY <1>4 DEF UpOK
    <2> QED  BY <1>2, <1>4, <2>1, NewRecipientAt
<1>6. Has(r) = {}
    BY <1>4 DEF Has, HeldBack
<1>7. Reordering(Msdu, r, o.seq, o.retry, F, F)
    <2>1. Marks(r.scoreboard, F) = {}
        BY <1>4 DEF Marks
    <2>2. F .. (F - 1) = {}
        BY <1>2
    <2> QED  BY <1>3, <1>4, <1>5, <1>6, <2>1, <2>2 DEF Reordering
<1>8. At(o, InitSeq, Limit(o, exch))
    <2>1. OriginatorInv
        BY InitOriginator
    <2>2. Sound(o, Limit(o, exch)) /\ Limit(o, exch) = o.nextSeq
        BY <1>1, <2>1, Books
    <2>3. PICK b : At(o, b, o.nextSeq)
        BY <2>2 DEF Sound
    <2>4. b \in Nat /\ b <= InitSeq /\ InitSeq <= b + WinSize /\ SnOf(b) = SnOf(InitSeq)
        BY <1>1, <2>3 DEF At, WindowAt, NumbersAt, WindowInit
    <2>5. b < InitSeq + SEQNO_SPACE_SIZE /\ InitSeq < b + SEQNO_SPACE_SIZE
        BY <1>2, <2>4, HalfOfSpace
    <2>6. b = InitSeq
        BY <1>2, <2>4, <2>5, SnOfInjective
    <2> QED  BY <2>2, <2>3, <2>6
<1>9. Marks(o.win, InitSeq) = {}
    BY <1>1 DEF Marks, WindowInit
<1>10. Carries(o, exch, r, F, InitSeq)
    BY <1>1 DEF Carries
<1>11. Prompt => Follows(o, exch, F, InitSeq)
    <2> SUFFICES ASSUME Prompt PROVE Follows(o, exch, F, InitSeq)
        OBVIOUS
    <2>1. InitSeq <= F /\ InitSeq <= F + WinSize
        BY <1>2, HalfOfSpace DEF Prompt
    <2> QED  BY <1>1, <2>1 DEF Follows
<1>12. Linked(o, exch, r, acked, F, F, InitSeq)
    BY <1>1, <1>2, <1>6, <1>7, <1>8, <1>9, <1>10, <1>11 DEF Linked, F
<1> QED  BY <1>2, <1>12 DEF LinkInv

LEMMA NextData ==
    ASSUME SpaceSuffices, DataInv, [Next]_vars PROVE DataInv'
<1>1. OriginatorInv /\ NumbersInv(o, exch)
    BY DEF DataInv
<1>2. OriginatorInv'
    BY <1>1, NextOriginator
<1>3. NumbersInv(o, exch)'
    BY <1>1, <1>2, NextNumbers
<1>4. LinkInv'
    BY <1>2, NextLinked
<1> QED  BY <1>2, <1>3, <1>4 DEF DataInv

\* Both ends, and what is between them, are sound in every behavior.
THEOREM DataInvariant ==
    ASSUME SpaceSuffices PROVE Spec => []DataInv
<1>1. Init => DataInv
    BY InitOriginator, InitNumbers, InitLinked DEF DataInv
<1>2. DataInv /\ [Next]_vars => DataInv'
    BY NextData
<1> QED  BY <1>1, <1>2, PTL DEF Spec

\* What the invariant says of the recipient by itself.
LEMMA LinkedRecipient ==
    ASSUME SpaceSuffices, DataInv
    PROVE  \E W, sb, b \in Int :
              /\ Linked(o, exch, r, acked, W, sb, b) /\ Near(o, r, W, sb) /\ BufferAt(r, o.seq, W)
              /\ o \in OriginatorType /\ RecipientOK(r, Msdu) /\ UpOK(r, o.seq)
<1>1. OriginatorInv /\ NumbersInv(o, exch)
    BY DEF DataInv
<1>2. PICK W \in Int, sb \in Int, b \in Int : Linked(o, exch, r, acked, W, sb, b)
    BY DEF DataInv, LinkInv
<1>3. o \in OriginatorType
    BY <1>1, Books DEF Sound
<1>4. Near(o, r, W, sb)
    BY <1>1, <1>2, <1>3, LinkedNear
<1>5. BufferAt(r, o.seq, W) /\ RecipientOK(r, Msdu) /\ UpOK(r, o.seq)
    BY <1>2 DEF Linked, Reordering, AgreementAt, Above
<1> QED  BY <1>2, <1>3, <1>4, <1>5

\* All variables keep their types; the start of the recipient's window stays a sequence
\* number, though NotifyReceivedMpdu sets it in 16 bits, without the modulo.
THEOREM TypesAreKept ==
    ASSUME SpaceSuffices PROVE Spec => []TypeOK
<1>1. DataInv => TypeOK
    <2> SUFFICES ASSUME DataInv PROVE TypeOK
        OBVIOUS
    <2>1. PICK W \in Int, sb \in Int, b \in Int :
              /\ Linked(o, exch, r, acked, W, sb, b) /\ Near(o, r, W, sb) /\ BufferAt(r, o.seq, W)
              /\ o \in OriginatorType /\ RecipientOK(r, Msdu) /\ UpOK(r, o.seq)
        BY LinkedRecipient
    <2>2. OriginatorInv
        BY DEF DataInv
    <2>3. nMsdu \in 0 .. MaxMsdu /\ expired \in 0 .. MaxMsdu
        BY <2>2, BlockAckAssumption DEF OriginatorInv
    <2>4. exch \in ExchangeType /\ access \in {"none", "requested", "granted"}
        BY <2>2 DEF OriginatorInv, ExchangeType
    <2>5. acked \subseteq Msdu
        BY <2>1 DEF Linked, Numbered
    <2>6. RecipientType
        <3>1. /\ r.scoreboard \in Window /\ r.buffered \subseteq [id : Msdu, sn : SeqNo]
              /\ r.up \in Seq(Msdu)
            BY <2>1, RecipientFields DEF Frames
        <3>2. r.winStartB \in SeqNo
            BY <2>1, SnOfType DEF BufferAt
        <3>3. r.lastSn \in SeqNo \union {NoSn}
            <4>1. CASE r.up = <<>>
                BY <2>1, <4>1 DEF UpOK
            <4>2. CASE r.up # <<>>
                <5>1. Len(r.up) \in Nat /\ DOMAIN r.up = 1 .. Len(r.up) /\ Len(r.up) # 0
                    BY <3>1, <4>2
                <5>2. Len(r.up) \in DOMAIN r.up
                    BY <5>1
                <5>3. o.seq[r.up[Len(r.up)]] \in Int
                    BY <2>1, <5>2 DEF UpOK
                <5> QED  BY <2>1, <4>2, <5>3, SnOfType DEF UpOK
            <4> QED  BY <4>1, <4>2
        <3> QED  BY <3>1, <3>2, <3>3 DEF RecipientType
    <2> QED  BY <2>1, <2>3, <2>4, <2>5, <2>6 DEF TypeOK
<1> QED  BY <1>1, DataInvariant, PTL

\* Without RTS, and if the windows start together, no MPDU comes beyond the window of the
\* recipient, whatever is lost: the originator sends no data while a BlockAckReq is due.
THEOREM WindowsAgree ==
    ASSUME SpaceSuffices, Prompt PROVE Spec => []ReceivedWithinWindow
<1>1. DataInv => ReceivedWithinWindow
    <2> SUFFICES ASSUME DataInv PROVE ReceivedWithinWindow
        OBVIOUS
    <2>1. PICK W \in Int, sb \in Int, b \in Int :
              /\ Linked(o, exch, r, acked, W, sb, b) /\ Near(o, r, W, sb) /\ BufferAt(r, o.seq, W)
              /\ o \in OriginatorType /\ RecipientOK(r, Msdu) /\ UpOK(r, o.seq)
        BY LinkedRecipient
    <2>2. OriginatorInv
        BY DEF DataInv
    <2>3. ASSUME NEW f \in r.buffered PROVE GetDistance(f.sn, r.winStartB) < SEQNO_SPACE_HALF_SIZE
        <3>1. GetDistance(f.sn, r.winStartB) = o.seq[f.id] - W
            BY <2>1, BufferDistance
        <3>2. f.id \in Has(r)
            BY DEF Has, HeldBack
        <3>3. o.seq[f.id] \in Int /\ o.seq[f.id] < o.nextSeq
            BY <2>1, <3>2 DEF Near
        <3>4. /\ o.nextSeq \in Nat /\ sb <= W /\ o.nextSeq < sb + SEQNO_SPACE_HALF_SIZE
            BY <2>1 DEF Near
        <3> QED  BY <3>1, <3>3, <3>4, HalfOfSpace
    <2>4. ASSUME OnAir(exch), NEW m \in exch.todo
          PROVE  LET distance == GetDistance(Sn(m), r.winStartB)
                 IN  distance < WinSize \/ distance >= SEQNO_SPACE_HALF_SIZE
        <3>1. /\ exch # NoExchange /\ exch.phase = "air" /\ exch \in ExchangeType
              /\ exch.psdu \subseteq Msdu
            BY <2>2, <2>4, PsduFacts DEF OnAir
        <3>2. m \in exch.psdu
            BY <2>1, <2>4, <3>1 DEF Linked, Carries
        <3>3. /\ o.seq[m] \in Int /\ o.nextSeq - WinSize <= o.seq[m] /\ o.seq[m] < o.nextSeq
            BY <2>1, <2>2, <3>1, <3>2, TypeFields DEF OriginatorInv, Busy
        <3>4. o.nextSeq \in Nat /\ W <= o.nextSeq /\ o.nextSeq <= W + WinSize
            BY <2>1 DEF Near, Linked, Follows
        <3>5. r.winStartB = SnOf(W) /\ Sn(m) = SnOf(o.seq[m])
            BY <2>1 DEF BufferAt, Sn
        <3>6. W - SEQNO_SPACE_HALF_SIZE <= o.seq[m] /\ o.seq[m] < W + SEQNO_SPACE_SIZE
            BY <3>3, <3>4, HalfOfSpace
        <3>7. GetDistance(Sn(m), r.winStartB)
                = IF W <= o.seq[m] THEN o.seq[m] - W ELSE SEQNO_SPACE_SIZE + o.seq[m] - W
            BY <3>3, <3>5, <3>6, DistanceValue
        <3> QED  BY <3>3, <3>4, <3>7, HalfOfSpace
    <2> QED  BY <2>3, <2>4 DEF ReceivedWithinWindow, NoOldBufferedMpdu
<1> QED  BY <1>1, DataInvariant, PTL

-----------------------------------------------------------------------------
(* Ordered delivery.                                                       *)

\* What an implementation of the promise shows of the recipient: rx hands over in order
\* what it has (or H, if it has just received one more), and keeps the rest.
LEMMA HandsOverDelivers ==
    ASSUME NEW H, NEW D, NEW p, p = r', HandsOver(r, p, H, D), nMsdu' = nMsdu, acked' = acked
    PROVE  Delivery!HandOver(H, D)
<1>1. /\ HeldBack(p) = H \ D /\ \A d \in D, h \in H \ D : d < h
      /\ IsPrefix(r.up, p.up) /\ ToSet(p.up) = ToSet(r.up) \union D
      /\ \A i, j \in DOMAIN p.up : i < j => p.up[i] < p.up[j]
    BY DEF HandsOver
<1>2. Buffered' = H \ D
    BY <1>1 DEF Buffered, HeldBack
<1>3. Delivery!IsPrefix(r.up, r'.up)
    BY <1>1 DEF IsPrefix, Delivery!IsPrefix
<1>4. Delivery!ToSet(r'.up) = Delivery!ToSet(r.up) \union D
    BY <1>1 DEF ToSet, Delivery!ToSet
<1>5. Delivery!InOrderOnce(r'.up)
    BY <1>1 DEF Delivery!InOrderOnce
<1> QED  BY <1>1, <1>2, <1>3, <1>4, <1>5 DEF Delivery!HandOver

\* What the recipient has is held back or has been handed over.
LEMMA HasIs ==
    /\ Has(r) = Buffered \union Delivery!ToSet(r.up) /\ Buffered = HeldBack(r)
    /\ Has(r) = ToSet(r.up) \union HeldBack(r) /\ Delivery!ToSet(r.up) = ToSet(r.up)
BY DEF Has, Buffered, HeldBack, ToSet, Delivery!ToSet

\* A reception hands over what it completes.
LEMMA ExtendedDelivers ==
    ASSUME NumbersInv(o, exch), NEW W, NEW sb, NEW b, Linked(o, exch, r, acked, W, sb, b),
           NEW M, NEW V, NEW tb, Extended(Msdu, r, r', M, o.seq, o.retry, W, sb, V, tb),
           M \subseteq Numbered(o), UNCHANGED <<nMsdu, acked>>
    PROVE  Delivery!HandOver(HeldBack(r) \union (M \ Has(r)), (HeldBack(r) \union (M \ Has(r))) \ HeldBack(r'))
<1> DEFINE H == HeldBack(r) \union (M \ Has(r))
<1>1. PICK p : p = r'
    OBVIOUS
<1>2. Extended(Msdu, r, p, M, o.seq, o.retry, W, sb, V, tb)
    BY <1>1
<1>3. Has(p) = ToSet(r.up) \union H
    BY <1>2, HasIs DEF Extended
<1>4. Has(p) \subseteq Numbered(o)
    BY <1>2 DEF Extended, Linked
<1>5. InNumberOrder(Has(p), o.seq)
    BY <1>4 DEF InNumberOrder, NumbersInv
<1>6. Reordering(Msdu, r, o.seq, o.retry, W, sb) /\ Msdu \subseteq Int
    BY DEF Linked, Msdu
<1> HIDE DEF H
<1>7. HandsOver(r, p, H, H \ HeldBack(p))
    BY <1>2, <1>3, <1>5, <1>6, HandedOver
<1>8. Delivery!HandOver(H, H \ HeldBack(p))
    BY <1>1, <1>7, HandsOverDelivers
<1> QED  BY <1>1, <1>8 DEF H

\* An MPDU with a number has been queued.
LEMMA NumberedIsOffered ==
    ASSUME OriginatorInv, NEW m \in Numbered(o) PROVE m \in 1 .. nMsdu
<1>1. m \in Msdu /\ o.seq[m] # 0 /\ nMsdu \in Int
    BY Books DEF Numbered
<1>2. ~ (m > nMsdu)
    BY <1>1, Books DEF Counted
<1> QED  BY <1>1, <1>2 DEF Msdu

LEMMA ReceiveMpduDelivers ==
    ASSUME SpaceSuffices, DataInv, OriginatorInv', ReceiveMpdu PROVE Delivery!Next
<1>1. OriginatorInv /\ NumbersInv(o, exch)
    BY DEF DataInv
<1>2. PICK W \in Int, sb \in Int, b \in Int : Linked(o, exch, r, acked, W, sb, b)
    BY DEF DataInv, LinkInv
<1>3. PICK m, V, tb : /\ m \in Numbered(o) /\ UNCHANGED <<nMsdu, o, acked>>
                      /\ Extended(Msdu, r, r', {m}, o.seq, o.retry, W, sb, V, tb)
    BY <1>1, <1>2, ReceiveMpduLinked
<1> DEFINE H == HeldBack(r) \union ({m} \ Has(r))
           D == H \ HeldBack(r')
<1>4. Delivery!HandOver(H, D) /\ D \in SUBSET H
    <2>1. {m} \subseteq Numbered(o) /\ UNCHANGED <<nMsdu, acked>>
        BY <1>3
    <2> QED  BY <1>1, <1>2, <1>3, <2>1, ExtendedDelivers
<1> HIDE DEF D
<1>5. CASE m \in Has(r)
    <2>1. H = Buffered
        BY <1>5, HasIs
    <2> QED  BY <1>4, <2>1 DEF Delivery!Next, Delivery!GiveUpWaiting
<1>6. CASE m \notin Has(r)
    <2>1. H = Buffered \union {m}
        BY <1>6, HasIs
    <2>2. m \in (1 .. nMsdu) \ (Buffered \union Delivery!ToSet(r.up))
        BY <1>1, <1>3, <1>6, NumberedIsOffered, HasIs
    <2> QED  BY <1>4, <2>1, <2>2 DEF Delivery!Next, Delivery!Receive
<1> QED  BY <1>5, <1>6

LEMMA ReceiveBarDelivers ==
    ASSUME SpaceSuffices, DataInv, OriginatorInv', ReceiveBar PROVE Delivery!Next
<1>1. OriginatorInv /\ NumbersInv(o, exch)
    BY DEF DataInv
<1>2. PICK W \in Int, sb \in Int, b \in Int : Linked(o, exch, r, acked, W, sb, b)
    BY DEF DataInv, LinkInv
<1>3. PICK V, tb : /\ UNCHANGED <<nMsdu, o, acked>>
                   /\ Extended(Msdu, r, r', {}, o.seq, o.retry, W, sb, V, tb)
    BY <1>1, <1>2, ReceiveBarLinked
<1> DEFINE H == HeldBack(r) \union ({} \ Has(r))
           D == H \ HeldBack(r')
<1>4. Delivery!HandOver(H, D) /\ D \in SUBSET H
    <2>1. {} \subseteq Numbered(o) /\ UNCHANGED <<nMsdu, acked>>
        BY <1>3
    <2> QED  BY <1>1, <1>2, <1>3, <2>1, ExtendedDelivers
<1>5. H = Buffered
    BY HasIs
<1> HIDE DEF D
<1> QED  BY <1>4, <1>5 DEF Delivery!Next, Delivery!GiveUpWaiting

\* What is acknowledged is confirmed; the rest of the originator is not to be seen.
LEMMA EndDelivers ==
    ASSUME DataInv, LinkInv', r' = r, nMsdu' = nMsdu, acked \subseteq acked'
    PROVE  Delivery!Next
<1>1. PICK rx : rx = r'
    OBVIOUS
<1>2. acked' \subseteq Has(r)
    BY <1>1 DEF LinkInv, Linked
<1>3. acked' = acked \union acked' /\ acked' \in SUBSET (Buffered \union Delivery!ToSet(r.up))
    BY <1>2, HasIs
<1>4. Buffered' = Buffered /\ r'.up = r.up
    BY DEF Buffered
<1> QED  BY <1>3, <1>4 DEF Delivery!Next, Delivery!Confirm

LEMMA NextDelivers ==
    ASSUME SpaceSuffices, DataInv, [Next]_vars
    PROVE  Delivery!Next \/ UNCHANGED <<nMsdu, Buffered, r.up, acked>>
<1>1. OriginatorInv /\ OriginatorInv' /\ LinkInv'
    BY NextData DEF DataInv
<1>2. ASSUME r' = r, nMsdu' = nMsdu, acked' = acked
      PROVE  UNCHANGED <<nMsdu, Buffered, r.up, acked>>
    BY <1>2 DEF Buffered
<1>3. CASE Enqueue
    <2>1. nMsdu < MaxMsdu /\ nMsdu' = nMsdu + 1 /\ UNCHANGED <<Buffered, r.up, acked>>
        BY <1>3 DEF Enqueue, Buffered
    <2> QED  BY <2>1 DEF Delivery!Next, Delivery!Offer
<1>4. CASE ReceiveMpdu
    BY <1>1, <1>4, ReceiveMpduDelivers
<1>5. CASE ReceiveBar
    BY <1>1, <1>5, ReceiveBarDelivers
<1>6. CASE ReceiveBlockAck \/ ReceiveNormalAck
    <2>1. r' = r /\ nMsdu' = nMsdu /\ acked \subseteq acked'
        BY <1>6 DEF ReceiveBlockAck, ReceiveNormalAck
    <2> QED  BY <1>1, <2>1, EndDelivers
<1>7. CASE \/ Expire \/ FireExpired \/ StartFrameExchange \/ ReceiveCts \/ CtsTimeout \/ LoseMpdu
           \/ LoseBar \/ BlockAckTimeout \/ NormalAckTimeout \/ UnacknowledgedSent
    <2>1. r' = r /\ nMsdu' = nMsdu /\ acked' = acked
        BY <1>7 DEF Expire, FireExpired, StartFrameExchange, ReceiveCts, CtsTimeout, LoseMpdu,
                    LoseBar, BlockAckTimeout, NormalAckTimeout, UnacknowledgedSent
    <2> QED  BY <1>2, <2>1
<1>8. CASE UNCHANGED vars
    BY <1>2, <1>8 DEF vars
<1> QED  BY <1>3, <1>4, <1>5, <1>6, <1>7, <1>8 DEF Next

\* The data path delivers in order: the recipient hands the MSDUs over in the order they
\* were queued in, none twice, and has all those that the originator takes as acknowledged.
THEOREM DeliversInOrder ==
    ASSUME SpaceSuffices PROVE Spec => ImplementsOrderedDelivery
<1>1. Init => Delivery!Init
    BY DEF Init, Delivery!Init, Buffered, NewRecipient
<1>2. DataInv /\ [Next]_vars => [Delivery!Next]_(Delivery!dvars)
    BY NextDelivers DEF Delivery!dvars
<1> QED  BY <1>1, <1>2, DataInvariant, PTL DEF Spec, ImplementsOrderedDelivery, Delivery!Spec
=============================================================================
