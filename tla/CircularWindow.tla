---------------------------- MODULE CircularWindow ----------------------------
(***************************************************************************)
(* Class BlockAckWindow as the code has it: a vector of bool of fixed      *)
(* size, used as a ring: m_head is the index of the element that stands    *)
(* for m_winStart.                                                         *)
(***************************************************************************)
EXTENDS BlockAckWindow

VARIABLES
    winStart,  \* m_winStart
    vector,    \* m_window
    head       \* m_head

ring == <<winStart, vector, head>>

Index == 0 .. (WinSize - 1)

\* BlockAckWindow::Init (the size never changes); Reset is Init.
Start(s) == winStart = s /\ vector = [i \in Index |-> FALSE] /\ head = 0

RingInit == \E s \in SeqNo : Start(s)

-----------------------------------------------------------------------------
\* The index of the element at a distance from the start.
At(distance) == (head + distance) % WinSize

Reset(s) == winStart' = s /\ vector' = [i \in Index |-> FALSE] /\ head' = 0

Restart == \E s \in SeqNo : Reset(s)

Mark ==
    /\ \E distance \in Index : vector' = [vector EXCEPT ![At(distance)] = TRUE]
    /\ UNCHANGED <<winStart, head>>

\* Mutant: the elements that leave the window are not cleared.
AdvanceBy_NotCleared(count) ==
    IF count >= WinSize THEN Reset(SnOf(winStart + count))
    ELSE /\ head' = At(count)
         /\ winStart' = SnOf(winStart + count)
         /\ UNCHANGED vector

\* The loop clears the first elements, and moves the head past them.
AdvanceBy(count) ==
    IF count >= WinSize THEN Reset(SnOf(winStart + count))
    ELSE /\ vector' = [i \in Index |-> vector[i] /\ \A d \in 0 .. (count - 1) : At(d) # i]
         /\ head' = At(count)
         /\ winStart' = SnOf(winStart + count)

Advance == \E count \in SeqNo : AdvanceBy(count)

RingNext == Restart \/ Mark \/ Advance

RingSpec == RingInit /\ [][RingNext]_ring

-----------------------------------------------------------------------------
(* Correctness.                                                            *)

\* Types of the variables.
TypeOK == winStart \in SeqNo /\ vector \in [Index -> BOOLEAN] /\ head \in Index

\* The distances whose element is set.
Marked == {d \in Index : vector[At(d)]}

\* The ring behaves as the abstract window of which it shows an unbroken view:
\* no mark survives the wrap of the head, and none moves.
Sliding == INSTANCE SlidingWindow WITH w <- [start |-> winStart, marked |-> Marked]

ImplementsSlidingWindow == Sliding!Spec

=============================================================================
