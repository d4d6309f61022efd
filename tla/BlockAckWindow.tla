--------------------------- MODULE BlockAckWindow ---------------------------
(***************************************************************************)
(* The values and operations of class BlockAckWindow: the number of the    *)
(* first MPDU of the window, and the distances (from it) of the MPDUs      *)
(* marked in the window.  CircularWindow shows that the vector and head    *)
(* index of the code implement exactly this.                               *)
(***************************************************************************)
EXTENDS SequenceSpace

CONSTANT WinSize

ASSUME WinSizeAssumption ==
    WinSize \in Nat \ {0} /\ WinSize <= SEQNO_SPACE_HALF_SIZE

Window == [start : SeqNo, marked : SUBSET (0 .. (WinSize - 1))]

WindowInit(winStart) == [start |-> winStart, marked |-> {}]

WindowMark(w, distance) == [w EXCEPT !.marked = @ \union {distance}]

\* Mutant: the first sequence number is advanced without the modulo.
WindowAdvance_NoModulo(w, count) ==
    [start |-> w.start + count, marked |-> {d \in 0 .. (WinSize - 1) : d + count \in w.marked}]

WindowAdvance(w, count) ==
    [start  |-> SnOf(w.start + count),
     marked |-> {d \in 0 .. (WinSize - 1) : d + count \in w.marked}]

\* The distance of the first MPDU that is not marked.
FirstUnmarked(w) ==
    CHOOSE d \in 0 .. WinSize : d \notin w.marked /\ 0 .. (d - 1) \subseteq w.marked

\* OriginatorBlockAckAgreement::AdvanceTxWindow: advance while the head is marked.
AdvanceTxWindow(w) == WindowAdvance(w, FirstUnmarked(w))

=============================================================================
