---------------------------- MODULE SlidingWindow ----------------------------
(***************************************************************************)
(* What class BlockAckWindow promises its users: a window of sequence      *)
(* numbers that starts at a given one, advances by any count, and whose    *)
(* elements are marked by their distance from the start.  BlockAck and     *)
(* RecipientAgreement use the operations of this abstract window.          *)
(***************************************************************************)
EXTENDS BlockAckWindow

VARIABLE w   \* the window: its first number and the distances marked

Init == w \in {WindowInit(s) : s \in SeqNo}

Restart == w' \in {WindowInit(s) : s \in SeqNo}

Mark == \E distance \in 0 .. (WinSize - 1) : w' = WindowMark(w, distance)

Advance == \E count \in SeqNo : w' = WindowAdvance(w, count)

Next == Restart \/ Mark \/ Advance

Spec == Init /\ [][Next]_w

=============================================================================
