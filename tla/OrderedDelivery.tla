-------------------------- MODULE OrderedDelivery --------------------------
(***************************************************************************)
(* What a Block Ack agreement promises the two upper layers: the items     *)
(* offered at one end are handed over at the other in the order they were  *)
(* offered, none twice; some may be lost; one the recipient holds back is  *)
(* handed over before any later one; and only what the recipient has, held *)
(* back or handed over, is confirmed to the originator.                    *)
(***************************************************************************)
EXTENDS Integers, Sequences, SequencesExt

CONSTANT MaxItem   \* bound: items offered

VARIABLES
    offered,    \* items offered so far: 1..offered
    held,       \* received, but held back by the recipient
    up,         \* handed over to the upper layer, in order
    confirmed   \* confirmed to the originator

dvars == <<offered, held, up, confirmed>>

Init == offered = 0 /\ held = {} /\ up = <<>> /\ confirmed = {}

Offer ==
    /\ offered < MaxItem /\ offered' = offered + 1
    /\ UNCHANGED <<held, up, confirmed>>

\* Items in the order they were offered, each once.
InOrderOnce(q) == \A i, j \in DOMAIN q : i < j => q[i] < q[j]

\* The recipient, who now has the items of H, hands over those of D, in order.
HandOver(H, D) ==
    /\ \A d \in D, h \in H \ D : d < h
    /\ held' = H \ D
    /\ IsPrefix(up, up') /\ ToSet(up') = ToSet(up) \union D /\ InOrderOnce(up')
    /\ UNCHANGED <<offered, confirmed>>

\* A new item arrives, or the recipient learns that some will not.
Receive ==
    \E m \in (1 .. offered) \ (held \union ToSet(up)) :
        \E D \in SUBSET (held \union {m}) : HandOver(held \union {m}, D)

GiveUpWaiting == \E D \in SUBSET held : HandOver(held, D)

Confirm ==
    /\ \E C \in SUBSET (held \union ToSet(up)) : confirmed' = confirmed \union C
    /\ UNCHANGED <<offered, held, up>>

Next == Offer \/ Receive \/ GiveUpWaiting \/ Confirm

Spec == Init /\ [][Next]_dvars

=============================================================================
