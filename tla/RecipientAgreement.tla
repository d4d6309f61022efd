------------------------- MODULE RecipientAgreement -------------------------
(***************************************************************************)
(* Class RecipientBlockAckAgreement and the duplicate filter of            *)
(* MacRxMiddle behind it, as operators on a record r:                      *)
(*   scoreboard  m_scoreboard, the window the BlockAck bitmap is made from *)
(*   winStartB   m_winStartB, any uint16_t                                 *)
(*   buffered    m_bufferedMpdus: a set of MPDUs with distinct numbers     *)
(*   lastSn      m_lastSequenceControl of MacRxMiddle (NoSn: 0xffff)       *)
(*   up          the MSDUs handed to the upper layer, in order             *)
(* An MPDU is [id, sn]: the identity of the MSDU and its sequence number.  *)
(* retry is the set of MSDUs whose Retry flag is set now: MPDU headers are *)
(* shared objects, so the filter reads the flag the originator last wrote. *)
(***************************************************************************)
EXTENDS BlockAckWindow, Sequences, FiniteSetsExt

NoSn == -1

NewRecipient(startingSeq, lastSn, up) ==
    [scoreboard |-> WindowInit(startingSeq), winStartB |-> startingSeq,
     buffered |-> {}, lastSn |-> lastSn, up |-> up]

\* Mutant: duplicates are passed up.
MacRxMiddleReceive_NoFilter(r, q, retry) ==
    [r EXCEPT !.up = @ \o [i \in DOMAIN q |-> q[i].id],
              !.lastSn = IF q = <<>> THEN @ ELSE q[Len(q)].sn]

\* MacRxMiddle::Receive of the MPDUs of q, whose sequence numbers differ.
MacRxMiddleReceive(r, q, retry) ==
    LET isDuplicate == q # <<>> /\ q[1].id \in retry /\ q[1].sn = r.lastSn
        passed == IF isDuplicate THEN Tail(q) ELSE q
    IN  [r EXCEPT !.up = @ \o [i \in DOMAIN passed |-> passed[i].id],
                  !.lastSn = IF passed = <<>> THEN @ ELSE passed[Len(passed)].sn]

\* RecipientBlockAckAgreement::Compare, the order of m_bufferedMpdus.
Compare(f, g, winStartB) ==
    Remainder(f.sn - winStartB + SEQNO_SPACE_SIZE, SEQNO_SPACE_SIZE)
        < Remainder(g.sn - winStartB + SEQNO_SPACE_SIZE, SEQNO_SPACE_SIZE)

\* The MPDUs of F in that order (an MPDU set has distinct sequence numbers).
InOrder(F, winStartB) ==
    CHOOSE q \in [1 .. Cardinality(F) -> F] :
        \A i, j \in 1 .. Cardinality(F) : i < j => Compare(q[i], q[j], winStartB)

\* The assertion at the head of both Pass functions.
NoOldBufferedMpdu(r) ==
    \A f \in r.buffered : GetDistance(f.sn, r.winStartB) < SEQNO_SPACE_HALF_SIZE

\* Whether the MPDU at distance k from m_winStartB is buffered.
Holds(r, k) ==
    \E f \in r.buffered : f.sn = IF k = 0 THEN r.winStartB ELSE SnOf(r.winStartB + k)

\* Mutant: the loop does not stop at the first lost MPDU.
PassBufferedMpdus_NoStop(r, retry) ==
    MacRxMiddleReceive(
        [r EXCEPT !.buffered = {}, !.winStartB = SnOf(@ + Cardinality(r.buffered))],
        InOrder(r.buffered, r.winStartB), retry)

PassBufferedMpdusUntilFirstLost(r, retry) ==
    LET passed == {f \in r.buffered :
                      \A k \in 0 .. GetDistance(f.sn, r.winStartB) : Holds(r, k)}
    IN  MacRxMiddleReceive(
          [r EXCEPT !.buffered = @ \ passed,
                    !.winStartB = IF passed = {} THEN @ ELSE SnOf(@ + Cardinality(passed))],
          InOrder(passed, r.winStartB), retry)

PassBufferedMpdusWithSeqNumberLessThan(r, newWinStartB, retry) ==
    LET limit == GetDistance(newWinStartB, r.winStartB)
        Below(f) == GetDistance(f.sn, r.winStartB) < limit
        passed == {f \in r.buffered :
                      Below(f) /\ \A g \in r.buffered : Compare(g, f, r.winStartB) => Below(g)}
    IN  MacRxMiddleReceive([r EXCEPT !.buffered = @ \ passed, !.winStartB = newWinStartB],
                           InOrder(passed, r.winStartB), retry)

\* Step 1 of the reordering: keep the MPDU unless its number is already there.
Store(r, f) ==
    IF \E g \in r.buffered : g.sn = f.sn THEN r ELSE [r EXCEPT !.buffered = @ \union {f}]

ScoreboardReceived(w, sn) ==
    LET distance == GetDistance(sn, w.start)
    IN  IF distance < WinSize THEN WindowMark(w, distance)
        ELSE IF distance < SEQNO_SPACE_HALF_SIZE
             THEN WindowMark(WindowAdvance(w, distance - WinSize + 1), WinSize - 1)
        ELSE w

NotifyReceivedMpdu(r, f, retry) ==
    LET r1 == [r EXCEPT !.scoreboard = ScoreboardReceived(@, f.sn)]
        distance == GetDistance(f.sn, r.winStartB)
        newWinStartB == ToUInt16(f.sn - WinSize + 1)
    IN  IF distance < WinSize
        THEN PassBufferedMpdusUntilFirstLost(Store(r1, f), retry)
        ELSE IF distance < SEQNO_SPACE_HALF_SIZE
        THEN PassBufferedMpdusUntilFirstLost(
               PassBufferedMpdusWithSeqNumberLessThan(Store(r1, f), newWinStartB, retry),
               retry)
        ELSE r1

Flush(r, retry) ==
    PassBufferedMpdusUntilFirstLost(
        PassBufferedMpdusWithSeqNumberLessThan(r, r.scoreboard.start, retry), retry)

\* Mutant: the bits of the bitmap are not shifted.
ScoreboardBar_NoShift(w, ssn) ==
    IF IsOldPacket(w.start, ssn) THEN w ELSE [w EXCEPT !.start = ssn]

ScoreboardBar(w, ssn) ==
    LET distance == GetDistance(ssn, w.start)
    IN  IF distance > 0 /\ distance < SEQNO_SPACE_HALF_SIZE
        THEN WindowAdvance(w, distance) ELSE w

NotifyReceivedBar(r, ssn, retry) ==
    LET r1 == [r EXCEPT !.scoreboard = ScoreboardBar(@, ssn)]
        distance == GetDistance(ssn, r.winStartB)
    IN  IF distance > 0 /\ distance < SEQNO_SPACE_HALF_SIZE
        THEN PassBufferedMpdusUntilFirstLost(
               PassBufferedMpdusWithSeqNumberLessThan(r1, ssn, retry), retry)
        ELSE r1

\* The sequence numbers FillBlockAckBitmap marks as received.
FillBlockAckBitmap(r) == {SnOf(r.scoreboard.start + d) : d \in r.scoreboard.marked}

=============================================================================
