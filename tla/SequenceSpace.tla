---------------------------- MODULE SequenceSpace ----------------------------
(***************************************************************************)
(* The circular space of MAC sequence numbers, and the unsigned 16-bit     *)
(* arithmetic the code does on them.  The code has SEQNO_SPACE_SIZE = 4096 *)
(* and UINT16_SIZE = 65536; both are constants here.                       *)
(***************************************************************************)
EXTENDS Integers

CONSTANTS SEQNO_SPACE_SIZE, UINT16_SIZE

ASSUME SequenceSpaceAssumption ==
    /\ SEQNO_SPACE_SIZE \in Nat \ {0} /\ SEQNO_SPACE_SIZE % 2 = 0
    /\ UINT16_SIZE \in Nat /\ UINT16_SIZE >= 2 * SEQNO_SPACE_SIZE

SEQNO_SPACE_HALF_SIZE == SEQNO_SPACE_SIZE \div 2

SeqNo == 0 .. (SEQNO_SPACE_SIZE - 1)

UInt16 == 0 .. (UINT16_SIZE - 1)

\* C++ '%': truncated towards zero, so that a negative dividend leaves a
\* negative (or null) remainder; the uint16_t it is assigned to then wraps.
Remainder(a, n) == IF a >= 0 THEN a % n ELSE -((-a) % n)

ToUInt16(a) == a % UINT16_SIZE

\* BlockAckAgreement::GetDistance of any two uint16_t values.  The result is
\* a std::size_t in the code; a uint16_t keeps the order of the values it takes.
GetDistance(seqNumber, startingSeqNumber) ==
    ToUInt16(Remainder(seqNumber - startingSeqNumber + SEQNO_SPACE_SIZE,
                       SEQNO_SPACE_SIZE))

\* QosUtilsIsOldPacket
IsOldPacket(startingSeq, seqNumber) ==
    GetDistance(seqNumber, startingSeq) >= SEQNO_SPACE_HALF_SIZE

IsInWindow(seq, winstart, winsize) == GetDistance(seq, winstart) < winsize

\* The sequence number of the n-th number handed out.
SnOf(n) == n % SEQNO_SPACE_SIZE

=============================================================================
