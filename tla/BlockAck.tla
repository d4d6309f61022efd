------------------------------ MODULE BlockAck ------------------------------
(***************************************************************************)
(* The data path of an established Block Ack agreement between an          *)
(* originator and a recipient, for one TID on one link with a TXOP limit   *)
(* of zero: the EDCA queue, the in-flight queue and transmit window of     *)
(* BlockAckManager, the frame exchanges of HtFrameExchangeManager, the     *)
(* lossy medium, and the recipient agreement.                              *)
(*                                                                         *)
(* MSDUs are numbered 1, 2, ... in the order the upper layer queues them.  *)
(* Sequence numbers are kept unreduced (seq, nextSeq) so that properties   *)
(* can name them; the code's value is SnOf of them.                        *)
(***************************************************************************)
EXTENDS RecipientAgreement

CONSTANTS
    MaxMsdu,       \* bound: MSDUs the upper layer queues
    InitSeq,       \* first number handed out by MacTxMiddle after ADDBA
    Lag,           \* numbers below InitSeq the recipient still waits for
    MaxAmpdu,      \* MPDUs an A-MPDU may hold (size and duration limits)
    ExplicitBar,   \* values UseExplicitBarAfterMissedBlockAck of QosTxop may have
    UseRts         \* whether exchanges are protected with RTS/CTS

ASSUME BlockAckAssumption ==
    /\ MaxMsdu \in Nat /\ MaxAmpdu \in Nat \ {0}
    /\ InitSeq \in Nat /\ Lag \in Nat /\ InitSeq > Lag
    /\ ExplicitBar \subseteq BOOLEAN /\ UseRts \in BOOLEAN

VARIABLES
    nMsdu,    \* MSDUs queued so far
    expired,  \* the MSDUs 1..expired have outlived WifiMacQueue::MaxDelay
    o,        \* the originator's queue and agreement, see OriginatorType
    exch,     \* the frame exchange under way, see ExchangeType
    access,   \* whether the EDCAF has requested the channel
    r,        \* the recipient, see RecipientAgreement
    acked     \* history: MSDUs dequeued because they were acknowledged

vars == <<nMsdu, expired, o, exch, access, r, acked>>

Msdu == 1 .. MaxMsdu

Sn(m) == SnOf(o.seq[m])
Frame(m) == [id |-> m, sn |-> Sn(m)]

NoExchange == [kind |-> "none"]

\* edca: QoS data frames in the queue; seq: number assigned (0: none);
\* inflight: in-flight flag; baq: PacketQueue of the agreement; win: m_txWindow;
\* bar: BlockAckReq in the queue ("sent": it is the frame of the exchange);
\* barIfData: the agreement is in m_sendBarIfDataQueued; expiring: MPDUs taken
\* out of the queue whose Expired trace is scheduled but has not fired yet;
\* explicitBar: attribute UseExplicitBarAfterMissedBlockAck.
OriginatorType ==
    [edca : SUBSET Msdu, seq : [Msdu -> Int], nextSeq : Int,
     retry : SUBSET Msdu, inflight : SUBSET Msdu, baq : SUBSET Msdu, win : Window,
     bar : {"none", "queued", "sent"}, barIfData : BOOLEAN, expiring : SUBSET Msdu,
     explicitBar : BOOLEAN]

Init ==
    /\ nMsdu = 0 /\ expired = 0 /\ acked = {}
    /\ exch = NoExchange /\ access = "none"
    /\ \E explicitBar \in ExplicitBar :
          o = [edca |-> {}, seq |-> [m \in Msdu |-> 0], nextSeq |-> InitSeq,
               retry |-> {}, inflight |-> {}, baq |-> {}, win |-> WindowInit(SnOf(InitSeq)),
               bar |-> "none", barIfData |-> FALSE, expiring |-> {}, explicitBar |-> explicitBar]
    /\ r = NewRecipient(SnOf(InitSeq - Lag), NoSn, <<>>)

-----------------------------------------------------------------------------
(* Operations of the originator, each from a state q of it to the next.    *)

OSn(q, m) == SnOf(q.seq[m])
IsOld(q, m) == IsOldPacket(q.win.start, OSn(q, m))
Distance(q, m) == GetDistance(OSn(q, m), q.win.start)

\* WifiMacQueue::DequeueIfQueued and Remove: an MPDU out of the queue is no
\* longer in flight (WifiMpdu::IsInFlight).
Dequeue(q, M) == [q EXCEPT !.edca = @ \ M, !.inflight = @ \ M]

\* Mutant: no BlockAckReq is scheduled.
NotifyDiscardedMpdu_NoBar(q, m) ==
    IF (m \notin q.retry /\ m \notin q.inflight) \/ IsOld(q, m) THEN q
    ELSE LET win == AdvanceTxWindow(WindowAdvance(q.win, Distance(q, m) + 1))
             old == {k \in q.baq : IsOldPacket(win.start, OSn(q, k))}
         IN  [Dequeue(q, old) EXCEPT !.baq = @ \ old, !.win = win]

\* BlockAckManager::NotifyDiscardedMpdu
NotifyDiscardedMpdu(q, m) ==
    IF (m \notin q.retry /\ m \notin q.inflight) \/ IsOld(q, m) THEN q
    ELSE LET win == AdvanceTxWindow(WindowAdvance(q.win, Distance(q, m) + 1))
             old == {k \in q.baq : IsOldPacket(win.start, OSn(q, k))}
         IN  [Dequeue(q, old) EXCEPT !.baq = @ \ old, !.win = win, !.bar = "queued"]

\* Mutant: an MPDU to retransmit is not reset to "not in flight".
HandleInFlightMpdus_StayInFlight(q, M, status) ==
    IF status = "STAY_INFLIGHT" THEN q
    ELSE [q EXCEPT !.baq = @ \ M, !.retry = @ \union (M \intersect q.edca)]

\* HandleInFlightMpdu for each MPDU of M, a subset of q.baq, in order.  MSDU
\* lifetimes end in queue order: the discard of the last expired MPDU of M
\* subsumes those of the others.
HandleInFlightMpdus(q, M, status) ==
    LET queued == M \intersect q.edca
        old    == {m \in queued : IsOld(q, m)}
        dead   == {m \in queued \ old : m <= expired}
        live   == queued \ (old \union dead)
        q1     == IF dead = {} THEN q ELSE NotifyDiscardedMpdu(q, Max(dead))
        q2     == [Dequeue(q1, old \union dead) EXCEPT !.baq = @ \ (M \ live)]
    IN  IF status = "STAY_INFLIGHT" THEN q2
        ELSE [q2 EXCEPT !.baq = @ \ live, !.inflight = @ \ live, !.retry = @ \union live]

\* OriginatorBlockAckAgreement::NotifyAckedMpdu for each MPDU of M.
NotifyAckedMpdus(win, q, M) ==
    LET distances == {Distance(q, m) : m \in {k \in M : ~ IsOld(q, k)}}
    IN  AdvanceTxWindow([win EXCEPT !.marked = @ \union distances])

NotifyGotAck(q, m) ==
    LET q1 == [q EXCEPT !.win = NotifyAckedMpdus(@, q, {m})]
    IN  [Dequeue(q1, {m} \intersect q.baq) EXCEPT !.baq = @ \ {m}]

NotifyMissedAck(q, m) == HandleInFlightMpdus(q, {m} \intersect q.baq, "TO_RETRANSMIT")

Acknowledged(q, bitmap) == {m \in q.baq : OSn(q, m) \in bitmap}

NotifyGotBlockAck(q, bitmap) ==
    LET A  == Acknowledged(q, bitmap)
        q1 == [Dequeue(q, A) EXCEPT !.baq = @ \ A, !.win = NotifyAckedMpdus(@, q, A)]
    IN  HandleInFlightMpdus(q1, q1.baq, "TO_RETRANSMIT")

NotifyMissedBlockAck(q) == HandleInFlightMpdus(q, q.baq, "TO_RETRANSMIT")

\* The MPDUs that make NeedBarRetransmission return true: the first one, in
\* order, stops its loop, those before it are handled.
Outstanding(q) == {m \in q.baq \intersect q.edca : m > expired /\ ~ IsOld(q, m)}

HandleBeforeOutstanding(q) ==
    HandleInFlightMpdus(q, {m \in q.baq : \A k \in Outstanding(q) : m < k}, "STAY_INFLIGHT")

\* StorePacket and NotifyTransmittedMpdu, for the MPDUs of M.
StorePackets(q, M) ==
    LET stored == {m \in M : ~ IsOld(q, m)}
        farthest == Max({Distance(q, m) : m \in stored})
    IN  IF stored = {} THEN q
        ELSE [q EXCEPT !.baq = @ \union stored,
                       !.win = IF farthest < WinSize THEN @
                               ELSE AdvanceTxWindow(WindowAdvance(@, farthest - WinSize + 1))]

\* WifiMacQueue::WipeAllExpiredMpdus: MPDUs in flight stay, and the Expired
\* trace of the others is fired by an event scheduled for now.
WipeAllExpiredMpdus(q) ==
    LET X == {m \in q.edca : m <= expired /\ m \notin q.inflight}
    IN  [q EXCEPT !.edca = @ \ X, !.expiring = @ \union X]

\* HtFrameExchangeManager::GetBar, which may queue a BlockAckReq.
GetBar(q) ==
    LET q1 == WipeAllExpiredMpdus(q)
    IN  IF q1.bar = "none" /\ q1.barIfData /\ q1.edca # {}
        THEN [q1 EXCEPT !.bar = "queued", !.barIfData = FALSE] ELSE q1

-----------------------------------------------------------------------------
(* Frame exchanges.                                                        *)

\* kind: an A-MPDU, one MPDU acknowledged by a Normal Ack ("mpdu") or by a
\* BlockAckReq that follows ("mpduBar"), or a BlockAckReq; todo: MPDUs still to
\* be received or lost; got: whether the recipient has received anything;
\* phase: waiting for CTS, on the air, or waiting for the answer.
ExchangeType ==
    {NoExchange} \union
    [kind : {"ampdu", "mpdu", "mpduBar", "bar"}, psdu : SUBSET Msdu, todo : SUBSET Msdu,
     got : BOOLEAN, ssn : SeqNo, phase : {"rts", "air", "answer"}]

Exchange(kind, psdu, ssn) ==
    [kind |-> kind, psdu |-> psdu, todo |-> psdu, got |-> FALSE, ssn |-> ssn,
     phase |-> IF UseRts THEN "rts" ELSE "air"]

\* SendPsdu and SendMpdu, down to QosTxop::CompleteMpduTx: for "mpduBar" the
\* BlockAckReq that follows is queued before the MPDU goes to the PHY.
Forward(q, kind, psdu) ==
    StorePackets(IF kind = "mpduBar" THEN [q EXCEPT !.bar = "queued"] ELSE q, psdu)

\* QosTxop::NotifyChannelReleased after a transmission.
Release(q) ==
    LET q1 == WipeAllExpiredMpdus(q)
    IN  /\ o' = q1
        /\ exch' = NoExchange
        /\ access' = IF q1.edca # {} \/ q1.bar # "none" THEN "requested" ELSE "none"

TransmissionFailed(q) == Release(q)
TransmissionSucceeded(q) == Release(GetBar(q))

\* The Expired traces scheduled for now run before anything that takes time.
Settled == o.expiring = {}

\* Txop::Queue of a new MSDU and the StartAccessAfterEvent it schedules.
Enqueue ==
    /\ Settled /\ nMsdu < MaxMsdu
    /\ nMsdu' = nMsdu + 1
    /\ o' = LET q == WipeAllExpiredMpdus(o) IN [q EXCEPT !.edca = @ \union {nMsdu'}]
    /\ access' = IF access = "none" THEN "requested" ELSE access
    /\ UNCHANGED <<expired, exch, r, acked>>

\* Time passes: the lifetime of the oldest MSDU that has not expired ends.
Expire ==
    /\ Settled /\ expired < nMsdu
    /\ expired' = expired + 1
    /\ UNCHANGED <<nMsdu, o, exch, access, r, acked>>

\* The Expired trace source, connected to BlockAckManager::NotifyDiscardedMpdu.
FireExpired ==
    /\ ~ Settled
    /\ LET m == Min(o.expiring)
       IN  o' = NotifyDiscardedMpdu([o EXCEPT !.expiring = @ \ {m}], m)
    /\ UNCHANGED <<nMsdu, expired, exch, access, r, acked>>

\* QosTxop::PeekNextMpdu: old MPDUs are removed, those in flight are skipped.
RemoveOldMpdus(q) == Dequeue(q, {m \in q.edca : q.seq[m] # 0 /\ IsOld(q, m)})

Ready(q) == q.edca \ q.inflight

\* The number an MPDU of the queue has, or would get from AssignSequenceNumber.
SeqOrNext(q, m) ==
    IF q.seq[m] # 0 THEN q.seq[m]
    ELSE q.nextSeq + Cardinality({k \in Ready(q) : k < m /\ q.seq[k] = 0})

\* Mutant: MPDUs beyond the transmit window are sent.
Psdus_AnyNumber(q) ==
    {P \in SUBSET Ready(q) :
        /\ P # {} /\ Cardinality(P) <= MaxAmpdu
        /\ \A m \in P, k \in Ready(q) : k < m => k \in P}

\* The MPDUs that may go together: a prefix of those ready, in the window.
Psdus(q) ==
    {P \in SUBSET Ready(q) :
        /\ P # {} /\ Cardinality(P) <= MaxAmpdu
        /\ \A m \in P : /\ \A k \in Ready(q) : k < m => k \in P
                        /\ IsInWindow(SnOf(SeqOrNext(q, m)), q.win.start, WinSize)}

AssignSequenceNumbers(q, P) ==
    LET new == {m \in P : q.seq[m] = 0}
    IN  [q EXCEPT !.seq = [m \in Msdu |-> IF m \in new THEN SeqOrNext(q, m) ELSE @[m]],
                  !.nextSeq = @ + Cardinality(new)]

StartWith(q, kind, psdu) ==
    /\ o' = IF UseRts THEN q ELSE Forward(q, kind, psdu)
    /\ exch' = Exchange(kind, psdu, q.win.start)
    /\ access' = "granted"

SendBar(q) == StartWith([q EXCEPT !.bar = "sent"], "bar", {})

\* SendDataFrame: an A-MPDU, or a single MPDU whose acknowledgment is chosen by
\* WifiDefaultAckManager::TryAddMpdu.
SendData(q) ==
    \E P \in Psdus(q) :
        LET kind == IF Cardinality(P) > 1 THEN "ampdu"
                    ELSE IF \E m \in q.inflight : \A k \in P : m < k THEN "mpduBar"
                    ELSE "mpdu"
        IN  StartWith([AssignSequenceNumbers(q, P) EXCEPT !.inflight = @ \union P], kind, P)

\* No frame to send: NotifyChannelReleased does not request access again.
SendNothing(q) ==
    /\ Psdus(q) = {}
    /\ o' = q /\ exch' = NoExchange /\ access' = "none"

StartFrameExchange ==
    /\ Settled /\ access = "requested"
    /\ LET q == GetBar(o)
       IN  IF q.bar # "none" THEN SendBar(q)
           ELSE SendData(RemoveOldMpdus(q)) \/ SendNothing(RemoveOldMpdus(q))
    /\ UNCHANGED <<nMsdu, expired, r, acked>>

\* A CTS is received: ProtectionCompleted, the PSDU is sent.
ReceiveCts ==
    /\ Settled /\ exch # NoExchange /\ exch.phase = "rts"
    /\ exch' = [exch EXCEPT !.phase = "air"]
    /\ o' = Forward(o, exch.kind, exch.psdu)
    /\ UNCHANGED <<nMsdu, expired, access, r, acked>>

\* HtFrameExchangeManager::ReleaseSequenceNumbers: the MPDUs of the PSDU that
\* were never transmitted hold the highest numbers, and give them back.
ReleaseSequenceNumbers(q, psdu) ==
    LET new == {m \in psdu : m \notin q.retry /\ m \notin q.inflight}
    IN  [q EXCEPT !.seq = [m \in Msdu |-> IF m \in new THEN 0 ELSE @[m]],
                  !.nextSeq = @ - Cardinality(new)]

\* DoCtsTimeout, when NeedRetransmission says to discard: dequeue, then notify.
DiscardPsdu(q, psdu) ==
    LET sent == psdu \intersect q.retry
        q1 == Dequeue(q, psdu)
        q2 == IF sent = {} THEN q1 ELSE NotifyDiscardedMpdu(q1, Max(sent))
    IN  IF q.bar = "sent" THEN [q2 EXCEPT !.bar = "none"] ELSE q2

CtsTimeout ==
    /\ Settled /\ exch # NoExchange /\ exch.phase = "rts"
    /\ LET q == [o EXCEPT !.inflight = @ \ exch.psdu]
       IN  \E retransmit \in BOOLEAN :
             TransmissionFailed(ReleaseSequenceNumbers(
                 IF ~ retransmit THEN DiscardPsdu(q, exch.psdu)
                 ELSE IF q.bar = "sent" THEN [q EXCEPT !.bar = "queued"] ELSE q,
                 exch.psdu))
    /\ UNCHANGED <<nMsdu, expired, r, acked>>

OnAir(e) == e # NoExchange /\ e.phase = "air"

Received(e, m, got) ==
    [e EXCEPT !.todo = @ \ {m}, !.got = @ \/ got,
              !.phase = IF e.todo = {m} THEN "answer" ELSE @]

\* The recipient receives the next MPDU of the PSDU, or the medium loses it.
ReceiveMpdu ==
    /\ Settled /\ OnAir(exch) /\ exch.kind # "bar"
    /\ LET m == Min(exch.todo)
       IN  /\ r' = NotifyReceivedMpdu(r, Frame(m), o.retry)
           /\ exch' = Received(exch, m, TRUE)
    /\ UNCHANGED <<nMsdu, expired, o, access, acked>>

LoseMpdu ==
    /\ Settled /\ OnAir(exch) /\ exch.kind # "bar"
    /\ exch' = Received(exch, Min(exch.todo), FALSE)
    /\ UNCHANGED <<nMsdu, expired, o, access, r, acked>>

ReceiveBar ==
    /\ Settled /\ OnAir(exch) /\ exch.kind = "bar"
    /\ r' = NotifyReceivedBar(r, exch.ssn, o.retry)
    /\ exch' = [exch EXCEPT !.got = TRUE, !.phase = "answer"]
    /\ UNCHANGED <<nMsdu, expired, o, access, acked>>

LoseBar ==
    /\ Settled /\ OnAir(exch) /\ exch.kind = "bar"
    /\ exch' = [exch EXCEPT !.phase = "answer"]
    /\ UNCHANGED <<nMsdu, expired, o, access, r, acked>>

AnswerDue(kinds) == Settled /\ exch # NoExchange /\ exch.phase = "answer" /\ exch.kind \in kinds

DequeueBar(q) == IF q.bar = "sent" THEN [q EXCEPT !.bar = "none"] ELSE q

\* The originator receives the BlockAck that SendBlockAck sent a SIFS after.
ReceiveBlockAck ==
    /\ AnswerDue({"ampdu", "bar"}) /\ exch.got
    /\ LET bitmap == FillBlockAckBitmap(r)
       IN  /\ TransmissionSucceeded(DequeueBar(NotifyGotBlockAck(o, bitmap)))
           /\ acked' = acked \union Acknowledged(o, bitmap)
    /\ UNCHANGED <<nMsdu, expired, r>>

\* Mutant: the BlockAckReq is not sent again.
MissedBlockAckUseBar_Once ==
    LET q == HandleBeforeOutstanding(o)
    IN  IF exch.kind # "bar" /\ Outstanding(o) # {} THEN [q EXCEPT !.bar = "queued"]
        ELSE [DequeueBar(q) EXCEPT !.barIfData = TRUE]

\* MissedBlockAck when a BlockAckReq is (or would be) used to solicit it.
MissedBlockAckUseBar ==
    LET q == HandleBeforeOutstanding(o)
    IN  IF Outstanding(o) # {} THEN [q EXCEPT !.bar = "queued"]
        ELSE [DequeueBar(q) EXCEPT !.barIfData = TRUE]

\* MissedBlockAck when the data frames are retransmitted, or discarded.
MissedBlockAckResend(retransmit) ==
    IF retransmit THEN NotifyMissedBlockAck(o)
    ELSE Dequeue(NotifyDiscardedMpdu(o, Max(exch.psdu)), exch.psdu)

BlockAckTimeout ==
    /\ AnswerDue({"ampdu", "bar"})
    /\ IF o.explicitBar \/ exch.kind = "bar"
       THEN TransmissionFailed(MissedBlockAckUseBar)
       ELSE \E retransmit \in BOOLEAN : TransmissionFailed(MissedBlockAckResend(retransmit))
    /\ UNCHANGED <<nMsdu, expired, r, acked>>

ReceiveNormalAck ==
    /\ AnswerDue({"mpdu"}) /\ exch.got
    /\ \E m \in exch.psdu :
          /\ TransmissionSucceeded(Dequeue(NotifyGotAck(o, m), {m}))
          /\ acked' = acked \union {m}
    /\ UNCHANGED <<nMsdu, expired, r>>

NormalAckTimeout ==
    /\ AnswerDue({"mpdu"})
    /\ \E m \in exch.psdu, retransmit \in BOOLEAN :
          TransmissionFailed(
            IF retransmit
            THEN NotifyMissedAck([o EXCEPT !.inflight = @ \ {m}, !.retry = @ \union {m}], m)
            ELSE Dequeue(NotifyDiscardedMpdu(o, m), {m}))
    /\ UNCHANGED <<nMsdu, expired, r, acked>>

\* No answer is expected now: the BlockAckReq is sent a SIFS later.
UnacknowledgedSent ==
    /\ AnswerDue({"mpduBar"})
    /\ TransmissionSucceeded(o)
    /\ UNCHANGED <<nMsdu, expired, r, acked>>

Next ==
    \/ Enqueue \/ Expire \/ FireExpired \/ StartFrameExchange
    \/ ReceiveCts \/ CtsTimeout
    \/ ReceiveMpdu \/ LoseMpdu \/ ReceiveBar \/ LoseBar
    \/ ReceiveBlockAck \/ BlockAckTimeout
    \/ ReceiveNormalAck \/ NormalAckTimeout \/ UnacknowledgedSent

Spec == Init /\ [][Next]_vars

\* A pending channel access is granted; the next event of an exchange happens.
AccessIsGranted == Settled /\ access = "requested" /\ access' \in {"granted", "none"}

ExchangeMoves ==
    /\ Settled /\ exch # NoExchange
    /\ exch' \in CASE exch.phase = "rts"    -> {NoExchange, [exch EXCEPT !.phase = "air"]}
                  [] exch.phase = "answer" -> {NoExchange}
                  [] exch.kind = "bar"     -> {[exch EXCEPT !.got = g, !.phase = "answer"] : g \in BOOLEAN}
                  [] OTHER                 -> {Received(exch, Min(exch.todo), g) : g \in BOOLEAN}

\* Simulator::Run executes every event that is scheduled, and time passes.
Fairness ==
    /\ WF_vars(Expire) /\ WF_o(FireExpired)
    /\ WF_access(AccessIsGranted) /\ WF_exch(ExchangeMoves)

FairSpec == Spec /\ Fairness

-----------------------------------------------------------------------------
(* Correctness.                                                            *)

RecipientType ==
    /\ r.scoreboard \in Window /\ r.winStartB \in SeqNo
    /\ r.buffered \subseteq [id : Msdu, sn : SeqNo]
    /\ r.lastSn \in SeqNo \union {NoSn} /\ r.up \in Seq(Msdu)

\* Types of all variables; the start of the recipient's window is reduced modulo
\* SEQNO_SPACE_SIZE, not only 2^16, as the assertion of GetDistance demands.
TypeOK ==
    /\ nMsdu \in 0 .. MaxMsdu /\ expired \in 0 .. MaxMsdu /\ acked \subseteq Msdu
    /\ o \in OriginatorType /\ exch \in ExchangeType
    /\ access \in {"none", "requested", "granted"}
    /\ RecipientType

Buffered == {f.id : f \in r.buffered}

\* The two ends agree on the window: an MPDU on the air is in the recipient's
\* reorder window, or is a duplicate from before it.  NotifyReceivedMpdu has a
\* branch for MPDUs beyond the window; the originator never makes it run.  Nor
\* does the window pass a buffered MPDU (the assertions of the Pass functions).
ReceivedWithinWindow ==
    /\ NoOldBufferedMpdu(r)
    /\ OnAir(exch) => \A m \in exch.todo :
          LET distance == GetDistance(Sn(m), r.winStartB)
          IN  distance < WinSize \/ distance >= SEQNO_SPACE_HALF_SIZE

\* Every outstanding MPDU is in the transmit window and not marked there as
\* acknowledged (the assertion of BlockAckWindow::At behind NotifyAckedMpdu).
OutstandingInWindow ==
    \A m \in o.baq : Distance(o, m) < WinSize /\ Distance(o, m) \notin o.win.marked

\* Without RTS, between exchanges: the MPDUs in flight are exactly the outstanding
\* ones, so that none is in flight with nobody waiting for it, and while one of
\* them waits there is a BlockAckReq in the queue (doc of NeedBarRetransmission).
OutstandingTracked ==
    exch = NoExchange /\ Settled =>
        o.inflight = o.baq /\ (Outstanding(o) # {} => o.bar # "none")

\* An outstanding MPDU is given up (it leaves the queue and the in-flight queue
\* without having been acknowledged) only if a BlockAckReq is queued, or will
\* be with the next data, to tell the recipient not to wait for it.
GivenUpStep ==
    \A m \in o.baq : \/ m \in o'.edca \/ m \in o'.baq \/ m \in acked'
                     \/ o'.bar # "none" \/ o'.barIfData

GivenUpIsAnnounced == [][GivenUpStep]_vars

\* An MPDU in flight is eventually acknowledged, retransmitted or given up.
InFlightResolved == \A m \in Msdu : (m \in o.inflight) ~> (m \notin o.inflight)

\* A buffered MPDU is eventually passed up, or a BlockAckReq that moves the
\* recipient's window is queued, or will be with the next data.
BufferedIsPassedUp ==
    \A m \in Msdu : (m \in Buffered) ~> (m \notin Buffered \/ o.bar # "none" \/ o.barIfData)

\* The data path implements ordered delivery: MSDUs go up in the order they were
\* queued in and none twice, and one dequeued as acknowledged is not lost.
Delivery == INSTANCE OrderedDelivery WITH
    MaxItem <- MaxMsdu, offered <- nMsdu, held <- Buffered, up <- r.up, confirmed <- acked

ImplementsOrderedDelivery == Delivery!Spec

=============================================================================
