---------------------------- MODULE AgreementSetup ----------------------------
(***************************************************************************)
(* The life cycle of a Block Ack agreement for one (recipient, TID) pair:  *)
(* ADDBA Request and Response, their timers, the blocking of the data      *)
(* queue, DELBA by either side, and the data that the originator sends     *)
(* under Normal Ack while no agreement is established (BlockAck models the *)
(* data of an established one).                                            *)
(*                                                                         *)
(* Management frames of a station are sent one at a time, in order, before *)
(* any data.  Timers are untimed: one that is scheduled may fire at any    *)
(* time.  One frame exchange is one action: its outcome is that the frame  *)
(* is lost, that its Ack is lost, or that it is acknowledged.              *)
(***************************************************************************)
EXTENDS RecipientAgreement, SequencesExt

CONSTANTS
    MaxRequests,  \* bound: ADDBA Requests the originator makes
    MaxData,      \* bound: data MPDUs sent under Normal Ack
    InitSeq,      \* sequence number of the first of them
    RetryLimit,   \* attribute MaxSsrc of WifiRemoteStationManager
    InactivityOn, \* attribute BlockAckInactivityTimeout of QosTxop is not null
    ExpiryOn,     \* whether a queued frame may outlive WifiMacQueue::MaxDelay
    TxopLimited   \* whether a TXOP may be too short for an ADDBA Request

ASSUME AgreementSetupAssumption ==
    /\ MaxRequests \in Nat /\ MaxData \in Nat /\ InitSeq \in Nat \ {0}
    /\ RetryLimit \in Nat \ {0}
    /\ {InactivityOn, ExpiryOn, TxopLimited} \subseteq BOOLEAN

VARIABLES
    o,         \* the originator, see OriginatorType
    rcp,       \* the recipient, see RecipientType
    requests,  \* ADDBA Requests made so far
    acked,     \* history: data MPDUs acknowledged to the originator
    failure    \* history: whether an assertion of the code has failed

vars == <<o, rcp, requests, acked, failure>>

Data == InitSeq .. (InitSeq + MaxData - 1)

\* Mutant: the MPDU to be retransmitted is ignored.
StartingSeq_IgnoresRetry(q) == SnOf(q.next)

\* Mutant: the number is not reduced.
StartingSeq_NoModulo(q) == IF q.cur # 0 /\ q.cur \in q.retry THEN q.cur ELSE q.next

\* Where the window starts: at the MPDU to be retransmitted, if there is one.
StartingSeq(q) == SnOf(IF q.cur # 0 /\ q.cur \in q.retry THEN q.cur ELSE q.next)

\* A management frame in the queue of its sender.  rcvd: the peer has received
\* it, and will drop retransmissions as duplicates.
MgtFrame == [kind : {"request", "response", "delbaO", "delbaR"}, start : SeqNo, rcvd : BOOLEAN]

NewFrame(kind, start) == [kind |-> kind, start |-> start, rcvd |-> FALSE]

\* ag: state of the originator agreement ("none": not in m_originatorAgreements);
\* blocked: the data queue is blocked (WAITING_ADDBA_RESP); q: management frames
\* queued; ssrc: station short retry count; timeouts, resets: AddBaResponseTimeout
\* and ResetBa events pending; timer, stale: inactivity event of the agreement,
\* and earlier ones nobody has cancelled; cur: data MPDU being sent (0: none).
OriginatorType ==
    [ag : {"none", "PENDING", "ESTABLISHED", "NO_REPLY", "RESET"}, start : SeqNo,
     blocked : BOOLEAN, q : Seq(MgtFrame), ssrc : Nat, timeouts : Nat, resets : Nat,
     timer : BOOLEAN, stale : Nat, cur : Data \union {0}, next : Nat, retry : SUBSET Data]

\* has: an agreement is in m_recipientAgreements (rx), with its inactivity event
\* timer; stale as above; pending: m_pendingAddBaResp has the last response queued.
RecipientType == {rcp.has, rcp.pending} \subseteq BOOLEAN /\ rcp.q \in Seq(MgtFrame) /\ rcp.ssrc \in Nat
                 /\ rcp.timer \in BOOLEAN /\ rcp.stale \in Nat /\ rcp.rx.up \in Seq(Data)

Init ==
    /\ o = [ag |-> "none", start |-> 0, blocked |-> FALSE, q |-> <<>>, ssrc |-> 0,
            timeouts |-> 0, resets |-> 0, timer |-> FALSE, stale |-> 0,
            cur |-> 0, next |-> InitSeq, retry |-> {}]
    /\ rcp = [has |-> FALSE, rx |-> NewRecipient(0, NoSn, <<>>), q |-> <<>>, ssrc |-> 0,
              timer |-> FALSE, stale |-> 0, pending |-> FALSE]
    /\ requests = 0 /\ acked = {} /\ failure = FALSE

-----------------------------------------------------------------------------
(* Operations of the originator's BlockAckManager and QosTxop.             *)

\* The agreement's inactivity event is replaced; the old one is not cancelled.
ReplaceTimer(q, on) == [q EXCEPT !.stale = IF q.timer THEN @ + 1 ELSE @, !.timer = on]

CreateOriginatorAgreement(q) ==
    [ReplaceTimer(q, FALSE) EXCEPT !.ag = "PENDING", !.blocked = TRUE]

\* The inactivity event of an agreement is cancelled with it.
DestroyOriginatorAgreement(q) ==
    IF q.ag = "none" THEN q ELSE [q EXCEPT !.ag = "none", !.timer = FALSE]

\* Mutant: the queue is unblocked only by the response.
NotifyOriginatorAgreementNoReply_Blocked(q) == [q EXCEPT !.ag = "NO_REPLY"]

NotifyOriginatorAgreementNoReply(q) == [q EXCEPT !.ag = "NO_REPLY", !.blocked = FALSE]

\* Mutant: no ResetBa event is scheduled.
NoReplyAndReset_NoReset(q) == NotifyOriginatorAgreementNoReply(q)

\* NoReply after a failed request, and the ResetBa event it schedules.
NoReplyAndReset(q) == [NotifyOriginatorAgreementNoReply(q) EXCEPT !.resets = @ + 1]

\* GotAddBaResponse and UpdateOriginatorAgreement.
GotAddBaResponse(q) ==
    IF q.ag = "none" THEN [q EXCEPT !.blocked = FALSE]
    ELSE [ReplaceTimer(q, InactivityOn) EXCEPT
             !.ag = "ESTABLISHED", !.blocked = FALSE, !.start = StartingSeq(q)]

\* A frame is dequeued: it has been acknowledged or discarded.
DequeueHead(q) == [q EXCEPT !.q = Tail(@), !.ssrc = 0]

\* HtFrameExchangeManager::NotifyReceivedNormalAck, at the originator.
OriginatorGotAck(q) ==
    CASE Head(q.q).kind = "request" -> [DequeueHead(q) EXCEPT !.timeouts = @ + 1]
      [] Head(q.q).kind = "delbaO"  -> DequeueHead(DestroyOriginatorAgreement(q))

\* Mutant: the discard of a request is not noticed.
OriginatorDiscards_Silent(q) == DequeueHead(q)

\* HtFrameExchangeManager::NotifyPacketDiscarded, at the originator.
OriginatorDiscards(q) ==
    IF Head(q.q).kind = "request" /\ q.ag = "PENDING"
    THEN NoReplyAndReset(DequeueHead(q)) ELSE DequeueHead(q)

\* The peer may have received the frame.
Heard(f, received) == [f EXCEPT !.rcvd = @ \/ received]

\* NormalAckTimeout: the head of the queue is retransmitted until the retry limit.
Missed(q, received) ==
    [q EXCEPT !.ssrc = @ + 1, !.q = <<Heard(Head(@), received)>> \o Tail(@)]

NeedRetransmission(q) == q.ssrc + 1 < RetryLimit

-----------------------------------------------------------------------------
(* Operations of the recipient.                                            *)

DestroyRecipientAgreement(p) ==
    IF p.has THEN [p EXCEPT !.has = FALSE, !.timer = FALSE, !.rx = Flush(@, o.retry)] ELSE p

\* DequeueMpdu of the last response queued does nothing when it is gone.
DequeueResponse(q) ==
    LET R == {i \in DOMAIN q : q[i].kind = "response"}
    IN  IF R = {} THEN q ELSE RemoveAt(q, Max(R))

\* The agreement is created, whether or not there is one, and the response
\* replaces a pending one.
SendAddBaResponse(p, start) ==
    [ReplaceTimer(p, InactivityOn) EXCEPT
        !.has = TRUE, !.rx = NewRecipient(start, @.lastSn, @.up), !.pending = TRUE,
        !.q = Append(IF p.pending THEN DequeueResponse(@) ELSE @, NewFrame("response", 0))]

\* WifiMac::Receive of the Action frames of the originator.
RecipientReceives(p, f) ==
    IF f.rcvd THEN p
    ELSE IF f.kind = "request" THEN SendAddBaResponse(p, f.start)
    ELSE DestroyRecipientAgreement(p)

\* WifiMac::Receive of the Action frames of the recipient.
OriginatorReceives(q, f) ==
    IF f.rcvd THEN q
    ELSE IF f.kind = "response" THEN GotAddBaResponse(q) ELSE DestroyOriginatorAgreement(q)

RecipientGotAck(p) ==
    IF Head(p.q).kind = "delbaR" THEN DequeueHead(DestroyRecipientAgreement(p))
    ELSE [DequeueHead(p) EXCEPT !.pending = FALSE]

\* Mutant: the response is forgotten as soon as it has been sent.
RecipientMissed_Forgets(p, received) ==
    [IF NeedRetransmission(p) THEN Missed(p, received) ELSE DequeueHead(p) EXCEPT !.pending = FALSE]

\* The recipient misses the Ack of its frame; m_pendingAddBaResp stays as it is.
RecipientMissed(p, received) ==
    IF NeedRetransmission(p) THEN Missed(p, received) ELSE DequeueHead(p)

\* A data MPDU is passed to the recipient agreement if there is one, and
\* to MacRxMiddle otherwise.
ReceiveData(p, n) ==
    LET f == [id |-> n, sn |-> SnOf(n)]
    IN  [p EXCEPT !.rx = IF p.has THEN NotifyReceivedMpdu(@, f, o.retry)
                         ELSE MacRxMiddleReceive(@, <<f>>, o.retry)]

-----------------------------------------------------------------------------
(* Steps.                                                                  *)

\* StartFrameExchange serves data when no management frame is queued.
MayServeData == o.q = <<>> /\ ~ o.blocked /\ (o.cur # 0 \/ o.next < InitSeq + MaxData)

NeedSetupBlockAck == MayServeData /\ o.ag \in {"none", "RESET"} /\ requests < MaxRequests

SendAddBaRequest ==
    /\ NeedSetupBlockAck
    /\ o' = [CreateOriginatorAgreement(o) EXCEPT
               !.q = Append(@, NewFrame("request", StartingSeq(o)))]
    /\ requests' = requests + 1
    /\ UNCHANGED <<rcp, acked, failure>>

\* SendAddBaRequest when TryAddMpdu finds the available time too short.
SendAddBaRequestTooLong ==
    /\ TxopLimited /\ NeedSetupBlockAck
    /\ o' = CreateOriginatorAgreement(o)
    /\ requests' = requests + 1
    /\ UNCHANGED <<rcp, acked, failure>>

\* A data MPDU under Normal Ack; with no agreement, when it is alone in the
\* queue, so that NeedSetupBlockAck returns false.
NormalAckData == MayServeData /\ o.ag # "ESTABLISHED"

Serve(q) == IF q.cur # 0 THEN q ELSE [q EXCEPT !.cur = q.next, !.next = @ + 1]

DataAcked ==
    /\ NormalAckData
    /\ LET q == Serve(o)
       IN  /\ rcp' = ReceiveData(rcp, q.cur)
           /\ o' = [q EXCEPT !.cur = 0, !.ssrc = 0]
           /\ acked' = acked \union {q.cur}
    /\ UNCHANGED <<requests, failure>>

DataMissed ==
    /\ NormalAckData
    /\ LET q == Serve(o)
       IN  /\ rcp' \in {rcp, ReceiveData(rcp, q.cur)}
           /\ o' = IF NeedRetransmission(q)
                   THEN [q EXCEPT !.ssrc = @ + 1, !.retry = @ \union {q.cur}]
                   ELSE [q EXCEPT !.ssrc = 0, !.cur = 0]
    /\ UNCHANGED <<requests, acked, failure>>

\* The first management frame of the originator is received and acknowledged.
OriginatorFrameAcked ==
    /\ o.q # <<>>
    /\ rcp' = RecipientReceives(rcp, Head(o.q))
    /\ o' = OriginatorGotAck(o)
    /\ UNCHANGED <<requests, acked, failure>>

OriginatorFrameMissed ==
    /\ o.q # <<>>
    /\ \E received \in BOOLEAN :
          /\ rcp' = IF received THEN RecipientReceives(rcp, Head(o.q)) ELSE rcp
          /\ o' = IF NeedRetransmission(o) THEN Missed(o, received) ELSE OriginatorDiscards(o)
    /\ UNCHANGED <<requests, acked, failure>>

\* The first management frame of the recipient is received and acknowledged;
\* there must be a recipient agreement when a response is.
RecipientFrameAcked ==
    /\ rcp.q # <<>>
    /\ o' = OriginatorReceives(o, Head(rcp.q))
    /\ rcp' = RecipientGotAck(rcp)
    /\ failure' = (failure \/ (Head(rcp.q).kind = "response" /\ ~ rcp.has))
    /\ UNCHANGED <<requests, acked>>

RecipientFrameMissed ==
    /\ rcp.q # <<>>
    /\ \E received \in BOOLEAN :
          /\ o' = IF received THEN OriginatorReceives(o, Head(rcp.q)) ELSE o
          /\ rcp' = RecipientMissed(rcp, received)
    /\ UNCHANGED <<requests, acked, failure>>

AddBaResponseTimeout ==
    /\ o.timeouts > 0
    /\ LET q == [o EXCEPT !.timeouts = @ - 1]
       IN  o' = IF q.ag = "PENDING" THEN NoReplyAndReset(q) ELSE q
    /\ UNCHANGED <<rcp, requests, acked, failure>>

\* Mutant: an established agreement is reset as well.
ResetBa_Always ==
    /\ o.resets > 0
    /\ o' = [o EXCEPT !.resets = @ - 1, !.ag = IF @ = "none" THEN @ ELSE "RESET"]
    /\ UNCHANGED <<rcp, requests, acked, failure>>

ResetBa ==
    /\ o.resets > 0
    /\ LET q == [o EXCEPT !.resets = @ - 1]
       IN  o' = IF q.ag \in {"none", "ESTABLISHED"} THEN q ELSE [q EXCEPT !.ag = "RESET"]
    /\ UNCHANGED <<rcp, requests, acked, failure>>

\* Inactivity events: a DELBA is queued; the agreement stays until its Ack.
OriginatorInactivityTimeout ==
    /\ o.timer \/ o.stale > 0
    /\ \/ o.timer /\ o' = [o EXCEPT !.timer = FALSE, !.q = Append(@, NewFrame("delbaO", 0))]
       \/ o.stale > 0 /\ o' = [o EXCEPT !.stale = @ - 1, !.q = Append(@, NewFrame("delbaO", 0))]
    /\ UNCHANGED <<rcp, requests, acked, failure>>

RecipientInactivityTimeout ==
    /\ \/ rcp.timer /\ rcp' = [rcp EXCEPT !.timer = FALSE, !.q = Append(@, NewFrame("delbaR", 0))]
       \/ /\ rcp.stale > 0
          /\ rcp' = [rcp EXCEPT !.stale = @ - 1, !.q = Append(@, NewFrame("delbaR", 0))]
    /\ UNCHANGED <<o, requests, acked, failure>>

\* A queued frame expires between two attempts.  The Expired trace ends in
\* BlockAckManager::NotifyDiscardedMpdu, which ignores all but QoS data, and
\* data without an established agreement.
FrameExpires ==
    /\ ExpiryOn
    /\ \/ o.q # <<>> /\ o' = [o EXCEPT !.q = Tail(@)] /\ UNCHANGED rcp
       \/ rcp.q # <<>> /\ rcp' = [rcp EXCEPT !.q = Tail(@)] /\ UNCHANGED o
       \/ o.cur # 0 /\ o.ag # "ESTABLISHED" /\ o' = [o EXCEPT !.cur = 0] /\ UNCHANGED rcp
    /\ UNCHANGED <<requests, acked, failure>>

Next ==
    \/ SendAddBaRequest \/ SendAddBaRequestTooLong \/ DataAcked \/ DataMissed
    \/ OriginatorFrameAcked \/ OriginatorFrameMissed
    \/ RecipientFrameAcked \/ RecipientFrameMissed
    \/ AddBaResponseTimeout \/ ResetBa
    \/ OriginatorInactivityTimeout \/ RecipientInactivityTimeout \/ FrameExpires

Spec == Init /\ [][Next]_vars

\* Queued frames are sent, and scheduled events run.
Fairness ==
    /\ WF_vars(OriginatorFrameAcked \/ OriginatorFrameMissed)
    /\ WF_vars(RecipientFrameAcked \/ RecipientFrameMissed)
    /\ WF_vars(AddBaResponseTimeout) /\ WF_vars(ResetBa)

FairSpec == Spec /\ Fairness

-----------------------------------------------------------------------------
(* Correctness.                                                            *)

\* Types of all variables.
TypeOK ==
    /\ o \in OriginatorType /\ RecipientType
    /\ requests \in 0 .. MaxRequests /\ acked \subseteq Data /\ failure \in BOOLEAN

RequestQueued == \E i \in DOMAIN o.q : o.q[i].kind = "request"

\* Doc of state PENDING: an ADDBA Request was sent and its response is awaited:
\* the request is still to be acknowledged or discarded, or its timer runs.
PendingIsWaiting == o.ag = "PENDING" => RequestQueued \/ o.timeouts > 0

\* An agreement that failed is going to be reset, so that setup is tried again.
NoReplyIsReset == o.ag = "NO_REPLY" => o.resets > 0

\* The two ends agree.  A recipient agreement exists when an ADDBA Response is
\* acknowledged (the assertion of NotifyReceivedNormalAck) and as long as the
\* originator has an established one; no data MPDU the originator may still send
\* is taken for an old one there, unless it has been passed up already.
EndsAgree ==
    /\ ~ failure
    /\ o.ag = "ESTABLISHED" =>
        /\ rcp.has
        /\ \A n \in {o.next} \union (IF o.cur = 0 THEN {} ELSE {o.cur}) :
              IsOldPacket(rcp.rx.winStartB, SnOf(n)) => \E i \in DOMAIN rcp.rx.up : rcp.rx.up[i] = n

\* Doc of state RESET: it follows a failed ADDBA Request (state NO_REPLY).  A
\* ResetBa left over from an earlier request does not undo a newer agreement.
ResetAfterNoReply == [][o'.ag = "RESET" => o.ag \in {"NO_REPLY", "RESET"}]_vars

\* Comment of SendAddBaResponse: no unnecessary response is left in the queue.
OneResponseQueued ==
    \A i, j \in DOMAIN rcp.q : rcp.q[i].kind = "response" /\ rcp.q[j].kind = "response" => i = j

\* Whatever agreements come and go, data go up in order and at most once.
InOrderAtMostOnce ==
    \A i, j \in DOMAIN rcp.rx.up : i < j => rcp.rx.up[i] < rcp.rx.up[j]

\* Comment of DestroyRecipientAgreement: buffered MPDUs are forwarded up before
\* an agreement goes: acknowledged data are passed up, or still buffered.
AckedNotLost ==
    acked \subseteq {rcp.rx.up[i] : i \in DOMAIN rcp.rx.up} \union {f.id : f \in rcp.rx.buffered}

\* Comment of GotAddBaResponse: when the ADDBA Request timer expires, the pair is
\* unblocked; a pair is not blocked forever.
Unblocked == o.blocked ~> ~ o.blocked

=============================================================================
