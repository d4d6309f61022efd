------------------------- MODULE AgreementSetup_proof -------------------------
(***************************************************************************)
(* What holds however frames are lost, and for any number of requests and  *)
(* data frames: setup that has failed is tried again, a pending request is *)
(* waited for, at most one response is queued, data are passed up in order *)
(* and at most once across all agreements, and both ends agree that there  *)
(* is one.                                                                 *)
(*                                                                         *)
(* IInv is about the originator's record alone, RInv about the recipient's *)
(* alone; Ordered and Agreed relate the two.  Each operation has a lemma   *)
(* that says it preserves them.                                            *)
(***************************************************************************)
EXTENDS AgreementSetup, RecipientAgreement_proof

\* A request leaves the queue only when it is acknowledged or discarded.
RequestsAreKept == ~ ExpiryOn /\ ~ TxopLimited

\* The originator queues requests and its own DELBA frames, and the numbers it
\* hands out to data are those of Data.
Sound(q) ==
    /\ q \in OriginatorType
    /\ InitSeq <= q.next /\ q.next <= InitSeq + MaxData
    /\ \A i \in DOMAIN q.q : q.q[i].kind \in {"request", "delbaO"}
    /\ q.ag = "NO_REPLY" => q.resets > 0

HasRequest(q) == \E i \in DOMAIN q.q : q.q[i].kind = "request"

\* PendingIsWaiting, of any originator.
Waits(q) == q.ag = "PENDING" => HasRequest(q) \/ q.timeouts > 0

IInv == Sound(o) /\ (RequestsAreKept => Waits(o)) /\ requests \in Nat

-----------------------------------------------------------------------------
\* Data are natural numbers other than 0, which means no data.
LEMMA DataType == /\ Data \subseteq Nat /\ 0 \notin Data /\ InitSeq \in Nat /\ MaxData \in Nat
                  /\ 0 \in SeqNo
BY AgreementSetupAssumption, SequenceSpaceAssumption DEF Data, SeqNo

\* The window starts at a sequence number.
LEMMA StartingSeqType == ASSUME NEW q \in OriginatorType PROVE StartingSeq(q) \in SeqNo
<1>1. q.cur \in Data \union {0} /\ q.next \in Nat
  BY DEF OriginatorType
<1>2. (IF q.cur # 0 /\ q.cur \in q.retry THEN q.cur ELSE q.next) \in Nat
  BY <1>1, DataType
<1> QED BY <1>2, SnOfType DEF StartingSeq

\* The frame built is one of the kind asked for.
LEMMA NewFrameType ==
    ASSUME NEW kind \in {"request", "response", "delbaO", "delbaR"}, NEW start \in SeqNo
    PROVE  NewFrame(kind, start) \in MgtFrame /\ NewFrame(kind, start).kind = kind
BY DEF NewFrame, MgtFrame

-----------------------------------------------------------------------------
\* The counters of an originator stay natural numbers, its flags Booleans.
LEMMA Fields ==
    ASSUME NEW q \in OriginatorType
    PROVE  /\ q.ssrc \in Nat /\ q.ssrc + 1 \in Nat /\ q.stale \in Nat /\ q.stale + 1 \in Nat
           /\ q.timeouts \in Nat /\ q.timeouts + 1 \in Nat /\ q.timeouts + 1 > 0
           /\ q.resets \in Nat /\ q.resets + 1 \in Nat /\ q.resets + 1 > 0
           /\ InactivityOn \in BOOLEAN
BY AgreementSetupAssumption DEF OriginatorType

\* Replacing the inactivity event changes nothing else.
LEMMA ReplaceTimerType ==
    ASSUME NEW q \in OriginatorType, NEW on \in BOOLEAN
    PROVE  /\ ReplaceTimer(q, on) \in OriginatorType
           /\ \A f \in {"ag", "q", "next", "resets", "timeouts", "cur", "retry"} :
                 ReplaceTimer(q, on)[f] = q[f]
<1>1. (IF q.timer THEN q.stale + 1 ELSE q.stale) \in Nat
  BY Fields
<1> DEFINE stale == IF q.timer THEN q.stale + 1 ELSE q.stale
<1>2. ReplaceTimer(q, on) = [q EXCEPT !.stale = stale, !.timer = on]
  BY DEF ReplaceTimer, OriginatorType
<1>3. stale \in Nat
  BY <1>1
<1> HIDE DEF stale
<1> QED BY <1>2, <1>3 DEF OriginatorType

\* A frame is added to the queue of the originator.
LEMMA EnqueueSound ==
    ASSUME NEW q, Sound(q), NEW f \in MgtFrame, f.kind \in {"request", "delbaO"}
    PROVE  /\ Sound([q EXCEPT !.q = Append(@, f)])
           /\ Waits(q) \/ f.kind = "request" => Waits([q EXCEPT !.q = Append(@, f)])
<1> DEFINE p == [q EXCEPT !.q = Append(@, f)]
<1>1. q.q \in Seq(MgtFrame) /\ Append(q.q, f) \in Seq(MgtFrame)
  BY AppendElements DEF Sound, OriginatorType
<1>2. p \in OriginatorType /\ p.q = Append(q.q, f)
      /\ p.ag = q.ag /\ p.timeouts = q.timeouts /\ p.next = q.next /\ p.resets = q.resets
  BY <1>1 DEF Sound, OriginatorType
<1>3. \A i \in DOMAIN p.q : p.q[i] = f \/ (i \in DOMAIN q.q /\ p.q[i] = q.q[i])
  BY <1>1, <1>2, AppendElements
<1>4. /\ \A i \in DOMAIN q.q : i \in DOMAIN p.q /\ p.q[i] = q.q[i]
      /\ \E i \in DOMAIN p.q : p.q[i] = f
  BY <1>1, <1>2, AppendElements
<1> HIDE DEF p
<1>5. Sound(p)
  BY <1>2, <1>3 DEF Sound
<1>6. Waits(q) \/ f.kind = "request" => Waits(p)
  BY <1>2, <1>4 DEF Waits, HasRequest
<1> QED BY <1>5, <1>6 DEF p

\* The first frame of the queue leaves it.
LEMMA DequeueSound ==
    ASSUME NEW q, Sound(q), q.q # <<>>
    PROVE  /\ Sound(DequeueHead(q))
           /\ Waits(q) /\ Head(q.q).kind # "request" => Waits(DequeueHead(q))
           /\ DequeueHead(q).ag = q.ag /\ DequeueHead(q).timeouts = q.timeouts
<1> DEFINE p == DequeueHead(q)
<1>1. q.q \in Seq(MgtFrame) /\ Tail(q.q) \in Seq(MgtFrame)
  BY TailElements DEF Sound, OriginatorType
<1>2. p \in OriginatorType /\ p.q = Tail(q.q)
      /\ p.ag = q.ag /\ p.timeouts = q.timeouts /\ p.next = q.next /\ p.resets = q.resets
  BY <1>1 DEF Sound, OriginatorType, DequeueHead
<1>3. /\ Head(q.q) = q.q[1]
      /\ \A i \in DOMAIN p.q : i + 1 \in DOMAIN q.q /\ p.q[i] = q.q[i + 1]
      /\ \A i \in DOMAIN q.q : i = 1 \/ (i - 1 \in DOMAIN p.q /\ p.q[i - 1] = q.q[i])
  BY <1>1, <1>2, TailElements
<1> HIDE DEF p
<1>4. Sound(p)
  BY <1>2, <1>3 DEF Sound
<1>5. Waits(q) /\ Head(q.q).kind # "request" => Waits(p)
  BY <1>2, <1>3 DEF Waits, HasRequest
<1> QED BY <1>2, <1>4, <1>5 DEF p

\* The first frame of the queue is marked as received, or not, and tried again.
LEMMA MissedSound ==
    ASSUME NEW q, Sound(q), q.q # <<>>, NEW received \in BOOLEAN
    PROVE  Sound(Missed(q, received)) /\ (Waits(q) => Waits(Missed(q, received)))
<1> DEFINE f == Heard(Head(q.q), received)
           s == <<f>> \o Tail(q.q)
           p == Missed(q, received)
<1>1. /\ q.q \in Seq(MgtFrame) /\ Tail(q.q) \in Seq(MgtFrame)
      /\ Head(q.q) = q.q[1] /\ 1 \in DOMAIN q.q
      /\ Len(q.q) \in Nat /\ DOMAIN q.q = 1 .. Len(q.q)
  BY TailElements, SeqElements DEF Sound, OriginatorType
<1>2. q.q[1] \in MgtFrame
  BY <1>1, SeqElements
<1>3. f \in MgtFrame /\ f.kind = q.q[1].kind
  BY <1>1, <1>2 DEF MgtFrame, Heard
<1> HIDE DEF f
<1>4. /\ s \in Seq(MgtFrame) /\ DOMAIN s = 1 .. Len(q.q)
      /\ \A i \in 1 .. Len(q.q) : s[i] = IF i = 1 THEN f ELSE q.q[i]
  BY <1>1, <1>3
<1>5. \A i \in DOMAIN q.q : i \in DOMAIN s /\ s[i].kind = q.q[i].kind
  BY <1>1, <1>3, <1>4
<1>6. DOMAIN s = DOMAIN q.q
  BY <1>1, <1>4
<1> HIDE DEF s
<1>7. p \in OriginatorType /\ p.q = s
      /\ p.ag = q.ag /\ p.timeouts = q.timeouts /\ p.next = q.next /\ p.resets = q.resets
  <2>1. p = [q EXCEPT !.ssrc = @ + 1, !.q = s]
    BY DEF Missed, s, f
  <2> QED BY <1>4, <2>1, Fields DEF Sound, OriginatorType
<1> HIDE DEF p
<1>8. Sound(p)
  BY <1>5, <1>6, <1>7 DEF Sound
<1>9. Waits(q) => Waits(p)
  BY <1>5, <1>7 DEF Waits, HasRequest
<1> QED BY <1>8, <1>9 DEF p

\* Creating an agreement: nothing waits until the request is queued.
LEMMA CreateSound ==
    ASSUME NEW q, Sound(q)
    PROVE  Sound(CreateOriginatorAgreement(q)) /\ CreateOriginatorAgreement(q).q = q.q
<1> DEFINE p == CreateOriginatorAgreement(q)
<1>1. p \in OriginatorType /\ p.q = q.q /\ p.ag = "PENDING" /\ p.next = q.next
  <2> DEFINE r == ReplaceTimer(q, FALSE)
  <2>1. r \in OriginatorType /\ r.q = q.q /\ r.next = q.next
    BY ReplaceTimerType DEF Sound
  <2>2. p = [r EXCEPT !.ag = "PENDING", !.blocked = TRUE]
    BY DEF CreateOriginatorAgreement
  <2> HIDE DEF r
  <2> QED BY <2>1, <2>2 DEF OriginatorType
<1> HIDE DEF p
<1>2. Sound(p)
  BY <1>1 DEF Sound
<1> QED BY <1>1, <1>2 DEF p

\* An agreement that is gone neither waits nor needs a reset.
LEMMA DestroySound ==
    ASSUME NEW q, Sound(q)
    PROVE  /\ Sound(DestroyOriginatorAgreement(q)) /\ DestroyOriginatorAgreement(q).q = q.q
           /\ Waits(DestroyOriginatorAgreement(q))
<1> DEFINE p == DestroyOriginatorAgreement(q)
<1>1. p \in OriginatorType /\ p.q = q.q /\ p.ag = "none" /\ p.next = q.next
  BY DEF Sound, OriginatorType, DestroyOriginatorAgreement
<1> HIDE DEF p
<1>2. Sound(p) /\ Waits(p)
  BY <1>1 DEF Sound, Waits
<1> QED BY <1>1, <1>2 DEF p

\* An agreement that has failed is going to be reset.
LEMMA NoReplySound ==
    ASSUME NEW q, Sound(q)
    PROVE  Sound(NoReplyAndReset(q)) /\ Waits(NoReplyAndReset(q))
<1> DEFINE p == NoReplyAndReset(q)
<1>1. p \in OriginatorType /\ p.q = q.q /\ p.ag = "NO_REPLY" /\ p.next = q.next
      /\ q.resets \in Nat /\ p.resets = q.resets + 1
  BY Fields DEF Sound, OriginatorType, NoReplyAndReset, NotifyOriginatorAgreementNoReply
<1> HIDE DEF p
<1>2. Sound(p) /\ Waits(p)
  BY <1>1 DEF Sound, Waits
<1> QED BY <1>2 DEF p

\* A response ends the wait.
LEMMA ResponseSound ==
    ASSUME NEW q, Sound(q)
    PROVE  Sound(GotAddBaResponse(q)) /\ Waits(GotAddBaResponse(q))
<1> DEFINE p == GotAddBaResponse(q)
<1>1. StartingSeq(q) \in SeqNo
  BY StartingSeqType DEF Sound
<1>2. p \in OriginatorType /\ p.q = q.q /\ p.ag \in {"none", "ESTABLISHED"} /\ p.next = q.next
  <2>1. CASE q.ag = "none"
    BY <2>1 DEF Sound, OriginatorType, GotAddBaResponse
  <2>2. CASE q.ag # "none"
    <3> DEFINE r == ReplaceTimer(q, InactivityOn)
               start == StartingSeq(q)
    <3>1. r \in OriginatorType /\ r.q = q.q /\ r.next = q.next
      BY ReplaceTimerType, Fields DEF Sound
    <3>2. p = [r EXCEPT !.ag = "ESTABLISHED", !.blocked = FALSE, !.start = start]
      BY <2>2 DEF GotAddBaResponse
    <3>3. start \in SeqNo
      BY <1>1
    <3> HIDE DEF r, start
    <3> QED BY <3>1, <3>2, <3>3 DEF OriginatorType
  <2> QED BY <2>1, <2>2
<1> HIDE DEF p
<1>3. Sound(p) /\ Waits(p)
  BY <1>2 DEF Sound, Waits
<1> QED BY <1>3 DEF p

\* Any frame of the recipient may come.
LEMMA ReceiveSound ==
    ASSUME NEW q, Sound(q), NEW f
    PROVE  Sound(OriginatorReceives(q, f)) /\ (Waits(q) => Waits(OriginatorReceives(q, f)))
BY ResponseSound, DestroySound DEF OriginatorReceives

\* An acknowledged request is waited for; an acknowledged DELBA ends the agreement.
LEMMA GotAckSound ==
    ASSUME NEW q, Sound(q), q.q # <<>>
    PROVE  Sound(OriginatorGotAck(q)) /\ Waits(OriginatorGotAck(q))
<1>1. Head(q.q).kind \in {"request", "delbaO"}
  BY TailElements DEF Sound, OriginatorType
<1>2. CASE Head(q.q).kind = "request"
  <2> DEFINE d == DequeueHead(q)
             p == [d EXCEPT !.timeouts = @ + 1]
  <2>1. OriginatorGotAck(q) = p
    BY <1>2 DEF OriginatorGotAck
  <2>2. Sound(d)
    BY DequeueSound
  <2> HIDE DEF d
  <2>3. p \in OriginatorType /\ p.q = d.q /\ p.ag = d.ag /\ p.next = d.next /\ p.resets = d.resets
        /\ p.timeouts > 0
    BY <2>2, Fields DEF Sound, OriginatorType
  <2> HIDE DEF p
  <2>4. Sound(p) /\ Waits(p)
    BY <2>2, <2>3 DEF Sound, Waits
  <2> QED BY <2>1, <2>4
<1>3. CASE Head(q.q).kind = "delbaO"
  <2> DEFINE d == DestroyOriginatorAgreement(q)
  <2>1. Sound(d) /\ d.q = q.q /\ Waits(d)
    BY DestroySound
  <2>2. OriginatorGotAck(q) = DequeueHead(d)
    BY <1>3 DEF OriginatorGotAck
  <2> HIDE DEF d
  <2>3. Sound(DequeueHead(d)) /\ Waits(DequeueHead(d))
    BY <1>3, <2>1, DequeueSound
  <2> QED BY <2>2, <2>3
<1> QED BY <1>1, <1>2, <1>3

\* A discarded request is a failed one.
LEMMA DiscardSound ==
    ASSUME NEW q, Sound(q), q.q # <<>>
    PROVE  Sound(OriginatorDiscards(q)) /\ (Waits(q) => Waits(OriginatorDiscards(q)))
<1>1. /\ Sound(DequeueHead(q)) /\ DequeueHead(q).ag = q.ag
      /\ Waits(q) /\ Head(q.q).kind # "request" => Waits(DequeueHead(q))
  BY DequeueSound
<1>2. q.ag # "PENDING" => Waits(DequeueHead(q))
  BY <1>1 DEF Waits
<1>3. Sound(NoReplyAndReset(DequeueHead(q))) /\ Waits(NoReplyAndReset(DequeueHead(q)))
  BY <1>1, NoReplySound
<1> QED BY <1>1, <1>2, <1>3 DEF OriginatorDiscards

\* A data MPDU is served, and what becomes of it is recorded.
LEMMA ServeSound ==
    ASSUME NEW q, Sound(q), q.cur # 0 \/ q.next < InitSeq + MaxData
    PROVE  /\ Sound(Serve(q)) /\ (Waits(q) => Waits(Serve(q)))
           /\ Serve(q).cur \in Data
<1>1. CASE q.cur # 0
  BY <1>1 DEF Serve, Sound, OriginatorType
<1>2. CASE q.cur = 0
  <2> DEFINE p == Serve(q)
  <2>1. q.next \in Data /\ q.next \in Nat /\ q.next + 1 \in Nat
        /\ InitSeq <= q.next + 1 /\ q.next + 1 <= InitSeq + MaxData
    BY <1>2, DataType DEF Sound, OriginatorType, Data
  <2>2. p = [q EXCEPT !.cur = q.next, !.next = q.next + 1]
    BY <1>2 DEF Serve
  <2>3. p \in OriginatorType /\ p.q = q.q /\ p.ag = q.ag /\ p.timeouts = q.timeouts
        /\ p.next = q.next + 1 /\ p.resets = q.resets /\ p.cur = q.next
    BY <2>1, <2>2 DEF Sound, OriginatorType
  <2> HIDE DEF p
  <2>4. Sound(p) /\ (Waits(q) => Waits(p))
    BY <2>1, <2>3 DEF Sound, Waits, HasRequest
  <2> QED BY <2>1, <2>3, <2>4 DEF p
<1> QED BY <1>1, <1>2

\* Fields the invariant is not about.
LEMMA OtherFields ==
    ASSUME NEW q, Sound(q), NEW p \in OriginatorType, p.q = q.q, p.ag = q.ag,
           p.next = q.next, p.resets = q.resets
    PROVE  Sound(p) /\ (p.timeouts = q.timeouts /\ Waits(q) => Waits(p))
BY DEF Sound, Waits, HasRequest

\* What becomes of a data MPDU does not matter to the agreement.
LEMMA DataSound ==
    ASSUME NEW q, Sound(q), NEW ssrc \in Nat, NEW cur \in Data \union {0},
           NEW retry \in SUBSET Data
    PROVE  /\ Sound([q EXCEPT !.ssrc = ssrc, !.cur = cur, !.retry = retry])
           /\ Waits(q) => Waits([q EXCEPT !.ssrc = ssrc, !.cur = cur, !.retry = retry])
<1> DEFINE p == [q EXCEPT !.ssrc = ssrc, !.cur = cur, !.retry = retry]
<1>1. p \in OriginatorType /\ p.q = q.q /\ p.ag = q.ag /\ p.next = q.next /\ p.resets = q.resets
      /\ p.timeouts = q.timeouts
  BY DEF Sound, OriginatorType
<1> HIDE DEF p
<1> QED BY <1>1, OtherFields DEF p

\* A timer that fires during the wait ends it.
LEMMA TimeoutSound ==
    ASSUME Sound(o), AddBaResponseTimeout PROVE Sound(o') /\ (Waits(o) => Waits(o'))
<1> DEFINE q == [o EXCEPT !.timeouts = @ - 1]
<1>1. o.timeouts \in Nat /\ o.timeouts > 0
  BY DEF AddBaResponseTimeout, Sound, OriginatorType
<1>2. o' = IF q.ag = "PENDING" THEN NoReplyAndReset(q) ELSE q
  BY DEF AddBaResponseTimeout
<1>3. q \in OriginatorType /\ q.q = o.q /\ q.ag = o.ag /\ q.next = o.next /\ q.resets = o.resets
  BY <1>1 DEF Sound, OriginatorType
<1> HIDE DEF q
<1>4. Sound(q)
  BY <1>3, OtherFields
<1> QED BY <1>2, <1>4, NoReplySound DEF Waits

\* A reset is used up only when no agreement is left in state NO_REPLY.
LEMMA ResetSound ==
    ASSUME Sound(o), ResetBa PROVE Sound(o') /\ (Waits(o) => Waits(o'))
<1>1. o.resets \in Nat /\ o.resets > 0
  BY DEF ResetBa, Sound, OriginatorType
<1> DEFINE q == [o EXCEPT !.resets = @ - 1]
<1>2. o' = IF q.ag \in {"none", "ESTABLISHED"} THEN q ELSE [q EXCEPT !.ag = "RESET"]
  BY DEF ResetBa
<1>3. q \in OriginatorType /\ q.q = o.q /\ q.ag = o.ag /\ q.next = o.next
  <2>1. o \in OriginatorType /\ o.resets - 1 \in Nat
    BY <1>1 DEF Sound
  <2>2. q \in OriginatorType
    BY <2>1 DEF OriginatorType
  <2> QED BY <2>1, <2>2 DEF OriginatorType
<1> HIDE DEF q
<1>4. o' \in OriginatorType /\ o'.q = o.q /\ o'.next = o.next /\ o'.ag \in {"none", "ESTABLISHED", "RESET"}
  BY <1>2, <1>3 DEF OriginatorType
<1>5. /\ InitSeq <= o.next /\ o.next <= InitSeq + MaxData
      /\ \A i \in DOMAIN o.q : o.q[i].kind \in {"request", "delbaO"}
  BY DEF Sound
<1>6. o'.ag # "PENDING" /\ o'.ag # "NO_REPLY"
  BY <1>4
<1>7. Waits(o')
  BY <1>6 DEF Waits
<1>8. Sound(o')
  BY <1>4, <1>5, <1>6 DEF Sound
<1> QED BY <1>7, <1>8

\* An inactivity event queues a DELBA.
LEMMA InactivitySound ==
    ASSUME Sound(o), OriginatorInactivityTimeout PROVE Sound(o') /\ (Waits(o) => Waits(o'))
<1> DEFINE f == NewFrame("delbaO", 0)
           q == [o EXCEPT !.timer = FALSE]
           r == [o EXCEPT !.stale = @ - 1]
<1>1. f \in MgtFrame /\ f.kind = "delbaO"
  BY NewFrameType, DataType
<1>2. \/ o' = [q EXCEPT !.q = Append(@, f)]
      \/ o.stale > 0 /\ o' = [r EXCEPT !.q = Append(@, f)]
  BY DEF OriginatorInactivityTimeout, Sound, OriginatorType
<1>3. Sound(q) /\ (Waits(o) => Waits(q))
  <2>1. q \in OriginatorType /\ q.q = o.q /\ q.ag = o.ag /\ q.next = o.next /\ q.resets = o.resets
        /\ q.timeouts = o.timeouts
    BY DEF Sound, OriginatorType
  <2> HIDE DEF q
  <2> QED BY <2>1, OtherFields
<1>4. o.stale > 0 => Sound(r) /\ (Waits(o) => Waits(r))
  <2> SUFFICES ASSUME o.stale > 0 PROVE Sound(r) /\ (Waits(o) => Waits(r))
    OBVIOUS
  <2>1. o.stale - 1 \in Nat
    BY DEF Sound, OriginatorType
  <2>2. r \in OriginatorType /\ r.q = o.q /\ r.ag = o.ag /\ r.next = o.next /\ r.resets = o.resets
        /\ r.timeouts = o.timeouts
    BY <2>1 DEF Sound, OriginatorType
  <2> HIDE DEF r
  <2> QED BY <2>2, OtherFields
<1> HIDE DEF f, q, r
<1> QED BY <1>1, <1>2, <1>3, <1>4, EnqueueSound

\* A frame that expires breaks the wait, but not the reset.
LEMMA ExpirySound == ASSUME Sound(o), FrameExpires PROVE Sound(o')
<1>1. CASE o.q # <<>> /\ o' = [o EXCEPT !.q = Tail(@)]
  <2>1. o.q \in Seq(MgtFrame)
    BY DEF Sound, OriginatorType
  <2>2. /\ Tail(o.q) \in Seq(MgtFrame)
        /\ \A i \in DOMAIN Tail(o.q) : i + 1 \in DOMAIN o.q /\ Tail(o.q)[i] = o.q[i + 1]
    BY <1>1, <2>1, TailElements
  <2>3. o' \in OriginatorType /\ o'.q = Tail(o.q) /\ o'.ag = o.ag /\ o'.next = o.next
        /\ o'.resets = o.resets
    BY <1>1, <2>2 DEF Sound, OriginatorType
  <2> QED BY <2>2, <2>3 DEF Sound
<1>2. CASE o' = [o EXCEPT !.cur = 0]
  <2>1. o' \in OriginatorType /\ o'.q = o.q /\ o'.ag = o.ag /\ o'.next = o.next
        /\ o'.resets = o.resets
    BY <1>2 DEF Sound, OriginatorType
  <2> QED BY <2>1, OtherFields
<1> QED BY <1>1, <1>2 DEF FrameExpires

-----------------------------------------------------------------------------
\* No agreement, no frame.
LEMMA InitInv == Init => IInv
<1> SUFFICES ASSUME Init PROVE IInv
  OBVIOUS
<1>1. o \in OriginatorType
  BY DataType DEF Init, OriginatorType
<1>2. Sound(o) /\ Waits(o)
  BY <1>1, DataType DEF Init, Sound, Waits
<1> QED BY <1>2 DEF Init, IInv

\* Every step preserves the invariant.
LEMMA NextInv == IInv /\ [Next]_vars => IInv'
<1> SUFFICES ASSUME IInv, [Next]_vars
             PROVE  Sound(o') /\ (RequestsAreKept => Waits(o')) /\ requests' \in Nat
  BY DEF IInv, RequestsAreKept, Sound, Waits, HasRequest
<1> USE DEF IInv
<1>1. CASE SendAddBaRequest
  <2> DEFINE c == CreateOriginatorAgreement(o)
             f == NewFrame("request", StartingSeq(o))
  <2>1. f \in MgtFrame /\ f.kind = "request"
    BY NewFrameType, StartingSeqType DEF Sound
  <2>2. Sound(c)
    BY CreateSound
  <2>3. o' = [c EXCEPT !.q = Append(@, f)] /\ requests' = requests + 1
    BY <1>1 DEF SendAddBaRequest
  <2> HIDE DEF c, f
  <2> QED BY <2>1, <2>2, <2>3, EnqueueSound
<1>2. CASE SendAddBaRequestTooLong
  BY <1>2, CreateSound DEF SendAddBaRequestTooLong, RequestsAreKept
<1>3. CASE DataAcked
  <2> DEFINE q == Serve(o)
  <2>1. Sound(q) /\ (Waits(o) => Waits(q))
    BY <1>3, ServeSound DEF DataAcked, NormalAckData, MayServeData
  <2>2. o' = [q EXCEPT !.cur = 0, !.ssrc = 0] /\ requests' = requests
    BY <1>3 DEF DataAcked
  <2> HIDE DEF q
  <2>3. o' = [q EXCEPT !.ssrc = 0, !.cur = 0, !.retry = q.retry] /\ q.retry \in SUBSET Data
    BY <2>1, <2>2 DEF Sound, OriginatorType
  <2>4. Sound(o') /\ (Waits(q) => Waits(o'))
    BY <2>1, <2>3, DataSound
  <2> QED BY <2>1, <2>2, <2>4
<1>4. CASE DataMissed
  <2> DEFINE q == Serve(o)
  <2>1. Sound(q) /\ (Waits(o) => Waits(q)) /\ q.cur \in Data
    BY <1>4, ServeSound DEF DataMissed, NormalAckData, MayServeData
  <2>2. /\ requests' = requests
        /\ \/ o' = [q EXCEPT !.ssrc = @ + 1, !.retry = @ \union {q.cur}]
           \/ o' = [q EXCEPT !.ssrc = 0, !.cur = 0]
    BY <1>4 DEF DataMissed
  <2> HIDE DEF q
  <2>3. q.ssrc + 1 \in Nat /\ q.retry \in SUBSET Data /\ (q.retry \union {q.cur}) \in SUBSET Data
    BY <2>1, Fields DEF Sound, OriginatorType
  <2>4. \/ o' = [q EXCEPT !.ssrc = q.ssrc + 1, !.cur = q.cur, !.retry = q.retry \union {q.cur}]
        \/ o' = [q EXCEPT !.ssrc = 0, !.cur = 0, !.retry = q.retry]
    BY <2>1, <2>2 DEF Sound, OriginatorType
  <2>5. Sound(o') /\ (Waits(q) => Waits(o'))
    <3> DEFINE ssrc == q.ssrc + 1
               retry == q.retry \union {q.cur}
    <3>1. ssrc \in Nat /\ retry \in SUBSET Data
      BY <2>3
    <3>2. CASE o' = [q EXCEPT !.ssrc = ssrc, !.cur = q.cur, !.retry = retry]
      <4> HIDE DEF ssrc, retry
      <4> QED BY <2>1, <3>1, <3>2, DataSound
    <3>3. CASE o' = [q EXCEPT !.ssrc = 0, !.cur = 0, !.retry = q.retry]
      BY <2>1, <2>3, <3>3, DataSound
    <3> QED BY <2>4, <3>2, <3>3
  <2> QED BY <2>1, <2>2, <2>5
<1>5. CASE OriginatorFrameAcked
  BY <1>5, GotAckSound DEF OriginatorFrameAcked
<1>6. CASE OriginatorFrameMissed
  BY <1>6, MissedSound, DiscardSound DEF OriginatorFrameMissed
<1>7. CASE RecipientFrameAcked
  BY <1>7, ReceiveSound DEF RecipientFrameAcked
<1>8. CASE RecipientFrameMissed
  BY <1>8, ReceiveSound DEF RecipientFrameMissed
<1>9. CASE AddBaResponseTimeout
  BY <1>9, TimeoutSound DEF AddBaResponseTimeout
<1>10. CASE ResetBa
  BY <1>10, ResetSound DEF ResetBa
<1>11. CASE OriginatorInactivityTimeout
  BY <1>11, InactivitySound DEF OriginatorInactivityTimeout
<1>12. CASE RecipientInactivityTimeout
  BY <1>12 DEF RecipientInactivityTimeout
<1>13. CASE FrameExpires
  <2>1. CASE UNCHANGED o
    BY <1>13, <2>1 DEF FrameExpires, RequestsAreKept
  <2>2. CASE ~ UNCHANGED o
    BY <1>13, <2>2, ExpirySound DEF FrameExpires, RequestsAreKept
  <2> QED BY <2>1, <2>2
<1>14. CASE UNCHANGED vars
  BY <1>14 DEF vars
<1> QED BY <1>1, <1>2, <1>3, <1>4, <1>5, <1>6, <1>7, <1>8, <1>9, <1>10, <1>11, <1>12, <1>13,
           <1>14 DEF Next

\* The inductive invariant holds in every reachable state.
THEOREM Invariance == Spec => []IInv
BY InitInv, NextInv, PTL DEF Spec

\* An agreement in state NO_REPLY always has a ResetBa event coming, so that setup
\* is tried again: whatever is lost, late, expired or torn down.
THEOREM FailedSetupIsReset == Spec => []NoReplyIsReset
<1>1. IInv => NoReplyIsReset
  BY DEF IInv, Sound, NoReplyIsReset
<1> QED BY <1>1, Invariance, PTL

\* An agreement in state PENDING waits for something: its request is still to be
\* acknowledged or discarded, or the timer of the response runs; provided that
\* requests do not expire in the queue and always fit in a TXOP.
THEOREM PendingAgreementWaits == ASSUME RequestsAreKept PROVE Spec => []PendingIsWaiting
<1>1. IInv => PendingIsWaiting
  BY DEF IInv, Waits, HasRequest, PendingIsWaiting, RequestQueued
<1> QED BY <1>1, Invariance, PTL

-----------------------------------------------------------------------------
(* The recipient: its types, and the single response in its queue.         *)

RecipientFrame == {f \in MgtFrame : f.kind \in {"response", "delbaR"}}

RecipientState ==
    [has : BOOLEAN, rx : RecipientRecord(Data), q : Seq(RecipientFrame), ssrc : Nat, timer : BOOLEAN,
     stale : Nat, pending : BOOLEAN]

NoResponse(q) == \A i \in DOMAIN q : q[i].kind # "response"

OneResponse(q) ==
    \A i, j \in DOMAIN q : q[i].kind = "response" /\ q[j].kind = "response" => i = j

\* A response in the queue is the one m_pendingAddBaResp has.
Tidy(p) ==
    /\ p \in RecipientState /\ RecipientOK(p.rx, Data)
    /\ OneResponse(p.q)
    /\ NoResponse(p.q) \/ p.pending

\* What the other variables may be.
HistoryType == requests \in 0 .. MaxRequests /\ acked \subseteq Data /\ failure \in BOOLEAN

RInv == Tidy(rcp) /\ HistoryType

LEMMA RecipientStateFields ==
    ASSUME NEW p \in RecipientState
    PROVE  /\ {p.has, p.timer, p.pending} \subseteq BOOLEAN /\ p.q \in Seq(RecipientFrame)
           /\ p.ssrc \in Nat /\ p.ssrc + 1 \in Nat /\ p.stale \in Nat /\ p.stale + 1 \in Nat
           /\ p.rx \in RecipientRecord(Data)
BY DEF RecipientState

\* A sequence over a set is one over any larger set.
LEMMA SeqMonotonic == ASSUME NEW S, NEW T, S \subseteq T, NEW q \in Seq(S) PROVE q \in Seq(T)
BY SeqElements

\* A data MPDU as the recipient sees it.
LEMMA DataFrame ==
    ASSUME NEW n \in Data PROVE [id |-> n, sn |-> SnOf(n)] \in Frames(Data)
BY DataType, SnOfType DEF Frames

\* The queue with its head removed.
LEMMA TailTidy ==
    ASSUME NEW q \in Seq(RecipientFrame), q # <<>>, OneResponse(q)
    PROVE  /\ Tail(q) \in Seq(RecipientFrame) /\ OneResponse(Tail(q))
           /\ NoResponse(q) => NoResponse(Tail(q))
           /\ Head(q).kind = "response" => NoResponse(Tail(q))
<1>1. /\ Tail(q) \in Seq(RecipientFrame) /\ Head(q) = q[1] /\ 1 \in DOMAIN q
      /\ \A i \in DOMAIN Tail(q) : i + 1 \in DOMAIN q /\ Tail(q)[i] = q[i + 1]
      /\ DOMAIN Tail(q) \subseteq Nat \ {0}
  <2>1. Tail(q) \in Seq(RecipientFrame)
    BY TailElements
  <2>2. DOMAIN Tail(q) = 1 .. Len(Tail(q)) /\ Len(Tail(q)) \in Nat
    BY <2>1, SeqElements
  <2> QED BY <2>2, TailElements
<1> DEFINE s == Tail(q)
<1> HIDE DEF s
<1>2. /\ s \in Seq(RecipientFrame) /\ Head(q) = q[1] /\ 1 \in DOMAIN q
      /\ \A i \in DOMAIN s : i + 1 \in DOMAIN q /\ s[i] = q[i + 1] /\ i \in Nat /\ i # 0
  BY <1>1 DEF s
<1>3. OneResponse(s)
  BY <1>2 DEF OneResponse
<1>4. NoResponse(q) => NoResponse(s)
  BY <1>2 DEF NoResponse
<1>5. Head(q).kind = "response" => NoResponse(s)
  BY <1>2 DEF OneResponse, NoResponse
<1> QED BY <1>2, <1>3, <1>4, <1>5 DEF s

\* A frame is added to the queue.
LEMMA AppendTidy ==
    ASSUME NEW q \in Seq(RecipientFrame), OneResponse(q), NEW f \in RecipientFrame
    PROVE  /\ Append(q, f) \in Seq(RecipientFrame)
           /\ f.kind # "response" => OneResponse(Append(q, f))
           /\ f.kind # "response" /\ NoResponse(q) => NoResponse(Append(q, f))
           /\ NoResponse(q) => OneResponse(Append(q, f))
<1>1. /\ Append(q, f) \in Seq(RecipientFrame) /\ DOMAIN Append(q, f) = 1 .. (Len(q) + 1)
      /\ DOMAIN q = 1 .. Len(q) /\ Len(q) \in Nat
      /\ \A i \in 1 .. (Len(q) + 1) : Append(q, f)[i] = IF i = Len(q) + 1 THEN f ELSE q[i]
  OBVIOUS
<1> DEFINE s == Append(q, f)
<1> HIDE DEF s
<1>2. /\ s \in Seq(RecipientFrame) /\ DOMAIN s = 1 .. (Len(q) + 1)
      /\ \A i \in DOMAIN s : \/ i = Len(q) + 1 /\ s[i] = f
                             \/ i \in DOMAIN q /\ s[i] = q[i]
  BY <1>1 DEF s
<1>3. f.kind # "response" => OneResponse(s)
  BY <1>2 DEF OneResponse
<1>4. f.kind # "response" /\ NoResponse(q) => NoResponse(s)
  BY <1>2 DEF NoResponse
<1>5. NoResponse(q) => OneResponse(s)
  BY <1>2 DEF OneResponse, NoResponse
<1> QED BY <1>2, <1>3, <1>4, <1>5 DEF s

\* Removing the last response leaves none.
LEMMA DequeueResponseTidy ==
    ASSUME NEW q \in Seq(RecipientFrame), OneResponse(q)
    PROVE  DequeueResponse(q) \in Seq(RecipientFrame) /\ NoResponse(DequeueResponse(q))
<1> DEFINE R == {i \in DOMAIN q : q[i].kind = "response"}
<1>1. CASE R = {}
  BY <1>1 DEF DequeueResponse, NoResponse
<1>2. CASE R # {}
  <2> DEFINE m == Max(R)
             s == RemoveAt(q, m)
  <2>1. Len(q) \in Nat /\ DOMAIN q = 1 .. Len(q)
    BY SeqElements
  <2>2. R \in SUBSET Nat /\ \A i \in R : i <= Len(q)
    BY <2>1
  <2>3. m \in R
    <3> HIDE DEF R
    <3> QED BY <1>2, <2>1, <2>2, MaxIsGreatest
  <2>4. DequeueResponse(q) = s
    BY <1>2 DEF DequeueResponse
  <2> HIDE DEF m
  <2>5. m \in DOMAIN q /\ q[m].kind = "response"
    BY <2>3
  <2>6. /\ s \in Seq(RecipientFrame)
        /\ \A k \in DOMAIN s : \E j \in DOMAIN q : j # m /\ s[k] = q[j]
    BY <2>5, RemoveAtElements
  <2> HIDE DEF s
  <2>7. NoResponse(s)
    BY <2>5, <2>6 DEF OneResponse, NoResponse
  <2> QED BY <2>4, <2>6, <2>7
<1> QED BY <1>1, <1>2

\* The head of the queue is marked as received, or not, and tried again.
LEMMA RetryTidy ==
    ASSUME NEW q \in Seq(RecipientFrame), q # <<>>, OneResponse(q), NEW received \in BOOLEAN
    PROVE  /\ <<Heard(Head(q), received)>> \o Tail(q) \in Seq(RecipientFrame)
           /\ OneResponse(<<Heard(Head(q), received)>> \o Tail(q))
           /\ NoResponse(q) => NoResponse(<<Heard(Head(q), received)>> \o Tail(q))
<1> DEFINE f == Heard(Head(q), received)
           s == <<f>> \o Tail(q)
<1>1. /\ Tail(q) \in Seq(RecipientFrame) /\ Head(q) = q[1] /\ 1 \in DOMAIN q
      /\ Len(q) \in Nat /\ DOMAIN q = 1 .. Len(q)
  BY TailElements, SeqElements
<1>2. f \in RecipientFrame /\ f.kind = q[1].kind
  <2>1. q[1] \in RecipientFrame
    BY <1>1, SeqElements
  <2> QED BY <1>1, <2>1 DEF MgtFrame, RecipientFrame, Heard
<1> HIDE DEF f
<1>3. /\ s \in Seq(RecipientFrame) /\ DOMAIN s = 1 .. Len(q)
      /\ \A i \in 1 .. Len(q) : s[i] = IF i = 1 THEN f ELSE q[i]
  BY <1>1, <1>2
<1> HIDE DEF s
<1>4. DOMAIN s = DOMAIN q /\ \A i \in DOMAIN q : s[i].kind = q[i].kind
  BY <1>1, <1>2, <1>3
<1>5. OneResponse(s) /\ (NoResponse(q) => NoResponse(s))
  BY <1>4 DEF OneResponse, NoResponse
<1> QED BY <1>3, <1>5 DEF s, f

\* The fields of the recipient that decide whether it is tidy.
LEMMA TidyFields ==
    ASSUME NEW p, Tidy(p), NEW r \in RecipientState, r.rx = p.rx, r.q = p.q,
           p.pending => r.pending
    PROVE  Tidy(r)
BY DEF Tidy

\* The record of the agreement is replaced.
LEMMA RxTidy ==
    ASSUME NEW p, Tidy(p), NEW rx, RecipientOK(rx, Data) PROVE Tidy([p EXCEPT !.rx = rx])
<1> DEFINE r == [p EXCEPT !.rx = rx]
<1>1. r \in RecipientState /\ r.rx = rx /\ r.q = p.q /\ r.pending = p.pending
  BY DEF Tidy, RecipientState, RecipientOK
<1> HIDE DEF r
<1>2. Tidy(r)
  BY <1>1 DEF Tidy
<1> QED BY <1>2 DEF r

\* The agreement goes.
LEMMA GoneTidy ==
    ASSUME NEW p, Tidy(p), NEW rx, RecipientOK(rx, Data)
    PROVE  Tidy([p EXCEPT !.has = FALSE, !.timer = FALSE, !.rx = rx])
<1> DEFINE r == [p EXCEPT !.has = FALSE, !.timer = FALSE, !.rx = rx]
<1>1. r \in RecipientState /\ r.rx = rx /\ r.q = p.q /\ r.pending = p.pending
  BY DEF Tidy, RecipientState, RecipientOK
<1> HIDE DEF r
<1>2. Tidy(r)
  BY <1>1 DEF Tidy
<1> QED BY <1>1, <1>2 DEF r

\* The queue is replaced, and with it the counter of retransmissions.
LEMMA QueueTidy ==
    ASSUME NEW p, Tidy(p), NEW q \in Seq(RecipientFrame), OneResponse(q), NEW ssrc \in Nat,
           NoResponse(q) \/ p.pending
    PROVE  /\ Tidy([p EXCEPT !.q = q]) /\ Tidy([p EXCEPT !.q = q, !.ssrc = ssrc])
           /\ Tidy([p EXCEPT !.ssrc = ssrc, !.q = q])
<1> DEFINE r == [p EXCEPT !.q = q]
           s == [p EXCEPT !.q = q, !.ssrc = ssrc]
<1>1. r \in RecipientState /\ r.rx = p.rx /\ r.q = q /\ r.pending = p.pending
  BY DEF Tidy, RecipientState
<1>2. s \in RecipientState /\ s.rx = p.rx /\ s.q = q /\ s.pending = p.pending
      /\ [p EXCEPT !.ssrc = ssrc, !.q = q] = s
  BY DEF Tidy, RecipientState
<1> HIDE DEF r, s
<1>3. Tidy(r) /\ Tidy(s)
  BY <1>1, <1>2 DEF Tidy
<1> QED BY <1>2, <1>3 DEF r, s

\* The head of the queue leaves it.
LEMMA DequeueTidy ==
    ASSUME NEW p, Tidy(p), p.q # <<>>
    PROVE  /\ Tidy(DequeueHead(p))
           /\ Head(p.q).kind = "response" => Tidy([DequeueHead(p) EXCEPT !.pending = FALSE])
<1> DEFINE s == Tail(p.q)
           r == [p EXCEPT !.q = s, !.ssrc = 0]
<1>1. /\ s \in Seq(RecipientFrame) /\ OneResponse(s) /\ (NoResponse(p.q) => NoResponse(s))
      /\ Head(p.q).kind = "response" => NoResponse(s)
  BY TailTidy, RecipientStateFields DEF Tidy
<1>2. DequeueHead(p) = r
  BY DEF DequeueHead, Tidy, RecipientState
<1> HIDE DEF s
<1>3. Tidy(r) /\ r \in RecipientState /\ r.q = s
  <2>1. NoResponse(s) \/ p.pending
    BY <1>1 DEF Tidy
  <2> QED BY <1>1, <2>1, QueueTidy DEF Tidy, RecipientState
<1>4. Head(p.q).kind = "response" => Tidy([r EXCEPT !.pending = FALSE])
  <2> DEFINE u == [r EXCEPT !.pending = FALSE]
  <2>1. u \in RecipientState /\ u.q = r.q /\ u.rx = r.rx
    BY <1>3 DEF RecipientState
  <2> HIDE DEF r, u
  <2>2. Head(p.q).kind = "response" => Tidy(u)
    BY <1>1, <1>3, <2>1 DEF Tidy
  <2> QED BY <2>2 DEF u
<1> QED BY <1>2, <1>3, <1>4

\* Destroying an agreement flushes its buffer.
LEMMA DestroyTidy ==
    ASSUME NEW p, Tidy(p)
    PROVE  Tidy(DestroyRecipientAgreement(p)) /\ DestroyRecipientAgreement(p).q = p.q
<1>1. CASE p.has
  <2> DEFINE rx == Flush(p.rx, o.retry)
  <2>1. RecipientOK(rx, Data)
    BY FlushTyped DEF Tidy
  <2>2. DestroyRecipientAgreement(p) = [p EXCEPT !.has = FALSE, !.timer = FALSE, !.rx = rx]
    BY <1>1 DEF DestroyRecipientAgreement, Tidy, RecipientState
  <2>3. DestroyRecipientAgreement(p).q = p.q
    BY <2>2 DEF Tidy, RecipientState
  <2> HIDE DEF rx
  <2> QED BY <2>1, <2>2, <2>3, GoneTidy, ZenonT(60)
<1>2. CASE ~ p.has
  BY <1>2 DEF DestroyRecipientAgreement
<1> QED BY <1>1, <1>2

\* Data are buffered, or go to MacRxMiddle.
LEMMA DataTidy == ASSUME NEW p, Tidy(p), NEW n \in Data PROVE Tidy(ReceiveData(p, n))
<1> DEFINE f == [id |-> n, sn |-> SnOf(n)]
           rx == IF p.has THEN NotifyReceivedMpdu(p.rx, f, o.retry)
                 ELSE MacRxMiddleReceive(p.rx, <<f>>, o.retry)
<1>1. f \in Frames(Data) /\ RecipientOK(p.rx, Data)
  BY DataFrame DEF Tidy
<1>2. ReceiveData(p, n) = [p EXCEPT !.rx = rx]
  BY DEF ReceiveData, Tidy, RecipientState
<1> HIDE DEF f
<1>3. RecipientOK(rx, Data)
  BY <1>1, NotifyReceivedMpduTyped, ReceiveOneTyped
<1> HIDE DEF rx
<1> QED BY <1>2, <1>3, RxTidy

\* A request makes an agreement, and its response replaces the one queued.
LEMMA ResponseTidy ==
    ASSUME NEW p, Tidy(p), NEW start \in SeqNo PROVE Tidy(SendAddBaResponse(p, start))
<1> DEFINE q0 == IF p.pending THEN DequeueResponse(p.q) ELSE p.q
           q == Append(q0, NewFrame("response", 0))
           rx == NewRecipient(start, p.rx.lastSn, p.rx.up)
           stale == IF p.timer THEN p.stale + 1 ELSE p.stale
           r == [p EXCEPT !.stale = stale, !.timer = InactivityOn, !.has = TRUE, !.rx = rx,
                          !.pending = TRUE, !.q = q]
<1>1. q0 \in Seq(RecipientFrame) /\ NoResponse(q0)
  BY DequeueResponseTidy, RecipientStateFields DEF Tidy
<1>2. q \in Seq(RecipientFrame) /\ OneResponse(q)
  <2>1. NewFrame("response", 0) \in RecipientFrame
    BY NewFrameType, DataType DEF RecipientFrame
  <2>2. OneResponse(q0)
    BY <1>1 DEF NoResponse, OneResponse
  <2> HIDE DEF q0
  <2> QED BY <1>1, <2>1, <2>2, AppendTidy
<1>3. RecipientOK(rx, Data)
  BY NewRecipientTyped, RecipientFields DEF Tidy
<1>4. stale \in Nat /\ InactivityOn \in BOOLEAN
  BY RecipientStateFields, AgreementSetupAssumption DEF Tidy
<1>5. SendAddBaResponse(p, start) = r
  BY DEF SendAddBaResponse, ReplaceTimer, Tidy, RecipientState
<1> HIDE DEF q, rx, stale
<1>6. r \in RecipientState /\ r.q = q /\ r.rx = rx /\ r.pending = TRUE
  BY <1>2, <1>3, <1>4 DEF Tidy, RecipientState, RecipientOK
<1> HIDE DEF r
<1>7. Tidy(r)
  BY <1>2, <1>3, <1>6 DEF Tidy
<1> QED BY <1>5, <1>7

\* Any frame of the originator may come.
LEMMA ReceivesTidy ==
    ASSUME NEW p, Tidy(p), NEW f \in MgtFrame PROVE Tidy(RecipientReceives(p, f))
<1>1. f.start \in SeqNo
  BY DEF MgtFrame
<1> QED BY <1>1, ResponseTidy, DestroyTidy DEF RecipientReceives

\* The first frame of the recipient is acknowledged, or not.
LEMMA SentTidy ==
    ASSUME NEW p, Tidy(p), p.q # <<>>, NEW received \in BOOLEAN
    PROVE  Tidy(RecipientGotAck(p)) /\ Tidy(RecipientMissed(p, received))
<1>1. Tidy(RecipientGotAck(p))
  <2>0. Head(p.q).kind \in {"delbaR", "response"}
    <3>1. p.q \in Seq(RecipientFrame)
      BY RecipientStateFields DEF Tidy
    <3>2. Head(p.q) \in RecipientFrame
      BY <3>1, TailElements, SeqElements
    <3> QED BY <3>2 DEF RecipientFrame
  <2>1. Tidy(DestroyRecipientAgreement(p)) /\ DestroyRecipientAgreement(p).q = p.q
    BY DestroyTidy
  <2>2. Tidy(DequeueHead(DestroyRecipientAgreement(p)))
    BY <2>1, DequeueTidy
  <2>3. Head(p.q).kind = "response" => Tidy([DequeueHead(p) EXCEPT !.pending = FALSE])
    BY DequeueTidy
  <2> QED BY <2>0, <2>2, <2>3 DEF RecipientGotAck
<1>2. Tidy(Missed(p, received))
  <2> DEFINE q == <<Heard(Head(p.q), received)>> \o Tail(p.q)
  <2>1. q \in Seq(RecipientFrame) /\ OneResponse(q) /\ (NoResponse(p.q) => NoResponse(q))
    BY RetryTidy, RecipientStateFields DEF Tidy
  <2>2. Missed(p, received) = [p EXCEPT !.ssrc = p.ssrc + 1, !.q = q]
    BY DEF Missed, Tidy, RecipientState
  <2>3. p.ssrc + 1 \in Nat /\ (NoResponse(q) \/ p.pending)
    BY <2>1, RecipientStateFields DEF Tidy
  <2> DEFINE n == p.ssrc + 1
  <2> HIDE DEF q, n
  <2>4. Tidy([p EXCEPT !.ssrc = n, !.q = q])
    BY <2>1, <2>3, QueueTidy DEF n
  <2> QED BY <2>2, <2>4 DEF n
<1> QED BY <1>1, <1>2, DequeueTidy DEF RecipientMissed

\* Every step keeps the recipient tidy.
LEMMA NextTidy == IInv /\ RInv /\ [Next]_vars => RInv'
<1> SUFFICES ASSUME Sound(o), Tidy(rcp), HistoryType, [Next]_vars
             PROVE  Tidy(rcp') /\ HistoryType'
  BY DEF IInv, RInv, Tidy, RecipientState, OneResponse, NoResponse
<1>1. HistoryType'
  <2>1. failure \in BOOLEAN /\ requests \in 0 .. MaxRequests /\ acked \subseteq Data
        /\ MaxRequests \in Nat
    BY AgreementSetupAssumption DEF HistoryType
  <2>2. failure' \in BOOLEAN
    BY <2>1, Zenon DEF Next, SendAddBaRequest, SendAddBaRequestTooLong, DataAcked, DataMissed, OriginatorFrameAcked,
       OriginatorFrameMissed, RecipientFrameAcked, RecipientFrameMissed, AddBaResponseTimeout, ResetBa,
       OriginatorInactivityTimeout, RecipientInactivityTimeout, FrameExpires, vars
  <2>3. requests' \in 0 .. MaxRequests
    BY <2>1 DEF Next, SendAddBaRequest, SendAddBaRequestTooLong, DataAcked, DataMissed, OriginatorFrameAcked,
       OriginatorFrameMissed, RecipientFrameAcked, RecipientFrameMissed, AddBaResponseTimeout, ResetBa,
       OriginatorInactivityTimeout, RecipientInactivityTimeout, FrameExpires, vars, NeedSetupBlockAck
  <2>4. acked' \subseteq Data
    <3>1. DataAcked => Serve(o).cur \in Data /\ acked' = acked \union {Serve(o).cur}
      BY ServeSound DEF DataAcked, NormalAckData, MayServeData
    <3> QED BY <2>1, <3>1 DEF Next, SendAddBaRequest, SendAddBaRequestTooLong, DataMissed, OriginatorFrameAcked,
       OriginatorFrameMissed, RecipientFrameAcked, RecipientFrameMissed, AddBaResponseTimeout, ResetBa,
       OriginatorInactivityTimeout, RecipientInactivityTimeout, FrameExpires, vars
  <2> QED BY <2>2, <2>3, <2>4 DEF HistoryType
<1> SUFFICES Tidy(rcp')
  BY <1>1
<1>2. CASE DataAcked
  <2>1. Serve(o).cur \in Data /\ rcp' = ReceiveData(rcp, Serve(o).cur)
    BY <1>2, ServeSound DEF DataAcked, NormalAckData, MayServeData
  <2> QED BY <2>1, DataTidy
<1>3. CASE DataMissed
  <2>1. Serve(o).cur \in Data /\ rcp' \in {rcp, ReceiveData(rcp, Serve(o).cur)}
    BY <1>3, ServeSound DEF DataMissed, NormalAckData, MayServeData
  <2> QED BY <2>1, DataTidy
<1>4. CASE OriginatorFrameAcked \/ OriginatorFrameMissed
  <2>1. o.q # <<>> /\ rcp' \in {rcp, RecipientReceives(rcp, Head(o.q))}
    BY <1>4 DEF OriginatorFrameAcked, OriginatorFrameMissed
  <2>2. Head(o.q) \in MgtFrame
    BY <2>1, TailElements, SeqElements DEF Sound, OriginatorType
  <2> QED BY <2>1, <2>2, ReceivesTidy
<1>5. CASE RecipientFrameAcked
  BY <1>5, SentTidy DEF RecipientFrameAcked
<1>6. CASE RecipientFrameMissed
  BY <1>6, SentTidy DEF RecipientFrameMissed
<1>7. CASE RecipientInactivityTimeout
  <2> DEFINE q == Append(rcp.q, NewFrame("delbaR", 0))
             p == IF rcp.timer THEN [rcp EXCEPT !.timer = FALSE] ELSE rcp
             r == [rcp EXCEPT !.timer = FALSE, !.q = q]
             s == [rcp EXCEPT !.stale = @ - 1, !.q = q]
  <2>1. rcp' = r \/ (rcp.stale > 0 /\ rcp' = s)
    BY <1>7 DEF RecipientInactivityTimeout, Tidy, RecipientState
  <2>2. q \in Seq(RecipientFrame) /\ OneResponse(q) /\ (NoResponse(rcp.q) => NoResponse(q))
    <3>1. NewFrame("delbaR", 0) \in RecipientFrame /\ NewFrame("delbaR", 0).kind = "delbaR"
      BY NewFrameType, DataType DEF RecipientFrame
    <3> QED BY <3>1, AppendTidy, RecipientStateFields DEF Tidy
  <2> HIDE DEF q
  <2>3. r \in RecipientState /\ r.q = q /\ r.rx = rcp.rx /\ r.pending = rcp.pending
    BY <2>2 DEF Tidy, RecipientState
  <2>4. rcp.stale > 0 => s \in RecipientState /\ s.q = q /\ s.rx = rcp.rx /\ s.pending = rcp.pending
    <3>1. rcp.stale > 0 => rcp.stale - 1 \in Nat
      BY RecipientStateFields DEF Tidy
    <3> QED BY <2>2, <3>1 DEF Tidy, RecipientState
  <2> HIDE DEF r, s
  <2>5. Tidy(r) /\ (rcp.stale > 0 => Tidy(s))
    BY <2>2, <2>3, <2>4 DEF Tidy
  <2> QED BY <2>1, <2>5
<1>8. CASE FrameExpires
  <2>1. \/ rcp' = rcp
        \/ rcp.q # <<>> /\ rcp' = [rcp EXCEPT !.q = Tail(@)]
    BY <1>8 DEF FrameExpires
  <2>2. CASE rcp.q # <<>> /\ rcp' = [rcp EXCEPT !.q = Tail(@)]
    <3> DEFINE q == Tail(rcp.q)
    <3>1. q \in Seq(RecipientFrame) /\ OneResponse(q) /\ (NoResponse(rcp.q) => NoResponse(q))
      BY <2>2, TailTidy, RecipientStateFields DEF Tidy
    <3>2. rcp' = [rcp EXCEPT !.q = q]
      BY <2>2 DEF Tidy, RecipientState
    <3> HIDE DEF q
    <3>3. NoResponse(q) \/ rcp.pending
      BY <3>1 DEF Tidy
    <3> QED BY <3>1, <3>2, <3>3, QueueTidy
  <2> QED BY <2>1, <2>2
<1>9. CASE UNCHANGED rcp
  BY <1>9
<1>10. Next \/ UNCHANGED vars
  OBVIOUS
<1>11. \/ DataAcked \/ DataMissed \/ OriginatorFrameAcked \/ OriginatorFrameMissed
       \/ RecipientFrameAcked \/ RecipientFrameMissed \/ RecipientInactivityTimeout
       \/ FrameExpires \/ UNCHANGED rcp
  BY <1>10, Zenon DEF Next, SendAddBaRequest, SendAddBaRequestTooLong, AddBaResponseTimeout, ResetBa,
     OriginatorInactivityTimeout, vars
<1> QED BY <1>2, <1>3, <1>4, <1>5, <1>6, <1>7, <1>8, <1>9, <1>11

\* The recipient starts with an empty queue and nothing received.
LEMMA InitTidy == Init => RInv
<1> SUFFICES ASSUME Init PROVE RInv
  OBVIOUS
<1> DEFINE rx == NewRecipient(0, NoSn, <<>>)
<1>1. RecipientOK(rx, Data)
  <2>1. 0 \in SeqNo /\ NoSn \in Int /\ <<>> \in Seq(Data)
    BY DataType DEF NoSn
  <2> QED BY <2>1, NewRecipientTyped
<1> HIDE DEF rx
<1>2. rcp = [has |-> FALSE, rx |-> rx, q |-> <<>>, ssrc |-> 0,
             timer |-> FALSE, stale |-> 0, pending |-> FALSE]
  BY DEF Init, rx
<1>3. rcp \in RecipientState /\ rcp.rx = rx /\ rcp.q = <<>>
  BY <1>1, <1>2 DEF RecipientState, RecipientOK
<1>4. Tidy(rcp)
  BY <1>1, <1>3 DEF Tidy, OneResponse, NoResponse
<1>5. failure \in BOOLEAN
  BY Zenon DEF Init
<1>6. HistoryType
  BY <1>5, AgreementSetupAssumption DEF Init, HistoryType
<1> QED BY <1>4, <1>6 DEF RInv

\* The invariant of both ends holds in every reachable state.
THEOREM RecipientInvariance == Spec => [](IInv /\ RInv)
<1>1. Init => IInv /\ RInv
  BY InitInv, InitTidy
<1>2. (IInv /\ RInv) /\ [Next]_vars => (IInv /\ RInv)'
  BY NextInv, NextTidy
<1> QED BY <1>1, <1>2, PTL DEF Spec

\* All variables keep their types, however many requests and data frames there
\* are: in particular what is passed up are MSDUs that were sent.
THEOREM TypeCorrect == Spec => []TypeOK
<1>1. IInv /\ RInv => TypeOK
  <2> SUFFICES ASSUME IInv, RInv PROVE TypeOK
    OBVIOUS
  <2>1. o \in OriginatorType /\ rcp \in RecipientState /\ RecipientOK(rcp.rx, Data) /\ HistoryType
    BY DEF IInv, Sound, RInv, Tidy
  <2>2. rcp.q \in Seq(MgtFrame)
    <3>1. rcp.q \in Seq(RecipientFrame) /\ RecipientFrame \subseteq MgtFrame
      BY <2>1, RecipientStateFields DEF RecipientFrame
    <3> QED BY <3>1, SeqMonotonic
  <2>3. RecipientType
    BY <2>1, <2>2, RecipientStateFields, RecipientFields DEF RecipientType
  <2> QED BY <2>1, <2>3 DEF TypeOK, HistoryType
<1> QED BY <1>1, RecipientInvariance, PTL

\* No unnecessary ADDBA Response is left in the queue of the recipient: a newer
\* response always finds the one still queued, for m_pendingAddBaResp is kept as
\* long as it is, whatever is lost, retransmitted, discarded or expires.
THEOREM SingleResponse == Spec => []OneResponseQueued
<1>1. RInv => OneResponseQueued
  BY DEF RInv, Tidy, OneResponse, OneResponseQueued
<1> QED BY <1>1, RecipientInvariance, PTL

-----------------------------------------------------------------------------
(* What is passed up: in order, and at most once.  Data are numbered by     *)
(* themselves; next is what the originator sends next.                      *)

Num == [n \in Data |-> n]

\* What has been passed up is in order, and has been sent.
Seen(next, rx) == UpOK(rx, Num) /\ \A i \in DOMAIN rx.up : rx.up[i] < next

\* The windows of the agreement are not ahead of the originator.
Live(next, retry, rx) ==
    \E W, sb : /\ AgreementAt(rx, Num, retry, W, sb) /\ InitSeq <= sb /\ W <= next
               /\ \A f \in rx.buffered : f.id < next

Held(next, retry, has, rx) == Seen(next, rx) /\ (has => Live(next, retry, rx))

\* A request names the number of a data MPDU not yet passed by.
Starts(q) ==
    \A i \in DOMAIN q.q :
        q.q[i].kind = "request" => \E S \in Int : /\ q.q[i].start = SnOf(S)
                                                  /\ InitSeq <= S /\ S <= q.next

\* The data MPDU in service is the last served, and is being retransmitted.
InService(q) == q.cur # 0 => q.cur + 1 = q.next /\ q.cur \in q.retry

Ordered == Held(o.next, o.retry, rcp.has, rcp.rx) /\ Starts(o) /\ InService(o)

\* Sequence numbers name data unambiguously as long as they are not reused.
DataAreDistinct == MaxData <= SEQNO_SPACE_SIZE

LEMMA NumIs == ASSUME NEW n \in Data PROVE Num[n] = n /\ n \in Int /\ InitSeq <= n /\ n < InitSeq + MaxData
BY DataType DEF Num, Data

\* Data sent later, and more retries, change nothing.
LEMMA HeldLater ==
    ASSUME NEW next \in Int, NEW later \in Int, next <= later, NEW retry, NEW more, retry \subseteq more,
           NEW has, NEW rx, Held(next, retry, has, rx), RecipientOK(rx, Data)
    PROVE  Held(later, more, has, rx)
<1>0. /\ \A i \in DOMAIN rx.up : rx.up[i] \in Int
      /\ \A f \in rx.buffered : f.id \in Int
  <2>1. rx.up \in Seq(Data) /\ rx.buffered \subseteq Frames(Data)
    BY RecipientFields
  <2>2. \A i \in DOMAIN rx.up : rx.up[i] \in Data
    BY <2>1, SeqElements
  <2>3. \A f \in rx.buffered : f.id \in Data
    BY <2>1, FrameFields
  <2>4. \A n \in Data : n \in Int
    BY DataType
  <2>5. \A i \in DOMAIN rx.up : rx.up[i] \in Int
    BY <2>2, <2>4, ZenonT(30)
  <2>6. \A f \in rx.buffered : f.id \in Int
    BY <2>3, <2>4, ZenonT(30)
  <2> QED BY <2>5, <2>6
<1>1. Seen(later, rx)
  BY <1>0 DEF Held, Seen
<1>2. ASSUME has PROVE Live(later, more, rx)
  <2>1. PICK W, sb : /\ AgreementAt(rx, Num, retry, W, sb) /\ InitSeq <= sb /\ W <= next
                     /\ \A f \in rx.buffered : f.id < next
    BY <1>2 DEF Held, Live
  <2>2. W \in Int /\ UpBelow(rx, Num, rx.buffered, retry)
    BY <2>1 DEF AgreementAt, Above
  <2>3. UpBelow(rx, Num, rx.buffered, more)
    BY <2>2 DEF UpBelow
  <2>4. AgreementAt(rx, Num, more, W, sb)
    BY <2>1, <2>3 DEF AgreementAt, Above
  <2>5. W <= later /\ \A f \in rx.buffered : f.id < later
    BY <1>0, <2>1, <2>2
  <2> QED BY <2>1, <2>4, <2>5 DEF Live
<1> QED BY <1>1, <1>2 DEF Held

\* The agreement is destroyed: its buffer goes up.
LEMMA DestroyHeld ==
    ASSUME NEW next \in Int, NEW p, Tidy(p), Held(next, o.retry, p.has, p.rx),
           NEW d, d = DestroyRecipientAgreement(p)
    PROVE  Held(next, o.retry, d.has, d.rx)
<1>1. CASE ~ p.has
  BY <1>1 DEF DestroyRecipientAgreement
<1>2. CASE p.has
  <2>1. PICK W, sb : /\ AgreementAt(p.rx, Num, o.retry, W, sb) /\ InitSeq <= sb /\ W <= next
                     /\ \A f \in p.rx.buffered : f.id < next
    BY <1>2 DEF Held, Live
  <2>2. RecipientOK(p.rx, Data)
    BY DEF Tidy
  <2>3. PICK r, G : Flushed(Data, p.rx, r, G, Num, o.retry)
    BY <2>1, <2>2, FlushKeepsOrder
  <2>4. d.has = FALSE /\ d.rx = r
    BY <1>2, <2>3 DEF DestroyRecipientAgreement, Tidy, RecipientState, Flushed
  <2>5. \A i \in DOMAIN r.up : r.up[i] < next
    <3>1. UpGains(p.rx, r, G) /\ G \subseteq p.rx.buffered
      BY <2>3 DEF Flushed
    <3>2. \A i \in DOMAIN p.rx.up : p.rx.up[i] < next
      BY DEF Held, Seen
    <3> QED BY <2>1, <3>1, <3>2 DEF UpGains
  <2>6. Seen(next, r)
    BY <2>3, <2>5 DEF Seen, Flushed
  <2> QED BY <2>4, <2>6 DEF Held
<1> QED BY <1>1, <1>2

\* A request starts an agreement at a number not yet passed by.
LEMMA ResponseHeld ==
    ASSUME NEW next \in Int, NEW p, Tidy(p), NEW retry, Held(next, retry, p.has, p.rx),
           NEW start \in SeqNo, NEW S \in Int, start = SnOf(S), InitSeq <= S, S <= next,
           NEW d, d = SendAddBaResponse(p, start)
    PROVE  Held(next, retry, d.has, d.rx)
<1>0. PICK u : u = p.rx
  OBVIOUS
<1>1. PICK rx : rx = NewRecipient(start, u.lastSn, u.up)
  OBVIOUS
<1>2. UpOK(u, Num) /\ \A i \in DOMAIN u.up : u.up[i] < next
  BY <1>0 DEF Held, Seen
<1>3. /\ rx.scoreboard.start = SnOf(S) /\ rx.winStartB = SnOf(S) /\ rx.buffered = {}
      /\ rx.lastSn = u.lastSn /\ rx.up = u.up
  BY <1>1, NewRecipientIs
<1>6. AgreementAt(rx, Num, retry, S, S) /\ UpOK(rx, Num)
  BY <1>2, <1>3, NewRecipientAt
<1>7. d.has = TRUE /\ d.rx = rx
  BY <1>0, <1>1 DEF SendAddBaResponse, ReplaceTimer, Tidy, RecipientState
<1>4. Live(next, retry, rx)
  BY <1>3, <1>6 DEF Live
<1>5. Seen(next, rx)
  BY <1>2, <1>3, <1>6 DEF Seen
<1> QED BY <1>4, <1>5, <1>7 DEF Held

\* A data MPDU, n, is received: the one being served.
LEMMA DataReceivable ==
    ASSUME DataAreDistinct, NEW rx, RecipientOK(rx, Data), NEW retry, NEW n \in Data,
           \A i \in DOMAIN rx.up : rx.up[i] < n \/ (rx.up[i] = n /\ n \in retry),
           NEW W, NEW sb, AgreementAt(rx, Num, retry, W, sb), InitSeq <= sb, W <= n + 1
    PROVE  Receivable(rx, [id |-> n, sn |-> SnOf(n)], n, Num, retry, W, sb)
<1> DEFINE f == [id |-> n, sn |-> SnOf(n)]
<1>1. f.id = n /\ f.sn = SnOf(n) /\ Num[n] = n /\ n \in Int /\ InitSeq <= n /\ n < InitSeq + MaxData
  BY NumIs
<1>2. W \in Int /\ sb \in Int /\ sb <= W /\ InitSeq \in Int /\ MaxData \in Int
  BY DataType DEF AgreementAt
<1>3. \A i \in DOMAIN rx.up : Num[rx.up[i]] = rx.up[i] /\ rx.up[i] \in Int /\ InitSeq <= rx.up[i]
  <2>1. rx.up \in Seq(Data)
    BY RecipientFields
  <2>2. \A i \in DOMAIN rx.up : rx.up[i] \in Data
    BY <2>1, SeqElements
  <2> QED BY <2>2, NumIs
<1>4. UpBelow(rx, Num, {f}, retry)
  <2> SUFFICES ASSUME NEW i \in DOMAIN rx.up
               PROVE  /\ Num[rx.up[i]] <= n /\ n < Num[rx.up[i]] + SEQNO_SPACE_SIZE
                      /\ Num[rx.up[i]] = n => rx.up[i] = n /\ n \in retry
    BY <1>1 DEF UpBelow
  <2>1. rx.up[i] <= n /\ (rx.up[i] = n => n \in retry)
    BY <1>1, <1>3
  <2>2. n < rx.up[i] + SEQNO_SPACE_SIZE
    BY <1>1, <1>2, <1>3, HalfOfSpace DEF DataAreDistinct
  <2> QED BY <1>3, <2>1, <2>2
<1>5. /\ W - SEQNO_SPACE_HALF_SIZE <= n /\ n < W + SEQNO_SPACE_SIZE
      /\ sb - SEQNO_SPACE_HALF_SIZE <= n /\ n < sb + SEQNO_SPACE_SIZE
  BY <1>1, <1>2, HalfOfSpace DEF DataAreDistinct
<1> HIDE DEF f
<1>6. Receivable(rx, f, n, Num, retry, W, sb)
  BY <1>1, <1>4, <1>5 DEF Receivable
<1> QED BY <1>6 DEF f

\* m_winStartB is never computed from a number that has just wrapped: all data fit
\* in a window, or numbers do not wrap.
NoWrap == MaxData <= WinSize \/ InitSeq + MaxData <= SEQNO_SPACE_SIZE

WinStartBInRange == rcp.rx.winStartB \in SeqNo

LEMMA NoWrapIs ==
    ASSUME NoWrap, NEW n \in Data, NEW W \in Int, InitSeq <= W, W + WinSize <= n
    PROVE  SnOf(n) - WinSize + 1 >= 0
<1>1. n \in Int /\ InitSeq <= n /\ n < InitSeq + MaxData /\ InitSeq \in Nat /\ MaxData \in Nat
  BY NumIs, DataType
<1>2. ~ (MaxData <= WinSize)
  BY <1>1, HalfOfSpace
<1>3. n \in 0 .. (SEQNO_SPACE_SIZE - 1)
  BY <1>1, <1>2, HalfOfSpace DEF NoWrap
<1>4. n % SEQNO_SPACE_SIZE = n
  <2>1. n = SEQNO_SPACE_SIZE * 0 + n
    BY <1>1, HalfOfSpace
  <2> QED BY <1>1, <1>3, <2>1, HalfOfSpace, RemainderUnique
<1> QED BY <1>1, <1>4, HalfOfSpace DEF SnOf

\* The window moves on from W to V, no further than n + 1, and past what it has
\* passed up.
Advances(rx, p, n) ==
    /\ \E W, V \in Int : /\ rx.winStartB = SnOf(W) /\ p.winStartB = SnOf(V)
                         /\ InitSeq <= V /\ V <= n + 1
                         /\ V = W \/ V <= n \/ \E i \in DOMAIN p.up : p.up[i] = V - 1
    /\ \A i \in DOMAIN rx.up : i \in DOMAIN p.up /\ p.up[i] = rx.up[i]

\* An MPDU received under an agreement.
LEMMA NotifyHeld ==
    ASSUME DataAreDistinct, NEW rx, RecipientOK(rx, Data), NEW retry, NEW n \in Data,
           \A i \in DOMAIN rx.up : rx.up[i] < n \/ (rx.up[i] = n /\ n \in retry),
           Seen(n + 1, rx), Live(n + 1, retry, rx),
           NEW f, f = [id |-> n, sn |-> SnOf(n)],
           NEW p, p = NotifyReceivedMpdu(rx, f, retry), NoWrap \/ p.winStartB \in SeqNo
    PROVE  /\ Seen(n + 1, p) /\ Live(n + 1, retry, p) /\ p.winStartB \in SeqNo
           /\ Advances(rx, p, n)
<1>1. PICK W, sb : /\ AgreementAt(rx, Num, retry, W, sb) /\ InitSeq <= sb /\ W <= n + 1
                   /\ \A g \in rx.buffered : g.id < n + 1
  BY DEF Live
<1>2. Receivable(rx, f, n, Num, retry, W, sb) /\ f \in Frames(Data)
  BY <1>1, DataReceivable, DataFrame
<1>3. /\ W \in Int /\ sb \in Int /\ sb <= W /\ InitSeq \in Int /\ MaxData \in Int
      /\ n \in Int /\ InitSeq <= n /\ n < InitSeq + MaxData
  BY <1>1, DataType, NumIs DEF AgreementAt
<1>4. p.winStartB \in SeqNo
  <2> SUFFICES ASSUME NoWrap PROVE p.winStartB \in SeqNo
    OBVIOUS
  <2>1. W + WinSize <= n => SnOf(n) - WinSize + 1 >= 0
    <3>1. InitSeq <= W
      BY <1>1, <1>3
    <3> QED BY <1>3, <3>1, NoWrapIs
  <2>2. rx.winStartB \in SeqNo
    BY <1>1, <1>3, SnOfType DEF AgreementAt, BufferAt
  <2>3. NotifyReceivedMpdu(rx, f, retry).winStartB \in SeqNo
    BY <1>1, <1>2, <2>1, <2>2, NotifyInRange
  <2> QED BY <2>3
<1>5. PICK r, G, V, tb : /\ r = NotifyReceivedMpdu(rx, f, retry)
                         /\ ReceiveMoves(Data, rx, r, f, n, G, Num, retry, W, sb, V, tb)
  <2>1. NotifyReceivedMpdu(rx, f, retry).winStartB \in SeqNo
    BY <1>4
  <2> QED BY <1>1, <1>2, <2>1, NotifyKeepsOrder
<1>6. /\ r = p /\ RecipientOK(p, Data) /\ AgreementAt(p, Num, retry, V, tb) /\ sb <= tb
      /\ UpGains(rx, p, G) /\ G \subseteq rx.buffered \union {f}
      /\ p.buffered \subseteq rx.buffered \union {f}
      /\ V = W \/ V <= n \/ \E g \in G : Num[g.id] = V - 1
  BY <1>5 DEF ReceiveMoves, MovedOn
<1>7. \A g \in rx.buffered \union {f} : g.id < n + 1 /\ g.id \in Data
  <2>1. rx.buffered \subseteq Frames(Data)
    BY RecipientFields
  <2> QED BY <1>1, <1>2, <1>3, <2>1, FrameFields
<1>8. V <= n + 1 /\ V \in Int /\ tb \in Int
  <2>1. V \in Int /\ tb \in Int
    BY <1>6 DEF AgreementAt
  <2>2. ASSUME NEW g \in G, Num[g.id] = V - 1 PROVE V <= n + 1
    <3>1. g.id \in Data /\ g.id < n + 1
      BY <1>6, <1>7
    <3>2. Num[g.id] = g.id /\ g.id \in Int
      BY <3>1, NumIs
    <3> QED BY <1>3, <2>1, <2>2, <3>1, <3>2
  <2> QED BY <1>1, <1>3, <1>6, <2>1, <2>2
<1>9. InitSeq <= tb
  BY <1>1, <1>3, <1>6, <1>8
<1>10. Live(n + 1, retry, p)
  <2>1. \A g \in p.buffered : g.id < n + 1
    BY <1>6, <1>7
  <2> QED BY <1>6, <1>8, <1>9, <2>1 DEF Live
<1>11. \A i \in DOMAIN p.up : p.up[i] < n + 1
  <2>1. \A i \in DOMAIN rx.up : rx.up[i] < n + 1
    BY DEF Seen
  <2> QED BY <1>6, <1>7, <2>1 DEF UpGains
<1>12. UpOK(p, Num)
  BY <1>6 DEF AgreementAt, Above
<1>13. Advances(rx, p, n)
  <2>1. rx.winStartB = SnOf(W) /\ p.winStartB = SnOf(V)
    BY <1>1, <1>6 DEF AgreementAt, BufferAt
  <2>2. tb <= V /\ InitSeq <= V
    <3>1. tb <= V
      BY <1>6 DEF AgreementAt
    <3> QED BY <1>3, <1>8, <1>9, <3>1
  <2>3. ASSUME NEW g \in G, Num[g.id] = V - 1 PROVE \E i \in DOMAIN p.up : p.up[i] = V - 1
    <3>1. g.id \in Data
      BY <1>6, <1>7
    <3>2. Num[g.id] = g.id
      BY <3>1, NumIs
    <3> QED BY <1>6, <2>3, <3>2 DEF UpGains
  <2>4. \A i \in DOMAIN rx.up : i \in DOMAIN p.up /\ p.up[i] = rx.up[i]
    BY <1>6 DEF UpGains
  <2>5. V = W \/ V <= n \/ \E i \in DOMAIN p.up : p.up[i] = V - 1
    BY <1>6, <2>3
  <2> QED BY <1>3, <1>8, <2>1, <2>2, <2>4, <2>5 DEF Advances
<1> QED BY <1>4, <1>10, <1>11, <1>12, <1>13 DEF Seen

\* An MPDU received, with or without an agreement.
LEMMA DataHeld ==
    ASSUME DataAreDistinct, NEW p, Tidy(p), NEW n \in Data, Held(n + 1, o.retry, p.has, p.rx),
           \A i \in DOMAIN p.rx.up : p.rx.up[i] < n \/ (p.rx.up[i] = n /\ n \in o.retry),
           NEW d, d = ReceiveData(p, n), NoWrap \/ d.rx.winStartB \in SeqNo
    PROVE  /\ Held(n + 1, o.retry, d.has, d.rx)
           /\ p.has => Advances(p.rx, d.rx, n)
<1>0. PICK rx, f, retry : rx = p.rx /\ f = [id |-> n, sn |-> SnOf(n)] /\ retry = o.retry
  OBVIOUS
<1>1. /\ RecipientOK(rx, Data) /\ f \in Frames(Data) /\ Seen(n + 1, rx)
      /\ \A i \in DOMAIN rx.up : rx.up[i] < n \/ (rx.up[i] = n /\ n \in retry)
  BY <1>0, DataFrame DEF Tidy, Held
<1>2. d.has = p.has /\ d.rx = IF p.has THEN NotifyReceivedMpdu(rx, f, retry)
                              ELSE MacRxMiddleReceive(rx, <<f>>, retry)
  BY <1>0 DEF ReceiveData, Tidy, RecipientState
<1>3. CASE p.has
  <2>1. Live(n + 1, retry, rx)
    BY <1>0, <1>3 DEF Held
  <2>2. PICK u : u = NotifyReceivedMpdu(rx, f, retry)
    OBVIOUS
  <2>3. NoWrap \/ u.winStartB \in SeqNo
    BY <1>2, <1>3, <2>2
  <2>4. Seen(n + 1, u) /\ Live(n + 1, retry, u) /\ Advances(rx, u, n)
    BY <1>0, <1>1, <2>1, <2>2, <2>3, NotifyHeld
  <2> QED BY <1>0, <1>2, <1>3, <2>2, <2>4 DEF Held
<1>4. CASE ~ p.has
  <2>1. /\ UpOK(rx, Num) /\ Num[f.id] \in Int /\ f.sn = SnOf(Num[f.id]) /\ f.id = n
        /\ Num[n] = n /\ n \in Int
    BY <1>0, <1>1, NumIs DEF Seen
  <2>2. UpBelow(rx, Num, {f}, retry)
    <3>1. \A i \in DOMAIN rx.up : Num[rx.up[i]] = rx.up[i] /\ rx.up[i] \in Int
                                  /\ n < rx.up[i] + SEQNO_SPACE_SIZE
      <4>1. rx.up \in Seq(Data)
        BY <1>1, RecipientFields
      <4>2. \A i \in DOMAIN rx.up : rx.up[i] \in Data
        BY <4>1, SeqElements
      <4>3. n < InitSeq + MaxData /\ InitSeq \in Int /\ MaxData \in Int
        BY NumIs, DataType
      <4>4. \A m \in Data : Num[m] = m /\ m \in Int /\ InitSeq <= m
        BY NumIs
      <4> QED BY <2>1, <4>2, <4>3, <4>4, HalfOfSpace DEF DataAreDistinct
    <3> QED BY <1>1, <2>1, <3>1 DEF UpBelow
  <2>3. PICK u : /\ u = MacRxMiddleReceive(rx, <<f>>, retry)
                 /\ UpOK(u, Num) /\ UpGains(rx, u, {f}) /\ u.winStartB = rx.winStartB
    <3>1. PICK F, q, u : F = {f} /\ q = <<f>> /\ u = MacRxMiddleReceive(rx, q, retry)
      OBVIOUS
    <3>2. UpBelow(rx, Num, F, retry)
      BY <2>2, <3>1
    <3>3. UpOK(u, Num) /\ UpGains(rx, u, F) /\ u.winStartB = rx.winStartB
      BY <1>1, <2>1, <3>1, <3>2, ReceiveOneKeepsOrder
    <3> QED BY <3>1, <3>3
  <2>4. \A i \in DOMAIN u.up : u.up[i] < n + 1
    BY <1>1, <2>1, <2>3 DEF UpGains, Seen
  <2>5. d.has = FALSE /\ d.rx = u
    <3>1. d.has \in BOOLEAN /\ d.has = p.has
      BY <1>2, RecipientStateFields DEF Tidy
    <3> QED BY <1>2, <1>4, <2>3, <3>1
  <2> QED BY <1>4, <2>3, <2>4, <2>5 DEF Held, Seen
<1> QED BY <1>3, <1>4

\* What the operations of the originator leave alone: the data, and the requests.
SameData(q, p) == p.next = q.next /\ p.cur = q.cur /\ p.retry = q.retry

NoNewRequest(q, p) ==
    \A i \in DOMAIN p.q :
        \/ p.q[i].kind # "request"
        \/ \E j \in DOMAIN q.q : p.q[i].kind = q.q[j].kind /\ p.q[i].start = q.q[j].start

SameSetup(q, p) == SameData(q, p) /\ NoNewRequest(q, p)

LEMMA QueueSame ==
    ASSUME NEW q, NEW p, SameData(q, p), p.q = q.q PROVE SameSetup(q, p)
BY DEF SameSetup, NoNewRequest

LEMMA TailSame ==
    ASSUME NEW q \in OriginatorType, q.q # <<>>, NEW p, SameData(q, p), p.q = Tail(q.q)
    PROVE  SameSetup(q, p)
<1>1. q.q \in Seq(MgtFrame)
  BY DEF OriginatorType
<1>2. \A i \in DOMAIN Tail(q.q) : i + 1 \in DOMAIN q.q /\ Tail(q.q)[i] = q.q[i + 1]
  BY <1>1, TailElements
<1> QED BY <1>2 DEF SameSetup, NoNewRequest

LEMMA DequeueSame ==
    ASSUME NEW q \in OriginatorType, q.q # <<>> PROVE SameSetup(q, DequeueHead(q))
<1>1. SameData(q, DequeueHead(q)) /\ DequeueHead(q).q = Tail(q.q)
  BY DEF SameData, DequeueHead, OriginatorType
<1> QED BY <1>1, TailSame

LEMMA GotAckSame ==
    ASSUME NEW q, Sound(q), q.q # <<>> PROVE SameSetup(q, OriginatorGotAck(q))
<1>1. Head(q.q).kind \in {"request", "delbaO"} /\ q \in OriginatorType
  BY TailElements DEF Sound, OriginatorType
<1>2. SameData(q, OriginatorGotAck(q)) /\ OriginatorGotAck(q).q = Tail(q.q)
  <2>1. CASE Head(q.q).kind = "request"
    <3>1. OriginatorGotAck(q) = [DequeueHead(q) EXCEPT !.timeouts = @ + 1]
      BY <2>1 DEF OriginatorGotAck
    <3> QED BY <1>1, <3>1 DEF SameData, DequeueHead, OriginatorType
  <2>2. CASE Head(q.q).kind = "delbaO"
    <3>1. OriginatorGotAck(q) = DequeueHead(DestroyOriginatorAgreement(q))
      BY <2>2 DEF OriginatorGotAck
    <3> QED BY <1>1, <3>1 DEF SameData, DequeueHead, DestroyOriginatorAgreement, OriginatorType
  <2> QED BY <1>1, <2>1, <2>2
<1> QED BY <1>1, <1>2, TailSame

LEMMA DiscardSame ==
    ASSUME NEW q, Sound(q), q.q # <<>> PROVE SameSetup(q, OriginatorDiscards(q))
<1>1. q \in OriginatorType
  BY DEF Sound
<1>2. SameData(q, OriginatorDiscards(q)) /\ OriginatorDiscards(q).q = Tail(q.q)
  BY <1>1 DEF SameData, OriginatorDiscards, DequeueHead, NoReplyAndReset,
     NotifyOriginatorAgreementNoReply, OriginatorType
<1> QED BY <1>1, <1>2, TailSame

LEMMA MissedSame ==
    ASSUME NEW q, Sound(q), q.q # <<>>, NEW received \in BOOLEAN PROVE SameSetup(q, Missed(q, received))
<1> DEFINE f == Heard(Head(q.q), received)
           s == <<f>> \o Tail(q.q)
<1>1. /\ q.q \in Seq(MgtFrame) /\ Tail(q.q) \in Seq(MgtFrame)
      /\ Head(q.q) = q.q[1] /\ 1 \in DOMAIN q.q
      /\ Len(q.q) \in Nat /\ DOMAIN q.q = 1 .. Len(q.q)
  BY TailElements, SeqElements DEF Sound, OriginatorType
<1>2. q.q[1] \in MgtFrame
  BY <1>1, SeqElements
<1>3. f \in MgtFrame /\ f.kind = q.q[1].kind /\ f.start = q.q[1].start
  BY <1>1, <1>2 DEF MgtFrame, Heard
<1> HIDE DEF f
<1>4. /\ DOMAIN s = 1 .. Len(q.q)
      /\ \A i \in 1 .. Len(q.q) : s[i] = IF i = 1 THEN f ELSE q.q[i]
  BY <1>1, <1>3
<1>5. Missed(q, received).q = s /\ SameData(q, Missed(q, received))
  BY DEF Missed, SameData, Sound, OriginatorType, s, f
<1> HIDE DEF s
<1>6. \A i \in DOMAIN s : i \in DOMAIN q.q /\ s[i].kind = q.q[i].kind /\ s[i].start = q.q[i].start
  BY <1>1, <1>3, <1>4
<1> QED BY <1>5, <1>6 DEF SameSetup, NoNewRequest

LEMMA ReceivesSame ==
    ASSUME NEW q, Sound(q), NEW f PROVE SameSetup(q, OriginatorReceives(q, f))
<1>0. q \in OriginatorType
  BY DEF Sound
<1>1. SameData(q, GotAddBaResponse(q)) /\ GotAddBaResponse(q).q = q.q
  <2>1. CASE q.ag = "none"
    BY <1>0, <2>1 DEF SameData, GotAddBaResponse, OriginatorType
  <2>2. CASE q.ag # "none"
    <3> DEFINE r == ReplaceTimer(q, InactivityOn)
    <3>1. /\ r \in OriginatorType
          /\ \A x \in {"ag", "q", "next", "resets", "timeouts", "cur", "retry"} : r[x] = q[x]
      BY <1>0, ReplaceTimerType, Fields
    <3>2. SameData(q, r) /\ r.q = q.q
      BY <3>1 DEF SameData
    <3>3. GotAddBaResponse(q)
          = [r EXCEPT !.ag = "ESTABLISHED", !.blocked = FALSE, !.start = StartingSeq(q)]
      BY <2>2 DEF GotAddBaResponse
    <3> HIDE DEF r
    <3> QED BY <3>1, <3>2, <3>3 DEF SameData, OriginatorType
  <2> QED BY <2>1, <2>2
<1>2. SameData(q, DestroyOriginatorAgreement(q)) /\ DestroyOriginatorAgreement(q).q = q.q
  BY <1>0 DEF SameData, DestroyOriginatorAgreement, OriginatorType
<1>3. SameData(q, OriginatorReceives(q, f)) /\ OriginatorReceives(q, f).q = q.q
  <2>1. SameData(q, q)
    BY DEF SameData
  <2> QED BY <1>1, <1>2, <2>1 DEF OriginatorReceives
<1> QED BY <1>3, QueueSame

\* The timers of the originator.
LEMMA TimersSame ==
    ASSUME Sound(o), AddBaResponseTimeout \/ ResetBa \/ OriginatorInactivityTimeout
    PROVE  SameSetup(o, o')
<1>0. o \in OriginatorType
  BY DEF Sound
<1>1. CASE AddBaResponseTimeout \/ ResetBa
  <2>1. SameData(o, o') /\ o'.q = o.q
    BY <1>0, <1>1 DEF AddBaResponseTimeout, ResetBa, NoReplyAndReset,
       NotifyOriginatorAgreementNoReply, SameData, OriginatorType
  <2>2. PICK e : e = o'
    OBVIOUS
  <2> QED BY <2>1, <2>2, QueueSame
<1>2. CASE OriginatorInactivityTimeout
  <2>1. PICK f : f = NewFrame("delbaO", 0)
    OBVIOUS
  <2>2. o.q \in Seq(MgtFrame) /\ f \in MgtFrame /\ f.kind = "delbaO"
    BY <1>0, <2>1, NewFrameType, DataType DEF OriginatorType
  <2>3. SameData(o, o') /\ o'.q = Append(o.q, f)
    BY <1>0, <1>2, <2>1 DEF OriginatorInactivityTimeout, SameData, OriginatorType
  <2>4. \A i \in DOMAIN o'.q : o'.q[i] = f \/ (i \in DOMAIN o.q /\ o'.q[i] = o.q[i])
    BY <2>2, <2>3, AppendElements
  <2> QED BY <2>2, <2>3, <2>4 DEF SameSetup, NoNewRequest
<1> QED BY <1>1, <1>2

\* Requests stay behind what is sent next.
LEMMA StartsLater ==
    ASSUME NEW q, Starts(q), NEW p, NoNewRequest(q, p), q.next \in Int, p.next \in Int, q.next <= p.next
    PROVE  Starts(p)
<1> SUFFICES ASSUME NEW i \in DOMAIN p.q, p.q[i].kind = "request"
             PROVE  \E S \in Int : p.q[i].start = SnOf(S) /\ InitSeq <= S /\ S <= p.next
  BY DEF Starts
<1>1. PICK j \in DOMAIN q.q : p.q[i].kind = q.q[j].kind /\ p.q[i].start = q.q[j].start
  BY DEF NoNewRequest
<1>2. PICK S \in Int : q.q[j].start = SnOf(S) /\ InitSeq <= S /\ S <= q.next
  BY <1>1 DEF Starts
<1>3. S <= p.next
  BY <1>2
<1> QED BY <1>1, <1>2, <1>3

\* Any frame of the originator is received.
LEMMA ReceivesHeld ==
    ASSUME NEW next \in Int, NEW p, Tidy(p), Held(next, o.retry, p.has, p.rx), NEW f \in MgtFrame,
           f.kind = "request" => \E S \in Int : f.start = SnOf(S) /\ InitSeq <= S /\ S <= next,
           NEW d, d = RecipientReceives(p, f)
    PROVE  Held(next, o.retry, d.has, d.rx)
<1>1. CASE f.rcvd
  BY <1>1 DEF RecipientReceives
<1>2. CASE ~ f.rcvd /\ f.kind = "request"
  <2>1. PICK S \in Int : f.start = SnOf(S) /\ InitSeq <= S /\ S <= next
    BY <1>2
  <2>2. f.start \in SeqNo
    BY DEF MgtFrame
  <2>3. d = SendAddBaResponse(p, f.start)
    BY <1>2 DEF RecipientReceives
  <2> QED BY <2>1, <2>2, <2>3, ResponseHeld
<1>3. CASE ~ f.rcvd /\ f.kind # "request"
  <2>1. d = DestroyRecipientAgreement(p)
    BY <1>3 DEF RecipientReceives
  <2> QED BY <2>1, DestroyHeld
<1> QED BY <1>1, <1>2, <1>3

\* A frame of the recipient is acknowledged, or not.
LEMMA SentHeld ==
    ASSUME NEW next \in Int, NEW p, Tidy(p), p.q # <<>>, Held(next, o.retry, p.has, p.rx),
           NEW d, d = RecipientGotAck(p) \/ \E received \in BOOLEAN : d = RecipientMissed(p, received)
    PROVE  Held(next, o.retry, d.has, d.rx)
<1>0. p \in RecipientState
  BY DEF Tidy
<1>1. PICK g : g = DestroyRecipientAgreement(p)
  OBVIOUS
<1>2. Held(next, o.retry, g.has, g.rx) /\ g \in RecipientState
  BY <1>1, DestroyHeld, DestroyTidy DEF Tidy
<1>3. CASE Head(p.q).kind = "delbaR" /\ d = RecipientGotAck(p)
  <2>1. d = DequeueHead(g)
    BY <1>1, <1>3 DEF RecipientGotAck
  <2>2. d.has = g.has /\ d.rx = g.rx
    BY <1>2, <2>1 DEF DequeueHead, RecipientState
  <2> QED BY <1>2, <2>2
<1>4. CASE ~ (Head(p.q).kind = "delbaR" /\ d = RecipientGotAck(p))
  <2>1. /\ DequeueHead(p).has = p.has /\ DequeueHead(p).rx = p.rx
        /\ \A received \in BOOLEAN : Missed(p, received).has = p.has /\ Missed(p, received).rx = p.rx
    BY <1>0 DEF Missed, DequeueHead, RecipientState
  <2>2. ASSUME NEW received \in BOOLEAN, d = RecipientMissed(p, received)
        PROVE  d.has = p.has /\ d.rx = p.rx
    BY <2>1, <2>2 DEF RecipientMissed
  <2>3. ASSUME d = RecipientGotAck(p) PROVE d.has = p.has /\ d.rx = p.rx
    <3>1. d = [DequeueHead(p) EXCEPT !.pending = FALSE]
      BY <1>4, <2>3 DEF RecipientGotAck
    <3> QED BY <1>0, <3>1 DEF DequeueHead, RecipientState
  <2> QED BY <2>2, <2>3
<1> QED BY <1>3, <1>4

\* Serving data: the MPDU served is new, or a retry of the last.
LEMMA ServeIs ==
    ASSUME Sound(o), Tidy(rcp), Ordered, o.cur # 0 \/ o.next < InitSeq + MaxData,
           NEW q, q = Serve(o)
    PROVE  /\ q.cur \in Data /\ q.next = q.cur + 1 /\ o.next <= q.next /\ q.next \in Int
           /\ q.retry = o.retry /\ q.q = o.q /\ q \in OriginatorType
           /\ Held(q.cur + 1, o.retry, rcp.has, rcp.rx)
           /\ \A i \in DOMAIN rcp.rx.up : \/ rcp.rx.up[i] < q.cur
                                          \/ rcp.rx.up[i] = q.cur /\ q.cur \in o.retry
<1>0. o \in OriginatorType /\ o.next \in Int
  BY DEF Sound, OriginatorType
<1>1. q.cur \in Data /\ q \in OriginatorType
  BY ServeSound DEF Sound
<1>2. q.retry = o.retry /\ q.q = o.q
  BY <1>0 DEF Serve, OriginatorType
<1>3. q.next = q.cur + 1 /\ o.next <= q.next
  <2>1. CASE o.cur # 0
    BY <1>0, <2>1 DEF Serve, Ordered, InService
  <2>2. CASE o.cur = 0
    <3>1. q.cur = o.next /\ q.next = o.next + 1
      BY <1>0, <2>2 DEF Serve, OriginatorType
    <3> QED BY <1>0, <3>1
  <2> QED BY <2>1, <2>2
<1>4. q.next \in Int /\ q.cur \in Int
  <2>1. q.next \in Nat
    BY <1>1 DEF OriginatorType
  <2>2. q.cur \in Nat
    BY <1>1, DataType
  <2> QED BY <2>1, <2>2
<1>5. Held(q.cur + 1, o.retry, rcp.has, rcp.rx)
  <2>1. PICK n : n = q.next
    OBVIOUS
  <2>2. Held(o.next, o.retry, rcp.has, rcp.rx) /\ RecipientOK(rcp.rx, Data)
    BY DEF Ordered, Tidy
  <2>3. Held(n, o.retry, rcp.has, rcp.rx)
    BY <1>0, <1>3, <1>4, <2>1, <2>2, HeldLater
  <2> QED BY <1>3, <2>1, <2>3
<1>6. \A i \in DOMAIN rcp.rx.up : \/ rcp.rx.up[i] < q.cur
                                  \/ rcp.rx.up[i] = q.cur /\ q.cur \in o.retry
  <2>1. \A i \in DOMAIN rcp.rx.up : rcp.rx.up[i] < o.next /\ rcp.rx.up[i] \in Int
    <3>1. rcp.rx.up \in Seq(Data)
      BY RecipientFields DEF Tidy
    <3>2. \A i \in DOMAIN rcp.rx.up : rcp.rx.up[i] \in Data
      BY <3>1, SeqElements
    <3>3. \A i \in DOMAIN rcp.rx.up : rcp.rx.up[i] < o.next
      BY DEF Ordered, Held, Seen
    <3>4. \A n \in Data : n \in Int
      BY DataType
    <3> QED BY <3>2, <3>3, <3>4
  <2>2. CASE o.cur # 0
    <3>1. q.cur = o.cur /\ o.cur + 1 = o.next /\ o.cur \in o.retry
      BY <2>2 DEF Serve, Ordered, InService
    <3> QED BY <1>4, <2>1, <3>1
  <2>3. CASE o.cur = 0
    <3>1. q.cur = o.next
      BY <1>0, <2>3 DEF Serve, OriginatorType
    <3> QED BY <2>1, <3>1
  <2> QED BY <2>2, <2>3
<1> QED BY <1>1, <1>2, <1>3, <1>4, <1>5, <1>6

\* A data MPDU is acknowledged, or missed.
LEMMA ServiceOrdered ==
    ASSUME DataAreDistinct, Sound(o), Tidy(rcp), Ordered, DataAcked \/ DataMissed,
           NoWrap \/ WinStartBInRange'
    PROVE  Ordered'
<1>1. PICK q : q = Serve(o)
  OBVIOUS
<1>2. o.cur # 0 \/ o.next < InitSeq + MaxData
  BY DEF DataAcked, DataMissed, NormalAckData, MayServeData
<1>3. /\ q.cur \in Data /\ q.next = q.cur + 1 /\ o.next <= q.next /\ q.next \in Int
      /\ q.retry = o.retry /\ q.q = o.q /\ q \in OriginatorType
      /\ Held(q.cur + 1, o.retry, rcp.has, rcp.rx)
      /\ \A i \in DOMAIN rcp.rx.up : \/ rcp.rx.up[i] < q.cur
                                     \/ rcp.rx.up[i] = q.cur /\ q.cur \in o.retry
  BY <1>1, <1>2, ServeIs
<1>4. PICK n \in Data : n = q.cur
  BY <1>3
<1>5. PICK d : d = rcp'
  OBVIOUS
<1>6. d = rcp \/ d = ReceiveData(rcp, n)
  BY <1>1, <1>4, <1>5 DEF DataAcked, DataMissed
<1>7. Held(n + 1, o.retry, d.has, d.rx)
  <2>1. NoWrap \/ d.rx.winStartB \in SeqNo
    BY <1>5 DEF WinStartBInRange
  <2>2. ASSUME d = ReceiveData(rcp, n) PROVE Held(n + 1, o.retry, d.has, d.rx)
    <3>1. /\ Held(n + 1, o.retry, rcp.has, rcp.rx)
          /\ \A i \in DOMAIN rcp.rx.up : \/ rcp.rx.up[i] < n
                                         \/ rcp.rx.up[i] = n /\ n \in o.retry
      BY <1>3, <1>4
    <3> QED BY <2>1, <2>2, <3>1, DataHeld
  <2> QED BY <1>3, <1>4, <1>6, <2>2
<1>8. /\ o'.next = n + 1 /\ o'.q = o.q /\ o.retry \subseteq o'.retry
      /\ o'.cur = 0 \/ (o'.cur = n /\ n \in o'.retry)
  <2>1. CASE o' = [q EXCEPT !.cur = 0, !.ssrc = 0] \/ o' = [q EXCEPT !.ssrc = 0, !.cur = 0]
    BY <1>3, <1>4, <2>1 DEF OriginatorType
  <2>2. CASE o' = [q EXCEPT !.ssrc = @ + 1, !.retry = @ \union {q.cur}]
    BY <1>3, <1>4, <2>2 DEF OriginatorType
  <2> QED BY <1>1, <2>1, <2>2 DEF DataAcked, DataMissed
<1>9. Held(o'.next, o'.retry, rcp'.has, rcp'.rx)
  <2>1. RecipientOK(d.rx, Data) /\ n + 1 \in Int
    <3>1. Tidy(d)
      BY <1>6, DataTidy
    <3> QED BY <3>1, DataType DEF Tidy
  <2>2. PICK more : more = o'.retry
    OBVIOUS
  <2>3. Held(n + 1, more, d.has, d.rx)
    <3>1. PICK m \in Int : m = n + 1
      BY <2>1
    <3>2. Held(m, more, d.has, d.rx)
      BY <1>7, <1>8, <2>1, <2>2, <3>1, HeldLater
    <3> QED BY <3>1, <3>2
  <2> QED BY <1>5, <1>8, <2>2, <2>3
<1>10. Starts(o')
  <2>1. PICK e : e = o'
    OBVIOUS
  <2>2. NoNewRequest(o, e) /\ o.next \in Int /\ e.next \in Int /\ o.next <= e.next
    BY <1>3, <1>4, <1>8, <2>1 DEF NoNewRequest, Sound, OriginatorType
  <2>3. Starts(o)
    BY DEF Ordered
  <2> QED BY <2>1, <2>2, <2>3, StartsLater
<1>11. InService(o')
  BY <1>8 DEF InService
<1> QED BY <1>9, <1>10, <1>11 DEF Ordered, Starts, InService, Held, Seen, Live

\* A request names the number of the data MPDU in service, or of the next.
LEMMA RequestStarts ==
    ASSUME Sound(o), Starts(o), InService(o), SendAddBaRequest
    PROVE  SameData(o, o') /\ Starts(o')
<1>0. o \in OriginatorType /\ o.next \in Nat /\ InitSeq <= o.next /\ InitSeq \in Nat
  BY DataType DEF Sound, OriginatorType
<1>1. PICK S \in Int : StartingSeq(o) = SnOf(S) /\ InitSeq <= S /\ S <= o.next
  <2>1. CASE o.cur # 0 /\ o.cur \in o.retry
    <3>1. o.cur \in Data /\ o.cur + 1 = o.next
      BY <1>0, <2>1 DEF InService, OriginatorType
    <3>2. o.cur \in Int /\ InitSeq <= o.cur
      BY <3>1, NumIs
    <3>3. o.cur <= o.next
      BY <1>0, <3>1, <3>2
    <3> QED BY <2>1, <3>2, <3>3 DEF StartingSeq
  <2>2. CASE ~ (o.cur # 0 /\ o.cur \in o.retry)
    <3>1. StartingSeq(o) = SnOf(o.next)
      BY <2>2 DEF StartingSeq
    <3> QED BY <1>0, <3>1
  <2> QED BY <2>1, <2>2
<1>2. PICK f : f = NewFrame("request", StartingSeq(o))
  OBVIOUS
<1>3. f \in MgtFrame /\ f.start = SnOf(S)
  BY <1>0, <1>1, <1>2, NewFrameType, StartingSeqType DEF NewFrame
<1>4. o'.q = Append(o.q, f) /\ SameData(o, o')
  <2> DEFINE c == CreateOriginatorAgreement(o)
             r == ReplaceTimer(o, FALSE)
  <2>1. /\ r \in OriginatorType
        /\ \A x \in {"ag", "q", "next", "resets", "timeouts", "cur", "retry"} : r[x] = o[x]
    BY <1>0, ReplaceTimerType
  <2>2. SameData(o, r) /\ r.q = o.q
    BY <2>1 DEF SameData
  <2>3. c = [r EXCEPT !.ag = "PENDING", !.blocked = TRUE]
    BY DEF CreateOriginatorAgreement
  <2> HIDE DEF r
  <2>4. SameData(o, c) /\ c.q = o.q /\ c \in OriginatorType
    BY <2>1, <2>2, <2>3 DEF SameData, OriginatorType
  <2>5. o' = [c EXCEPT !.q = Append(@, f)]
    BY <1>2 DEF SendAddBaRequest
  <2> HIDE DEF c
  <2> QED BY <2>4, <2>5 DEF SameData, OriginatorType
<1>5. o.q \in Seq(MgtFrame)
  BY <1>0 DEF OriginatorType
<1>6. \A i \in DOMAIN o'.q : o'.q[i] = f \/ (i \in DOMAIN o.q /\ o'.q[i] = o.q[i])
  BY <1>3, <1>4, <1>5, AppendElements
<1>7. Starts(o')
  <2>1. o'.next = o.next
    BY <1>4 DEF SameData
  <2> QED BY <1>1, <1>3, <1>6, <2>1 DEF Starts
<1> QED BY <1>4, <1>7

\* The steps that do not serve data leave the data of the originator alone.
LEMMA SetupSame ==
    ASSUME Sound(o), Next, ~ (DataAcked \/ DataMissed)
    PROVE  \/ SendAddBaRequest
           \/ SameSetup(o, o')
           \/ o'.next = o.next /\ o'.retry = o.retry /\ o'.cur = 0 /\ o'.q = o.q
<1>0. o \in OriginatorType
  BY DEF Sound
<1>1. CASE SendAddBaRequestTooLong
  <2> DEFINE r == ReplaceTimer(o, FALSE)
  <2>1. /\ r \in OriginatorType
        /\ \A x \in {"ag", "q", "next", "resets", "timeouts", "cur", "retry"} : r[x] = o[x]
    BY <1>0, ReplaceTimerType
  <2>2. o' = [r EXCEPT !.ag = "PENDING", !.blocked = TRUE]
    BY <1>1 DEF SendAddBaRequestTooLong, CreateOriginatorAgreement
  <2> HIDE DEF r
  <2>3. o'.next = r.next /\ o'.cur = r.cur /\ o'.retry = r.retry /\ o'.q = r.q
    BY <2>1, <2>2 DEF OriginatorType
  <2>4. SameData(o, o') /\ o'.q = o.q
    BY <2>1, <2>3 DEF SameData
  <2>5. PICK e : e = o'
    OBVIOUS
  <2> QED BY <2>4, <2>5, QueueSame
<1>2. CASE OriginatorFrameAcked
  BY <1>2, GotAckSame DEF OriginatorFrameAcked
<1>3. CASE OriginatorFrameMissed
  BY <1>3, MissedSame, DiscardSame DEF OriginatorFrameMissed
<1>4. CASE RecipientFrameAcked
  BY <1>4, ReceivesSame DEF RecipientFrameAcked
<1>5. o' = o => SameSetup(o, o')
  BY DEF SameSetup, SameData, NoNewRequest
<1>6. CASE RecipientFrameMissed
  BY <1>5, <1>6, ReceivesSame DEF RecipientFrameMissed
<1>7. CASE AddBaResponseTimeout \/ ResetBa \/ OriginatorInactivityTimeout
  BY <1>7, TimersSame
<1>8. CASE RecipientInactivityTimeout
  BY <1>5, <1>8 DEF RecipientInactivityTimeout
<1>9. CASE FrameExpires
  <2>1. CASE o.q # <<>> /\ o' = [o EXCEPT !.q = Tail(@)]
    <3>1. SameData(o, o') /\ o'.q = Tail(o.q)
      BY <1>0, <2>1 DEF SameData, OriginatorType
    <3>2. PICK e : e = o'
      OBVIOUS
    <3> QED BY <1>0, <2>1, <3>1, <3>2, TailSame
  <2>2. CASE o' = [o EXCEPT !.cur = 0]
    BY <1>0, <2>2 DEF OriginatorType
  <2> QED BY <1>5, <1>9, <2>1, <2>2 DEF FrameExpires
<1> QED BY <1>1, <1>2, <1>3, <1>4, <1>6, <1>7, <1>8, <1>9 DEF Next

\* And the recipient passes nothing up, but for what an agreement that goes holds.
LEMMA SetupHeld ==
    ASSUME Sound(o), Tidy(rcp), Ordered, Next, ~ (DataAcked \/ DataMissed)
    PROVE  Held(o.next, o.retry, rcp'.has, rcp'.rx)
<1>0. /\ Held(o.next, o.retry, rcp.has, rcp.rx) /\ o.next \in Int /\ rcp \in RecipientState
      /\ o \in OriginatorType
  <2>1. o.next \in Nat
    BY DEF Sound, OriginatorType
  <2> QED BY <2>1 DEF Ordered, Tidy, Sound
<1>1. PICK d : d = rcp'
  OBVIOUS
<1>2. PICK next \in Int : next = o.next
  BY <1>0
<1>3. CASE OriginatorFrameAcked \/ OriginatorFrameMissed
  <2>1. o.q # <<>> /\ (d = rcp \/ d = RecipientReceives(rcp, Head(o.q)))
    BY <1>1, <1>3 DEF OriginatorFrameAcked, OriginatorFrameMissed
  <2>2. o.q \in Seq(MgtFrame)
    BY <1>0 DEF OriginatorType
  <2>3. Head(o.q) = o.q[1] /\ 1 \in DOMAIN o.q /\ o.q[1] \in MgtFrame
    BY <2>1, <2>2, TailElements, SeqElements
  <2>4. PICK f \in MgtFrame : f = Head(o.q)
    BY <2>3
  <2>5. f.kind = "request" => \E S \in Int : f.start = SnOf(S) /\ InitSeq <= S /\ S <= next
    BY <1>2, <2>3, <2>4 DEF Ordered, Starts
  <2>6. d = RecipientReceives(rcp, f) => Held(next, o.retry, d.has, d.rx)
    BY <1>0, <1>2, <2>5, ReceivesHeld
  <2> QED BY <1>0, <1>1, <1>2, <2>1, <2>4, <2>6
<1>4. CASE RecipientFrameAcked \/ RecipientFrameMissed
  <2>1. rcp.q # <<>> /\ (d = RecipientGotAck(rcp) \/ \E received \in BOOLEAN : d = RecipientMissed(rcp, received))
    BY <1>1, <1>4 DEF RecipientFrameAcked, RecipientFrameMissed
  <2>2. Held(next, o.retry, d.has, d.rx)
    BY <1>0, <1>2, <2>1, SentHeld
  <2> QED BY <1>1, <1>2, <2>2
<1>5. CASE RecipientInactivityTimeout \/ FrameExpires
  <2>1. rcp'.has = rcp.has /\ rcp'.rx = rcp.rx
    BY <1>0, <1>5 DEF RecipientInactivityTimeout, FrameExpires, RecipientState
  <2> QED BY <1>0, <2>1
<1>6. CASE UNCHANGED rcp
  BY <1>0, <1>6
<1>7. \/ OriginatorFrameAcked \/ OriginatorFrameMissed \/ RecipientFrameAcked \/ RecipientFrameMissed
      \/ RecipientInactivityTimeout \/ FrameExpires \/ UNCHANGED rcp
  BY Zenon DEF Next, SendAddBaRequest, SendAddBaRequestTooLong, AddBaResponseTimeout, ResetBa,
     OriginatorInactivityTimeout
<1> QED BY <1>3, <1>4, <1>5, <1>6, <1>7

\* Every step keeps the order.
LEMMA NextOrdered ==
    ASSUME DataAreDistinct, IInv, RInv, Ordered, [Next]_vars, NoWrap \/ WinStartBInRange'
    PROVE  Ordered'
<1>0. Sound(o) /\ Tidy(rcp)
  BY DEF IInv, RInv
<1>1. CASE DataAcked \/ DataMissed
  BY <1>0, <1>1, ServiceOrdered
<1>2. CASE Next /\ ~ (DataAcked \/ DataMissed)
  <2>1. Held(o.next, o.retry, rcp'.has, rcp'.rx) /\ Starts(o) /\ InService(o)
    BY <1>0, <1>2, SetupHeld DEF Ordered
  <2>2. \/ SendAddBaRequest
        \/ SameSetup(o, o')
        \/ o'.next = o.next /\ o'.retry = o.retry /\ o'.cur = 0 /\ o'.q = o.q
    BY <1>0, <1>2, SetupSame
  <2>3. o.next \in Int
    <3>1. o.next \in Nat
      BY <1>0 DEF Sound, OriginatorType
    <3> QED BY <3>1
  <2>4. SameSetup(o, o') => Starts(o') /\ InService(o') /\ o'.next = o.next /\ o'.retry = o.retry
    <3>1. PICK e : e = o'
      OBVIOUS
    <3>2. SameSetup(o, e) => Starts(e)
      BY <2>1, <2>3, StartsLater DEF SameSetup, SameData
    <3> QED BY <2>1, <3>1, <3>2 DEF SameSetup, SameData, InService
  <2>5. SendAddBaRequest => Starts(o') /\ InService(o') /\ o'.next = o.next /\ o'.retry = o.retry
    BY <1>0, <2>1, RequestStarts DEF SameData, InService
  <2>6. o'.next = o.next /\ o'.retry = o.retry /\ o'.cur = 0 /\ o'.q = o.q
        => Starts(o') /\ InService(o')
    BY <2>1 DEF Starts, InService
  <2>7. Starts(o') /\ InService(o') /\ o'.next = o.next /\ o'.retry = o.retry
    BY <2>2, <2>4, <2>5, <2>6
  <2>8. Held(o'.next, o'.retry, rcp'.has, rcp'.rx)
    BY <2>1, <2>7
  <2> QED BY <2>7, <2>8 DEF Ordered, Starts, InService, Held, Seen, Live
<1>3. CASE UNCHANGED vars
  BY <1>3 DEF vars, Ordered, Starts, InService, Held, Seen, Live
<1> QED BY <1>1, <1>2, <1>3

LEMMA InitOrdered == Init => Ordered
<1> SUFFICES ASSUME Init PROVE Ordered
  OBVIOUS
<1>1. rcp.rx.up = <<>> /\ rcp.rx.lastSn = NoSn /\ ~ rcp.has
  BY DEF Init, NewRecipient
<1>2. Held(o.next, o.retry, rcp.has, rcp.rx)
  BY <1>1 DEF Held, Seen, UpOK
<1>3. o.q = <<>> /\ o.cur = 0
  BY DEF Init
<1>4. Starts(o) /\ InService(o)
  BY <1>3 DEF Starts, InService
<1> QED BY <1>2, <1>4 DEF Ordered

LEMMA OrderedImplies == RInv /\ Ordered => InOrderAtMostOnce
<1> SUFFICES ASSUME RInv, Ordered, NEW i \in DOMAIN rcp.rx.up, NEW j \in DOMAIN rcp.rx.up, i < j
             PROVE  rcp.rx.up[i] < rcp.rx.up[j]
  BY DEF InOrderAtMostOnce
<1>1. rcp.rx.up \in Seq(Data)
  BY RecipientFields DEF RInv, Tidy
<1>2. rcp.rx.up[i] \in Data /\ rcp.rx.up[j] \in Data
  BY <1>1, SeqElements
<1>3. Num[rcp.rx.up[i]] < Num[rcp.rx.up[j]]
  BY DEF Ordered, Held, Seen, UpOK
<1> QED BY <1>2, <1>3, NumIs

\* Data go up in order and at most once, whatever agreements come and go in between,
\* as long as numbers are not reused and m_winStartB is never computed from a number
\* that has just wrapped.
THEOREM OrderAcrossAgreements ==
    ASSUME DataAreDistinct, NoWrap PROVE Spec => []InOrderAtMostOnce
<1>1. Init => IInv /\ RInv /\ Ordered
  BY InitInv, InitTidy, InitOrdered
<1>2. (IInv /\ RInv /\ Ordered) /\ [Next]_vars => (IInv /\ RInv /\ Ordered)'
  BY NextInv, NextTidy, NextOrdered
<1>3. IInv /\ RInv /\ Ordered => InOrderAtMostOnce
  BY OrderedImplies
<1> QED BY <1>1, <1>2, <1>3, PTL DEF Spec

\* The same of any numbers that may wrap, of the behaviours in which m_winStartB is
\* always a sequence number: the wrap of m_winStartB is all that can break the order.
THEOREM OrderUnlessStartWraps ==
    ASSUME DataAreDistinct PROVE Spec /\ []WinStartBInRange => []InOrderAtMostOnce
<1>1. Init => IInv /\ RInv /\ Ordered
  BY InitInv, InitTidy, InitOrdered
<1>2. (IInv /\ RInv /\ Ordered) /\ [Next]_vars /\ WinStartBInRange' => (IInv /\ RInv /\ Ordered)'
  BY NextInv, NextTidy, NextOrdered
<1>3. IInv /\ RInv /\ Ordered => InOrderAtMostOnce
  BY OrderedImplies
<1> QED BY <1>1, <1>2, <1>3, PTL DEF Spec
-----------------------------------------------------------------------------
(* The two ends, when agreements do not time out: nothing but a DELBA frame *)
(* ends one, and only inactivity makes a station send it.                   *)

OnlyOf(q, kind) == \A i \in DOMAIN q : q[i].kind = kind

\* No inactivity event is pending, and no DELBA frame is queued.
Still(q, kind) == ~ q.timer /\ q.stale = 0 /\ OnlyOf(q.q, kind)

\* No request names a number behind which a data MPDU is still in service.
StartsBehind(q) ==
    q.cur # 0 =>
        \A i \in DOMAIN q.q :
            q.q[i].kind = "request" => \E S \in Int : /\ q.q[i].start = SnOf(S)
                                                      /\ InitSeq <= S /\ S <= q.cur

\* The window is past the data MPDU in service only if that has been passed up.
NotPassed(cur, rx) ==
    cur # 0 /\ rx.winStartB = SnOf(cur + 1) => \E i \in DOMAIN rx.up : rx.up[i] = cur

Agreed ==
    /\ Still(o, "request") /\ Still(rcp, "response") /\ failure = FALSE
    /\ o.ag = "ESTABLISHED" \/ rcp.q # <<>> => rcp.has
    /\ StartsBehind(o)
    /\ rcp.has => NotPassed(o.cur, rcp.rx)

\* All numbers in use are within half of the space.
DataAreClose == MaxData < SEQNO_SPACE_HALF_SIZE

LEMMA CloseIsDistinct == ASSUME DataAreClose PROVE DataAreDistinct
<1>1. MaxData \in Int
  BY DataType
<1> QED BY <1>1, HalfOfSpace DEF DataAreClose, DataAreDistinct

\* A window that starts no later than n does not start at the number after it.
LEMMA StartsBefore ==
    ASSUME DataAreClose, NEW n \in Data, NEW W \in Int, InitSeq <= W, W <= n
    PROVE  SnOf(W) # SnOf(n + 1)
<1>1. /\ n \in Int /\ n + 1 \in Int /\ InitSeq \in Int /\ MaxData \in Int /\ n < InitSeq + MaxData
  BY NumIs, DataType
<1>2. PICK m \in Int : m = n + 1
  BY <1>1
<1>3. W # m /\ m < W + SEQNO_SPACE_SIZE /\ W < m + SEQNO_SPACE_SIZE
  BY <1>1, <1>2, HalfOfSpace DEF DataAreClose
<1> QED BY <1>2, <1>3, SnOfInjective

\* Queues of frames of one kind.
LEMMA OnlyTail ==
    ASSUME NEW S, NEW q \in Seq(S), q # <<>>, NEW kind, OnlyOf(q, kind)
    PROVE  OnlyOf(Tail(q), kind) /\ Head(q).kind = kind
BY TailElements DEF OnlyOf

LEMMA OnlyAppend ==
    ASSUME NEW S, NEW q \in Seq(S), NEW f \in S, NEW kind, OnlyOf(q, kind), f.kind = kind
    PROVE  OnlyOf(Append(q, f), kind) /\ Append(q, f) # <<>>
BY AppendElements DEF OnlyOf

LEMMA OnlyRetried ==
    ASSUME NEW q \in Seq(MgtFrame), q # <<>>, NEW kind, OnlyOf(q, kind), NEW received \in BOOLEAN
    PROVE  OnlyOf(<<Heard(Head(q), received)>> \o Tail(q), kind)
<1> DEFINE f == Heard(Head(q), received)
           s == <<f>> \o Tail(q)
<1>1. /\ q \in Seq(MgtFrame) /\ Tail(q) \in Seq(MgtFrame)
      /\ Head(q) = q[1] /\ 1 \in DOMAIN q
      /\ Len(q) \in Nat /\ DOMAIN q = 1 .. Len(q)
  BY TailElements, SeqElements
<1>2. q[1] \in MgtFrame
  BY <1>1, SeqElements
<1>3. f \in MgtFrame /\ f.kind = q[1].kind
  BY <1>1, <1>2 DEF MgtFrame, Heard
<1> HIDE DEF f
<1>4. /\ DOMAIN s = 1 .. Len(q)
      /\ \A i \in 1 .. Len(q) : s[i] = IF i = 1 THEN f ELSE q[i]
  BY <1>1, <1>3
<1> HIDE DEF s
<1>5. OnlyOf(s, kind)
  BY <1>1, <1>3, <1>4 DEF OnlyOf
<1> QED BY <1>5 DEF s, f

\* What an operation of the originator may do: nothing that establishes an agreement.
Keeps(q, p) == Still(p, "request") /\ (p.ag = "ESTABLISHED" => q.ag = "ESTABLISHED")

LEMMA DequeueKeeps ==
    ASSUME NEW q \in OriginatorType, Still(q, "request"), q.q # <<>>
    PROVE  Keeps(q, DequeueHead(q)) /\ DequeueHead(q) \in OriginatorType /\ Head(q.q).kind = "request"
<1>1. q.q \in Seq(MgtFrame)
  BY DEF OriginatorType
<1>2. OnlyOf(Tail(q.q), "request") /\ Head(q.q).kind = "request" /\ Tail(q.q) \in Seq(MgtFrame)
  BY <1>1, OnlyTail, TailElements DEF Still
<1>3. /\ DequeueHead(q).q = Tail(q.q) /\ DequeueHead(q).ag = q.ag
      /\ DequeueHead(q).timer = q.timer /\ DequeueHead(q).stale = q.stale
      /\ DequeueHead(q) \in OriginatorType
  BY <1>2 DEF DequeueHead, OriginatorType
<1> QED BY <1>2, <1>3 DEF Keeps, Still

LEMMA GotAckKeeps ==
    ASSUME NEW q \in OriginatorType, Still(q, "request"), q.q # <<>>
    PROVE  Keeps(q, OriginatorGotAck(q))
<1>1. PICK d : d = DequeueHead(q)
  OBVIOUS
<1>2. Keeps(q, d) /\ d \in OriginatorType
  BY <1>1, DequeueKeeps
<1>3. OriginatorGotAck(q) = [d EXCEPT !.timeouts = @ + 1]
  BY <1>1, DequeueKeeps DEF OriginatorGotAck
<1>4. PICK p : p = OriginatorGotAck(q)
  OBVIOUS
<1>5. p.q = d.q /\ p.ag = d.ag /\ p.timer = d.timer /\ p.stale = d.stale
  BY <1>2, <1>3, <1>4 DEF OriginatorType
<1>6. Keeps(q, p)
  BY <1>2, <1>5 DEF Keeps, Still
<1> QED BY <1>4, <1>6

LEMMA NoReplyKeeps ==
    ASSUME NEW q \in OriginatorType, Still(q, "request")
    PROVE  Keeps(q, NoReplyAndReset(q))
<1>1. PICK p : p = NoReplyAndReset(q)
  OBVIOUS
<1>2. p.q = q.q /\ p.ag = "NO_REPLY" /\ p.timer = q.timer /\ p.stale = q.stale
  BY <1>1 DEF NoReplyAndReset, NotifyOriginatorAgreementNoReply, OriginatorType
<1>3. Keeps(q, p)
  BY <1>2 DEF Keeps, Still
<1> QED BY <1>1, <1>3

LEMMA DiscardKeeps ==
    ASSUME NEW q \in OriginatorType, Still(q, "request"), q.q # <<>>
    PROVE  Keeps(q, OriginatorDiscards(q))
<1>1. PICK d : d = DequeueHead(q)
  OBVIOUS
<1>2. Keeps(q, d) /\ d \in OriginatorType
  BY <1>1, DequeueKeeps
<1>3. Keeps(d, NoReplyAndReset(d))
  BY <1>2, NoReplyKeeps DEF Keeps
<1>4. Keeps(q, NoReplyAndReset(d))
  BY <1>2, <1>3 DEF Keeps
<1>5. OriginatorDiscards(q) = NoReplyAndReset(d) \/ OriginatorDiscards(q) = d
  BY <1>1 DEF OriginatorDiscards
<1> QED BY <1>2, <1>4, <1>5

LEMMA MissedKeeps ==
    ASSUME NEW q \in OriginatorType, Still(q, "request"), q.q # <<>>, NEW received \in BOOLEAN
    PROVE  Keeps(q, Missed(q, received))
<1>1. PICK s : s = <<Heard(Head(q.q), received)>> \o Tail(q.q)
  OBVIOUS
<1>2. OnlyOf(s, "request")
  BY <1>1, OnlyRetried DEF Still, OriginatorType
<1>3. PICK p : p = Missed(q, received)
  OBVIOUS
<1>4. p.q = s /\ p.ag = q.ag /\ p.timer = q.timer /\ p.stale = q.stale
  BY <1>1, <1>3 DEF Missed, OriginatorType
<1>5. Keeps(q, p)
  BY <1>2, <1>4 DEF Keeps, Still
<1> QED BY <1>3, <1>5

\* A frame is queued.
LEMMA QueueKeeps ==
    ASSUME NEW q \in OriginatorType, Still(q, "request"), NEW f \in MgtFrame, f.kind = "request",
           NEW p, p.q = Append(q.q, f), p.ag # "ESTABLISHED", ~ p.timer, p.stale = 0
    PROVE  Keeps(q, p)
<1>1. q.q \in Seq(MgtFrame)
  BY DEF OriginatorType
<1>2. OnlyOf(p.q, "request")
  BY <1>1, OnlyAppend DEF Still
<1> QED BY <1>2 DEF Keeps, Still

\* With no event pending, an agreement starts without one.
LEMMA CreateIs ==
    ASSUME NEW q \in OriginatorType, Still(q, "request"), NEW p, p = CreateOriginatorAgreement(q)
    PROVE  /\ p \in OriginatorType /\ p.q = q.q /\ p.ag = "PENDING" /\ ~ p.timer /\ p.stale = 0
           /\ p.cur = q.cur /\ p.retry = q.retry /\ p.next = q.next
<1>1. p = [q EXCEPT !.stale = 0, !.timer = FALSE, !.ag = "PENDING", !.blocked = TRUE]
  BY DEF CreateOriginatorAgreement, ReplaceTimer, OriginatorType, Still
<1>2. /\ p.q = q.q /\ p.ag = "PENDING" /\ p.timer = FALSE /\ p.stale = 0
      /\ p.cur = q.cur /\ p.retry = q.retry /\ p.next = q.next
  BY <1>1 DEF OriginatorType
<1>3. p \in OriginatorType
  <2>1. PICK r : r = ReplaceTimer(q, FALSE)
    OBVIOUS
  <2>2. r \in OriginatorType
    BY <2>1, ReplaceTimerType
  <2>3. p = [r EXCEPT !.ag = "PENDING", !.blocked = TRUE]
    BY <2>1 DEF CreateOriginatorAgreement
  <2> QED BY <2>2, <2>3 DEF OriginatorType
<1> QED BY <1>2, <1>3

\* A response establishes the agreement.
LEMMA ReceivesStill ==
    ASSUME ~ InactivityOn, NEW q \in OriginatorType, Still(q, "request"), NEW f, f.kind = "response"
    PROVE  Still(OriginatorReceives(q, f), "request")
<1>1. PICK p : p = OriginatorReceives(q, f)
  OBVIOUS
<1>2. p.q = q.q /\ ~ p.timer /\ p.stale = 0
  <2>1. CASE f.rcvd
    BY <1>1, <2>1 DEF OriginatorReceives, Still
  <2>2. CASE ~ f.rcvd /\ q.ag = "none"
    BY <1>1, <2>2 DEF OriginatorReceives, GotAddBaResponse, Still, OriginatorType
  <2>3. CASE ~ f.rcvd /\ q.ag # "none"
    <3> DEFINE start == StartingSeq(q)
    <3>1. p = [q EXCEPT !.stale = 0, !.timer = InactivityOn, !.ag = "ESTABLISHED", !.blocked = FALSE,
                        !.start = start]
      BY <1>1, <2>3 DEF OriginatorReceives, GotAddBaResponse, ReplaceTimer, Still, OriginatorType
    <3> HIDE DEF start
    <3> QED BY <3>1 DEF Still, OriginatorType
  <2> QED BY <2>1, <2>2, <2>3
<1>3. Still(p, "request")
  BY <1>2 DEF Still
<1> QED BY <1>1, <1>3

\* Dequeueing a response adds nothing.
LEMMA DequeueResponseOnly ==
    ASSUME NEW q \in Seq(RecipientFrame), NEW kind, OnlyOf(q, kind)
    PROVE  OnlyOf(DequeueResponse(q), kind)
<1> DEFINE R == {i \in DOMAIN q : q[i].kind = "response"}
<1>1. CASE R = {}
  BY <1>1 DEF DequeueResponse
<1>2. CASE R # {}
  <2> DEFINE m == Max(R)
             s == RemoveAt(q, m)
  <2>1. Len(q) \in Nat /\ DOMAIN q = 1 .. Len(q)
    BY SeqElements
  <2>2. R \in SUBSET Nat /\ \A i \in R : i <= Len(q)
    BY <2>1
  <2>3. m \in R
    <3> HIDE DEF R
    <3> QED BY <1>2, <2>1, <2>2, MaxIsGreatest
  <2>4. DequeueResponse(q) = s
    BY <1>2 DEF DequeueResponse
  <2> HIDE DEF m
  <2>5. m \in DOMAIN q
    BY <2>3
  <2>6. \A k \in DOMAIN s : \E j \in DOMAIN q : j # m /\ s[k] = q[j]
    BY <2>5, RemoveAtElements
  <2> HIDE DEF s
  <2> QED BY <2>4, <2>6 DEF OnlyOf
<1> QED BY <1>1, <1>2

\* What an operation of the recipient keeps: it answers only while there is an agreement.
Alive(p) == Still(p, "response") /\ (p.q # <<>> => p.has)

\* A request, received, starts an agreement where it says, or has been received before.
LEMMA ReceivesAlive ==
    ASSUME ~ InactivityOn, NEW p, Tidy(p), Alive(p), NEW f \in MgtFrame, f.kind = "request",
           NEW d, d = RecipientReceives(p, f)
    PROVE  /\ Alive(d) /\ (p.has => d.has)
           /\ d = p \/ (d.rx.winStartB = f.start /\ d.rx.up = p.rx.up)
<1>1. CASE f.rcvd
  BY <1>1 DEF RecipientReceives
<1>2. CASE ~ f.rcvd
  <2>1. PICK g, a : g = NewFrame("response", 0) /\ a = IF p.pending THEN DequeueResponse(p.q) ELSE p.q
    OBVIOUS
  <2>2. g \in RecipientFrame /\ g.kind = "response"
    BY <2>1, NewFrameType, DataType DEF RecipientFrame
  <2>3. p.q \in Seq(RecipientFrame) /\ OneResponse(p.q) /\ (NoResponse(p.q) \/ p.pending)
    BY RecipientStateFields DEF Tidy
  <2>4. a \in Seq(RecipientFrame) /\ NoResponse(a)
    BY <2>1, <2>3, DequeueResponseTidy
  <2>5. \A i \in DOMAIN Append(a, g) : Append(a, g)[i].kind = "response"
    <3>1. \A i \in DOMAIN a : a[i].kind = "response"
      <4>1. CASE ~ p.pending
        BY <2>1, <4>1 DEF Alive, Still, OnlyOf
      <4>2. CASE p.pending
        BY <2>1, <2>3, <4>2, DequeueResponseOnly DEF Alive, Still, OnlyOf
      <4> QED BY <4>1, <4>2
    <3> QED BY <2>2, <2>4, <3>1, AppendElements
  <2>6. PICK rx : rx = NewRecipient(f.start, p.rx.lastSn, p.rx.up)
    OBVIOUS
  <2>7. d = [p EXCEPT !.stale = 0, !.timer = FALSE, !.has = TRUE, !.rx = rx,
                      !.pending = TRUE, !.q = Append(a, g)]
    <3>1. ~ p.timer /\ p.stale = 0 /\ p \in RecipientState
      BY DEF Tidy, Alive, Still
    <3>2. PICK e : e = ReplaceTimer(p, InactivityOn)
      OBVIOUS
    <3>0. InactivityOn = FALSE
      BY AgreementSetupAssumption
    <3>3. e = [p EXCEPT !.stale = 0, !.timer = FALSE]
      BY <3>0, <3>1, <3>2 DEF ReplaceTimer, RecipientState
    <3>4. e.rx = p.rx /\ e.q = p.q
      BY <3>1, <3>3 DEF RecipientState
    <3>5. d = [e EXCEPT !.has = TRUE, !.rx = NewRecipient(f.start, @.lastSn, @.up), !.pending = TRUE,
                        !.q = Append(IF p.pending THEN DequeueResponse(@) ELSE @, g)]
      BY <1>2, <2>1, <3>2 DEF RecipientReceives, SendAddBaResponse
    <3>6. d = [e EXCEPT !.has = TRUE, !.rx = rx, !.pending = TRUE, !.q = Append(a, g)]
      BY <2>1, <2>6, <3>1, <3>3, <3>4, <3>5 DEF RecipientState
    <3> QED BY <3>1, <3>3, <3>6 DEF RecipientState
  <2>8. PICK s : s = Append(a, g)
    OBVIOUS
  <2>9. d.q = s /\ ~ d.timer /\ d.stale = 0 /\ d.has /\ d.rx = rx
    BY <2>7, <2>8 DEF Tidy, RecipientState
  <2>10. Alive(d)
    BY <2>5, <2>8, <2>9 DEF Alive, Still, OnlyOf
  <2>11. rx.winStartB = f.start /\ rx.up = p.rx.up
    BY <2>6, NewRecipientIs
  <2> QED BY <2>9, <2>10, <2>11
<1> QED BY <1>1, <1>2

\* A frame of the recipient is a response; acknowledged or not, the agreement stays.
LEMMA SentAlive ==
    ASSUME NEW p, Tidy(p), Alive(p), p.q # <<>>,
           NEW d, d = RecipientGotAck(p) \/ \E received \in BOOLEAN : d = RecipientMissed(p, received)
    PROVE  Alive(d) /\ d.has = p.has /\ d.rx = p.rx
<1>1. /\ p \in RecipientState /\ p.q \in Seq(RecipientFrame) /\ p.q \in Seq(MgtFrame)
      /\ p.has /\ OnlyOf(p.q, "response")
  <2>1. p \in RecipientState /\ p.q \in Seq(RecipientFrame) /\ p.has /\ OnlyOf(p.q, "response")
    BY RecipientStateFields DEF Tidy, Alive, Still
  <2>2. RecipientFrame \subseteq MgtFrame
    BY DEF RecipientFrame
  <2> QED BY <2>1, <2>2, SeqMonotonic
<1>2. PICK t : t = Tail(p.q)
  OBVIOUS
<1>3. OnlyOf(t, "response") /\ Head(p.q).kind = "response" /\ t \in Seq(RecipientFrame)
  BY <1>1, <1>2, OnlyTail, TailElements
<1>4. \A r : r.q = t /\ r.has = p.has /\ r.timer = p.timer /\ r.stale = p.stale => Alive(r)
  BY <1>1, <1>3 DEF Alive, Still
<1>5. PICK e : e = DequeueHead(p)
  OBVIOUS
<1>6. /\ e.q = t /\ e.has = p.has /\ e.rx = p.rx /\ e.timer = p.timer /\ e.stale = p.stale
      /\ e \in RecipientState
  BY <1>1, <1>2, <1>3, <1>5 DEF DequeueHead, RecipientState
<1>7. ASSUME d = RecipientGotAck(p) PROVE Alive(d) /\ d.has = p.has /\ d.rx = p.rx
  <2>1. d = [e EXCEPT !.pending = FALSE]
    BY <1>3, <1>5, <1>7 DEF RecipientGotAck
  <2>2. d.q = t /\ d.has = p.has /\ d.rx = p.rx /\ d.timer = p.timer /\ d.stale = p.stale
    BY <1>6, <2>1 DEF RecipientState
  <2> QED BY <1>4, <2>2
<1>8. ASSUME NEW received \in BOOLEAN, d = RecipientMissed(p, received)
      PROVE  Alive(d) /\ d.has = p.has /\ d.rx = p.rx
  <2>1. CASE d = e
    BY <1>4, <1>6, <2>1
  <2>2. CASE d = Missed(p, received)
    <3>1. PICK s : s = <<Heard(Head(p.q), received)>> \o Tail(p.q)
      OBVIOUS
    <3>2. OnlyOf(s, "response")
      BY <1>1, <3>1, OnlyRetried
    <3>3. d.q = s /\ d.has = p.has /\ d.rx = p.rx /\ d.timer = p.timer /\ d.stale = p.stale
      BY <1>1, <2>2, <3>1 DEF Missed, RecipientState
    <3> QED BY <1>1, <3>2, <3>3 DEF Alive, Still
  <2> QED BY <1>5, <1>8, <2>1, <2>2 DEF RecipientMissed
<1> QED BY <1>7, <1>8

LEMMA DataAlive ==
    ASSUME NEW p, Tidy(p), Alive(p), NEW n, NEW d, d = ReceiveData(p, n)
    PROVE  Alive(d) /\ d.has = p.has
<1>1. d.q = p.q /\ d.has = p.has /\ d.timer = p.timer /\ d.stale = p.stale
  BY DEF ReceiveData, Tidy, RecipientState
<1> QED BY <1>1 DEF Alive, Still

\* The originator: only a response establishes an agreement.
LEMMA OriginatorAgreed ==
    ASSUME ~ InactivityOn, Sound(o), Tidy(rcp), Agreed, Next
    PROVE  /\ Still(o', "request")
           /\ o'.ag = "ESTABLISHED" => o.ag = "ESTABLISHED" \/ rcp.q # <<>>
<1>0. o \in OriginatorType /\ Still(o, "request") /\ Still(rcp, "response") /\ rcp.q \in Seq(RecipientFrame)
  BY RecipientStateFields DEF Sound, Agreed, Tidy
<1>1. PICK e : e = o'
  OBVIOUS
<1> SUFFICES Still(e, "request") /\ (e.ag = "ESTABLISHED" => o.ag = "ESTABLISHED" \/ rcp.q # <<>>)
  BY <1>1
<1>2. CASE SendAddBaRequest
  <2>1. PICK c : c = CreateOriginatorAgreement(o)
    OBVIOUS
  <2>2. c \in OriginatorType /\ c.q = o.q /\ c.ag = "PENDING" /\ ~ c.timer /\ c.stale = 0
    BY <1>0, <2>1, CreateIs
  <2>3. PICK f : f = NewFrame("request", StartingSeq(o))
    OBVIOUS
  <2>4. f \in MgtFrame /\ f.kind = "request"
    BY <1>0, <2>3, NewFrameType, StartingSeqType
  <2>5. e = [c EXCEPT !.q = Append(@, f)]
    BY <1>1, <1>2, <2>1, <2>3 DEF SendAddBaRequest
  <2>6. e.q = Append(o.q, f) /\ e.ag = "PENDING" /\ ~ e.timer /\ e.stale = 0
    BY <2>2, <2>5 DEF OriginatorType
  <2>7. Keeps(o, e)
    BY <1>0, <2>4, <2>6, QueueKeeps
  <2> QED BY <2>7 DEF Keeps
<1>3. CASE SendAddBaRequestTooLong
  <2>1. e = CreateOriginatorAgreement(o)
    BY <1>1, <1>3 DEF SendAddBaRequestTooLong
  <2>2. e.q = o.q /\ e.ag = "PENDING" /\ ~ e.timer /\ e.stale = 0
    BY <1>0, <2>1, CreateIs
  <2> QED BY <1>0, <2>2 DEF Still
<1>4. CASE DataAcked \/ DataMissed
  <2>1. PICK q : q = Serve(o)
    OBVIOUS
  <2>2. q.q = o.q /\ q.ag = o.ag /\ q.timer = o.timer /\ q.stale = o.stale /\ q \in OriginatorType
    <3>1. o.cur # 0 \/ o.next < InitSeq + MaxData
      BY <1>4 DEF DataAcked, DataMissed, NormalAckData, MayServeData
    <3>2. q \in OriginatorType
      BY <2>1, <3>1, ServeSound DEF Sound
    <3> QED BY <1>0, <2>1, <3>2 DEF Serve, OriginatorType
  <2>3. \/ e = [q EXCEPT !.cur = 0, !.ssrc = 0] \/ e = [q EXCEPT !.ssrc = 0, !.cur = 0]
        \/ e = [q EXCEPT !.ssrc = @ + 1, !.retry = @ \union {q.cur}]
    BY <1>1, <1>4, <2>1 DEF DataAcked, DataMissed
  <2>4. e.q = q.q /\ e.ag = q.ag /\ e.timer = q.timer /\ e.stale = q.stale
    BY <2>2, <2>3 DEF OriginatorType
  <2> QED BY <1>0, <2>2, <2>4 DEF Still
<1>5. CASE OriginatorFrameAcked \/ OriginatorFrameMissed
  <2>1. o.q # <<>> /\ \/ e = OriginatorGotAck(o)
                      \/ e = OriginatorDiscards(o)
                      \/ \E received \in BOOLEAN : e = Missed(o, received)
    BY <1>1, <1>5 DEF OriginatorFrameAcked, OriginatorFrameMissed
  <2>2. Keeps(o, e)
    BY <1>0, <2>1, GotAckKeeps, DiscardKeeps, MissedKeeps
  <2> QED BY <2>2 DEF Keeps
<1>6. CASE RecipientFrameAcked \/ RecipientFrameMissed
  <2>1. rcp.q # <<>> /\ (e = o \/ e = OriginatorReceives(o, Head(rcp.q)))
    BY <1>1, <1>6 DEF RecipientFrameAcked, RecipientFrameMissed
  <2>2. Head(rcp.q).kind = "response"
    BY <1>0, <2>1, OnlyTail DEF Still
  <2>3. Still(OriginatorReceives(o, Head(rcp.q)), "request")
    BY <1>0, <2>2, ReceivesStill
  <2> QED BY <1>0, <2>1, <2>3
<1>7. CASE AddBaResponseTimeout
  <2>1. PICK q : q = [o EXCEPT !.timeouts = @ - 1]
    OBVIOUS
  <2>2. q \in OriginatorType /\ q.q = o.q /\ q.ag = o.ag /\ q.timer = o.timer /\ q.stale = o.stale
    <3>1. o.timeouts \in Nat /\ o.timeouts > 0
      BY <1>0, <1>7 DEF AddBaResponseTimeout, OriginatorType
    <3> QED BY <1>0, <2>1, <3>1, SMTT(30) DEF OriginatorType
  <2>3. Keeps(q, NoReplyAndReset(q))
    BY <1>0, <2>2, NoReplyKeeps DEF Still
  <2>4. e = NoReplyAndReset(q) \/ e = q
    BY <1>1, <1>7, <2>1 DEF AddBaResponseTimeout
  <2> QED BY <1>0, <2>2, <2>3, <2>4 DEF Keeps, Still
<1>8. CASE ResetBa
  <2>1. e.q = o.q /\ e.timer = o.timer /\ e.stale = o.stale /\ (e.ag = o.ag \/ e.ag = "RESET")
    BY <1>0, <1>1, <1>8 DEF ResetBa, OriginatorType
  <2> QED BY <1>0, <2>1 DEF Still
<1>9. CASE OriginatorInactivityTimeout
  BY <1>0, <1>9 DEF OriginatorInactivityTimeout, Still
<1>10. CASE RecipientInactivityTimeout
  BY <1>0, <1>1, <1>10 DEF RecipientInactivityTimeout
<1>11. CASE FrameExpires
  <2>1. CASE o.q # <<>> /\ o' = [o EXCEPT !.q = Tail(@)]
    <3>1. OnlyOf(Tail(o.q), "request")
      BY <1>0, <2>1, OnlyTail DEF Still, OriginatorType
    <3>2. e.q = Tail(o.q) /\ e.ag = o.ag /\ e.timer = o.timer /\ e.stale = o.stale
      BY <1>0, <1>1, <2>1 DEF OriginatorType
    <3> QED BY <1>0, <3>1, <3>2 DEF Still
  <2>2. CASE o' = [o EXCEPT !.cur = 0]
    <3>1. e.q = o.q /\ e.ag = o.ag /\ e.timer = o.timer /\ e.stale = o.stale
      BY <1>0, <1>1, <2>2 DEF OriginatorType
    <3> QED BY <1>0, <3>1 DEF Still
  <2>3. CASE UNCHANGED o
    BY <1>0, <1>1, <2>3
  <2> QED BY <1>11, <2>1, <2>2, <2>3 DEF FrameExpires
<1> QED BY <1>2, <1>3, <1>4, <1>5, <1>6, <1>7, <1>8, <1>9, <1>10, <1>11 DEF Next

\* The recipient: agreements are only replaced, and by the requests queued.
LEMMA RecipientAgreed ==
    ASSUME ~ InactivityOn, Sound(o), Tidy(rcp), Agreed, Next
    PROVE  /\ Alive(rcp') /\ (rcp.has => rcp'.has) /\ failure' = FALSE
           /\ \/ DataAcked \/ DataMissed
              \/ rcp'.has = rcp.has /\ rcp'.rx = rcp.rx
              \/ \E i \in DOMAIN o.q : o.q[i].kind = "request" /\ rcp'.rx.winStartB = o.q[i].start
<1>0. /\ o \in OriginatorType /\ Still(o, "request") /\ Alive(rcp) /\ rcp.q \in Seq(RecipientFrame)
      /\ failure = FALSE /\ rcp \in RecipientState /\ o.q \in Seq(MgtFrame)
  BY RecipientStateFields DEF Sound, Agreed, Tidy, Alive, OriginatorType
<1>1. PICK d : d = rcp'
  OBVIOUS
<1> DEFINE Good == /\ Alive(d) /\ (rcp.has => d.has) /\ failure' = FALSE
                   /\ \/ DataAcked \/ DataMissed
                      \/ d.has = rcp.has /\ d.rx = rcp.rx
                      \/ \E i \in DOMAIN o.q : o.q[i].kind = "request" /\ d.rx.winStartB = o.q[i].start
<1> SUFFICES Good
  BY <1>1
<1>2. ASSUME UNCHANGED <<rcp, failure>> PROVE Good
  BY <1>0, <1>1, <1>2
<1>3. CASE DataAcked \/ DataMissed
  <2>1. failure' = FALSE /\ (d = rcp \/ \E n : d = ReceiveData(rcp, n))
    BY <1>0, <1>1, <1>3 DEF DataAcked, DataMissed
  <2>2. Alive(d) /\ d.has = rcp.has
    BY <1>0, <2>1, DataAlive
  <2> QED BY <1>3, <2>1, <2>2
<1>4. CASE OriginatorFrameAcked \/ OriginatorFrameMissed
  <2>1. o.q # <<>> /\ failure' = FALSE /\ (d = rcp \/ d = RecipientReceives(rcp, Head(o.q)))
    BY <1>0, <1>1, <1>4 DEF OriginatorFrameAcked, OriginatorFrameMissed
  <2>2. /\ Head(o.q).kind = "request" /\ Head(o.q) = o.q[1] /\ 1 \in DOMAIN o.q
        /\ o.q[1] \in MgtFrame
    BY <1>0, <2>1, OnlyTail, TailElements, SeqElements DEF Still
  <2>3. PICK f \in MgtFrame : f = Head(o.q)
    BY <2>2
  <2>4. ASSUME d = RecipientReceives(rcp, f)
        PROVE  /\ Alive(d) /\ (rcp.has => d.has)
               /\ d = rcp \/ d.rx.winStartB = f.start
    BY <1>0, <2>2, <2>3, <2>4, ReceivesAlive
  <2>5. Alive(d) /\ (rcp.has => d.has) /\ (d = rcp \/ d.rx.winStartB = o.q[1].start)
    BY <1>0, <2>1, <2>2, <2>3, <2>4
  <2> QED BY <2>1, <2>2, <2>5
<1>5. CASE RecipientFrameAcked \/ RecipientFrameMissed
  <2>1. rcp.q # <<>> /\ (d = RecipientGotAck(rcp) \/ \E received \in BOOLEAN : d = RecipientMissed(rcp, received))
    BY <1>1, <1>5 DEF RecipientFrameAcked, RecipientFrameMissed
  <2>2. Alive(d) /\ d.has = rcp.has /\ d.rx = rcp.rx
    BY <1>0, <2>1, SentAlive
  <2>3. rcp.has
    BY <1>0, <2>1 DEF Alive
  <2>4. failure' = FALSE
    BY <1>0, <1>5, <2>3 DEF RecipientFrameAcked, RecipientFrameMissed
  <2> QED BY <2>2, <2>4
<1>6. CASE RecipientInactivityTimeout
  BY <1>0, <1>6 DEF RecipientInactivityTimeout, Alive, Still
<1>7. CASE FrameExpires
  <2>1. failure' = FALSE
    BY <1>0, <1>7 DEF FrameExpires
  <2>2. CASE rcp.q # <<>> /\ rcp' = [rcp EXCEPT !.q = Tail(@)]
    <3>1. OnlyOf(Tail(rcp.q), "response") /\ rcp.has
      BY <1>0, <2>2, OnlyTail DEF Alive, Still
    <3>2. d.q = Tail(rcp.q) /\ d.has = rcp.has /\ d.rx = rcp.rx /\ d.timer = rcp.timer /\ d.stale = rcp.stale
      BY <1>0, <1>1, <2>2 DEF RecipientState
    <3> QED BY <1>0, <2>1, <3>1, <3>2 DEF Alive, Still
  <2>3. CASE UNCHANGED rcp
    BY <1>2, <1>7, <2>3 DEF FrameExpires
  <2> QED BY <1>7, <2>2, <2>3 DEF FrameExpires
<1>8. CASE SendAddBaRequest \/ SendAddBaRequestTooLong \/ AddBaResponseTimeout \/ ResetBa \/ OriginatorInactivityTimeout
  <2>1. UNCHANGED <<rcp, failure>>
    BY <1>8 DEF SendAddBaRequest, SendAddBaRequestTooLong, AddBaResponseTimeout, ResetBa,
       OriginatorInactivityTimeout
  <2> QED BY <1>2, <2>1
<1> HIDE DEF Good
<1> QED BY <1>3, <1>4, <1>5, <1>6, <1>7, <1>8 DEF Next

\* Requests are made between exchanges of data, and name the MPDU in service.
LEMMA NextStartsBehind ==
    ASSUME Sound(o), Tidy(rcp), Ordered, StartsBehind(o), Next PROVE StartsBehind(o')
<1>0. o \in OriginatorType /\ InService(o) /\ Starts(o)
  BY DEF Sound, Ordered
<1>1. PICK e : e = o'
  OBVIOUS
<1> SUFFICES StartsBehind(e)
  BY <1>1 DEF StartsBehind
<1>2. CASE DataAcked \/ DataMissed
  <2>1. PICK q : q = Serve(o)
    OBVIOUS
  <2>2. q.q = <<>> /\ q \in OriginatorType
    <3>1. o.q = <<>> /\ (o.cur # 0 \/ o.next < InitSeq + MaxData)
      BY <1>2 DEF DataAcked, DataMissed, NormalAckData, MayServeData
    <3> QED BY <1>0, <2>1, <3>1, ServeIs
  <2>3. \/ e = [q EXCEPT !.cur = 0, !.ssrc = 0] \/ e = [q EXCEPT !.ssrc = 0, !.cur = 0]
        \/ e = [q EXCEPT !.ssrc = @ + 1, !.retry = @ \union {q.cur}]
    BY <1>1, <1>2, <2>1 DEF DataAcked, DataMissed
  <2>4. e.q = <<>>
    BY <2>2, <2>3 DEF OriginatorType
  <2> QED BY <2>4 DEF StartsBehind
<1>3. CASE SendAddBaRequest
  <2>1. o.q = <<>>
    BY <1>3 DEF SendAddBaRequest, NeedSetupBlockAck, MayServeData
  <2>2. PICK f : f = NewFrame("request", StartingSeq(o))
    OBVIOUS
  <2>3. e.q = Append(<<>>, f) /\ e.cur = o.cur /\ e.retry = o.retry
    <3>1. PICK c : c = CreateOriginatorAgreement(o)
      OBVIOUS
    <3>2. PICK r : r = ReplaceTimer(o, FALSE)
      OBVIOUS
    <3>3. r \in OriginatorType /\ r.q = o.q /\ r.cur = o.cur /\ r.retry = o.retry
      BY <1>0, <3>2, ReplaceTimerType
    <3>4. c = [r EXCEPT !.ag = "PENDING", !.blocked = TRUE]
      BY <3>1, <3>2 DEF CreateOriginatorAgreement
    <3>5. c \in OriginatorType /\ c.q = o.q /\ c.cur = o.cur /\ c.retry = o.retry
      BY <3>3, <3>4 DEF OriginatorType
    <3>6. e = [c EXCEPT !.q = Append(@, f)]
      BY <1>1, <1>3, <2>2, <3>1 DEF SendAddBaRequest
    <3> QED BY <2>1, <3>5, <3>6 DEF OriginatorType
  <2>4. \A i \in DOMAIN e.q : e.q[i] = f
    BY <2>3
  <2>5. f.start = StartingSeq(o)
    BY <2>2 DEF NewFrame
  <2>6. ASSUME e.cur # 0 PROVE f.start = SnOf(o.cur) /\ o.cur \in Int /\ InitSeq <= o.cur
    <3>1. o.cur # 0 /\ o.cur \in o.retry /\ o.cur \in Data
      BY <1>0, <2>3, <2>6 DEF InService, OriginatorType
    <3>2. f.start = SnOf(o.cur)
      BY <2>5, <3>1 DEF StartingSeq
    <3> QED BY <3>1, <3>2, NumIs
  <2> QED BY <2>3, <2>4, <2>6 DEF StartsBehind
<1>4. CASE ~ (DataAcked \/ DataMissed) /\ ~ SendAddBaRequest
  <2>1. SameSetup(o, e) \/ e.cur = 0
    BY <1>1, <1>4, SetupSame
  <2>2. ASSUME SameSetup(o, e), e.cur # 0, NEW i \in DOMAIN e.q, e.q[i].kind = "request"
        PROVE  \E S \in Int : e.q[i].start = SnOf(S) /\ InitSeq <= S /\ S <= e.cur
    <3>1. e.cur = o.cur
      BY <2>2 DEF SameSetup, SameData
    <3>2. PICK j \in DOMAIN o.q : e.q[i].kind = o.q[j].kind /\ e.q[i].start = o.q[j].start
      BY <2>2 DEF SameSetup, NoNewRequest
    <3> QED BY <2>2, <3>1, <3>2 DEF StartsBehind
  <2> QED BY <2>1, <2>2 DEF StartsBehind
<1> QED BY <1>2, <1>3, <1>4

\* The MPDU served is not behind the window, unless it has been passed up.
LEMMA ServedNotPassed ==
    ASSUME DataAreClose, Sound(o), Tidy(rcp), Ordered, Agreed, rcp.has, DataAcked \/ DataMissed,
           NEW q, q = Serve(o)
    PROVE  rcp.rx.winStartB = SnOf(q.cur + 1) => \E i \in DOMAIN rcp.rx.up : rcp.rx.up[i] = q.cur
<1>1. CASE o.cur # 0
  BY <1>1 DEF Serve, Agreed, NotPassed
<1>2. CASE o.cur = 0
  <2>1. q.cur = o.next
    BY <1>2 DEF Serve, Sound, OriginatorType
  <2>2. q.cur \in Data
    <3>1. o.cur # 0 \/ o.next < InitSeq + MaxData
      BY DEF DataAcked, DataMissed, NormalAckData, MayServeData
    <3> QED BY <3>1, ServeIs
  <2>3. PICK W, sb : /\ AgreementAt(rcp.rx, Num, o.retry, W, sb) /\ InitSeq <= sb /\ W <= o.next
    BY DEF Ordered, Held, Live
  <2>4. W \in Int /\ sb \in Int /\ sb <= W /\ rcp.rx.winStartB = SnOf(W)
    BY <2>3 DEF AgreementAt, BufferAt
  <2>5. InitSeq <= W
    BY <2>3, <2>4, DataType
  <2> QED BY <2>1, <2>2, <2>3, <2>4, <2>5, StartsBefore
<1> QED BY <1>1, <1>2

\* And once received, it is behind the window only if it has been passed up.
LEMMA ReceivedNotPassed ==
    ASSUME DataAreClose, NEW n \in Data, NEW rx, NEW p, Advances(rx, p, n),
           rx.winStartB = SnOf(n + 1) => \E i \in DOMAIN rx.up : rx.up[i] = n,
           p.winStartB = SnOf(n + 1)
    PROVE  \E i \in DOMAIN p.up : p.up[i] = n
<1>1. PICK W, V \in Int : /\ rx.winStartB = SnOf(W) /\ p.winStartB = SnOf(V)
                          /\ InitSeq <= V /\ V <= n + 1
                          /\ V = W \/ V <= n \/ \E i \in DOMAIN p.up : p.up[i] = V - 1
  BY DEF Advances
<1>2. n \in Int /\ n + 1 \in Int
  BY NumIs
<1>3. ~ (V <= n)
  BY <1>1, StartsBefore
<1>4. V = n + 1 /\ V - 1 = n
  BY <1>1, <1>2, <1>3
<1>5. CASE V = W
  <2>1. PICK i \in DOMAIN rx.up : rx.up[i] = n
    BY <1>1, <1>5
  <2> QED BY <2>1 DEF Advances
<1> QED BY <1>1, <1>3, <1>4, <1>5

LEMMA NextNotPassed ==
    ASSUME DataAreClose, NoWrap, ~ InactivityOn, Sound(o), Tidy(rcp), Ordered, Agreed, Next, rcp'.has
    PROVE  NotPassed(o'.cur, rcp'.rx)
<1>0. o \in OriginatorType /\ StartsBehind(o)
  BY DEF Sound, Agreed
<1>1. PICK e, d : e = o' /\ d = rcp'
  OBVIOUS
<1> SUFFICES ASSUME e.cur # 0, d.rx.winStartB = SnOf(e.cur + 1)
             PROVE  \E i \in DOMAIN d.rx.up : d.rx.up[i] = e.cur
  BY <1>1 DEF NotPassed
<1>2. CASE DataAcked \/ DataMissed
  <2>1. PICK q : q = Serve(o)
    OBVIOUS
  <2>2. /\ q.cur \in Data /\ q \in OriginatorType
        /\ Held(q.cur + 1, o.retry, rcp.has, rcp.rx)
        /\ \A i \in DOMAIN rcp.rx.up : \/ rcp.rx.up[i] < q.cur
                                       \/ rcp.rx.up[i] = q.cur /\ q.cur \in o.retry
    <3>1. o.cur # 0 \/ o.next < InitSeq + MaxData
      BY <1>2 DEF DataAcked, DataMissed, NormalAckData, MayServeData
    <3> QED BY <2>1, <3>1, ServeIs
  <2>3. PICK n \in Data : n = q.cur
    BY <2>2
  <2>4. d = rcp \/ d = ReceiveData(rcp, n)
    BY <1>1, <1>2, <2>1, <2>3 DEF DataAcked, DataMissed
  <2>5. e.cur = n
    <3>1. \/ e = [q EXCEPT !.cur = 0, !.ssrc = 0] \/ e = [q EXCEPT !.ssrc = 0, !.cur = 0]
          \/ e = [q EXCEPT !.ssrc = @ + 1, !.retry = @ \union {q.cur}]
      BY <1>1, <1>2, <2>1 DEF DataAcked, DataMissed
    <3> QED BY <2>2, <2>3, <3>1 DEF OriginatorType
  <2>6. rcp.has
    <3>1. Alive(rcp)
      BY DEF Agreed, Alive
    <3>2. d.has = rcp.has
      BY <2>4, <3>1, DataAlive
    <3> QED BY <1>1, <3>2
  <2>7. rcp.rx.winStartB = SnOf(n + 1) => \E i \in DOMAIN rcp.rx.up : rcp.rx.up[i] = n
    BY <1>2, <2>1, <2>3, <2>6, ServedNotPassed
  <2>8. CASE d = rcp
    BY <2>5, <2>7, <2>8
  <2>9. CASE d = ReceiveData(rcp, n)
    <3>1. Advances(rcp.rx, d.rx, n)
      <4>1. /\ Held(n + 1, o.retry, rcp.has, rcp.rx)
            /\ \A i \in DOMAIN rcp.rx.up : rcp.rx.up[i] < n \/ (rcp.rx.up[i] = n /\ n \in o.retry)
        BY <2>2, <2>3
      <4> QED BY <2>6, <2>9, <4>1, CloseIsDistinct, DataHeld
    <3>2. PICK rx, p : rx = rcp.rx /\ p = d.rx
      OBVIOUS
    <3>3. \E i \in DOMAIN p.up : p.up[i] = n
      BY <2>5, <2>7, <3>1, <3>2, ReceivedNotPassed
    <3> QED BY <2>5, <3>2, <3>3
  <2> QED BY <2>4, <2>8, <2>9
<1>3. CASE ~ (DataAcked \/ DataMissed)
  <2>1. e.cur = o.cur
    <3>1. SendAddBaRequest => SameData(o, o')
      BY RequestStarts DEF Ordered
    <3> QED BY <1>1, <1>3, <3>1, SetupSame DEF SameSetup, SameData
  <2>2. o.cur \in Data
    BY <1>0, <2>1 DEF OriginatorType
  <2>3. CASE d.has = rcp.has /\ d.rx = rcp.rx
    BY <1>1, <2>1, <2>3 DEF Agreed, NotPassed
  <2>4. CASE \E i \in DOMAIN o.q : o.q[i].kind = "request" /\ d.rx.winStartB = o.q[i].start
    <3>1. PICK S \in Int : d.rx.winStartB = SnOf(S) /\ InitSeq <= S /\ S <= o.cur
      BY <1>0, <2>1, <2>4 DEF StartsBehind
    <3> QED BY <2>1, <2>2, <3>1, StartsBefore
  <2> QED BY <1>1, <1>3, <2>3, <2>4, RecipientAgreed
<1> QED BY <1>2, <1>3

LEMMA NextAgreed ==
    ASSUME DataAreClose, NoWrap, ~ InactivityOn, IInv, RInv, Ordered, Agreed, [Next]_vars
    PROVE  Agreed'
<1>0. Sound(o) /\ Tidy(rcp)
  BY DEF IInv, RInv
<1>1. CASE UNCHANGED vars
  BY <1>1 DEF vars, Agreed, Still, OnlyOf, StartsBehind, NotPassed
<1>2. CASE Next
  <2>1. Still(o', "request") /\ (o'.ag = "ESTABLISHED" => o.ag = "ESTABLISHED" \/ rcp.q # <<>>)
    BY <1>0, <1>2, OriginatorAgreed
  <2>2. Alive(rcp') /\ (rcp.has => rcp'.has) /\ failure' = FALSE
    BY <1>0, <1>2, RecipientAgreed
  <2>3. o.ag = "ESTABLISHED" \/ rcp.q # <<>> => rcp.has
    BY DEF Agreed
  <2>4. o'.ag = "ESTABLISHED" \/ rcp'.q # <<>> => rcp'.has
    BY <2>1, <2>2, <2>3 DEF Alive
  <2>5. StartsBehind(o')
    BY <1>0, <1>2, NextStartsBehind DEF Agreed
  <2>6. rcp'.has => NotPassed(o'.cur, rcp'.rx)
    BY <1>0, <1>2, NextNotPassed
  <2> QED BY <2>1, <2>2, <2>4, <2>5, <2>6 DEF Agreed, Still, OnlyOf, Alive, StartsBehind, NotPassed
<1> QED BY <1>1, <1>2

LEMMA InitAgreed == Init => Agreed
<1> SUFFICES ASSUME Init PROVE Agreed
  OBVIOUS
<1>1. /\ o.q = <<>> /\ o.cur = 0 /\ o.timer = FALSE /\ o.stale = 0 /\ o.ag = "none"
      /\ rcp.q = <<>> /\ rcp.timer = FALSE /\ rcp.stale = 0 /\ rcp.has = FALSE /\ failure = FALSE
  BY DEF Init
<1> QED BY <1>1 DEF Agreed, Still, OnlyOf, StartsBehind, NotPassed

\* A number that is not behind the window is not taken for an old one.
LEMMA AgreedImplies ==
    ASSUME DataAreClose, IInv, RInv, Ordered, Agreed PROVE EndsAgree
<1>0. /\ o \in OriginatorType /\ o.next \in Int /\ InitSeq <= o.next /\ o.next <= InitSeq + MaxData
      /\ InitSeq \in Int /\ MaxData \in Int
  <2>1. o \in OriginatorType /\ InitSeq <= o.next /\ o.next <= InitSeq + MaxData
    BY DEF IInv, Sound
  <2>2. o.next \in Nat
    BY <2>1 DEF OriginatorType
  <2> QED BY <2>1, <2>2, DataType
<1> SUFFICES ASSUME rcp.has, NEW n \in {o.next} \union (IF o.cur = 0 THEN {} ELSE {o.cur}),
                    IsOldPacket(rcp.rx.winStartB, SnOf(n))
             PROVE  \E i \in DOMAIN rcp.rx.up : rcp.rx.up[i] = n
  BY DEF Agreed, EndsAgree
<1>1. PICK W, sb : AgreementAt(rcp.rx, Num, o.retry, W, sb) /\ InitSeq <= sb /\ W <= o.next
  BY DEF Ordered, Held, Live
<1>2. W \in Int /\ sb \in Int /\ sb <= W /\ rcp.rx.winStartB = SnOf(W) /\ InitSeq <= W
  <2>1. W \in Int /\ sb \in Int /\ sb <= W /\ rcp.rx.winStartB = SnOf(W)
    BY <1>1 DEF AgreementAt, BufferAt
  <2> QED BY <1>0, <1>1, <2>1
<1>3. n \in Int /\ n <= o.next /\ (n # o.next => n = o.cur /\ o.cur # 0 /\ n + 1 = o.next)
  <2>1. CASE n = o.next
    BY <1>0, <2>1
  <2>2. CASE n # o.next
    <3>1. n = o.cur /\ o.cur # 0 /\ n + 1 = o.next
      BY <2>2 DEF Ordered, InService
    <3>2. n \in Data
      BY <1>0, <3>1 DEF OriginatorType
    <3>3. n \in Int
      BY <3>2, NumIs
    <3> QED BY <3>1, <3>3
  <2> QED BY <2>1, <2>2
<1>4. ~ (W <= n)
  <2> SUFFICES ASSUME W <= n PROVE FALSE
    OBVIOUS
  <2>1. W - SEQNO_SPACE_HALF_SIZE <= n /\ n < W + SEQNO_SPACE_HALF_SIZE /\ n < W + SEQNO_SPACE_SIZE
    BY <1>0, <1>2, <1>3, HalfOfSpace DEF DataAreClose
  <2>2. GetDistance(SnOf(n), SnOf(W)) = n - W
    BY <1>2, <1>3, <2>1, DistanceValue
  <2> QED BY <1>2, <1>3, <2>1, <2>2, HalfOfSpace DEF IsOldPacket
<1>5. n = o.cur /\ o.cur # 0 /\ W = o.cur + 1
  BY <1>0, <1>1, <1>2, <1>3, <1>4
<1> QED BY <1>2, <1>5 DEF Agreed, NotPassed

\* The two ends agree: no agreement is missing at the recipient while the originator
\* has it, or when a response is acknowledged, and the recipient's window is never past
\* a data MPDU still to be passed up; provided that agreements do not time out.
THEOREM BothEndsAgree ==
    ASSUME ~ InactivityOn, DataAreClose, NoWrap PROVE Spec => []EndsAgree
<1> DEFINE Inv == IInv /\ RInv /\ Ordered /\ Agreed
<1>1. Init => Inv
  BY InitInv, InitTidy, InitOrdered, InitAgreed
<1>2. Inv /\ [Next]_vars => Inv'
  BY NextInv, NextTidy, NextOrdered, NextAgreed, CloseIsDistinct
<1>3. Inv => EndsAgree
  BY AgreedImplies
<1> HIDE DEF Inv
<1> QED BY <1>1, <1>2, <1>3, PTL DEF Spec
=============================================================================
