------------------------- MODULE Association_proof -------------------------
(***************************************************************************)
(* The safety invariants of Association, for any APs, queues and bounds.   *)
(*                                                                         *)
(* One invariant is inductive: what is said of the station (StationOK), of *)
(* every AP (ApOK: a response in the queue grants the AID that is in       *)
(* staList), that a scan has something to end it, and that the two sides   *)
(* agree on the AID.  An AP never takes an AID back, so neither a repeated *)
(* request nor a response that is lost, repeated or late can part them.    *)
(***************************************************************************)
EXTENDS Association, SequenceTheorems, TLAPS

StaState ==
    [state : MacState, bssid : Ap \cup {NoAp}, aid : 0 .. MaxAid, assocRequest : BOOLEAN,
     watchdog : BOOLEAN, extended : BOOLEAN, leaving : BOOLEAN]

ManagerState == [apList : SUBSET Ap, timer : BOOLEAN, ends : 0 .. MaxEnds]

ApState ==
    [state : StationState, aid : 0 .. MaxAid, others : SUBSET Aid, refuses : BOOLEAN,
     responses : Seq(0 .. MaxAid), received : BOOLEAN]

StationOK(s) ==
    /\ s \in StaState
    /\ s.state # "SCANNING" => s.bssid \in Ap
    /\ s.assocRequest => s.bssid # NoAp
    /\ s.state = "WAIT_ASSOC_RESP" => s.assocRequest
    /\ s.state # "SCANNING" \/ s.assocRequest => s.watchdog \/ s.leaving

FreeAid(p) == p.others \subseteq {1} /\ (p.aid # 0 => p.aid \in Aid \ p.others)

Grants(p) == \A i \in 1 .. Len(p.responses) : p.responses[i] \in {Refusal, p.aid}

ApOK(p) ==
    p \in ApState /\ Len(p.responses) <= ApQueueSize /\ FreeAid(p) /\ Grants(p)

\* A scan is never without an end.
ScanEnds == sta.state = "SCANNING" => manager.timer \/ manager.ends > 0

ManagerOK == manager \in ManagerState /\ ScanEnds

RequestsOK == requests \in Seq(Ap) /\ Len(requests) <= StaQueueSize

ApsOK == ap \in [Ap -> ApState] /\ \A a \in Ap : ApOK(ap[a])

IInv ==
    StationOK(sta) /\ ManagerOK /\ RequestsOK /\ ApsOK /\ AidAgreement

-----------------------------------------------------------------------------
(* What the functions of the station leave.                                *)

\* StartScanning leaves a scan that ends, of a station that is otherwise as
\* it was.
LEMMA ScanStarts ==
    ASSUME NEW s \in StaState, NEW m \in ManagerState, StartScanning(s, m)
    PROVE  sta' = [s EXCEPT !.state = "SCANNING"] /\ ManagerOK'
  <1>1. sta' = [s EXCEPT !.state = "SCANNING"]
    BY DEF StartScanning
  <1>2. CASE m.apList = {} /\ manager' = [m EXCEPT !.timer = TRUE]
    <2>1. manager'.timer /\ manager' \in ManagerState
      BY <1>2 DEF ManagerState
    <2> QED
      BY <1>1, <2>1 DEF ManagerOK, ScanEnds
  <1>3. CASE m.ends < MaxEnds /\ manager' = [m EXCEPT !.ends = @ + 1]
    <2>1. manager'.ends > 0 /\ manager' \in ManagerState
      BY <1>3, AssociationAssumption DEF ManagerState
    <2> QED
      BY <1>1, <2>1 DEF ManagerOK, ScanEnds
  <1> QED
    BY <1>1, <1>2, <1>3 DEF StartScanning

\* A scanning station promises little: that a request it may still repeat has
\* a BSSID and is watched.
LEMMA ScanningIsOK ==
    ASSUME NEW s \in StaState, sta' = [s EXCEPT !.state = "SCANNING"],
           s.assocRequest => s.bssid # NoAp /\ (s.watchdog \/ s.leaving)
    PROVE  StationOK(sta)'
  BY DEF StationOK, StaState, MacState

\* SendAssociationRequest, by a station that has a BSSID and is watched.
LEMMA RequestIsSent ==
    ASSUME RequestsOK, NEW s \in StaState, s.bssid \in Ap, s.watchdog \/ s.leaving,
           s.state = "WAIT_ASSOC_RESP", SendAssociationRequest(s)
    PROVE  StationOK(sta)' /\ RequestsOK' /\ sta'.state = "WAIT_ASSOC_RESP"
  <1>1. sta' = [s EXCEPT !.assocRequest = TRUE]
    BY DEF SendAssociationRequest
  <1>2. StationOK(sta)' /\ sta'.state = "WAIT_ASSOC_RESP"
    BY <1>1, AssociationAssumption DEF StationOK, StaState
  <1>3. CASE Len(requests) < StaQueueSize
    <2>1. requests' = Append(requests, s.bssid)
      BY <1>3 DEF SendAssociationRequest, Enqueue
    <2> QED
      BY <1>2, <1>3, <2>1, AssociationAssumption DEF RequestsOK
  <1>4. CASE ~ (Len(requests) < StaQueueSize)
    BY <1>2, <1>4 DEF SendAssociationRequest, Enqueue, RequestsOK
  <1> QED
    BY <1>3, <1>4

\* A scan ends with a request to a candidate, or by a new scan.
LEMMA ScanEnded ==
    ASSUME StationOK(sta), RequestsOK, NEW m \in ManagerState, EndScanning(m)
    PROVE  StationOK(sta)' /\ ManagerOK' /\ RequestsOK' /\ UNCHANGED ap
           /\ sta'.state # "ASSOCIATED"
  <1>1. CASE m.apList = {} /\ StartScanning(sta, m) /\ UNCHANGED <<requests, ap>>
    <2>1. sta \in StaState
      BY DEF StationOK
    <2>2. sta' = [sta EXCEPT !.state = "SCANNING"] /\ ManagerOK'
      BY <1>1, <2>1, ScanStarts
    <2>3. StationOK(sta)'
      BY <2>1, <2>2, ScanningIsOK DEF StationOK
    <2> QED
      BY <1>1, <2>1, <2>2, <2>3 DEF RequestsOK, StaState
  <1>2. ASSUME NEW a \in m.apList, manager' = [m EXCEPT !.apList = @ \ {a}],
               ScanningTimeout(a), UNCHANGED ap
        PROVE  StationOK(sta)' /\ ManagerOK' /\ RequestsOK' /\ sta'.state # "ASSOCIATED"
    <2> DEFINE s == [RestartBeaconWatchdog(sta) EXCEPT !.bssid = a, !.state = "WAIT_ASSOC_RESP"]
    <2>1. a \in Ap
      BY DEF ManagerState
    <2>2. s \in StaState /\ s.bssid \in Ap /\ s.watchdog /\ s.state = "WAIT_ASSOC_RESP"
      BY <2>1 DEF RestartBeaconWatchdog, StationOK, StaState, MacState
    <2>3. SendAssociationRequest(s)
      BY <1>2 DEF ScanningTimeout
    <2> HIDE DEF s
    <2>4. StationOK(sta)' /\ RequestsOK' /\ sta'.state = "WAIT_ASSOC_RESP"
      BY <2>2, <2>3, RequestIsSent
    <2>5. ManagerOK'
      BY <1>2, <2>4 DEF ManagerOK, ManagerState, ScanEnds
    <2> QED
      BY <2>4, <2>5
  <1> QED
    BY <1>1, <1>2 DEF EndScanning

-----------------------------------------------------------------------------
(* The actions of the station alone.  Its agreement with an AP is lost     *)
(* only with the association.                                              *)

StationStep == StationOK(sta)' /\ ManagerOK' /\ RequestsOK' /\ ApsOK' /\ AidAgreement'

LEMMA ScanTimersKeep ==
    ASSUME IInv, ScanTimeout \/ EndScanningNow
    PROVE  StationStep
  <1>1. PICK m \in ManagerState : EndScanning(m)
    <2>1. CASE ScanTimeout
      <3>1. [manager EXCEPT !.timer = FALSE] \in ManagerState
        BY DEF IInv, ManagerOK, ManagerState
      <3> QED
        BY <2>1, <3>1 DEF ScanTimeout
    <2>2. CASE EndScanningNow
      <3>1. [manager EXCEPT !.ends = @ - 1] \in ManagerState
        BY <2>2, AssociationAssumption DEF EndScanningNow, IInv, ManagerOK, ManagerState
      <3> QED
        BY <2>2, <3>1 DEF EndScanningNow
    <2> QED
      BY <2>1, <2>2
  <1>2. StationOK(sta)' /\ ManagerOK' /\ RequestsOK' /\ UNCHANGED ap
        /\ sta'.state # "ASSOCIATED"
    BY <1>1, ScanEnded DEF IInv
  <1> QED
    BY <1>2 DEF StationStep, IInv, ApsOK, AidAgreement

LEMMA RequestsKeep ==
    ASSUME IInv, AssocRequestTimeout \/ PhyCapabilitiesChanged
    PROVE  StationStep
  <1> DEFINE s == [sta EXCEPT !.state = "WAIT_ASSOC_RESP"]
  <1>1. s \in StaState /\ s.bssid \in Ap /\ (s.watchdog \/ s.leaving)
        /\ s.state = "WAIT_ASSOC_RESP"
    BY DEF IInv, StationOK, StaState, MacState, AssocRequestTimeout, PhyCapabilitiesChanged
  <1>2. SendAssociationRequest(s) /\ UNCHANGED <<manager, ap>>
    BY DEF AssocRequestTimeout, PhyCapabilitiesChanged
  <1> HIDE DEF s
  <1>3. StationOK(sta)' /\ RequestsOK' /\ sta'.state = "WAIT_ASSOC_RESP"
    BY <1>1, <1>2, RequestIsSent DEF IInv
  <1> QED
    BY <1>2, <1>3 DEF StationStep, IInv, ManagerOK, ScanEnds, ApsOK, AidAgreement

LEMMA MissedBeaconsKeeps ==
    ASSUME IInv, MissedBeacons
    PROVE  StationStep
  <1>1. StationOK(sta)' /\ sta'.state = sta.state /\ sta'.aid = sta.aid /\ sta'.bssid = sta.bssid
    <2>1. CASE sta.extended
      BY <2>1 DEF MissedBeacons, IInv, StationOK, StaState
    <2>2. CASE ~ sta.extended
      BY <2>2 DEF MissedBeacons, IInv, StationOK, StaState
    <2> QED
      BY <2>1, <2>2
  <1> QED
    BY <1>1 DEF MissedBeacons, StationStep, IInv, ManagerOK, ScanEnds, RequestsOK, ApsOK, AidAgreement

\* Disassociated leaves a station with no request to repeat.
LEMMA ApIsForgotten ==
    ASSUME NEW s \in StaState, NEW none \in 0 .. MaxAid
    PROVE  LET t == [s EXCEPT !.bssid = NoAp, !.aid = none, !.assocRequest = FALSE]
           IN  t \in StaState /\ ~ t.assocRequest
  BY DEF StaState

\* Disassociated, when the request timer is cancelled or a user asks for a
\* scan: the station scans, and the APs do not notice.
LEMMA ScansKeep ==
    ASSUME IInv, DisassociatedEvent \/ NotifyChannelSwitching \/ SetActiveProbing
    PROVE  StationStep
  <1>1. sta \in StaState /\ manager \in ManagerState
    BY DEF IInv, StationOK, ManagerOK
  <1>0. 0 \in 0 .. MaxAid
    BY AssociationAssumption
  <1>2. PICK s \in StaState : /\ StartScanning(s, manager) /\ UNCHANGED <<requests, ap>>
                              /\ s.assocRequest => s.bssid # NoAp /\ (s.watchdog \/ s.leaving)
    <2>1. CASE SetActiveProbing
      BY <2>1, <1>1 DEF SetActiveProbing, IInv, StationOK
    <2>2. CASE DisassociatedEvent
      <3> DEFINE r == [sta EXCEPT !.leaving = FALSE]
      <3> DEFINE s == [r EXCEPT !.bssid = NoAp, !.aid = 0, !.assocRequest = FALSE]
      <3>0. r \in StaState
        BY <1>1 DEF StaState
      <3>1. s \in StaState /\ ~ s.assocRequest
        BY <1>0, <3>0, ApIsForgotten
      <3>2. StartScanning(s, manager) /\ UNCHANGED <<requests, ap>>
        BY <2>2 DEF DisassociatedEvent, Disassociated
      <3> HIDE DEF s
      <3> QED
        BY <3>1, <3>2
    <2>3. CASE NotifyChannelSwitching
      <3> DEFINE s == [sta EXCEPT !.bssid = NoAp, !.aid = 0, !.assocRequest = FALSE]
      <3>1. s \in StaState /\ ~ s.assocRequest
        BY <1>1, <1>0, ApIsForgotten
      <3>2. StartScanning(s, manager) /\ UNCHANGED <<requests, ap>>
        BY <2>3 DEF NotifyChannelSwitching, Disassociated
      <3> HIDE DEF s
      <3> QED
        BY <3>1, <3>2
    <2> QED
      BY <2>1, <2>2, <2>3
  <1>3. sta' = [s EXCEPT !.state = "SCANNING"] /\ ManagerOK'
    BY <1>1, <1>2, ScanStarts
  <1>4. StationOK(sta)' /\ sta'.state = "SCANNING"
    BY <1>2, <1>3, ScanningIsOK DEF StaState
  <1> QED
    BY <1>2, <1>3, <1>4 DEF StationStep, IInv, RequestsOK, ApsOK, AidAgreement

\* Beacons and Probe Responses move the watchdog of the station, or make its
\* APs candidates.
LEMMA FramesOfApsKeep ==
    ASSUME IInv, NEW a \in Ap, ReceiveBeacon(a) \/ ReceiveProbeResp(a)
    PROVE  StationStep
  <1>1. UNCHANGED <<requests, ap>>
    BY DEF ReceiveBeacon, ReceiveProbeResp
  <1>2. CASE sta' = RestartBeaconWatchdog(sta) /\ UNCHANGED manager
    <2>1. StationOK(sta)' /\ sta'.state = sta.state /\ sta'.aid = sta.aid /\ sta'.bssid = sta.bssid
      BY <1>2 DEF RestartBeaconWatchdog, IInv, StationOK, StaState
    <2> QED
      BY <1>1, <1>2, <2>1
      DEF StationStep, IInv, ManagerOK, ScanEnds, RequestsOK, ApsOK, AidAgreement
  <1>3. CASE NotifyApInfo(a) /\ UNCHANGED sta
    <2>1. manager' \in ManagerState /\ manager'.timer = manager.timer /\ manager'.ends = manager.ends
      BY <1>3 DEF NotifyApInfo, IInv, ManagerOK, ManagerState
    <2> QED
      BY <1>1, <1>3, <2>1
      DEF StationStep, IInv, ManagerOK, ScanEnds, StationOK, RequestsOK, ApsOK, AidAgreement
  <1> QED
    BY <1>2, <1>3 DEF ReceiveBeacon, ReceiveProbeResp

-----------------------------------------------------------------------------
(* The Association Responses.                                              *)

\* The station takes the AID of the response: that is the one in staList.
LEMMA ReceiveResponseKeeps ==
    ASSUME IInv, NEW a \in Ap, ReceiveResponse(a)
    PROVE  IInv'
  <1>1. sta \in StaState /\ manager \in ManagerState /\ ApOK(ap[a]) /\ ap[a] \in ApState
    BY DEF IInv, StationOK, ManagerOK, ApsOK, ApOK
  <1> DEFINE response == Head(ap[a].responses)
  <1>2. response \in 0 .. MaxAid /\ response \in {Refusal, ap[a].aid}
    <2> DEFINE q == ap[a].responses
    <2>1. q \in Seq(0 .. MaxAid) /\ q # <<>>
      BY <1>1 DEF ReceiveResponse, ApState
    <2>2. \A i \in 1 .. Len(q) : q[i] \in {Refusal, ap[a].aid}
      BY <1>1 DEF ApOK, Grants
    <2>3. response = Head(q)
      OBVIOUS
    <2> HIDE DEF q, response
    <2>4. response \in 0 .. MaxAid
      BY <2>1, <2>3, HeadTailProperties
    <2>5. 1 \in 1 .. Len(q) /\ Head(q) = q[1]
      BY <2>1
    <2> QED
      BY <2>2, <2>3, <2>4, <2>5
  <1>3. ap' = [ap EXCEPT ![a].received = TRUE] /\ UNCHANGED requests
        /\ ReceiveAssocResp(a, response)
    BY DEF ReceiveResponse
  <1> HIDE DEF response
  <1>4. ap' \in [Ap -> ApState]
        /\ \A b \in Ap : /\ ap'[b].aid = ap[b].aid /\ ap'[b].others = ap[b].others
                         /\ ap'[b].responses = ap[b].responses
    BY <1>3 DEF IInv, ApsOK, ApState
  <1>5. ApsOK'
    BY <1>4 DEF IInv, ApsOK, ApOK, FreeAid, Grants
  <1>6. CASE sta.state # "WAIT_ASSOC_RESP"
    BY <1>3, <1>4, <1>5, <1>6
    DEF ReceiveAssocResp, IInv, StationOK, ManagerOK, ScanEnds, RequestsOK, AidAgreement, StaState
  <1>7. CASE sta.state = "WAIT_ASSOC_RESP" /\ response # Refusal
    <2>1. sta' = [sta EXCEPT !.assocRequest = FALSE, !.aid = response, !.bssid = a,
                             !.state = "ASSOCIATED"] /\ UNCHANGED manager
      BY <1>3, <1>7 DEF ReceiveAssocResp
    <2>2. sta' \in StaState /\ sta'.aid = response /\ sta'.bssid = a /\ sta'.state = "ASSOCIATED"
          /\ ~ sta'.assocRequest /\ sta'.watchdog = sta.watchdog /\ sta'.leaving = sta.leaving
      BY <1>1, <1>2, <2>1 DEF StaState, MacState
    <2>3. StationOK(sta)'
      BY <1>7, <2>2 DEF IInv, StationOK
    <2>4. response \in Aid \ ap[a].others
      BY <1>1, <1>2, <1>7 DEF ApOK, FreeAid, Refusal
    <2>5. AidAgreement'
      BY <1>2, <1>4, <1>7, <2>2, <2>4 DEF AidAgreement
    <2> QED
      BY <1>3, <1>5, <2>1, <2>2, <2>3, <2>5 DEF IInv, ManagerOK, ScanEnds, RequestsOK
  <1>8. CASE sta.state = "WAIT_ASSOC_RESP" /\ response = Refusal
    <2> DEFINE s == [sta EXCEPT !.assocRequest = FALSE]
    <2>1. s \in StaState /\ ~ s.assocRequest
      BY <1>1 DEF StaState
    <2>2. StartScanning(s, manager)
      BY <1>3, <1>8 DEF ReceiveAssocResp
    <2> HIDE DEF s
    <2>3. sta' = [s EXCEPT !.state = "SCANNING"] /\ ManagerOK'
      BY <1>1, <2>1, <2>2, ScanStarts
    <2>4. StationOK(sta)' /\ sta'.state = "SCANNING"
      BY <2>1, <2>3, ScanningIsOK DEF StaState
    <2> QED
      BY <1>3, <1>5, <2>3, <2>4 DEF IInv, RequestsOK, AidAgreement
  <1> QED
    BY <1>6, <1>7, <1>8, <1>3 DEF ReceiveAssocResp

\* A step of an AP that keeps the AID the station has keeps the agreement.
LEMMA ApStepKeeps ==
    ASSUME IInv, UNCHANGED <<sta, manager>>, RequestsOK', NEW a \in Ap, NEW p, ApOK(p),
           ap' = [ap EXCEPT ![a] = p], p.others = ap[a].others,
           ap[a].aid # 0 => p.aid = ap[a].aid
    PROVE  IInv'
  <1>1. ApsOK'
    BY DEF IInv, ApsOK, ApOK
  <1>2. AidAgreement'
    <2> SUFFICES ASSUME sta.state = "ASSOCIATED"
                 PROVE  sta.aid = ap'[sta.bssid].aid /\ sta.aid \in Aid \ ap'[sta.bssid].others
      BY DEF AidAgreement
    <2>1. sta.aid = ap[sta.bssid].aid /\ sta.aid \in Aid \ ap[sta.bssid].others
      BY DEF IInv, AidAgreement
    <2>2. sta.aid # 0
      BY <2>1, AssociationAssumption DEF Aid
    <2>3. sta.bssid \in Ap
      BY DEF IInv, StationOK
    <2>4. CASE sta.bssid = a
      BY <2>1, <2>2, <2>4 DEF IInv, ApsOK
    <2>5. CASE sta.bssid # a
      BY <2>1, <2>3, <2>5 DEF IInv, ApsOK
    <2> QED
      BY <2>4, <2>5
  <1> QED
    BY <1>1, <1>2 DEF IInv, ManagerOK, ScanEnds, StationOK

\* There is a free AID: one other station, and more than one AID.
LEMMA NextAidIsFree ==
    ASSUME NEW a \in Ap, FreeAid(ap[a])
    PROVE  GetNextAssociationId(a) \in Aid \ ap[a].others
  <1> DEFINE Free == Aid \ ap[a].others
  <1>1. \E n \in Free : \A k \in Free : n <= k
    <2>1. CASE 1 \in ap[a].others
      <3>1. 2 \in Free /\ \A k \in Free : 2 <= k
        BY <2>1, AssociationAssumption DEF FreeAid, Aid
      <3> QED
        BY <3>1
    <2>2. CASE 1 \notin ap[a].others
      <3>1. 1 \in Free /\ \A k \in Free : 1 <= k
        BY <2>2, AssociationAssumption DEF FreeAid, Aid
      <3> QED
        BY <3>1
    <2> QED
      BY <2>1, <2>2
  <1> QED
    BY <1>1 DEF GetNextAssociationId

LEMMA SetAidIsFree ==
    ASSUME NEW a \in Ap, ApOK(ap[a])
    PROVE  /\ SetAid(a) \in Aid \ ap[a].others
           /\ ap[a].aid # 0 => SetAid(a) = ap[a].aid
  BY NextAidIsFree DEF SetAid, ApOK, FreeAid

\* SendAssocResp queues the response or drops it.
LEMMA ResponseIsQueued ==
    ASSUME NEW a \in Ap, NEW p, ApOK(p), NEW response \in {Refusal, p.aid},
           SendAssocResp(a, p, response)
    PROVE  \E q : /\ ApOK(q) /\ ap' = [ap EXCEPT ![a] = q]
                  /\ q.aid = p.aid /\ q.others = p.others
  <1>1. CASE Len(p.responses) < ApQueueSize
             /\ ap' = [ap EXCEPT ![a] = [p EXCEPT !.responses = Append(@, response)]]
    <2> DEFINE q == [p EXCEPT !.responses = Append(@, response)]
    <2>1. p \in ApState /\ response \in 0 .. MaxAid
      BY AssociationAssumption DEF ApOK, ApState, Refusal
    <2>2. q \in ApState /\ q.aid = p.aid /\ q.others = p.others
          /\ q.responses = Append(p.responses, response)
      <3> DEFINE longer == Append(p.responses, response)
      <3>1. longer \in Seq(0 .. MaxAid)
        BY <2>1 DEF ApState
      <3>2. q = [p EXCEPT !.responses = longer]
        BY <2>1 DEF ApState
      <3> HIDE DEF q, longer
      <3>3. q \in ApState /\ q.aid = p.aid /\ q.others = p.others /\ q.responses = longer
        BY <2>1, <3>1, <3>2 DEF ApState
      <3> QED
        BY <3>3 DEF longer
    <2> HIDE DEF q
    <2>3. Len(q.responses) <= ApQueueSize
      BY <1>1, <2>1, <2>2, AssociationAssumption DEF ApState
    <2>4. Grants(q)
      BY <2>1, <2>2 DEF ApOK, ApState, Grants
    <2>5. ApOK(q)
      BY <2>2, <2>3, <2>4 DEF ApOK, FreeAid
    <2> QED
      BY <1>1, <2>2, <2>5 DEF q
  <1>2. CASE ap' = [ap EXCEPT ![a] = p]
    BY <1>2
  <1> QED
    BY <1>1, <1>2 DEF SendAssocResp

LEMMA ReceiveAssocRequestKeeps ==
    ASSUME IInv, UNCHANGED <<sta, manager>>, RequestsOK', NEW a \in Ap, ReceiveAssocRequest(a)
    PROVE  IInv'
  <1>1. ApOK(ap[a]) /\ ap[a] \in ApState
    BY DEF IInv, ApsOK, ApOK
  <1>2. PICK p : ApOK(p) /\ ap' = [ap EXCEPT ![a] = p] /\ p.others = ap[a].others
                 /\ (ap[a].aid # 0 => p.aid = ap[a].aid)
    <2>1. CASE ap[a].refuses /\ SendAssocResp(a, [ap[a] EXCEPT !.state = "DISASSOC"], Refusal)
      <3> DEFINE q == [ap[a] EXCEPT !.state = "DISASSOC"]
      <3>1. q \in ApState /\ q.aid = ap[a].aid /\ q.others = ap[a].others
            /\ q.responses = ap[a].responses
        BY <1>1 DEF ApState, StationState
      <3>2. SendAssocResp(a, q, Refusal)
        BY <2>1
      <3> HIDE DEF q
      <3>3. ApOK(q)
        BY <1>1, <3>1 DEF ApOK, FreeAid, Grants
      <3> QED
        BY <3>1, <3>2, <3>3, ResponseIsQueued
    <2>2. CASE SendAssocResp(a, [ap[a] EXCEPT !.state = "WAIT_ASSOC_TX_OK", !.aid = SetAid(a)],
                             SetAid(a))
      <3> DEFINE q == [ap[a] EXCEPT !.state = "WAIT_ASSOC_TX_OK", !.aid = SetAid(a)]
      <3>1. SetAid(a) \in Aid \ ap[a].others /\ (ap[a].aid # 0 => SetAid(a) = ap[a].aid)
        BY <1>1, SetAidIsFree
      <3>2. SetAid(a) \in 0 .. MaxAid
        BY <3>1, AssociationAssumption DEF Aid
      <3>3. q \in ApState /\ q.aid = SetAid(a) /\ q.others = ap[a].others
            /\ q.responses = ap[a].responses
        BY <1>1, <3>2 DEF ApState, StationState
      <3>4. SendAssocResp(a, q, q.aid)
        BY <2>2, <3>3
      <3> HIDE DEF q
      <3>5. Grants(q)
        BY <1>1, <3>1, <3>3 DEF ApOK, ApState, Grants, Refusal
      <3>6. ApOK(q)
        BY <1>1, <3>1, <3>3, <3>5 DEF ApOK, FreeAid
      <3> QED
        BY <3>1, <3>3, <3>4, <3>6, ResponseIsQueued
    <2> QED
      BY <2>1, <2>2 DEF ReceiveAssocRequest
  <1> QED
    BY <1>2, ApStepKeeps

LEMMA SendRequestKeeps ==
    ASSUME IInv, SendRequest
    PROVE  IInv'
  <1>1. Head(requests) \in Ap /\ RequestsOK' /\ UNCHANGED <<sta, manager>>
    BY AssociationAssumption DEF SendRequest, IInv, RequestsOK
  <1>2. CASE ReceiveAssocRequest(Head(requests))
    BY <1>1, <1>2, ReceiveAssocRequestKeeps
  <1>3. CASE UNCHANGED ap
    BY <1>1, <1>3 DEF IInv, StationOK, ManagerOK, ScanEnds, ApsOK, AidAgreement
  <1> QED
    BY <1>2, <1>3 DEF SendRequest

LEMMA EndExchangeKeeps ==
    ASSUME IInv, NEW a \in Ap, ResponseAcked(a) \/ ResponseDropped(a)
    PROVE  IInv'
  <1>1. ApOK(ap[a]) /\ ap[a] \in ApState /\ ap[a].responses # <<>>
    BY DEF IInv, ApsOK, ApOK, ResponseAcked, ResponseDropped
  <1>2. PICK state \in StationState : EndExchange(a, state)
    <2>1. TxOk(ap[a]) \in StationState /\ TxFailed(ap[a]) \in StationState
      BY <1>1 DEF TxOk, TxFailed, ApState, StationState
    <2> QED
      BY <2>1 DEF ResponseAcked, ResponseDropped
  <1> DEFINE q == [ap[a] EXCEPT !.responses = Tail(@), !.received = FALSE, !.state = state]
  <1>3. q \in ApState /\ q.aid = ap[a].aid /\ q.others = ap[a].others
        /\ q.responses = Tail(ap[a].responses)
    <2> DEFINE shorter == Tail(ap[a].responses)
    <2>1. shorter \in Seq(0 .. MaxAid)
      <3>1. ap[a].responses \in Seq(0 .. MaxAid)
        BY <1>1 DEF ApState
      <3> QED
        BY <1>1, <3>1, HeadTailProperties
    <2>2. q = [ap[a] EXCEPT !.responses = shorter, !.received = FALSE, !.state = state]
      BY <1>1 DEF ApState
    <2> HIDE DEF q, shorter
    <2>3. q \in ApState /\ q.aid = ap[a].aid /\ q.others = ap[a].others
          /\ q.responses = shorter
      BY <1>1, <1>2, <2>1, <2>2 DEF ApState
    <2> QED
      BY <2>3 DEF shorter
  <1>4. ap' = [ap EXCEPT ![a] = q] /\ UNCHANGED <<sta, manager, requests>>
    BY <1>2 DEF EndExchange, IInv, ApsOK
  <1> HIDE DEF q
  <1>5. Len(q.responses) <= ApQueueSize /\ Grants(q)
    BY <1>1, <1>3, AssociationAssumption DEF ApOK, ApState, Grants
  <1>6. ApOK(q)
    BY <1>1, <1>3, <1>5 DEF ApOK, FreeAid
  <1>7. RequestsOK'
    BY <1>4 DEF IInv, RequestsOK
  <1> QED
    BY <1>3, <1>4, <1>6, <1>7, ApStepKeeps

-----------------------------------------------------------------------------
LEMMA InitEstablishes == Init => IInv
  <1> SUFFICES ASSUME Init PROVE IInv
    OBVIOUS
  <1> DEFINE none == 0
  <1>0. none \in 0 .. MaxAid
    BY AssociationAssumption
  <1>1. StationOK(sta)
    <2>1. sta = [state |-> "SCANNING", bssid |-> NoAp, aid |-> none, assocRequest |-> FALSE,
                 watchdog |-> FALSE, extended |-> FALSE, leaving |-> FALSE]
      BY DEF Init
    <2> HIDE DEF none
    <2> QED
      BY <1>0, <2>1 DEF StationOK, StaState, MacState
  <1>2. ManagerOK /\ RequestsOK
    BY AssociationAssumption DEF Init, ManagerOK, ManagerState, ScanEnds, RequestsOK
  <1>3. ApsOK
    <2>1. PICK refusing \in SUBSET MayRefuse :
              ap = [a \in Ap |-> [state |-> "BRAND_NEW", aid |-> none,
                                  others |-> IF a \in Busy THEN {1} ELSE {},
                                  refuses |-> a \in refusing, responses |-> <<>>,
                                  received |-> FALSE]]
      BY DEF Init
    <2> SUFFICES ASSUME NEW a \in Ap PROVE ap[a] \in ApState /\ ApOK(ap[a])
      <3>1. ap = [b \in Ap |-> ap[b]]
        BY <2>1
      <3> QED
        BY <3>1 DEF ApsOK
    <2> DEFINE others == IF a \in Busy THEN {1} ELSE {}
    <2>2. others \in SUBSET Aid /\ others \subseteq {1}
      BY AssociationAssumption DEF Aid
    <2>3. ap[a] = [state |-> "BRAND_NEW", aid |-> none, others |-> others,
                   refuses |-> a \in refusing, responses |-> <<>>, received |-> FALSE]
      BY <2>1
    <2>4. ap[a].aid = 0 /\ ap[a].others = others /\ ap[a].responses = <<>>
      BY <2>3
    <2> HIDE DEF none, others
    <2>5. ap[a] \in ApState
      BY <1>0, <2>2, <2>3 DEF ApState, StationState
    <2> QED
      BY <2>2, <2>4, <2>5, AssociationAssumption DEF ApOK, FreeAid, Grants
  <1>4. AidAgreement
    BY DEF Init, AidAgreement
  <1> QED
    BY <1>1, <1>2, <1>3, <1>4 DEF IInv

LEMMA NextKeeps == IInv /\ [Next]_vars => IInv'
  <1> SUFFICES ASSUME IInv, [Next]_vars PROVE IInv'
    OBVIOUS
  <1>1. StationStep => IInv'
    BY DEF StationStep, IInv
  <1>2. CASE ScanTimeout \/ EndScanningNow
    BY <1>1, <1>2, ScanTimersKeep
  <1>3. CASE AssocRequestTimeout \/ PhyCapabilitiesChanged
    BY <1>1, <1>3, RequestsKeep
  <1>4. CASE MissedBeacons
    BY <1>1, <1>4, MissedBeaconsKeeps
  <1>5. CASE DisassociatedEvent \/ NotifyChannelSwitching \/ SetActiveProbing
    BY <1>1, <1>5, ScansKeep
  <1>6. CASE SendRequest
    BY <1>6, SendRequestKeeps
  <1>7. ASSUME NEW a \in Ap, ReceiveBeacon(a) \/ ReceiveProbeResp(a)
        PROVE  IInv'
    BY <1>1, <1>7, FramesOfApsKeep
  <1>8. ASSUME NEW a \in Ap, ReceiveResponse(a) PROVE IInv'
    BY <1>8, ReceiveResponseKeeps
  <1>9. ASSUME NEW a \in Ap, ResponseAcked(a) \/ ResponseDropped(a) PROVE IInv'
    BY <1>9, EndExchangeKeeps
  <1>10. CASE UNCHANGED vars
    BY <1>10 DEF vars, IInv, StationOK, ManagerOK, ScanEnds, RequestsOK, ApsOK, AidAgreement
  <1> QED
    BY <1>2, <1>3, <1>4, <1>5, <1>6, <1>7, <1>8, <1>9, <1>10 DEF Next

LEMMA IInvHolds == Spec => []IInv
  BY InitEstablishes, NextKeeps, PTL DEF Spec

-----------------------------------------------------------------------------
\* The types: no transient state outlasts its handler, and no queue or AID
\* leaves its bounds.
THEOREM TypesHold == Spec => []TypeOK
  <1>1. IInv => TypeOK
    BY DEF IInv, StationOK, StaState, ManagerOK, ManagerState, RequestsOK, ApsOK, ApOK,
           ApState, TypeOK
  <1> QED
    BY <1>1, IInvHolds, PTL

\* However requests and responses are lost, repeated, dropped by full queues
\* or late, the AID of an associated station is the one its AP gave to it and
\* to nobody else (SetAid, ReceiveAssocResp).
THEOREM AidsAgree == Spec => []AidAgreement
  <1>1. IInv => AidAgreement
    BY DEF IInv
  <1> QED
    BY <1>1, IInvHolds, PTL

\* Whatever timers are cancelled, moved or left over by the handlers, one always
\* takes the station on: a scan ends, a request is repeated, and only while there
\* is an AP to send it to, and the beacons of the AP chosen are watched.
THEOREM TimersAreKept == Spec => []TimersCarryOn
  <1>1. ASSUME IInv PROVE TimersCarryOn
    <2>1. sta.state = "WAIT_ASSOC_RESP" => sta.assocRequest
      BY <1>1 DEF IInv, StationOK
    <2>2. sta.assocRequest => sta.bssid # NoAp
      BY <1>1 DEF IInv, StationOK
    <2>3. sta.state = "SCANNING" => manager.timer \/ manager.ends > 0
      BY <1>1 DEF IInv, ManagerOK, ScanEnds
    <2>4. sta.state # "SCANNING" \/ sta.assocRequest => sta.watchdog \/ sta.leaving
      BY <1>1 DEF IInv, StationOK
    <2> QED
      BY <2>1, <2>2, <2>3, <2>4 DEF TimersCarryOn
  <1> QED
    BY <1>1, IInvHolds, PTL
=============================================================================
