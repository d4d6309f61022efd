---------------------------- MODULE Association ----------------------------
(***************************************************************************)
(* A station (StaWifiMac with its WifiDefaultAssocManager), on one link,   *)
(* and the access points it may associate with (ApWifiMac, with what its   *)
(* WifiRemoteStationManager knows of the station).                         *)
(*                                                                         *)
(* Timers run or have expired: every action that handles an event of the   *)
(* simulator may be taken as long as the event is pending.  Beacons that   *)
(* are lost are not received.  Frames wait in the queue of their sender,   *)
(* and are retransmitted until they are acknowledged or given up.          *)
(***************************************************************************)
EXTENDS Naturals, Sequences

CONSTANTS
    Ap,            \* the APs that advertise the SSID of the station
    NoAp,          \* no BSSID
    MayRefuse,     \* the APs whose basic MCS set the station may not support
    Busy,          \* the APs another station has associated with before
    MaxAid,        \* 2007, the last AID GetNextAssociationId may return
    StaQueueSize,  \* the maximum size of the queue of the station for
    ApQueueSize,   \* management frames, and of that of an AP
    MaxEnds        \* bound: events of DoStartScanning that are pending

ASSUME AssociationAssumption ==
    /\ NoAp \notin Ap /\ MayRefuse \subseteq Ap /\ Busy \subseteq Ap
    /\ MaxAid \in Nat /\ MaxAid > 1 /\ StaQueueSize \in Nat \ {0} /\ ApQueueSize \in Nat \ {0}
    /\ MaxEnds \in Nat

VARIABLES
    sta,        \* the station: m_state, the bssid of its link, m_aid, whether
                \* m_assocRequestEvent and m_beaconWatchdog are running, whether
                \* m_beaconWatchdogEnd is after the end of the latter, and
                \* whether a Disassociated is scheduled
    manager,    \* m_apList, whether m_waitBeaconEvent or m_probeRequestEvent is
                \* running, and the number of EndScanning scheduled for now
    requests,   \* the Association Requests queued, by their receivers
    ap          \* of every AP: the m_state of the station, its AID in staList
                \* (0 if none), the AIDs of other stations, whether it refuses the
                \* station, the Association Responses queued for the station (the AID
                \* they grant, 0 for a refusal), and whether the station has received
                \* the first of them

vars == <<sta, manager, requests, ap>>

Aid == 1 .. MaxAid
Refusal == 0

Init ==
    /\ sta = [state |-> "SCANNING", bssid |-> NoAp, aid |-> 0, assocRequest |-> FALSE,
              watchdog |-> FALSE, extended |-> FALSE, leaving |-> FALSE]
    /\ manager = [apList |-> {}, timer |-> TRUE, ends |-> 0]
    /\ requests = <<>>
    /\ \E refusing \in SUBSET MayRefuse :
           ap = [a \in Ap |-> [state |-> "BRAND_NEW", aid |-> 0, others |-> IF a \in Busy THEN {1} ELSE {},
                               refuses |-> a \in refusing, responses |-> <<>>,
                               received |-> FALSE]]

-----------------------------------------------------------------------------
(* The station.  s and m are its state and that of the manager when the    *)
(* function is called.                                                     *)

Enqueue(q, frame) == IF Len(q) < StaQueueSize THEN Append(q, frame) ELSE q

\* StartScanning.  Candidates known already are tried at once; timers that
\* are running are then left alone.
StartScanning(s, m) ==
    /\ sta' = [s EXCEPT !.state = "SCANNING"]
    /\ \/ m.apList = {} /\ manager' = [m EXCEPT !.timer = TRUE]
       \/ /\ m.apList # {} /\ m.ends < MaxEnds
          /\ manager' = [m EXCEPT !.ends = @ + 1]

\* A watchdog that is running is not scheduled anew: it will see that
\* m_beaconWatchdogEnd has moved.
RestartBeaconWatchdog(s) == [s EXCEPT !.watchdog = TRUE, !.extended = s.watchdog]

SendAssociationRequest(s) ==
    /\ requests' = Enqueue(requests, s.bssid)
    /\ sta' = [s EXCEPT !.assocRequest = TRUE]

ScanningTimeout(a) ==
    SendAssociationRequest(
        [RestartBeaconWatchdog(sta) EXCEPT !.bssid = a, !.state = "WAIT_ASSOC_RESP"])

\* The best candidate is taken from the list: any, as the order is that of
\* the SNR of the last frame received from each.
EndScanning(m) ==
    \/ m.apList = {} /\ StartScanning(sta, m) /\ UNCHANGED <<requests, ap>>
    \/ \E a \in m.apList :
           /\ manager' = [m EXCEPT !.apList = @ \ {a}]
           /\ ScanningTimeout(a)
           /\ UNCHANGED ap

\* Either timer of the manager expires, or an event of DoStartScanning.
ScanTimeout ==
    manager.timer /\ EndScanning([manager EXCEPT !.timer = FALSE])

EndScanningNow ==
    manager.ends > 0 /\ EndScanning([manager EXCEPT !.ends = @ - 1])

AssocRequestTimeout ==
    /\ sta.assocRequest
    /\ SendAssociationRequest([sta EXCEPT !.state = "WAIT_ASSOC_RESP"])
    /\ UNCHANGED <<manager, ap>>

\* Disassociated is scheduled for the end of the reception under way, if
\* any.  Receptions are shorter than a beacon interval: the watchdog does not
\* expire again before that.
MissedBeacons ==
    /\ sta.watchdog /\ ~ sta.leaving
    /\ sta' = IF sta.extended THEN [sta EXCEPT !.extended = FALSE]
                              ELSE [sta EXCEPT !.watchdog = FALSE, !.leaving = TRUE]
    /\ UNCHANGED <<manager, requests, ap>>

\* Mutant: the timer that repeats the request is not cancelled.
Disassociated_KeepTimer(s) ==
    StartScanning([s EXCEPT !.bssid = NoAp, !.aid = 0], manager)

\* UNASSOCIATED lasts until TryToEnsureAssociated, at its end.
Disassociated(s) ==
    StartScanning([s EXCEPT !.bssid = NoAp, !.aid = 0, !.assocRequest = FALSE], manager)

DisassociatedEvent ==
    /\ sta.leaving
    /\ Disassociated([sta EXCEPT !.leaving = FALSE])
    /\ UNCHANGED <<requests, ap>>

NotifyChannelSwitching ==
    /\ sta.state = "ASSOCIATED"
    /\ Disassociated(sta)
    /\ UNCHANGED <<requests, ap>>

PhyCapabilitiesChanged ==
    /\ sta.state = "ASSOCIATED"
    /\ SendAssociationRequest([sta EXCEPT !.state = "WAIT_ASSOC_RESP"])
    /\ UNCHANGED <<manager, ap>>

SetActiveProbing ==
    /\ sta.state = "SCANNING"
    /\ StartScanning(sta, manager)
    /\ UNCHANGED <<requests, ap>>

\* CanBeInserted: only while a timer of the manager is running.
NotifyApInfo(a) ==
    manager' = [manager EXCEPT !.apList = IF manager.timer THEN @ \cup {a} ELSE @]

\* Mutant: a beacon while waiting for a response puts the watchdog off.
ReceiveBeacon_WhileWaiting(a) ==
    /\ IF sta.state = "SCANNING"
       THEN NotifyApInfo(a) /\ UNCHANGED sta
       ELSE a = sta.bssid /\ sta' = RestartBeaconWatchdog(sta) /\ UNCHANGED manager
    /\ UNCHANGED <<requests, ap>>

\* A beacon while waiting for a response is for the manager: it does not put
\* the watchdog off.
ReceiveBeacon(a) ==
    /\ sta.state # "SCANNING" => a = sta.bssid
    /\ IF sta.state = "ASSOCIATED"
       THEN sta' = RestartBeaconWatchdog(sta) /\ UNCHANGED manager
       ELSE NotifyApInfo(a) /\ UNCHANGED sta
    /\ UNCHANGED <<requests, ap>>

ReceiveProbeResp(a) ==
    NotifyApInfo(a) /\ UNCHANGED <<sta, requests, ap>>

\* A station that is refused goes on scanning: REFUSED does not last.  That
\* the response is from the AP asked last is an assertion; here it is
\* compiled out.
ReceiveAssocResp(a, response) ==
    \/ /\ sta.state # "WAIT_ASSOC_RESP"
       /\ UNCHANGED <<sta, manager>>
    \/ /\ sta.state = "WAIT_ASSOC_RESP" /\ response # Refusal
       /\ sta' = [sta EXCEPT !.assocRequest = FALSE, !.aid = response, !.bssid = a,
                             !.state = "ASSOCIATED"]
       /\ UNCHANGED manager
    \/ /\ sta.state = "WAIT_ASSOC_RESP" /\ response = Refusal
       /\ StartScanning([sta EXCEPT !.assocRequest = FALSE], manager)
-----------------------------------------------------------------------------
(* The APs.                                                                *)

GetNextAssociationId(a) ==
    CHOOSE n \in Aid \ ap[a].others : \A k \in Aid \ ap[a].others : n <= k

\* Mutant: a station that has an AID is given another one.
SetAid_Always(a) ==
    IF ap[a].aid \in Aid /\ ap[a].aid + 1 \in Aid THEN ap[a].aid + 1
    ELSE GetNextAssociationId(a)

\* The AID the station has already, or the first that is free.
SetAid(a) ==
    IF ap[a].aid # 0 THEN ap[a].aid ELSE GetNextAssociationId(a)

\* TxOk and TxFailed, of a response that was sent, or given up.
TxOk(p) == IF p.state = "WAIT_ASSOC_TX_OK" THEN "GOT_ASSOC_TX_OK" ELSE p.state

TxFailed(p) == IF p.state = "WAIT_ASSOC_TX_OK" THEN "DISASSOC" ELSE p.state

\* SendAssocResp.  When the queue is full, of frames for this station or for
\* others, the new response is dropped: DoEnqueue returns FALSE, and that is
\* not reported to the AP.
SendAssocResp(a, p, response) ==
    \/ /\ Len(p.responses) < ApQueueSize
       /\ ap' = [ap EXCEPT ![a] = [p EXCEPT !.responses = Append(@, response)]]
    \/ ap' = [ap EXCEPT ![a] = p]

\* Mutant: GetAssocResp does not reset the state of the station.
ReceiveAssocRequest_NoReset(a) ==
    \/ /\ ap[a].refuses
       /\ SendAssocResp(a, [ap[a] EXCEPT !.state = "ASSOC_REFUSED"], Refusal)
    \/ /\ ~ ap[a].refuses
       /\ SendAssocResp(a, [ap[a] EXCEPT !.state = "WAIT_ASSOC_TX_OK", !.aid = SetAid(a)],
                        SetAid(a))

\* ASSOC_REFUSED lasts until GetAssocResp.
ReceiveAssocRequest(a) ==
    \/ /\ ap[a].refuses
       /\ SendAssocResp(a, [ap[a] EXCEPT !.state = "DISASSOC"], Refusal)
    \/ /\ ~ ap[a].refuses
       /\ SendAssocResp(a, [ap[a] EXCEPT !.state = "WAIT_ASSOC_TX_OK", !.aid = SetAid(a)],
                        SetAid(a))

\* The frame exchange of a request ends: it was received, or never was.  It
\* takes time: what is scheduled for now goes first.
SendRequest ==
    /\ requests # <<>> /\ manager.ends = 0
    /\ requests' = Tail(requests)
    /\ ReceiveAssocRequest(Head(requests)) \/ UNCHANGED ap
    /\ UNCHANGED <<sta, manager>>

\* The station receives the first response in the queue of an AP, once.
ReceiveResponse(a) ==
    /\ ap[a].responses # <<>> /\ ~ ap[a].received
    /\ ReceiveAssocResp(a, Head(ap[a].responses))
    /\ ap' = [ap EXCEPT ![a].received = TRUE]
    /\ UNCHANGED requests

EndExchange(a, state) ==
    /\ ap' = [ap EXCEPT ![a].responses = Tail(@), ![a].received = FALSE, ![a].state = state]
    /\ UNCHANGED <<sta, manager, requests>>

\* The AP receives the acknowledgment.
ResponseAcked(a) ==
    ap[a].responses # <<>> /\ ap[a].received /\ EndExchange(a, TxOk(ap[a]))

\* The response expires or is retransmitted too often, received or not.
ResponseDropped(a) ==
    ap[a].responses # <<>> /\ EndExchange(a, TxFailed(ap[a]))
-----------------------------------------------------------------------------
Next ==
    \/ ScanTimeout \/ EndScanningNow
    \/ AssocRequestTimeout \/ MissedBeacons \/ DisassociatedEvent
    \/ NotifyChannelSwitching \/ PhyCapabilitiesChanged \/ SetActiveProbing
    \/ SendRequest
    \/ \E a \in Ap : \/ ReceiveBeacon(a) \/ ReceiveProbeResp(a)
                     \/ ReceiveResponse(a) \/ ResponseAcked(a) \/ ResponseDropped(a)

Spec == Init /\ [][Next]_vars

\* The simulator invokes every event that is scheduled and not cancelled.
FairSpec ==
    /\ Spec
    /\ WF_vars(ScanTimeout) /\ WF_vars(EndScanningNow)
    /\ WF_vars(AssocRequestTimeout) /\ WF_vars(MissedBeacons) /\ WF_vars(DisassociatedEvent)
-----------------------------------------------------------------------------
MacState == {"SCANNING", "WAIT_ASSOC_RESP", "ASSOCIATED"}
StationState == {"BRAND_NEW", "DISASSOC", "WAIT_ASSOC_TX_OK", "GOT_ASSOC_TX_OK"}

\* Types of the variables: UNASSOCIATED, REFUSED and ASSOC_REFUSED do not
\* outlast a handler, and an AID is one GetNextAssociationId may return.
TypeOK ==
    /\ sta \in [state : MacState, bssid : Ap \cup {NoAp}, aid : 0 .. MaxAid,
                assocRequest : BOOLEAN, watchdog : BOOLEAN, extended : BOOLEAN,
                leaving : BOOLEAN]
    /\ manager \in [apList : SUBSET Ap, timer : BOOLEAN, ends : 0 .. MaxEnds]
    /\ requests \in Seq(Ap) /\ Len(requests) <= StaQueueSize
    /\ ap \in [Ap -> [state : StationState, aid : 0 .. MaxAid, others : SUBSET Aid,
                       refuses : BOOLEAN, responses : Seq(0 .. MaxAid),
                       received : BOOLEAN]]
    /\ \A a \in Ap : Len(ap[a].responses) <= ApQueueSize

\* Some timer always takes the station on, and none is left that must not expire.
\* One that waits for a response has the timer to ask again, and there is an AP to
\* ask whenever that timer runs (SendAssociationRequest aborts without a BSSID).
\* One that scans will stop: a timer of the manager is running, or the candidates
\* it has are to be tried now, while scans are restarted by refusals, by lost
\* beacons, by the user and by one another.  One that has chosen an AP watches its
\* beacons, or is about to give it up.
TimersCarryOn ==
    /\ sta.state = "WAIT_ASSOC_RESP" => sta.assocRequest
    /\ sta.assocRequest => sta.bssid # NoAp
    /\ sta.state = "SCANNING" => manager.timer \/ manager.ends > 0
    /\ sta.state # "SCANNING" \/ sta.assocRequest => sta.watchdog \/ sta.leaving

\* The AID of an associated station is the one in the staList of its AP, and
\* that of no other station: only the first of several responses counts for
\* the station, the last for the AP.
AidAgreement ==
    sta.state = "ASSOCIATED" =>
        /\ sta.aid = ap[sta.bssid].aid
        /\ sta.aid \in Aid \ ap[sta.bssid].others

\* The station does not get stuck.  A request that is not answered is not repeated
\* for ever: the beacons missed since it was sent, heard or not, end the wait.  A
\* station does not stay associated with an AP it does not hear.  One that scans
\* and has heard an AP tries to associate.
NeverStuck ==
    /\ sta.state = "WAIT_ASSOC_RESP" ~> sta.state # "WAIT_ASSOC_RESP"
    /\ sta.state = "ASSOCIATED" ~> sta.state # "ASSOCIATED" \/ sta.extended
    /\ sta.state = "SCANNING" /\ manager.apList # {} ~> sta.state = "WAIT_ASSOC_RESP"
=============================================================================
