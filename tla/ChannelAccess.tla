--------------------------- MODULE ChannelAccess ---------------------------
(***************************************************************************)
(* ChannelAccessManager and the Txop objects that contend through it on a  *)
(* link, with as much of the frame exchange manager as drives them: one    *)
(* frame per channel access (a TXOP limit of zero), acknowledged or not.   *)
(*                                                                         *)
(* No timer runs per slot: the ends of the last busy periods are kept, and *)
(* UpdateBackoff counts the idle slots when something happens.  counter is *)
(* the recurring timer the manager does without: Tick decrements it at     *)
(* each slot boundary.                                                     *)
(***************************************************************************)
EXTENDS Integers, FiniteSets, FiniteSetsExt

CONSTANTS
    NTxop,         \* m_txops, by decreasing priority
    Qos,           \* whether the station may support QoS
    Aifsn,         \* their AIFSN
    CwMin, CwMax,  \* their contention window
    SIFS, SLOT,    \* GetSifs, GetSlot
    AckTx,         \* GetAckTxTime
    FrameTx,       \* the duration of a frame
    AckWait,       \* the timeout for the answer to a frame, from its start
    Safeguard,     \* PSDU_DURATION_SAFEGUARD
    PhyHeader,     \* the duration of a PHY preamble and header
    RxTime,        \* bound: durations of a reception, after them
    CcaTime,       \* bound: durations of a CCA busy indication
    NavTime,       \* bound: durations a received frame sets the NAV to
    MaxTime,       \* bound: the time
    MaxInputs      \* bound: frames handed to the Txops, receptions, CCA
                   \* indications and sleeps of the PHY, together

Txop == 1 .. NTxop
NoTime == -1

ASSUME AccessAssumption ==
    /\ NTxop \in Nat \ {0} /\ Qos \subseteq BOOLEAN /\ Aifsn \in [Txop -> Nat \ {0}]
    /\ CwMin \in Nat /\ CwMax \in Nat /\ CwMin <= CwMax
    /\ SIFS \in Nat \ {0} /\ SLOT \in Nat \ {0} /\ AckTx \in Nat
    /\ FrameTx \in Nat \ {0} /\ AckWait \in Nat /\ FrameTx < AckWait /\ Safeguard \in Nat
    /\ PhyHeader \in Nat /\ Safeguard < SIFS /\ Safeguard < PhyHeader
    /\ MaxTime \in Nat /\ MaxInputs \in Nat
    /\ RxTime \subseteq Nat \ {0} /\ CcaTime \subseteq Nat /\ NavTime \subseteq Nat

VARIABLES
    qos,            \* GetQosSupported: the Txops are QosTxops; else the first is the DCF
    now,
    last,           \* m_lastRx, m_lastRxReceivedOk and the other m_last...End
    txop,           \* of every Txop: access, slots, start, cw, counter, and
                    \* again: a Txop::RequestAccess is scheduled
    queue,          \* frames in its queue
    event,          \* its accessRequest.event, with hadFramesToTransmit
    accessTimeout,  \* when m_accessTimeout expires
    exchange,       \* the frame exchange under way: Txop, m_txTimer, acknowledged or not
    receiving,      \* the PHY is in RX
    response,       \* when an acknowledgment is to be sent
    sleeping,       \* m_sleeping
    waking,         \* the Txop NotifyWakeupNow has come to, 0 out of it
    inputs,         \* how many there have been
    slept,          \* history: the PHY has slept
    cutShort,       \* history: a busy period has ended before it was announced to
    failed          \* an NS_ASSERT has failed

contention == <<txop, queue, accessTimeout, exchange, failed>>
phy == <<receiving, response, sleeping, waking>>
bounds == <<inputs, slept>>
vars == <<qos, now, last, contention, event, phy, bounds, cutShort>>

Edcaf == IF qos THEN Txop ELSE {}
Installed == IF qos THEN Txop ELSE {1}

Idle == [txop |-> 0, until |-> NoTime, acked |-> FALSE]

\* DoInitialize has drawn a backoff for every Txop.
Init ==
    /\ qos \in Qos /\ now = 0
    /\ last = [rxStart |-> 0, rx |-> 0, ok |-> TRUE, tx |-> 0, busy |-> 0, nav |-> 0, ack |-> 0]
    /\ \E draw \in {d \in [Txop -> 0 .. CwMin] : \A t \in Txop \ Installed : d[t] = 0} :
          txop = [t \in Txop |-> [access |-> "NOT_REQUESTED", slots |-> draw[t], start |-> 0,
                                  cw |-> CwMin, counter |-> draw[t], again |-> FALSE]]
    /\ queue = [t \in Txop |-> 0] /\ event = [t \in Txop |-> "none"]
    /\ accessTimeout = NoTime /\ exchange = Idle
    /\ receiving = FALSE /\ response = NoTime /\ sleeping = FALSE /\ waking = 0
    /\ inputs = 0 /\ slept = FALSE
    /\ cutShort = FALSE /\ failed = FALSE

-----------------------------------------------------------------------------
(* When the slots of a Txop are counted.                                   *)

IsBusy == last.rx > now \/ last.tx > now \/ last.nav > now \/ last.busy > now

Later(a, b) == IF a >= b THEN a ELSE b
Fewer(a, b) == IF a <= b THEN a ELSE b

\* An EIFS follows a reception that has failed.
RxAccessStart == IF last.rx <= now /\ ~ last.ok THEN last.rx + SIFS + AckTx ELSE last.rx

\* Mutant: the wait for an acknowledgment does not keep the others off.
GetAccessGrantStart_NoAck ==
    SIFS + Later(RxAccessStart, Later(last.busy, Later(last.tx, last.nav)))

GetAccessGrantStart ==
    SIFS + Later(RxAccessStart, Later(last.busy, Later(last.tx, Later(last.nav, last.ack))))

Aifs(t) == GetAccessGrantStart + Aifsn[t] * SLOT
GetBackoffStartFor(T, t) == Later(T[t].start, Aifs(t))
GetBackoffEndFor(T, t) == GetBackoffStartFor(T, t) + T[t].slots * SLOT

\* The idle slots since from: an EDCAF counts one at the end of AIFS too.
IdleSlots(t, from) == (now - from) \div SLOT + (IF t \in Edcaf THEN 1 ELSE 0)

\* n slots are taken off.
Decrement(T, t, from, n) == [T[t] EXCEPT !.slots = @ - n, !.start = from + n * SLOT]

UpdateBackoff(T) ==
    [t \in Txop |-> LET from == GetBackoffStartFor(T, t)
                    IN  IF from > now THEN T[t]
                        ELSE Decrement(T, t, from, Fewer(IdleSlots(t, from), T[t].slots))]

-----------------------------------------------------------------------------
(* The Txops.                                                              *)

\* Mutant: the contention window has no maximum.
UpdateFailedCw_NoMax(cw) == 2 * (cw + 1) - 1

UpdateFailedCw(cw) == Fewer(2 * (cw + 1) - 1, CwMax)

\* A backoff of n slots starts.
GenerateBackoff(T, t, n) == [T EXCEPT ![t].slots = n, ![t].start = now, ![t].counter = n]

\* Mutant: the frames that are left are forgotten.
NotifyChannelReleased_NoRequest(T, t, n) ==
    [GenerateBackoff(T, t, n) EXCEPT ![t].access = "NOT_REQUESTED"]

\* Of Txop and, for a Txop that has transmitted, of QosTxop.
NotifyChannelReleased(T, t, n) ==
    [GenerateBackoff(T, t, n) EXCEPT ![t].access = "NOT_REQUESTED", ![t].again = @ \/ queue'[t] > 0]

\* The backoffs that the Txops of a set may draw.
Draws(T, S) ==
    {n \in [Txop -> 0 .. CwMax] : \A t \in Txop : n[t] <= (IF t \in S THEN T[t].cw ELSE 0)}

\* StartTransmission has found no frame: a DCF draws a backoff, an EDCAF does not.
Release(T, S, n) ==
    [t \in Txop |-> IF t \notin S THEN T[t]
                    ELSE IF t \in Edcaf THEN [T[t] EXCEPT !.access = "NOT_REQUESTED", !.start = now]
                    ELSE NotifyChannelReleased(T, t, n[t])[t]]

\* The losers of an internal collision: those in dropped are out of retries.
CollisionCw(T, S, dropped) ==
    [t \in Txop |-> IF t \notin S \/ queue[t] = 0 THEN T[t]
                    ELSE [T[t] EXCEPT !.cw = IF t \in dropped THEN CwMin ELSE UpdateFailedCw(@)]]
NotifyInternalCollision(T, S, n) ==
    [t \in Txop |-> IF t \in S THEN NotifyChannelReleased(T, t, n[t])[t] ELSE T[t]]

-----------------------------------------------------------------------------
(* Granting access.                                                        *)

\* StartTransmission has a frame: the wait for its answer starts and the PHY
\* transmits.  There is nothing for UpdateBackoff in NotifyTxStartNow to count,
\* one has just come before.
Transmit(t, acked) ==
    /\ exchange' = [txop |-> t, until |-> now + (IF acked THEN AckWait ELSE FrameTx), acked |-> acked]
    /\ last' = [last EXCEPT !.ok = TRUE, !.tx = now + FrameTx,
                            !.ack = IF acked THEN now + AckWait ELSE @]
    /\ failed' = (failed \/ (acked /\ last.ack >= now))

\* The Txops that contend and whose backoff is over.
Expired(T) == {t \in Txop : T[t].access = "REQUESTED" /\ GetBackoffEndFor(T, t) <= now}

\* Nobody who is granted access has a frame.
GrantNobody(T) ==
    /\ \A t \in Expired(T) : queue[t] = 0
    /\ UNCHANGED <<last, queue, exchange, failed>>
    /\ \E n \in Draws(T, Expired(T) \ Edcaf) : txop' = Release(T, Expired(T), n)

\* The first that has one transmits, those after it have collided with it.
GrantFirst(T) ==
    \E t \in Expired(T), acked \in BOOLEAN :
        LET passed == {u \in Expired(T) : u < t}
            losers == {u \in Expired(T) : u > t}
        IN  /\ queue[t] > 0 /\ \A u \in passed : queue[u] = 0
            /\ Transmit(t, acked)
            /\ \E dropped \in SUBSET {u \in losers : queue[u] > 0} :
                  LET C == CollisionCw(T, losers, dropped)
                  IN  /\ queue' = [u \in Txop |-> IF u \in dropped \/ (u = t /\ ~ acked)
                                                  THEN queue[u] - 1 ELSE queue[u]]
                      /\ \E n \in Draws(C, losers \union (passed \ Edcaf)) :
                            txop' = [NotifyInternalCollision(Release(C, passed, n), losers, n)
                                        EXCEPT ![t].access = "GRANTED"]

DoGrantDcfAccess(T) == GrantNobody(T) \/ GrantFirst(T)

\* The backoff ends still to come.
ComingEnds ==
    {e \in {GetBackoffEndFor(txop, t) : t \in {u \in Txop : txop[u].access = "REQUESTED"}} : e > now}

\* Mutant: the timer is left as it is.
DoRestartAccessTimeoutIfNeeded_Running(armed) ==
    accessTimeout' = IF ComingEnds' = {} \/ armed # NoTime THEN armed ELSE Min(ComingEnds')

\* armed is when m_accessTimeout expires, NoTime if it is not running.
DoRestartAccessTimeoutIfNeeded(armed) ==
    accessTimeout' = IF ComingEnds' = {} THEN armed
                     ELSE Min(ComingEnds' \union (IF armed = NoTime THEN {} ELSE {armed}))

\* An EDCAF starts at a slot boundary.
AlignStart(T, t) ==
    IF t \in Edcaf /\ T[t].start > Aifs(t)
    THEN [T EXCEPT ![t].start = Aifs(t) + ((@ - Aifs(t)) \div SLOT + 1) * SLOT]
    ELSE T

RequestAccess(T, t) ==
    IF sleeping'
    THEN txop' = T /\ UNCHANGED <<last, queue, accessTimeout, exchange, failed>>
    ELSE /\ DoGrantDcfAccess([UpdateBackoff(AlignStart(T, t)) EXCEPT ![t].access = "REQUESTED"])
         /\ DoRestartAccessTimeoutIfNeeded(accessTimeout)

\* The first frame of a queue needs a backoff if the medium is busy or if check
\* is not set.
NeedBackoffUponAccess(T, t, had, check) ==
    ~ had /\ T[t].slots = 0 /\ (check => IsBusy)

\* Else it needs none: an EDCAF starts at the next slot boundary, a DCF after a DIFS.
AccessAtOnce(T, t, had) ==
    IF had \/ T[t].slots > 0 THEN T
    ELSE [T EXCEPT ![t].start = now + (IF t \in Edcaf THEN 0 ELSE SIFS + Aifsn[t] * SLOT)]

\* StartAccessAfterEvent for the Txops as T has them.
StartAccess(T, t, had, check) ==
    IF T[t].access # "NOT_REQUESTED" \/ queue[t] = 0 \/ sleeping'
    THEN txop' = T /\ UNCHANGED <<last, queue, accessTimeout, exchange, failed>>
    ELSE LET U == UpdateBackoff(T)
         IN  IF NeedBackoffUponAccess(U, t, had, check)
             THEN \E n \in 0 .. U[t].cw : RequestAccess(GenerateBackoff(U, t, n), t)
             ELSE RequestAccess(AccessAtOnce(U, t, had), t)

-----------------------------------------------------------------------------
(* What the upper layers and the scheduled events do.                      *)

Input == inputs < MaxInputs /\ inputs' = inputs + 1

\* Txop::Queue: a burst asks for access once, from an event of its own.
Queue(t) ==
    /\ t \in Installed /\ Input
    /\ queue' = [queue EXCEPT ![t] = @ + 1]
    /\ event' = [event EXCEPT ![t] = IF @ # "none" THEN @
                                     ELSE IF queue[t] > 0 THEN "had" ELSE "had none"]
    /\ UNCHANGED <<now, last, txop, accessTimeout, exchange, failed, phy, slept, cutShort>>

\* The lifetime of a frame that is not being transmitted is over.
Expire(t) ==
    /\ queue[t] > 0 /\ exchange.txop # t /\ queue' = [queue EXCEPT ![t] = @ - 1]
    /\ UNCHANGED <<now, last, txop, event, accessTimeout, exchange, failed, phy, bounds, cutShort>>

StartAccessAfterEvent(t) ==
    /\ event[t] # "none" /\ event' = [event EXCEPT ![t] = "none"]
    /\ UNCHANGED <<now, phy, bounds, cutShort>>
    /\ StartAccess(txop, t, event[t] = "had", TRUE)

\* Txop::RequestAccess, which NotifyChannelReleased has scheduled.
AccessAgain(t) ==
    /\ txop[t].again
    /\ UNCHANGED <<now, event, phy, bounds, cutShort>>
    /\ LET T == [txop EXCEPT ![t].again = FALSE]
       IN  IF T[t].access = "NOT_REQUESTED" THEN RequestAccess(T, t)
           ELSE txop' = T /\ UNCHANGED <<last, queue, accessTimeout, exchange, failed>>

\* The timer has expired.
AccessTimeout ==
    /\ accessTimeout = now
    /\ UNCHANGED <<now, event, phy, bounds, cutShort>>
    /\ DoGrantDcfAccess(UpdateBackoff(txop))
    /\ DoRestartAccessTimeoutIfNeeded(NoTime)

\* The end of the frame exchange: the frame is taken off the queue, or stays.
Finish(T, left) ==
    /\ queue' = left /\ exchange' = Idle
    /\ \E n \in 0 .. T[exchange.txop].cw : txop' = NotifyChannelReleased(T, exchange.txop, n)

\* The frame transmitted wants no answer.
TransmissionSucceeded ==
    /\ exchange.txop # 0 /\ ~ exchange.acked /\ exchange.until = now
    /\ Finish(txop, queue)
    /\ UNCHANGED <<now, last, accessTimeout, failed, event, phy, bounds, cutShort>>

\* m_txTimer expires: the frame is transmitted again, or given up.
NormalAckTimeout ==
    /\ exchange.acked /\ exchange.until = now
    /\ LET t == exchange.txop
       IN  \/ Finish([txop EXCEPT ![t].cw = CwMin], [queue EXCEPT ![t] = @ - 1])
           \/ Finish([txop EXCEPT ![t].cw = UpdateFailedCw(@)], queue)
    /\ UNCHANGED <<now, last, accessTimeout, failed, event, phy, bounds, cutShort>>

-----------------------------------------------------------------------------
(* What the PHY does.                                                      *)

\* The PHY receives or transmits nothing else during a preamble and its header.
HeaderReceived == last.rx + PhyHeader <= now /\ last.tx + PhyHeader <= now

\* The reception of a payload starts: one the station may be waiting for.
NotifyRxStart(d) ==
    /\ ~ sleeping /\ ~ receiving /\ HeaderReceived /\ Input
    /\ UNCHANGED <<now, queue, failed, event, response, sleeping, waking, slept>>
    /\ receiving' = TRUE
    /\ txop' = UpdateBackoff(txop)
    /\ last' = [last EXCEPT !.rxStart = now, !.rx = now + d, !.ok = TRUE,
                            !.ack = IF exchange.acked THEN now ELSE @]
    /\ cutShort' = (cutShort \/ GetAccessGrantStart' < GetAccessGrantStart)
    /\ IF exchange.acked
       THEN /\ exchange' = [exchange EXCEPT !.until = now + d + Safeguard]
            /\ DoRestartAccessTimeoutIfNeeded(accessTimeout)
       ELSE UNCHANGED <<exchange, accessTimeout>>

NotifyRxEndError ==
    /\ receiving /\ last.rx = now /\ receiving' = FALSE
    /\ last' = [last EXCEPT !.ok = FALSE]
    /\ UNCHANGED <<now, contention, event, response, sleeping, waking, bounds, cutShort>>

\* The acknowledgment waited for is received.
ReceivedNormalAck ==
    /\ receiving /\ last.rx = now /\ receiving' = FALSE /\ exchange.acked
    /\ UNCHANGED <<now, failed, event, response, sleeping, waking, bounds, cutShort>>
    /\ last' = [last EXCEPT !.ok = TRUE, !.ack = now]
    /\ Finish([txop EXCEPT ![exchange.txop].cw = CwMin], [queue EXCEPT ![exchange.txop] = @ - 1])
    /\ DoRestartAccessTimeoutIfNeeded(accessTimeout)

\* A frame for this station is received, to be acknowledged after a SIFS.
ReceivedFrame ==
    /\ receiving /\ last.rx = now /\ receiving' = FALSE /\ response = NoTime
    /\ response' = now + SIFS /\ last' = [last EXCEPT !.ok = TRUE]
    /\ UNCHANGED <<now, contention, event, sleeping, waking, bounds, cutShort>>

\* A frame for another station sets the NAV; a CF-End resets it.
UpdateNav(d) ==
    /\ receiving /\ last.rx = now /\ receiving' = FALSE
    /\ UNCHANGED <<now, queue, exchange, failed, event, response, sleeping, waking, bounds, cutShort>>
    /\ txop' = UpdateBackoff(txop)
    /\ \/ last' = [last EXCEPT !.ok = TRUE, !.nav = Later(@, now + d)] /\ UNCHANGED accessTimeout
       \/ last' = [last EXCEPT !.ok = TRUE, !.nav = now]
          /\ DoRestartAccessTimeoutIfNeeded(accessTimeout)

\* Mutant: the slots are not counted before.
NotifyCcaBusyStart_NoUpdate(d) ==
    /\ ~ sleeping /\ ~ receiving /\ Input
    /\ UNCHANGED <<now, txop, queue, accessTimeout, exchange, failed, event, phy, slept>>
    /\ last' = [last EXCEPT !.busy = now + d]
    /\ cutShort' = (cutShort \/ GetAccessGrantStart' < GetAccessGrantStart)

\* CCA is busy for another while: the last indication counts.
NotifyCcaBusyStart(d) ==
    /\ ~ sleeping /\ ~ receiving /\ Input
    /\ UNCHANGED <<now, queue, accessTimeout, exchange, failed, event, phy, slept>>
    /\ txop' = UpdateBackoff(txop)
    /\ last' = [last EXCEPT !.busy = now + d]
    /\ cutShort' = (cutShort \/ GetAccessGrantStart' < GetAccessGrantStart)

\* The acknowledgment is sent, and cuts a reception off; a sleeping PHY drops it.
SendNormalAck ==
    /\ response = now /\ response' = NoTime
    /\ UNCHANGED <<now, queue, accessTimeout, exchange, event, sleeping, waking, bounds>>
    /\ IF sleeping
       THEN UNCHANGED <<last, txop, receiving, failed, cutShort>>
       ELSE /\ failed' = (failed \/ (last.rx > now /\ now - last.rxStart > SIFS))
            /\ receiving' = FALSE
            /\ LET cut == [last EXCEPT !.ok = TRUE, !.rx = Fewer(@, now)]
               IN  last' = [cut EXCEPT !.tx = now + AckTx]
            /\ cutShort' = (cutShort \/ GetAccessGrantStart' < GetAccessGrantStart)
            /\ txop' = UpdateBackoff(txop)

\* The PHY goes to sleep, neither receiving nor transmitting.
NotifySleep ==
    /\ ~ sleeping /\ ~ receiving /\ last.tx <= now /\ Input
    /\ slept' = TRUE /\ sleeping' = TRUE /\ accessTimeout' = NoTime
    /\ UNCHANGED <<now, last, txop, queue, exchange, failed, event, receiving, response, waking,
                   cutShort>>

NotifyWakeup ==
    /\ sleeping /\ sleeping' = FALSE /\ waking' = 1
    /\ UNCHANGED <<now, last, contention, event, receiving, response, bounds, cutShort>>

ResetBackoff(T, t) ==
    [T EXCEPT ![t].slots = 0, ![t].start = IF T[t].slots > 0 THEN now ELSE @,
              ![t].counter = 0, ![t].cw = CwMin, ![t].access = "NOT_REQUESTED"]

\* The loop of NotifyWakeupNow, within one event: every Txop in turn is reset
\* and asks for access.
WakeUp ==
    /\ waking # 0 /\ waking' = (IF waking = NTxop THEN 0 ELSE waking + 1)
    /\ UNCHANGED <<now, event, receiving, response, sleeping, bounds, cutShort>>
    /\ StartAccess(ResetBackoff(txop, waking), waking, FALSE, FALSE)

\* At its slot boundaries a Txop would decrement a recurring timer.
SlotBoundary(t) ==
    LET idle == now - Aifs(t)
    IN  idle >= 0 /\ idle % SLOT = 0 /\ (t \in Edcaf \/ idle > 0)

\* Time passes once all that is due has happened.
Tick ==
    /\ now < MaxTime /\ now' = now + 1
    /\ accessTimeout # now /\ exchange.until # now /\ response # now
    /\ ~ (receiving /\ last.rx = now)
    /\ \A t \in Txop : event[t] = "none" /\ ~ txop[t].again
    /\ UNCHANGED <<last, queue, accessTimeout, exchange, failed, event, phy, bounds, cutShort>>
    /\ txop' = [t \in Txop |-> IF txop[t].counter > 0 /\ SlotBoundary(t)' /\ ~ sleeping
                               THEN [txop[t] EXCEPT !.counter = @ - 1] ELSE txop[t]]

Medium ==
    \/ \E d \in RxTime : NotifyRxStart(d)
    \/ NotifyRxEndError \/ ReceivedFrame
    \/ \E d \in NavTime : UpdateNav(d)
    \/ \E d \in CcaTime : NotifyCcaBusyStart(d)
    \/ SendNormalAck

Next ==
    /\ UNCHANGED qos
    /\ \/ WakeUp
       \/ waking = 0 /\ \/ Tick \/ AccessTimeout \/ TransmissionSucceeded \/ NormalAckTimeout
                        \/ Medium \/ ReceivedNormalAck \/ NotifySleep \/ NotifyWakeup
                        \/ \E t \in Txop : \/ Queue(t) \/ Expire(t)
                                           \/ StartAccessAfterEvent(t) \/ AccessAgain(t)

Spec == Init /\ [][Next]_vars

-----------------------------------------------------------------------------
(* Properties.                                                             *)

\* Types.
TypeOK ==
    /\ qos \in BOOLEAN /\ now \in 0 .. MaxTime
    /\ last \in [rxStart : Nat, rx : Nat, ok : BOOLEAN, tx : Nat, busy : Nat, nav : Nat, ack : Nat]
    /\ txop \in [Txop -> [access : {"NOT_REQUESTED", "REQUESTED", "GRANTED"}, slots : 0 .. CwMax,
                          start : Nat, cw : CwMin .. CwMax, counter : 0 .. CwMax, again : BOOLEAN]]
    /\ queue \in [Txop -> Nat] /\ event \in [Txop -> {"none", "had", "had none"}]
    /\ accessTimeout \in Nat \union {NoTime}
    /\ exchange \in [txop : Txop \union {0}, until : Nat \union {NoTime}, acked : BOOLEAN]
    /\ receiving \in BOOLEAN /\ response \in Nat \union {NoTime} /\ sleeping \in BOOLEAN
    /\ waking \in Txop \union {0} /\ inputs \in 0 .. MaxInputs /\ slept \in BOOLEAN
    /\ cutShort \in BOOLEAN /\ failed \in BOOLEAN

Awake == ~ sleeping /\ waking = 0

\* The slots that remain if they are counted now.
Remaining(t) == UpdateBackoff(txop)[t].slots

\* The slots counted when something happens are never more than a recurring
\* timer would have counted: no Txop is ahead of its backoff.  They may be fewer
\* by one and no more: a DCF whose backoff starts between two boundaries counts
\* its slots from there, and RequestAccess moves an EDCAF whose slots are running
\* to the next boundary, which costs the slot begun.
SlotsCounted ==
    Awake /\ ~ slept =>
        \A t \in Txop : Remaining(t) \in {txop[t].counter, txop[t].counter + 1}

\* Whoever contends waits for the timer, or it would contend for ever, and the
\* timer expires when the first backoff is over, unless a busy period has been
\* shorter than announced.
WaitersHaveTimeout ==
    Awake => \A t \in Txop : txop[t].access = "REQUESTED" =>
        /\ accessTimeout >= now
        /\ cutShort \/ accessTimeout <= GetBackoffEndFor(txop, t)

\* A frame in a queue of a station that is awake is contended for, transmitted,
\* or about to be.
NoFrameStranded ==
    Awake => \A t \in Txop : queue[t] > 0 /\ txop[t].access = "NOT_REQUESTED"
                             => event[t] # "none" \/ txop[t].again

\* One Txop at a time has been granted access: the one that transmits.  The
\* assertions of NotifyAckTimeoutStartNow and NotifyTxStartNow hold.
GrantedTransmits ==
    /\ ~ failed
    /\ ~ slept => \A t \in Txop : txop[t].access = "GRANTED" <=> exchange.txop = t
=============================================================================
