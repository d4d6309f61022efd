# A TLA+ model of the simulator core and of the Wi-Fi MAC

The repository is ns-3 with simulation programs that measure the latency of
Wi-Fi links. This directory holds TLA+ modules for the parts those measurements
rest on most:

* the **event engine** (`src/core/model`): the default simulator, the realtime
  simulator with its synchronizer, and the data structures of the event list;
* the **Wi-Fi MAC** (`src/wifi/model`): the Block Ack machinery, which decides
  which frame is sent, repeated, given up, reordered and handed up; the channel
  access that decides when; and the association of a station with an access
  point that comes before both.

TLC checks the modules on small instances; TLAPS proves their safety properties and
refinements for all constants, under assumptions that section 4 names.
`PROJECT.json` says which lines each definition stands for, which configuration
checks what, and which changes of a definition each property detects.

## 1. Inventory

### Parts that are modelled

| part | state | operations | works with |
|---|---|---|---|
| Sequence numbers, `BlockAckWindow` (`block-ack-window.cc`, `block-ack-agreement.cc`, `qos-utils.cc`) | start of the window, ring of flags, head index | Init, Reset, At, Advance; GetDistance, QosUtilsIsOldPacket | used by both ends of an agreement |
| `RecipientBlockAckAgreement`, `MacRxMiddle` | scoreboard, `m_winStartB`, reorder buffer, last sequence control | NotifyReceivedMpdu, NotifyReceivedBar, Flush, FillBlockAckBitmap; Receive | called by the frame exchange manager; hands MSDUs up |
| `BlockAckManager`, `OriginatorBlockAckAgreement` | in-flight queue, transmit window, state of the agreement, inactivity events, BlockAckReqs to send | StorePacket, NotifyGotAck, NotifyMissedAck, NotifyGotBlockAck, NotifyMissedBlockAck, NotifyDiscardedMpdu, NeedBarRetransmission; Create, Update, Destroy, NoReply, Reset | the queue's Expired trace calls it back; blocks and unblocks the queue |
| `WifiMacQueue`, `QosTxop`, `Txop` | queued MPDUs, in-flight and Retry flags, channel access status | Queue, Peek, DequeueIfQueued, WipeAllExpiredMpdus; NotifyChannelReleased; AddBaResponseTimeout, ResetBa | schedule events of the simulator |
| `HtFrameExchangeManager` and its base classes | the exchange under way | StartFrameExchange, SendMpduFromBaManager, SendDataFrame, SendPsdu, MissedBlockAck, BlockAckTimeout, DoCtsTimeout, NormalAckTimeout; ADDBA and DELBA frames | drives everything above |
| `DefaultSimulatorImpl` | event list, current key, `m_uid`, destroy list, list of the other threads, stop flag | Schedule, ScheduleDestroy, ScheduleWithContext, Cancel, Remove, IsExpired, Stop, Run, Destroy | runs every event of every other part |
| `RealtimeSimulatorImpl`, `WallClockSynchronizer` | the same, plus the mutex, the condition, the origin of the wall clock, `m_running` | Run, ProcessOneEvent, SleepWait, SpinWait, SetOrigin; Schedule..., ScheduleRealtime..., Stop, Cancel, Remove by any thread | other threads signal the main one while it waits |
| `ListScheduler`, `HeapScheduler`, `CalendarScheduler` | a sorted list; an array; buckets, width and current day | Insert, PeekNext, RemoveNext, Remove, resizing | called by a simulator, which may replace one by another (`SetScheduler`) |
| `ChannelAccessManager`, `Txop` | ends of the last busy periods; slots, start, CW and access status of every Txop; one access timer | Notify...Now, RequestAccess, UpdateBackoff, DoGrantDcfAccess, DoRestartAccessTimeoutIfNeeded; StartAccessAfterEvent, NotifyChannelReleased | driven by the PHY and the frame exchange manager; grants what `BlockAck` requests |
| `StaWifiMac`, `WifiDefaultAssocManager`, `ApWifiMac` | state, BSSID, AID, timers; candidates; per AP the state and AID of the station | StartScanning, ScanningTimeout, AssocRequestTimeout, MissedBeacons, Disassociated; ReceiveAssocRequest, SetAid, TxOk, TxFailed | by frames in the queues of both |

What is hard there: frames, BlockAcks and Acks are lost in any combination;
lifetimes end while MPDUs are in flight; callbacks of the queue are deferred by
`ScheduleNow`, so they run after the code that relies on them; timers are not
cancelled and meet a newer agreement; sequence numbers wrap at 4096 and their
differences at 65536; a second thread pushes events while the main one runs;
handles outlive their events; a wait is computed before it begins, and others
schedule in between; slots are counted after the fact, from the ends of busy
periods that may be announced and cut short; one timer stands for the backoffs
of several Txops; scans, watchdogs and requests each have timers that outlive
the state they were started in; several responses of an AP are under way at
once; a heap or a calendar is rearranged by every operation. The hazards of
`PROJECT.json` list them by line.

What makes the parts correct: MSDUs go up in order and once; what was
acknowledged is not lost; both ends agree on the window; nothing stays in flight
with nobody waiting for it; the recipient is told what was given up; a pair is
not blocked forever; events run by time and in the order of their scheduling;
handles tell exactly which events are gone; no wake-up is lost, and no event
precedes the wall clock; slots are counted as a recurring timer would count them;
no frame is left with nobody contending for it; a station always has a timer
that takes it on, and its AID is the one its AP has; every event list returns
the earliest event.

### Parts that are not modelled

`PROJECT.json` lists every module of the repository. The main ones: the HE/EHT/VHT
exchanges, multi-link operation and EMLSR (extensions of the HT exchanges),
`MapScheduler` and `PriorityQueueScheduler` (covers of `std::map` and
`std::priority_queue`), PHY, propagation, mobility, energy, spectrum and
antenna models (numeric), the LTE, mesh, routing and TCP/IP modules (not what
this repository simulates), the latency programs (`latency-test*`,
`my-test-simulation`, `scratch`: configuration and measurement, without protocol
state) and plots, bindings and build scripts.

## 2. The modules

```
SequenceSpace            numbers modulo 2^12 in 2^16 arithmetic
  BlockAckWindow         the abstract window and its operations
    SlidingWindow        the abstract window as a specification
    CircularWindow       vector and head index: implements SlidingWindow
      DataStructures_proof   (of CircularWindow, Schedulers and EventLists)
    RecipientAgreement   recipient agreement and MacRxMiddle, as operators
      RecipientAgreement_proof   lemmas about them, and about numbers
      BlockAck           data path: implements OrderedDelivery     MCBlockAck
        BlockAck_proof
      AgreementSetup     ADDBA, DELBA, timers, early data          MCAgreementSetup
        AgreementSetup_proof
OrderedDelivery          what a Block Ack agreement promises
Simulator                DefaultSimulatorImpl                      MCSimulator
  Simulator_proof
RealtimeSimulator        RealtimeSimulatorImpl, WallClockSynchronizer
  RealtimeSimulator_proof
EventList                what class Scheduler promises
Schedulers               list, heap and calendar, as operators
  EventLists             the simulator's calls of them: implement EventList
    DataStructures_proof
ChannelAccess            ChannelAccessManager and its Txops        MCChannelAccess
  ChannelAccess_proof
Association              StaWifiMac, its manager, and the APs
  Association_proof
```

**SequenceSpace, BlockAckWindow.** `GetDistance` keeps C++'s truncating `%` and
the 16-bit result, because `m_winStartB` may hold a value that is no sequence
number. `BlockAckWindow` has the start and the set of marked distances; that the
code's ring does the same is the subject of `CircularWindow`.

**RecipientAgreement.** One operator per method. The order of
`m_bufferedMpdus` is the code's `Compare` with the `m_winStartB` of the moment.
MPDU headers are shared objects in the simulator, so the duplicate filter reads
the Retry flag as the originator left it last (`retry`).

**BlockAck.** One originator, one recipient, one TID, established agreement,
TXOP limit zero. `o` is the originator (EDCA queue, numbers, flags, in-flight
queue, window, BlockAckReq), `exch` the frame exchange, `access` the EDCAF's
request, `r` the recipient. An exchange is a sequence of steps (CTS received or
missed; each MPDU received or lost; answer received or timed out), so that
arrivals of new MSDUs and ends of lifetimes happen between them. Each action is
the whole handler: `ReceiveBlockAck`, for instance, has the bitmap's effect, the
GetBar that follows a success and the release of the channel. `FireExpired` is
the event that `ExtractAllExpiredMpdus` schedules for now; everything that takes
time waits for it (`Settled`). Whether a retry limit is reached is a choice
(`retransmit`), as the counts play no other role.

**AgreementSetup.** The same pair before, between and after agreements. A frame
exchange is one action with three outcomes: frame lost, Ack lost, acknowledged.
Timers are untimed counts of pending events, since the code never cancels
`ResetBa` or an overwritten inactivity event. Data under Normal Ack are modelled
since they decide where the window starts. `failure` records the assertion of
`NotifyReceivedNormalAck`.

**Simulator.** The event list is what class `Scheduler` promises; `ts` and `uid`
are the keys. Unique ids are unreduced and compared modulo `UINT32_SIZE`.
`RemoteSchedule` is the other thread; `ProcessEventsWithContext` is one step
because the list is swapped out under the mutex. User code runs wherever
`InUserCode` holds, and may then call every operation.

**RealtimeSimulator.** `pc` is where the main thread is; what it does under
`m_mutex` is one step, and other threads act between any two steps: between
computing the delay and entering the wait, in the sleep, between the sleep and
the spin. `real` is the normalized wall clock, which `SetOrigin` restarts.
`condition` is the flag of the synchronizer, that `Insert` sets as the `Schedule`
functions do. Both synchronization modes are initial choices.

**Schedulers, EventLists.** `scheduler` is the data structure itself: a sorted list,
the array of the heap, or the calendar with its buckets, width, last bucket and top.
The heap's sifting and the calendar's resizing are the code's, sampling included; a
loop is a function of the number of its turns, whose step is an operator (`Up`,
`Down`, `Refill`, `Move`, `DoRemoveNext`). The actions are the calls of a simulator (events not in the past, increasing
uids, removal of events that are in the list), and `SetScheduler` moves all the
events. `EventList` is the contract: the set of events, the earliest of them,
and the one taken last.

**ChannelAccess.** `last` holds the ends of the busy periods, `txop` the record of
every Txop. `counter`, in that record, is a reference: a recurring timer that
Tick decrements at each slot boundary; the code does without it. `Tick` waits for
everything due now. `AccessTimeout`, `StartAccess`, the release of the channel and
the medium's notifications are whole handlers, each with its `UpdateBackoff`,
`DoGrantDcfAccess` and restart of the timer. `WakeUp` is the loop of
`NotifyWakeupNow`, one Txop a step, since each asks for access before the next is
reset. `NotifyRxStartNow` comes with the payload, a preamble and a header (`PhyHeader`)
after anything that was received or sent (`StartReceivePayload`): that is what keeps a
reception from beginning in the 400 ns (`Safeguard`) after one that has ended. `cutShort` and `slept` remember what excuses the timer or the counter.

**Association.** `sta` and `manager` are the station's, `ap` is what each AP knows of
it, `requests` and `responses` are queues. A timer is a flag: the event may be
handled whenever it is pending; the lazily moved watchdog is `watchdog` and
`extended`. A request or response may be lost, repeated, received without its Ack
being received, or dropped by a full queue (`DoEnqueue` returns false, which
nobody looks at). `ends` counts the `EndScanning` scheduled for now; a request,
whose exchange takes time, waits for them. An AP that has refused for lack of a
rate refuses always (`refuses`).

Data are abstracted: an MSDU or an event is an identity, a frame carries only
the fields some handler reads. Sequence numbers and ids are kept unreduced in
history and reduced where the code compares them.

## 3. The runs

| run | what it asks |
|---|---|
| `ba_explicit` | Explicit BlockAckReqs (the default): ordered delivery (refinement of OrderedDelivery: in order, at most once, nothing acknowledged is lost), the two windows in step, what is in flight against what is outstanding, a BlockAckReq while something is outstanding. Under fairness: no MPDU is in flight forever, and none waits in the reorder buffer unless a BlockAckReq that moves the window is pending. Numbers wrap. |
| `ba_protected` | Ordered delivery, outstanding MPDUs inside the transmit window and the announcement of what is given up, for RTS/CTS, with and without `UseExplicitBarAfterMissedBlockAck`, and a recipient whose window starts behind the originator's (late ADDBA Response). Exchanges whose CTS is always received are those without RTS, so this covers implicit retransmission without protection too. |
| `window` | The ring implements the abstract window. |
| `setup_basic` | No inactivity, expiry or TXOP limit: set-up retries correctly, no stale event undoes an agreement, nothing is blocked forever, the two ends agree. |
| `setup_hostile` | With all of those on, and wrapping numbers: what still holds. |
| `setup_overwrite` | Expects a violation: a repeated ADDBA Request loses acknowledged MPDUs (section 6). |
| `simulator` | Order, no early event, exact handles. |
| `realtime` | No lost wake-up, no event before its time or out of order, no failed assertion, at most one event after Stop. Under fairness: every event is executed, Run returns after Stop. |
| `event_lists` | The list, the heap without Remove, and the calendar implement EventList, whichever replaces which. |
| `heap_remove` | Expects a violation: the heap with Remove does not (section 6). |
| `channel_access` | Slots counted as a timer would, but for one; a timer for whoever contends; no stranded frame; one grant at a time, to whoever transmits. |
| `association` | A timer that takes the station on; the AID of the station is its AP's. Under fairness: it neither waits for a response forever, nor stays with an AP it does not hear, nor ignores candidates. |

**Bounds.** `SEQNO_SPACE_SIZE` 8 or 16 and `UINT16_SIZE` 32 or 64 stand for 4096
and 65536: what the arithmetic depends on is that the window is at most half the
space and that 2^16 is a multiple of 2^12, which holds for these too. Windows of 2 to 4 with
3 or 4 MSDUs fill the window, go beyond it by one, and put an A-MPDU after a
partly acknowledged one; `InitSeq` near the wrap makes numbers, head and
`m_winStartB` wrap. `ba_protected` does not wrap (section 6 says why).
`MaxRequests` 2 gives an agreement and the one that
replaces it, with the late events of the first. `RetryLimit` 2 gives a success, a
retry and a discard. Three events, delays 0 and 1 and `MaxUid` 8 make ties,
cancellations, events scheduled by events, two runs and two pushes by the other
thread; `MaxUid` and `UINT32_SIZE` keep `m_uid` from wrapping (section 6).
Events are interchangeable in `simulator`, which uses that as symmetry.

In `realtime`, two events and delays up to 2 give an event inserted before, with
and after the one waited for, at any point of the wait; `Horizon` 4 bounds the
clock; `SPIN`, `IDLE` and `HARD_LIMIT` are the constants of the code scaled to it.
In `event_lists`, delays 0, 1 and 3 make ties, neighbours and events of a later
year of the calendar; six events make it grow to four buckets and shrink to one.
`heap_remove` has seven. In `channel_access`, two Txops that differ in
AIFS, or one DCF, with slots two units long, so that busy periods start inside
slots; the safeguard is shorter than a SIFS and a header, as in the code; twelve
units and three inputs (frames, receptions, CCA, sleep) give a collision or a lost
Ack and the backoff after it. In `association`, two APs, one
that may refuse and one that serves another station; `MaxAid` 2 leaves one AID
free where it does; the queues hold one request and two responses, so both fill.

**Deadlock** is not checked where the bounded workload ends (BlockAck,
AgreementSetup, RealtimeSimulator, EventLists, ChannelAccess), the simulator stops
after Destroy, or nothing need ever happen to a station (Association: it may hear
no AP, and then only scans); `window` checks it.

**Fairness.** `Simulator::Run` executes every scheduled event and time passes,
hence weak fairness of: the end of lifetimes, the Expired traces, the grant of a
requested channel, the next step of an exchange (BlockAck); the exchange of a
queued management frame, `AddBaResponseTimeout` and `ResetBa` (AgreementSetup);
each timer of the station (Association). The medium may lose every frame: no
fairness says which outcome a step has, that a beacon is heard or a response
sent. In `realtime` the wall clock goes on and the operating system runs the main
thread; no other thread is ever obliged to do anything. None is given to the
upper layer, nor in the other modules.

## 4. The proofs

* **`DataStructures_proof!RingImplementsWindow`**: for every window size and
  space, the ring with the mapping `marked = {d : vector[(head + d) % WinSize]}`
  implements `SlidingWindow`. The argument needs that `At` is injective on the
  window and that advancing composes with it; `RingTypeCorrect` is the invariant.
* **`DataStructures_proof!SchedulersImplementEventList`**: `ImplementsEventList`, for
  every number of events, any delays and any sequence of calls, **assuming**
  `RemoveFrom \subseteq {"list", "calendar"}`: `HeapScheduler::Remove` breaks the heap
  (section 6), and a heap from which nothing is removed out of turn does implement
  the contract. `EventListInv` is the invariant: the data are valid (`Valid`: a sorted
  list; a heap; a calendar whose buckets are sorted and hold what hashes to them, none
  of it before the day where the search begins, with `m_qSize` exact), the calendar's
  last priority is not past the present (an event may be scheduled for now), and the
  uids in the list are distinct and have been given out. Each call keeps it and does to
  the set of events what the contract says (`InsertAdds`, `RemoveNextRemoves`,
  `RemoveThisRemoves`, `MovedKeeps`); what `PeekNext` returns is the earliest
  (`PeekIsFirst`). What that rests on:
  - *the heap*: while an event sifts, all is in order but at its place (`Rising`,
    `Sinking`), and with each turn it is nearer to an end;
  - *the calendar*: the first day of the year with an event due holds the earliest
    event, as every earlier one would be due on an earlier day, and if there is no such
    day the least of the buckets' heads is (`CalendarFindsFirst`). It is arithmetic about
    quotients and remainders (`DayNumbers`), and true only because nothing is before
    the day where the search begins; taking an event moves that day on to the event
    (`CalendarRemovesFirst`). The events of the `nSamples` taken to choose the width come in order,
    so the gaps are not negative and the width is not zero (`NewWidthIs`), by which
    `Hash` divides. Resizing keeps the events, whatever the width (`ResizeKeeps`);
  - *loops*: what holds after n turns is proved for the least n at which it would fail
    (`LeastExists`), which replaces an induction theorem with an operator parameter.
* **`BlockAck_proof`**: what the originator of a Block Ack agreement keeps, for
  every window, sequence number space, workload, A-MPDU size and lag of the
  recipient. `OutstandingInWindow` and `GivenUpIsAnnounced` hold in all settings;
  `OutstandingTracked` **assuming** `~ UseRts` (with RTS it fails, section 6).
  The code keeps numbers modulo 2^12 only, so the invariant `OriginatorInv` is
  about an unreduced number `b` that the start of the transmit window stands for
  (`At`): every number in use is within half the space of `b` (`NumbersAt`), so
  that distances mean what they should; none equals one that is marked; numbers
  are given in queue order (`Ordered`); what was sent and is not in flight is a
  retry (`Resent`). `Limit`, the number after the highest that has been on the
  air, bounds the window: without it the window could pass an MPDU that waits
  for a CTS. `Idle`, `Busy`, `AwaitsCts` and `OnTheAir` say what the books look
  like in each phase of an exchange. Lemmas about reduction (`SnOfSum`,
  `DistanceValue`) and about every operation on the books carry the handlers.

  The recipient, and the refinement: `TypeOK` (`TypesAreKept`), `ReceivedWithinWindow`
  **assuming** `Prompt`, no RTS and windows that start together (`WindowsAgree`; with
  RTS it fails, section 6), and `ImplementsOrderedDelivery` (`DeliversInOrder`), step by
  step under the mapping of `BlockAck`. `DataInv` is the invariant: `OriginatorInv`;
  `NumbersInv`, that the numbers given are those from `InitSeq` to before the next one, in
  queue order, an MPDU that goes back to the queue after a missed CTS giving its number
  back; and `Linked`, which relates the two ends by the unreduced numbers
  `W` of the recipient's window, `sb` of its scoreboard and `b` of the transmit window.
  The recipient has only what has been sent, and whatever is marked in the transmit
  window or acknowledged; `sb` is not ahead of `b`, or a MPDU still to be retried would
  be taken for old; a BlockAckReq on the air names a number between `nextSeq - WinSize`
  and `b` (`Carries`); and, if `Prompt`, `W` is within a window of the next number, and
  has reached `b` unless a BlockAckReq is due (`Follows`).
  All three theorems **assume** `SpaceSuffices`, as reduced numbers can otherwise not be told
  apart: either the run is short (`Few`: with the lag it uses less than half the space,
  and does not wrap unless it fits in one window, as `m_winStartB` is not reduced) or
  `Prompt` holds and there is room (`Roomy`: windows below a quarter of the space, and no
  more MSDUs than numbers). With 4096 numbers every window up to 1023 is `Roomy`. What is
  excluded does fail or comes close: with a buffer of 1024 a BlockAckReq may name a number
  exactly half the space ahead, which is not taken as ahead, so the scoreboard stays
  behind; when a whole space of MSDUs has been given up, a retry that bears the number
  `MacRxMiddle` saw last is dropped as a duplicate. `ba_explicit` satisfies `Roomy`,
  `ba_protected` `Few`.
* **`Simulator_proof`**: `RunInOrder`, `NotBeforeDue` and `ExpiredIffGone`, for
  any set of events and any delays, **assuming** `MaxUid <= UINT32_SIZE`, that
  is, as long as `m_uid` does not wrap. None is inductive alone. `IInv` adds:
  every key is below `m_uid` (`UidsFresh`); what is in the event list is later
  than the current key (`QueuedInFuture`), what has run is not (`RunInPast`);
  keys are distinct (`QueuedDistinct`); what the other thread pushed has no key
  or handle yet and is due no later than now plus its delay (`WaitingUnknown`);
  handles have keys and, unless cancelled, are in a list or in the past
  (`HandlesKnown`, `DestroyEvents`). `CountIsExact` adds that `m_unscheduledEvents`
  is the cardinality of the event list (`CountInv`): `Cancel` of an event, `Remove`,
  and a `Run` that stops early must each leave it so. `TypeOK` needs it, as the count
  is unsigned and decremented.
* **`AgreementSetup_proof`**: `NoReplyIsReset`, `TypeOK` and `OneResponseQueued`
  without any assumption on the attributes; `PendingIsWaiting` **assuming** that
  requests neither expire in the queue nor fail to fit in the TXOP
  (`RequestsAreKept`). `IInv` is the originator's type, `NO_REPLY => resets > 0` and
  `PENDING => request queued or timer running`; `RInv` is about the recipient: its
  records are well formed, and a response in its queue is the only one and is the
  one `pending` remembers. Both are stated of a record, with a lemma for each operation,
  since the handlers compose operations on records.
  `InOrderAtMostOnce` holds across agreements **assuming** that no sequence number is
  used twice (`MaxData <= SEQNO_SPACE_SIZE`: a retry that meets the number of 4096
  MSDUs ago is taken for a duplicate) and `NoWrap`, that `m_winStartB`, computed as
  `SN - m_winSizeB + 1` and not reduced (`recipient-block-ack-agreement.cc:173`), does
  not become negative as a 16-bit number (`OrderAcrossAgreements`). Without `NoWrap`
  order is kept in every behaviour in which `m_winStartB` happens to stay a sequence
  number (`OrderUnlessStartWraps`). The invariant `Ordered` needs unreduced numbers:
  `Held` says that what has been passed up is an increasing sequence of data that the
  originator has begun to send (`Seen`), and, while there is an agreement, that its
  window and scoreboard start at numbers `W` and `sb`, the former no later than what
  the originator sends next, that everything buffered is at or after `W`, everything
  passed up before it, and what is not a retry is still to be received (`Live`);
  `Starts`, that each request names a number not later than the next; `InService`,
  that the data MPDU being sent is the last one numbered. An agreement set up while
  that MPDU is under way is where order could be lost, and is why the last two are needed.
  `EndsAgree` holds **assuming** that agreements do not time out (`~ InactivityOn`:
  with a timeout it fails, section 6), that all numbers lie within half of the space
  (`DataAreClose`, as `IsOldPacket` can tell no more) and `NoWrap`. `Agreed` is what it
  needs on top of `Ordered`: no timer runs and no DELBA is queued, a response is
  queued only while the recipient has the agreement, no queued request names a number
  past the MPDU in service (`StartsBehind`), and the window is past that MPDU only if
  it has been passed up (`NotPassed`).
* **`RecipientAgreement_proof`** has no specification of its own: it says what each
  operation of the recipient (reception, BlockAckReq, Flush, passing up) does to
  windows and buffers described by unreduced numbers, that it keeps the order of
  what is passed up, and what it hands over and holds back. `AgreementSetup_proof` and `BlockAck_proof` rest on it.
* **`RealtimeSimulator_proof`**: `NoLostWakeup`, `Paced`, `NoAssertionFails` and
  `RunInOrder`, for any events, delays, clock and constants of the waits,
  **assuming** `MaxRuns = 1` (in a second Run they fail, section 6). `IInv` has
  two halves. `QueueInv` is about the list: keys fresh and in the future, the
  count of unscheduled events exact (by cardinality), handles known. `WaitInv` is
  about the wait: the main thread is where it is because something is due or
  nothing is (`Due`), and the wall clock is never behind the simulated time
  (`FirstRun`). `NoLostWakeup` is inductive only with both: an event inserted
  during a wait sets the condition, one inserted before it is seen by
  `ComputeDelay`. `TypeOK` follows from both. `StopIsSoon` needs no assumption on
  `MaxRuns`: its invariant is that once stopped, an event may only still be executed
  from where the main thread is.
* **`ChannelAccess_proof`**: `NoFrameStranded`, `GrantedTransmits`,
  `WaitersHaveTimeout`, `SlotsCounted` and `TypeOK` for any number of Txops and all timing
  parameters, **assuming** that the safeguard of the frame exchange (400 ns) is
  shorter than a SIFS and than a preamble and header, as in every PHY. `IInv` says of every Txop that it is served
  (its queue is empty, it has asked for access, holds it, or is about to ask)
  while the station is awake, and, within `NotifyWakeupNow`, of those the loop has
  passed. There is a lemma for each building block (a grant, a request, the start
  and end of an exchange, a medium notification) and one for each group of
  actions. `CInv` adds what the clock has to do with it. Nobody else is granted access during an
  exchange because the exchange ends within a SIFS of the last thing
  `GetAccessGrantStart` counts from (`UntilWhen`): the end of the frame, of the wait
  for the Ack, or of the reception that may be the Ack, which moves the end of the
  wait; `MediumInv` says how receptions, transmissions and the pending Ack exclude one
  another. A Txop that contends waits for the timer because `accessTimeout` is in the
  future and no later than the end of its backoff (`TimerInv`): the end only moves
  later, as counting slots moves the start on by as many (`CountingGoesOn`) and a
  notification that moves the grant start back is what `cutShort` records.
  `SlotsCounted` compares the counter with a timer only at the present; a busy
  period kept from the past may still be ahead, so its invariant is about every later
  moment (`Loose`): whatever is left of the backoff then, if the medium stays idle, is
  what the timer would show, or one more. Counting does not change that future
  (`CountingKeeps`), and of the events that do, the request of an EDCAF whose slots are
  running is the one that costs a slot; it costs no second one because an EDCAF that
  does not contend is exactly in step (`Tight`), and because a backoff never starts
  more than a slot after the last thing known of the medium.
* **`Association_proof`**: `TypeOK`, `AidAgreement` and `TimersCarryOn`, for any APs,
  queue sizes and bounds. AIDs agree only because every response of an AP that
  is still queued grants the AID its staList has for the station or refuses
  (`Grants`), as `SetAid` keeps the AID of a station that is known; the timers,
  because every handler that takes the AP away cancels the request timer, and
  whoever sets an AP starts the watchdog (`StationOK`).

The assumptions on constants are named in the modules and evaluated by the runs.

All safety invariants, action properties and refinements of the passing runs are
proved, under the assumptions named above. **Only model-checked:** the liveness
properties `InFlightResolved`, `BufferedIsPassedUp`, `ResetAfterNoReply`, `Unblocked`,
`EventsAreRun`, `StopReturns` and `NeverStuck` (fairness and ENABLED are out of the
prover's reach), and the runs with settings that a theorem excludes.

## 5. Not modelled, within the modelled parts

*Block Ack.* TXOPs of non-zero length (but for a TXOP too short for an ADDBA
Request), fragmentation, groupcast and GCR, several TIDs, links and stations,
A-MSDU aggregation, rate control, HT delayed Block Ack, an ADDBA Response with a
failure status (no code sends one). Lifetimes end in queue order. Channel access
is a request and a grant. `AgreementSetup` leaves the
data of an established agreement to `BlockAck`, and `BlockAck` begins when it is
established: a DELBA with MPDUs in flight is in neither.

*Simulators.* `SetScheduler` is in `EventLists` only. The realtime simulator's
contexts and destroy events are left out, and the run has one call of `Run`.

*Event lists.* `MapScheduler`, `PriorityQueueScheduler`, `CalendarScheduler` with the
attribute Reverse, and the width of 32 and 64 bits.

*Channel access.* TXOPs with a limit, PIFS recovery, CF-End, CTS timeouts, channel
switching, off and on, `DisableEdcaFor` and EMLSR. Sleep is that of
`ChannelAccessManager`: nothing calls `NotifySleepNow` of the frame exchange manager.

*Association.* Multi-link set-up, EMLSR, power save, channel switches of an AP, a
change of the SSID, Disassociation frames (no station sends one), other
stations' AIDs changing, frames queued before initialization, the values of
times (all beacon intervals are equal; a reception is shorter than one).

## 6. Where the code and what it says differ

Kept as runs:

* `setup_overwrite`: a second ADDBA Request replaces the recipient agreement
  without flushing it; acknowledged MPDUs in its buffer are lost.
* `heap_remove`: `HeapScheduler::Remove` moves the last element, which takes the
  place of the event removed, only down, never up. When it comes from another
  branch and is earlier than its new parent the heap is out of order, and a
  later `RemoveNext` does not "Remove the earliest event" (`scheduler.h`).

Seen with the same modules, and not kept as runs. These are reproduced by a
change of a configuration:

* A BlockAckReq protected by RTS is dropped at the retry limit while its MPDUs
  are outstanding: `OutstandingTracked` and `ReceivedWithinWindow` with
  `UseRts = TRUE` in `BlockAckExplicit.cfg`.
* `SN - WinSizeB + 1` wraps at 2^16, not 2^12, and the next `GetDistance` fails
  its assertion, when the originator is ahead of the recipient's window, as it is
  when data were sent before a late ADDBA Response: `TypeOK` with `InitSeq = 15`
  in `BlockAckProtected.cfg`.
* A `ResetBa` event left over from an earlier request resets a pending
  agreement, and the recipient agreement may be gone when the Ack of a
  retransmitted ADDBA Response arrives, which an assertion excludes:
  `ResetAfterNoReply` and `EndsAgree` with `InactivityOn = TRUE` in `SetupBasic.cfg`.
* `SendAddBaRequest` leaves the agreement pending when the TXOP is too short:
  `PendingIsWaiting` with `TxopLimited = TRUE`.
* An ADDBA Request that expires in the queue leaves the pair blocked forever:
  `Unblocked` with `ExpiryOn = TRUE`.
* After 2^32 events `m_uid` wraps and ties are no longer first-in first-out:
  `RunInOrder` with `UINT32_SIZE = 5` in `Simulator.cfg`.
* `SetOrigin` restarts the wall clock from 0, whatever the simulated time, so in a
  second Run other threads schedule in the past, against the assertion of
  `ScheduleWithContext`: `NoAssertionFails` with `MaxRuns = 2` in `Realtime.cfg`.

These were seen in the source or in traces of the modules:

* `GetBar` wipes the expired MPDUs first "so that BlockAckRequest frames (if
  needed) are scheduled", but the trace that schedules them fires later, so data
  go first. When it fires after the channel was released nobody requests it
  again, so frames outlive `MaxDelay` in the queue until new data come.
* With RTS, an Expired trace that fires while retried MPDUs wait for the CTS may
  move the window past them. `StorePacket` then does not store them, the BlockAck
  does not handle them, and they stay flagged in flight.
* An event that another thread schedules after the last look at its list stays
  there when `Run` returns. `Stop(delay)` does not prevent events scheduled
  earlier for the very stop time, though its doc says `Run` returns before them.
* `SleepWait` returns what `wait_for` returns, the inverse of what
  `wall-clock-synchronizer.h` says; `Synchronize` returns false on a mere time-out.
  Both cost a turn of the loop, no more. `m_running` is set before the origin: a
  thread that schedules in between reads a clock counted from the epoch. `Stop`
  of another thread does not signal: the event awaited is still executed.
  `ScheduleRealtimeWithContext` never stores the context.
* `RequestAccess` moves an EDCAF whose slots are running to the next boundary, so
  that it may wait a slot longer than `wifi-design.rst` says; one slot is the most
  (`SlotsCounted`). The access timer is late after a busy period that ends
  before it was announced to end (`NotifyRxStartNow`, `NotifyCcaBusyStartNow`),
  unlike what the comment in `NotifyNavResetNow` says.
* `NotifySleepNow` resets nothing and `Txop::NotifySleep` is empty, against the
  comment "Reset backoffs"; on waking, Txops are reset one by one while the others
  already contend, so one may transmit with a grant from before the sleep.
* A scan restarted with candidates at hand leaves the timers of the scan under way
  running: they may expire once the station has associated, which takes it from
  ASSOCIATED to SCANNING with its link set up, against the state diagram of
  `StaWifiMac`.
* An earlier response that fails makes the AP disassociate a station that has
  received a later one: half-open associations, which nothing ends. A success
  response of the AP asked before, when late, fails the assertion of
  `ReceiveAssocResp`. The states REFUSED and ASSOC_REFUSED of the doc never last.
  The handler of DISASSOCIATION in `ap-wifi-mac.cc` uses an iterator it has erased
  (no station sends the frame).

## 7. Plan

In this order:

1. **Composition** of `AgreementSetup` and `BlockAck`: agreements that come and
   go with MPDUs in flight, DELBA, in-flight flags left behind.
2. **Proofs**: order and delivery across the composed agreements of item 1.
3. **TXOPs with a limit** in `ChannelAccess` and `BlockAck`, with PIFS recovery and the
   pointer to the one EDCAF that backs off within its TXOP; then EMLSR.
4. **Liveness of channel access**: that a frame is transmitted when the medium is
   idle for long enough, which needs a clock without a bound.
5. Power save and Disassociation frames in `Association`.

Runs are kept few: when a later module needs one, those of section 6 make room.
