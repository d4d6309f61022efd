------------------------ MODULE ChannelAccess_proof ------------------------
(***************************************************************************)
(* For any number of Txops and any durations: whoever has a frame contends *)
(* for it, transmits, or is about to ask for access; whoever contends      *)
(* waits for the access timer; and at most one Txop holds the channel; and *)
(* of the slots an EDCAF contends for, those it has counted are those a    *)
(* timer that recurs every slot would have counted, or one fewer.          *)
(***************************************************************************)
EXTENDS ChannelAccess, WellFoundedInduction, TLAPS

\* A set of naturals that is not empty has a least element.
LEMMA LeastExists ==
    ASSUME NEW S \in SUBSET Nat, S # {}
    PROVE  \E x \in S : \A y \in S : x <= y
<1>1. PICK x \in S : \A y \in S : ~ (<<y, x>> \in OpToRel(<, Nat))
    BY NatLessThanWellFounded, WFMin
<1>2. \A y \in S : ~ (y < x)
    BY <1>1 DEF OpToRel
<1> QED  BY <1>2

\* Min is that element.
LEMMA MinIsLeast ==
    ASSUME NEW S \in SUBSET Nat, S # {}
    PROVE  Min(S) \in S /\ \A y \in S : Min(S) <= y
BY LeastExists DEF Min

TxopRecord == [access : {"NOT_REQUESTED", "REQUESTED", "GRANTED"}, slots : 0 .. CwMax,
               start : Nat, cw : CwMin .. CwMax, counter : 0 .. CwMax, again : BOOLEAN]

LastRecord == [rxStart : Nat, rx : Nat, ok : BOOLEAN, tx : Nat, busy : Nat, nav : Nat, ack : Nat]

Exchange == [txop : Txop \union {0}, until : Nat \union {NoTime}, acked : BOOLEAN]

\* What the handlers that grant access leave as they are.
TypesOfTime == now \in Nat /\ qos \in BOOLEAN /\ event \in [Txop -> {"none", "had", "had none"}]

\* What they change.
TypesOfGrant ==
    /\ last \in LastRecord /\ txop \in [Txop -> TxopRecord] /\ queue \in [Txop -> Nat]
    /\ exchange \in Exchange
    /\ exchange.acked => exchange.txop # 0 /\ queue[exchange.txop] > 0

\* A Txop with a frame contends, transmits, or is about to ask for access.
Served(E, T, Q, t) ==
    Q[t] > 0 /\ T[t].access = "NOT_REQUESTED" => E[t] # "none" \/ T[t].again

\* The Txops of U contend as those of T.
Same(T, U) ==
    /\ U \in [Txop -> TxopRecord]
    /\ \A t \in Txop : U[t].access = T[t].access /\ U[t].again = T[t].again

\* While NotifyWakeupNow goes through the Txops, those it has come to are served.
Types == TypesOfTime /\ TypesOfGrant
WakingIsAwake == (waking # 0 => ~ sleeping) /\ waking \in Txop \union {0} /\ sleeping \in BOOLEAN
ServedAwake == Awake => \A t \in Txop : Served(event, txop, queue, t)
ServedWaking == waking # 0 => \A t \in Txop : t < waking => Served(event, txop, queue, t)

IInv == Types /\ WakingIsAwake /\ ServedAwake /\ ServedWaking

LEMMA Constants ==
    /\ SIFS \in Nat /\ SIFS > 0 /\ SLOT \in Nat /\ SLOT > 0 /\ AckTx \in Nat /\ AckWait \in Nat
    /\ FrameTx \in Nat /\ FrameTx > 0 /\ Safeguard \in Nat /\ PhyHeader \in Nat
    /\ Safeguard < SIFS /\ Safeguard < PhyHeader /\ FrameTx < AckWait
    /\ CwMin \in Nat /\ CwMax \in Nat /\ CwMin <= CwMax
    /\ \A t \in Txop : t \in Nat /\ t > 0 /\ Aifsn[t] \in Nat /\ Aifsn[t] > 0
BY AccessAssumption DEF Txop

LEMMA LaterNat ==
    ASSUME NEW a \in Nat, NEW b \in Nat
    PROVE  Later(a, b) \in Nat /\ Later(a, b) >= a /\ Later(a, b) >= b
BY DEF Later

LEMMA FewerNat ==
    ASSUME NEW a \in Nat, NEW b \in Nat
    PROVE  Fewer(a, b) \in Nat /\ Fewer(a, b) <= a /\ Fewer(a, b) <= b
BY DEF Fewer

\* The numbers in the record of a Txop.
LEMMA TxopRecordNumbers ==
    ASSUME NEW x \in TxopRecord
    PROVE  /\ x.slots \in 0 .. CwMax /\ x.slots \in Nat /\ x.start \in Nat
           /\ x.cw \in CwMin .. CwMax /\ x.cw \in Nat /\ x.counter \in 0 .. CwMax
BY Constants DEF TxopRecord

LEMMA LastNumbers ==
    ASSUME last \in LastRecord
    PROVE  /\ last.rxStart \in Nat /\ last.rx \in Nat /\ last.tx \in Nat /\ last.busy \in Nat
           /\ last.nav \in Nat /\ last.ack \in Nat /\ last.ok \in BOOLEAN
BY DEF LastRecord

LEMMA TimeNat == Types => now \in Nat
BY DEF Types, TypesOfTime

LEMMA AifsNat ==
    ASSUME Types, NEW t \in Txop
    PROVE  GetAccessGrantStart \in Nat /\ Aifs(t) \in Nat
<1>1. /\ last.rx \in Nat /\ last.busy \in Nat /\ last.tx \in Nat /\ last.nav \in Nat
      /\ last.ack \in Nat
    BY LastNumbers DEF Types, TypesOfGrant
<1>2. RxAccessStart \in Nat
    BY <1>1, Constants DEF RxAccessStart
<1>3. GetAccessGrantStart \in Nat
    BY <1>1, <1>2, Constants DEF GetAccessGrantStart, Later
<1>4. Aifsn[t] * SLOT \in Nat
    BY Constants
<1> QED  BY <1>3, <1>4 DEF Aifs

LEMMA IdleSlotsNat ==
    ASSUME Types, NEW t \in Txop, NEW from \in Nat, from <= now PROVE IdleSlots(t, from) \in Nat
<1>1. now \in Nat /\ SLOT \in Nat /\ SLOT > 0
    BY TimeNat, Constants
<1>2. now - from \in Nat
    BY <1>1
<1>3. (now - from) \div SLOT \in Nat
    BY <1>1, <1>2
<1> QED  BY <1>3 DEF IdleSlots

\* Counting slots changes neither who contends nor who is about to.
LEMMA UpdateBackoffKeeps ==
    ASSUME Types, NEW T \in [Txop -> TxopRecord]
    PROVE  Same(T, UpdateBackoff(T))
<1> SUFFICES ASSUME NEW t \in Txop
             PROVE  /\ UpdateBackoff(T)[t] \in TxopRecord
                    /\ UpdateBackoff(T)[t].access = T[t].access
                    /\ UpdateBackoff(T)[t].again = T[t].again
    BY DEF UpdateBackoff, Same
<1>1. T[t] \in TxopRecord /\ T[t].start \in Nat /\ T[t].slots \in Nat /\ T[t].slots \in 0 .. CwMax
    BY TxopRecordNumbers
<1>2. GetBackoffStartFor(T, t) \in Nat
    BY <1>1, AifsNat, LaterNat DEF GetBackoffStartFor
<1> DEFINE from == GetBackoffStartFor(T, t)
           n == Fewer(IdleSlots(t, from), T[t].slots)
<1>7. UpdateBackoff(T)[t] = IF from > now THEN T[t] ELSE Decrement(T, t, from, n)
    BY DEF UpdateBackoff
<1>8. CASE from > now
    BY <1>1, <1>7, <1>8
<1>9. CASE ~ (from > now)
    <2>1. IdleSlots(t, from) \in Nat
        BY <1>2, <1>9, TimeNat, IdleSlotsNat
    <2>2. n \in Nat /\ n <= T[t].slots
        BY <1>1, <2>1, FewerNat
    <2> HIDE DEF n
    <2>a. n * SLOT \in Nat
        BY <2>2, Constants
    <2>3. T[t].slots - n \in 0 .. CwMax /\ from + n * SLOT \in Nat
        BY <1>1, <1>2, <2>2, <2>a, Constants
    <2>4. /\ Decrement(T, t, from, n) \in TxopRecord
          /\ Decrement(T, t, from, n).access = T[t].access
          /\ Decrement(T, t, from, n).again = T[t].again
        BY <1>1, <2>3 DEF Decrement, TxopRecord
    <2> QED  BY <1>7, <1>9, <2>4
<1> QED  BY <1>8, <1>9

\* So do the ways a backoff starts.
LEMMA GenerateKeeps ==
    ASSUME Types, NEW T \in [Txop -> TxopRecord], NEW t \in Txop, NEW n \in 0 .. CwMax
    PROVE  Same(T, GenerateBackoff(T, t, n))
<1>1. now \in Nat
    BY TimeNat
<1> DEFINE G == [T[t] EXCEPT !.slots = n, !.start = now, !.counter = n]
<1>2. GenerateBackoff(T, t, n) = [T EXCEPT ![t] = G]
    BY DEF GenerateBackoff
<1>3. G \in TxopRecord /\ G.access = T[t].access /\ G.again = T[t].again
    BY <1>1 DEF TxopRecord
<1> HIDE DEF G
<1> QED  BY <1>2, <1>3 DEF Same

LEMMA StartAtKeeps ==
    ASSUME NEW T \in [Txop -> TxopRecord], NEW t \in Txop, NEW from \in Nat
    PROVE  Same(T, [T EXCEPT ![t].start = from])
<1> DEFINE G == [T[t] EXCEPT !.start = from]
<1>1. G \in TxopRecord /\ G.access = T[t].access /\ G.again = T[t].again
    BY DEF TxopRecord
<1>2. [T EXCEPT ![t].start = from] = [T EXCEPT ![t] = G]
    OBVIOUS
<1> HIDE DEF G
<1> QED  BY <1>1, <1>2 DEF Same

LEMMA AlignKeeps ==
    ASSUME Types, NEW T \in [Txop -> TxopRecord], NEW t \in Txop
    PROVE  Same(T, AlignStart(T, t))
<1> DEFINE from == Aifs(t) + ((T[t].start - Aifs(t)) \div SLOT + 1) * SLOT
<1>1. T[t].start \in Nat /\ Aifs(t) \in Nat /\ SLOT \in Nat /\ SLOT > 0
    BY AifsNat, Constants, TxopRecordNumbers
<1>2. CASE t \in Edcaf /\ T[t].start > Aifs(t)
    <2>1. T[t].start - Aifs(t) \in Nat
        BY <1>1, <1>2
    <2>2. (T[t].start - Aifs(t)) \div SLOT \in Nat
        BY <1>1, <2>1
    <2>3. ((T[t].start - Aifs(t)) \div SLOT + 1) * SLOT \in Nat
        BY <1>1, <2>2
    <2>4. from \in Nat
        BY <1>1, <2>3
    <2>5. AlignStart(T, t) = [T EXCEPT ![t].start = from]
        BY <1>2 DEF AlignStart
    <2> HIDE DEF from
    <2> QED  BY <2>4, <2>5, StartAtKeeps
<1>3. CASE ~ (t \in Edcaf /\ T[t].start > Aifs(t))
    BY <1>3 DEF AlignStart, Same
<1> QED  BY <1>2, <1>3

LEMMA AtOnceKeeps ==
    ASSUME Types, NEW T \in [Txop -> TxopRecord], NEW t \in Txop, NEW had \in BOOLEAN
    PROVE  Same(T, AccessAtOnce(T, t, had))
<1> DEFINE from == now + (IF t \in Edcaf THEN 0 ELSE SIFS + Aifsn[t] * SLOT)
<1>1. now \in Nat /\ Aifsn[t] * SLOT \in Nat
    BY TimeNat, Constants
<1>2. from \in Nat
    BY <1>1, Constants
<1>3. AccessAtOnce(T, t, had) = [T EXCEPT ![t].start = from] \/ AccessAtOnce(T, t, had) = T
    BY DEF AccessAtOnce
<1> HIDE DEF from
<1>4. Same(T, [T EXCEPT ![t].start = from])
    BY <1>2, StartAtKeeps
<1>5. Same(T, T)
    BY DEF Same
<1> QED  BY <1>3, <1>4, <1>5

\* The backoff a Txop had is left, or another starts.
Kept(x, y) == y.slots = x.slots /\ y.counter = x.counter
Begun(y) == y.start = now /\ y.counter = y.slots

\* Releasing the channel: a frame that is left is asked for again.
LEMMA Released ==
    ASSUME now \in Nat, NEW T \in [Txop -> TxopRecord], NEW t \in Txop, NEW n \in 0 .. CwMax
    PROVE  /\ NotifyChannelReleased(T, t, n) \in [Txop -> TxopRecord]
           /\ NotifyChannelReleased(T, t, n)[t].access = "NOT_REQUESTED"
           /\ queue'[t] > 0 => NotifyChannelReleased(T, t, n)[t].again
           /\ Begun(NotifyChannelReleased(T, t, n)[t])
           /\ \A u \in Txop : u # t => NotifyChannelReleased(T, t, n)[u] = T[u]
<1> DEFINE again == T[t].again \/ queue'[t] > 0
           G == [T[t] EXCEPT !.slots = n, !.start = now, !.counter = n]
           r == [T[t] EXCEPT !.slots = n, !.start = now, !.counter = n, !.access = "NOT_REQUESTED",
                             !.again = again]
<1>1. GenerateBackoff(T, t, n) = [T EXCEPT ![t] = G] /\ G.again = T[t].again
    BY DEF GenerateBackoff, TxopRecord
<1>2. NotifyChannelReleased(T, t, n) = [T EXCEPT ![t] = r]
    BY <1>1 DEF NotifyChannelReleased
<1>3. again \in BOOLEAN
    OBVIOUS
<1>4. r \in TxopRecord /\ r.access = "NOT_REQUESTED" /\ r.again = again
      /\ Begun(r)
    BY <1>3 DEF TxopRecord, Begun
<1> HIDE DEF r
<1> QED  BY <1>2, <1>4

\* Those who are granted access without a frame.
LEMMA ReleaseKeeps ==
    ASSUME now \in Nat, NEW T \in [Txop -> TxopRecord], NEW S \in SUBSET Txop,
           NEW n \in [Txop -> 0 .. CwMax]
    PROVE  /\ Release(T, S, n) \in [Txop -> TxopRecord]
           /\ \A t \in S : /\ Release(T, S, n)[t].access = "NOT_REQUESTED"
                           /\ IF t \in Edcaf THEN Kept(T[t], Release(T, S, n)[t])
                                              ELSE Begun(Release(T, S, n)[t])
           /\ \A t \in Txop : t \notin S => Release(T, S, n)[t] = T[t]
<1> SUFFICES ASSUME NEW t \in Txop
             PROVE  /\ Release(T, S, n)[t] \in TxopRecord
                    /\ t \in S => /\ Release(T, S, n)[t].access = "NOT_REQUESTED"
                                  /\ IF t \in Edcaf THEN Kept(T[t], Release(T, S, n)[t])
                                                     ELSE Begun(Release(T, S, n)[t])
                    /\ t \notin S => Release(T, S, n)[t] = T[t]
    BY DEF Release
<1>1. CASE t \notin S
    BY <1>1 DEF Release
<1>2. CASE t \in S /\ t \in Edcaf
    <2>1. Release(T, S, n)[t] = [T[t] EXCEPT !.access = "NOT_REQUESTED", !.start = now]
        BY <1>2 DEF Release
    <2>2. T[t] \in TxopRecord /\ now \in Nat
        OBVIOUS
    <2>3. [T[t] EXCEPT !.access = "NOT_REQUESTED", !.start = now] \in TxopRecord
        BY <2>2 DEF TxopRecord
    <2>4. /\ [T[t] EXCEPT !.access = "NOT_REQUESTED", !.start = now].access = "NOT_REQUESTED"
          /\ Kept(T[t], [T[t] EXCEPT !.access = "NOT_REQUESTED", !.start = now])
        BY <2>2 DEF TxopRecord, Kept
    <2> QED  BY <1>2, <2>1, <2>3, <2>4
<1>3. CASE t \in S /\ t \notin Edcaf
    BY <1>3, Released DEF Release
<1> QED  BY <1>1, <1>2, <1>3

\* The losers of an internal collision ask for access again.
LEMMA CollisionKeeps ==
    ASSUME now \in Nat, NEW T \in [Txop -> TxopRecord], NEW S \in SUBSET Txop,
           NEW n \in [Txop -> 0 .. CwMax]
    PROVE  /\ NotifyInternalCollision(T, S, n) \in [Txop -> TxopRecord]
           /\ \A t \in S : /\ NotifyInternalCollision(T, S, n)[t].access = "NOT_REQUESTED"
                           /\ Begun(NotifyInternalCollision(T, S, n)[t])
                           /\ queue'[t] > 0 => NotifyInternalCollision(T, S, n)[t].again
           /\ \A t \in Txop : t \notin S => NotifyInternalCollision(T, S, n)[t] = T[t]
<1> SUFFICES ASSUME NEW t \in Txop
             PROVE  /\ NotifyInternalCollision(T, S, n)[t] \in TxopRecord
                    /\ t \in S => /\ NotifyInternalCollision(T, S, n)[t].access = "NOT_REQUESTED"
                                  /\ Begun(NotifyInternalCollision(T, S, n)[t])
                                  /\ queue'[t] > 0 => NotifyInternalCollision(T, S, n)[t].again
                    /\ t \notin S => NotifyInternalCollision(T, S, n)[t] = T[t]
    BY DEF NotifyInternalCollision
<1>1. CASE t \notin S
    BY <1>1 DEF NotifyInternalCollision
<1>2. CASE t \in S
    BY <1>2, Released DEF NotifyInternalCollision
<1> QED  BY <1>1, <1>2

LEMMA CollisionCwKeeps ==
    ASSUME NEW T \in [Txop -> TxopRecord], NEW S, NEW dropped
    PROVE  /\ Same(T, CollisionCw(T, S, dropped))
           /\ \A t \in Txop : Kept(T[t], CollisionCw(T, S, dropped)[t])
           /\ \A t \in Txop : t \notin S => CollisionCw(T, S, dropped)[t] = T[t]
<1>a. \A t \in Txop : t \notin S => CollisionCw(T, S, dropped)[t] = T[t]
    BY DEF CollisionCw
<1> SUFFICES ASSUME NEW t \in Txop
             PROVE  /\ CollisionCw(T, S, dropped)[t] \in TxopRecord
                    /\ CollisionCw(T, S, dropped)[t].access = T[t].access
                    /\ CollisionCw(T, S, dropped)[t].again = T[t].again
                    /\ Kept(T[t], CollisionCw(T, S, dropped)[t])
    BY <1>a DEF CollisionCw, Same
<1>1. T[t] \in TxopRecord /\ T[t].cw \in CwMin .. CwMax
    BY TxopRecordNumbers
<1>2. CwMin \in CwMin .. CwMax /\ UpdateFailedCw(T[t].cw) \in CwMin .. CwMax
    BY <1>1, Constants DEF UpdateFailedCw, Fewer
<1> HIDE DEF UpdateFailedCw
<1> QED  BY <1>1, <1>2 DEF CollisionCw, TxopRecord, Kept

\* What granting access does: those whose backoff is over no longer contend, and
\* one of them at most transmits.
Granted(T, t, acked) ==
    /\ Transmit(t, acked) /\ (acked => queue'[t] > 0)
    /\ \A u \in Expired(T) : /\ txop'[u].access = IF u = t THEN "GRANTED" ELSE "NOT_REQUESTED"
                             /\ Kept(T[u], txop'[u]) \/ Begun(txop'[u])

GrantedNobody(T) ==
    /\ UNCHANGED <<last, queue, exchange, failed>>
    /\ \A u \in Expired(T) : /\ txop'[u].access = "NOT_REQUESTED"
                             /\ IF u \in Edcaf THEN Kept(T[u], txop'[u]) ELSE Begun(txop'[u])

GrantEffect(T) ==
    /\ \A u \in Txop : u \notin Expired(T) => txop'[u] = T[u]
    /\ GrantedNobody(T) \/ \E t \in Expired(T), acked \in BOOLEAN : Granted(T, t, acked)

\* Granting access leaves nobody with a frame behind.
LEMMA GrantKeeps ==
    ASSUME Types, NEW T \in [Txop -> TxopRecord], DoGrantDcfAccess(T), NEW E
    PROVE  /\ TypesOfGrant' /\ GrantEffect(T)
           /\ \A u \in Txop : Served(E, T, queue, u) => Served(E, txop', queue', u)
<1>1. CASE GrantNobody(T)
    <2> PICK n \in Draws(T, Expired(T) \ Edcaf) : txop' = Release(T, Expired(T), n)
        BY <1>1 DEF GrantNobody
    <2>1. n \in [Txop -> 0 .. CwMax] /\ now \in Nat /\ Expired(T) \in SUBSET Txop
        BY TimeNat DEF Draws, Expired
    <2>2. UNCHANGED <<last, queue, exchange, failed>> /\ \A t \in Expired(T) : queue[t] = 0
        BY <1>1 DEF GrantNobody
    <2>3. /\ txop' \in [Txop -> TxopRecord]
          /\ \A t \in Expired(T) : /\ txop'[t].access = "NOT_REQUESTED"
                                   /\ IF t \in Edcaf THEN Kept(T[t], txop'[t]) ELSE Begun(txop'[t])
          /\ \A t \in Txop : t \notin Expired(T) => txop'[t] = T[t]
        BY <2>1, ReleaseKeeps
    <2>4. TypesOfGrant'
        BY <2>2, <2>3 DEF Types, TypesOfGrant
    <2>5. GrantEffect(T)
        BY <2>2, <2>3 DEF GrantEffect, GrantedNobody
    <2> QED  BY <2>2, <2>3, <2>4, <2>5 DEF Served
<1>2. CASE GrantFirst(T)
    <2>a. PICK t \in Expired(T), acked \in BOOLEAN :
            LET passed == {u \in Expired(T) : u < t}
                losers == {u \in Expired(T) : u > t}
            IN  /\ queue[t] > 0 /\ \A u \in passed : queue[u] = 0
                /\ Transmit(t, acked)
                /\ \E dropped \in SUBSET {u \in losers : queue[u] > 0} :
                      LET C == CollisionCw(T, losers, dropped)
                      IN  /\ queue' = [u \in Txop |-> IF u \in dropped \/ (u = t /\ ~ acked)
                                                      THEN queue[u] - 1 ELSE queue[u]]
                          /\ \E n \in Draws(C, losers \union (passed \ Edcaf)) :
                                txop' = [NotifyInternalCollision(Release(C, passed, n), losers, n)
                                            EXCEPT ![t].access = "GRANTED"]
        BY <1>2 DEF GrantFirst
    <2> DEFINE passed == {u \in Expired(T) : u < t}
               losers == {u \in Expired(T) : u > t}
    <2>b. PICK dropped \in SUBSET {u \in losers : queue[u] > 0} :
            /\ queue' = [u \in Txop |-> IF u \in dropped \/ (u = t /\ ~ acked)
                                        THEN queue[u] - 1 ELSE queue[u]]
            /\ \E n \in Draws(CollisionCw(T, losers, dropped), losers \union (passed \ Edcaf)) :
                  txop' = [NotifyInternalCollision(Release(CollisionCw(T, losers, dropped), passed, n),
                                                   losers, n)
                              EXCEPT ![t].access = "GRANTED"]
        BY <2>a
    <2> DEFINE C == CollisionCw(T, losers, dropped)
    <2>c. PICK n \in Draws(C, losers \union (passed \ Edcaf)) :
            txop' = [NotifyInternalCollision(Release(C, passed, n), losers, n)
                        EXCEPT ![t].access = "GRANTED"]
        BY <2>b
    <2>1. n \in [Txop -> 0 .. CwMax] /\ now \in Nat /\ t \in Txop
        BY TimeNat DEF Draws, Expired
    <2>2. /\ passed \in SUBSET Txop /\ losers \in SUBSET Txop /\ t \notin passed /\ t \notin losers
          /\ \A u \in passed : u \notin losers
          /\ \A u \in Expired(T) : u = t \/ u \in passed \/ u \in losers
        BY DEF Expired, Txop
    <2>6. /\ txop' \in [Txop -> TxopRecord] /\ txop'[t].access = "GRANTED"
          /\ \A u \in losers : txop'[u].access = "NOT_REQUESTED" /\ (queue'[u] > 0 => txop'[u].again)
          /\ \A u \in passed : txop'[u].access = "NOT_REQUESTED"
          /\ \A u \in Txop : u # t /\ u \notin passed /\ u \notin losers => txop'[u] = T[u]
          /\ Kept(T[t], txop'[t]) /\ \A u \in losers : Begun(txop'[u])
          /\ \A u \in passed : Kept(T[u], txop'[u]) \/ Begun(txop'[u])
        <3> DEFINE R == Release(C, passed, n)
                   N == NotifyInternalCollision(R, losers, n)
        <3>1. txop' = [N EXCEPT ![t].access = "GRANTED"]
            BY <2>c
        <3> HIDE DEF passed, losers
        <3>2. /\ Same(T, C) /\ C \in [Txop -> TxopRecord] /\ \A u \in Txop : Kept(T[u], C[u])
              /\ \A u \in Txop : u \notin losers => C[u] = T[u]
            BY CollisionCwKeeps DEF Same
        <3> HIDE DEF C
        <3>3. /\ R \in [Txop -> TxopRecord] /\ \A u \in passed : R[u].access = "NOT_REQUESTED"
              /\ \A u \in Txop : u \notin passed => R[u] = C[u]
              /\ \A u \in passed : Kept(C[u], R[u]) \/ Begun(R[u])
            <4>1. /\ R \in [Txop -> TxopRecord]
                  /\ \A u \in passed : /\ R[u].access = "NOT_REQUESTED"
                                       /\ IF u \in Edcaf THEN Kept(C[u], R[u]) ELSE Begun(R[u])
                  /\ \A u \in Txop : u \notin passed => R[u] = C[u]
                BY <2>1, <2>2, <3>2, ReleaseKeeps
            <4> HIDE DEF R
            <4> QED  BY <4>1
        <3> HIDE DEF R
        <3>4. /\ N \in [Txop -> TxopRecord]
              /\ \A u \in losers : /\ N[u].access = "NOT_REQUESTED" /\ Begun(N[u])
                                   /\ queue'[u] > 0 => N[u].again
              /\ \A u \in Txop : u \notin losers => N[u] = R[u]
            <4>1. /\ N \in [Txop -> TxopRecord]
                  /\ \A u \in losers : /\ N[u].access = "NOT_REQUESTED"
                                       /\ Begun(N[u])
                                       /\ queue'[u] > 0 => N[u].again
                  /\ \A u \in Txop : u \notin losers => N[u] = R[u]
                BY <2>1, <2>2, <3>3, CollisionKeeps
            <4> HIDE DEF N
            <4> QED  BY <4>1
        <3> HIDE DEF N
        <3>5. N[t] \in TxopRecord
            BY <2>1, <3>4
        <3>6. [N[t] EXCEPT !.access = "GRANTED"] \in TxopRecord
              /\ [N[t] EXCEPT !.access = "GRANTED"].access = "GRANTED"
              /\ Kept(N[t], [N[t] EXCEPT !.access = "GRANTED"])
            BY <3>5 DEF TxopRecord, Kept
        <3>7. /\ txop' \in [Txop -> TxopRecord] /\ txop'[t].access = "GRANTED" /\ Kept(N[t], txop'[t])
              /\ \A u \in Txop : u # t => txop'[u] = N[u]
            BY <2>1, <3>1, <3>4, <3>6
        <3>8. ASSUME NEW u \in losers
              PROVE  txop'[u].access = "NOT_REQUESTED" /\ (queue'[u] > 0 => txop'[u].again)
            BY <2>2, <3>4, <3>7, <3>8
        <3>a. ASSUME NEW u \in passed PROVE txop'[u].access = "NOT_REQUESTED"
            BY <2>2, <3>3, <3>4, <3>7, <3>a
        <3>9. ASSUME NEW u \in Txop, u # t, u \notin passed, u \notin losers
              PROVE  txop'[u] = T[u]
            BY <3>2, <3>3, <3>4, <3>7, <3>9
        <3>b. Kept(T[t], txop'[t])
            BY <2>1, <2>2, <3>2, <3>3, <3>4, <3>7 DEF Kept
        <3>c. ASSUME NEW u \in losers PROVE Begun(txop'[u])
            BY <2>2, <3>4, <3>7, <3>c
        <3>d. ASSUME NEW u \in passed PROVE Kept(T[u], txop'[u]) \/ Begun(txop'[u])
            <4>1. txop'[u] = R[u] /\ Kept(T[u], C[u])
                BY <2>2, <3>2, <3>4, <3>7, <3>d
            <4>2. Kept(C[u], R[u]) \/ Begun(R[u])
                BY <3>3, <3>d
            <4> QED  BY <4>1, <4>2 DEF Kept
        <3> QED  BY <3>7, <3>8, <3>9, <3>a, <3>b, <3>c, <3>d
    <2>7. Transmit(t, acked) /\ queue[t] > 0 /\ \A u \in passed : queue[u] = 0
        BY <2>a
    <2>8. last' \in LastRecord /\ exchange' \in Exchange /\ exchange'.txop = t /\ t # 0
          /\ (exchange'.acked => acked)
        <3>1. now + FrameTx \in Nat /\ now + AckWait \in Nat
            BY <2>1, Constants
        <3>2. last \in LastRecord /\ last.ack \in Nat
            BY LastNumbers DEF Types, TypesOfGrant
        <3>3. last' \in LastRecord
            BY <2>7, <3>1, <3>2 DEF Transmit, LastRecord
        <3>4. t \in Txop /\ t # 0
            BY <2>1 DEF Txop
        <3> QED  BY <2>7, <3>1, <3>3, <3>4 DEF Transmit, Exchange
    <2>9. /\ queue \in [Txop -> Nat] /\ queue' \in [Txop -> Nat]
          /\ \A u \in Txop : queue'[u] <= queue[u]
          /\ acked => queue'[t] > 0
        <3>1. queue \in [Txop -> Nat]
            BY DEF Types, TypesOfGrant
        <3>2. ASSUME NEW u \in Txop
              PROVE  /\ (IF u \in dropped \/ (u = t /\ ~ acked) THEN queue[u] - 1 ELSE queue[u]) \in Nat
                     /\ (IF u \in dropped \/ (u = t /\ ~ acked) THEN queue[u] - 1 ELSE queue[u])
                            <= queue[u]
            <4>1. queue[u] \in Nat
                BY <3>1
            <4>2. u \in dropped \/ u = t => queue[u] > 0
                BY <2>7
            <4> QED  BY <4>1, <4>2
        <3>3. t \notin dropped
            BY <2>2
        <3> QED  BY <2>1, <2>7, <2>b, <3>1, <3>2, <3>3
    <2>10. TypesOfGrant'
        BY <2>6, <2>8, <2>9 DEF TypesOfGrant
    <2>11. ASSUME NEW u \in Txop, Served(E, T, queue, u) PROVE Served(E, txop', queue', u)
        <3>1. CASE u = t
            BY <3>1, <2>6 DEF Served
        <3>2. CASE u \in passed
            <4>1. queue[u] = 0 /\ queue'[u] \in Nat /\ queue'[u] <= queue[u]
                BY <3>2, <2>7, <2>9
            <4> QED  BY <4>1 DEF Served
        <3>3. CASE u \in losers
            BY <3>3, <2>6 DEF Served
        <3>4. CASE u # t /\ u \notin passed /\ u \notin losers
            <4>1. txop'[u] = T[u]
                BY <3>4, <2>6
            <4>2. queue'[u] = queue[u]
                BY <3>4, <2>b, <2>9
            <4> QED  BY <4>1, <4>2, <2>11 DEF Served
        <3> QED  BY <3>1, <3>2, <3>3, <3>4
    <2>12. GrantEffect(T)
        <3>1. Granted(T, t, acked)
            BY <2>2, <2>6, <2>7, <2>9 DEF Granted
        <3>2. \A u \in Txop : u \notin Expired(T) => txop'[u] = T[u]
            BY <2>2, <2>6
        <3> QED  BY <3>1, <3>2 DEF GrantEffect
    <2> QED  BY <2>10, <2>11, <2>12
<1> QED  BY <1>1, <1>2 DEF DoGrantDcfAccess

\* Asking for access grants it to the Txops as they are once they have been counted.
LEMMA RequestGrants ==
    ASSUME Types, NEW T \in [Txop -> TxopRecord], NEW t \in Txop, RequestAccess(T, t), ~ sleeping'
    PROVE  \E R \in [Txop -> TxopRecord] :
              /\ DoGrantDcfAccess(R) /\ DoRestartAccessTimeoutIfNeeded(accessTimeout)
              /\ R[t].access = "REQUESTED"
              /\ \A u \in Txop : u # t => R[u].access = T[u].access /\ R[u].again = T[u].again
<1> DEFINE A == AlignStart(T, t)
           B == UpdateBackoff(A)
           R == [B EXCEPT ![t].access = "REQUESTED"]
<1>1. DoGrantDcfAccess(R) /\ DoRestartAccessTimeoutIfNeeded(accessTimeout)
    BY DEF RequestAccess
<1>2. Same(T, A) /\ A \in [Txop -> TxopRecord]
    BY AlignKeeps DEF Same
<1> HIDE DEF A
<1>3. Same(A, B) /\ B \in [Txop -> TxopRecord]
    BY <1>2, UpdateBackoffKeeps DEF Same
<1> HIDE DEF B
<1>4. [B[t] EXCEPT !.access = "REQUESTED"] \in TxopRecord
      /\ [B[t] EXCEPT !.access = "REQUESTED"].access = "REQUESTED"
    BY <1>3 DEF TxopRecord
<1>5. /\ R \in [Txop -> TxopRecord] /\ R[t].access = "REQUESTED"
      /\ \A u \in Txop : u # t => R[u] = B[u]
    BY <1>3, <1>4
<1> HIDE DEF R
<1>6. \A u \in Txop : u # t => R[u].access = T[u].access /\ R[u].again = T[u].again
    BY <1>2, <1>3, <1>5 DEF Same
<1> QED  BY <1>1, <1>5, <1>6

\* Who asks contends, unless the PHY sleeps.
LEMMA RequestKeeps ==
    ASSUME Types, NEW T \in [Txop -> TxopRecord], NEW t \in Txop, RequestAccess(T, t), NEW E
    PROVE  /\ TypesOfGrant'
           /\ \A u \in Txop : Served(E, T, queue, u) => Served(E, txop', queue', u)
           /\ ~ sleeping' => Served(E, txop', queue', t)
<1>1. CASE sleeping'
    <2>1. txop' = T /\ UNCHANGED <<last, queue, exchange>>
        BY <1>1 DEF RequestAccess
    <2> QED  BY <1>1, <2>1 DEF Types, TypesOfGrant
<1>2. CASE ~ sleeping'
    <2>1. PICK R \in [Txop -> TxopRecord] :
             /\ DoGrantDcfAccess(R) /\ R[t].access = "REQUESTED"
             /\ \A u \in Txop : u # t => R[u].access = T[u].access /\ R[u].again = T[u].again
        BY <1>2, RequestGrants
    <2>2. TypesOfGrant' /\ \A u \in Txop : Served(E, R, queue, u) => Served(E, txop', queue', u)
        BY <2>1, GrantKeeps
    <2>3. Served(E, R, queue, t)
        BY <2>1 DEF Served
    <2>4. \A u \in Txop : Served(E, T, queue, u) => Served(E, R, queue, u)
        BY <2>1, <2>3 DEF Served
    <2> QED  BY <2>2, <2>3, <2>4
<1> QED  BY <1>1, <1>2

\* StartAccessAfterEvent, when it asks for access, does so for the Txops with
\* the same contenders.
LEMMA StartRequests ==
    ASSUME Types, NEW T \in [Txop -> TxopRecord], NEW t \in Txop, NEW had \in BOOLEAN,
           NEW check \in BOOLEAN, StartAccess(T, t, had, check),
           ~ (T[t].access # "NOT_REQUESTED" \/ queue[t] = 0 \/ sleeping')
    PROVE  \E V \in [Txop -> TxopRecord] : Same(T, V) /\ RequestAccess(V, t)
<1> DEFINE U == UpdateBackoff(T)
<1>1. Same(T, U) /\ U \in [Txop -> TxopRecord]
    BY UpdateBackoffKeeps DEF Same
<1>2. \/ \E n \in 0 .. U[t].cw : RequestAccess(GenerateBackoff(U, t, n), t)
      \/ RequestAccess(AccessAtOnce(U, t, had), t)
    BY DEF StartAccess
<1> HIDE DEF U
<1>3. PICK V : Same(U, V) /\ RequestAccess(V, t)
    <2>1. CASE \E n \in 0 .. U[t].cw : RequestAccess(GenerateBackoff(U, t, n), t)
        <3>1. PICK n \in 0 .. U[t].cw : RequestAccess(GenerateBackoff(U, t, n), t)
            BY <2>1
        <3>2. n \in 0 .. CwMax
            BY <1>1, <3>1, TxopRecordNumbers, Constants
        <3>3. Same(U, GenerateBackoff(U, t, n))
            BY <1>1, <3>2, GenerateKeeps
        <3> QED  BY <3>1, <3>3
    <2>2. CASE RequestAccess(AccessAtOnce(U, t, had), t)
        <3>1. Same(U, AccessAtOnce(U, t, had))
            BY <1>1, AtOnceKeeps
        <3> QED  BY <2>2, <3>1
    <2> QED  BY <1>2, <2>1, <2>2
<1> QED  BY <1>1, <1>3 DEF Same

LEMMA StartKeeps ==
    ASSUME Types, NEW T \in [Txop -> TxopRecord], NEW t \in Txop, NEW had \in BOOLEAN,
           NEW check \in BOOLEAN, StartAccess(T, t, had, check), NEW E
    PROVE  /\ TypesOfGrant'
           /\ \A u \in Txop : Served(E, T, queue, u) => Served(E, txop', queue', u)
           /\ ~ sleeping' => Served(E, txop', queue', t)
<1>1. CASE T[t].access # "NOT_REQUESTED" \/ queue[t] = 0 \/ sleeping'
    <2>1. txop' = T /\ UNCHANGED <<last, queue, exchange>>
        BY <1>1 DEF StartAccess
    <2>2. queue[t] \in Nat
        BY DEF Types, TypesOfGrant
    <2> QED  BY <1>1, <2>1, <2>2 DEF Types, TypesOfGrant, Served
<1>2. CASE ~ (T[t].access # "NOT_REQUESTED" \/ queue[t] = 0 \/ sleeping')
    <2>1. PICK V \in [Txop -> TxopRecord] : Same(T, V) /\ RequestAccess(V, t)
        BY <1>2, StartRequests
    <2>2. \A u \in Txop : Served(E, T, queue, u) => Served(E, V, queue, u)
        BY <2>1 DEF Same, Served
    <2>3. /\ TypesOfGrant'
          /\ \A u \in Txop : Served(E, V, queue, u) => Served(E, txop', queue', u)
          /\ ~ sleeping' => Served(E, txop', queue', t)
        BY <2>1, RequestKeeps
    <2> QED  BY <2>2, <2>3
<1> QED  BY <1>1, <1>2

\* The end of a frame exchange.
LEMMA FinishKeeps ==
    ASSUME Types, NEW T, Same(txop, T), NEW left \in [Txop -> Nat],
           \A u \in Txop : left[u] <= queue[u], exchange.txop \in Txop, Finish(T, left)
    PROVE  /\ txop' \in [Txop -> TxopRecord] /\ queue' \in [Txop -> Nat]
           /\ exchange' \in Exchange /\ exchange' = Idle
           /\ txop'[exchange.txop].access = "NOT_REQUESTED" /\ Begun(txop'[exchange.txop])
           /\ \A u \in Txop : u # exchange.txop => txop'[u] = T[u]
           /\ \A u \in Txop : Served(event, txop, queue, u) => Served(event, txop', queue', u)
<1> DEFINE t == exchange.txop
<1>1. T \in [Txop -> TxopRecord] /\ now \in Nat /\ t \in Txop
    BY TimeNat DEF Same, Types
<1>2. queue' = left /\ exchange' = Idle
    BY DEF Finish
<1>3. PICK n \in 0 .. T[t].cw : txop' = NotifyChannelReleased(T, t, n)
    BY DEF Finish
<1> HIDE DEF t
<1>4. n \in 0 .. CwMax
    BY <1>1, <1>3, TxopRecordNumbers, Constants
<1>5. /\ txop' \in [Txop -> TxopRecord] /\ (queue'[t] > 0 => txop'[t].again)
      /\ txop'[t].access = "NOT_REQUESTED" /\ Begun(txop'[t])
      /\ \A u \in Txop : u # t => txop'[u] = T[u]
    BY <1>1, <1>3, <1>4, Released
<1>6. exchange' \in Exchange
    BY <1>2 DEF Idle, Exchange, NoTime
<1>7. queue \in [Txop -> Nat]
    BY DEF Types, TypesOfGrant
<1>8. ASSUME NEW u \in Txop, Served(event, txop, queue, u) PROVE Served(event, txop', queue', u)
    <2>1. CASE u = t
        BY <1>5, <2>1 DEF Served
    <2>2. CASE u # t
        BY <1>2, <1>5, <1>7, <1>8, <2>2 DEF Served, Same
    <2> QED  BY <2>1, <2>2
<1> QED  BY <1>2, <1>5, <1>6, <1>8 DEF t

\* A step after which every Txop is served that was before it.
LEMMA StepKeeps ==
    ASSUME IInv, waking = 0, waking' = 0, sleeping' = sleeping, TypesOfTime', TypesOfGrant',
           \A u \in Txop : Served(event, txop, queue, u) => Served(event', txop', queue', u)
    PROVE  IInv'
<1>1. WakingIsAwake' /\ ServedWaking'
    BY DEF IInv, WakingIsAwake, ServedWaking
<1>2. ServedAwake'
    BY DEF IInv, ServedAwake, Awake
<1> QED  BY <1>1, <1>2 DEF IInv, Types

\* A step that changes neither who contends nor a queue.
LEMMA MediumKeeps ==
    ASSUME IInv, waking = 0, waking' = 0, Same(txop, txop'), UNCHANGED <<qos, queue, event, sleeping>>,
           now' \in Nat, last' \in LastRecord, exchange' \in Exchange,
           exchange'.acked => exchange'.txop # 0 /\ queue[exchange'.txop] > 0
    PROVE  IInv'
<1>1. TypesOfTime'
    BY DEF IInv, Types, TypesOfTime
<1>2. TypesOfGrant'
    BY DEF IInv, Types, TypesOfGrant, Same
<1>3. \A u \in Txop : Served(event, txop, queue, u) => Served(event', txop', queue', u)
    BY DEF Same, Served
<1> QED  BY <1>1, <1>2, <1>3, StepKeeps

LEMMA InitImplies == Init => IInv
<1> SUFFICES ASSUME Init PROVE IInv
    OBVIOUS
<1>1. last \in LastRecord
    BY DEF Init, LastRecord
<1>2. txop \in [Txop -> TxopRecord]
    <2>1. PICK draw \in [Txop -> 0 .. CwMin] :
            txop = [t \in Txop |-> [access |-> "NOT_REQUESTED", slots |-> draw[t], start |-> 0,
                                    cw |-> CwMin, counter |-> draw[t], again |-> FALSE]]
        BY DEF Init
    <2>2. \A t \in Txop : draw[t] \in 0 .. CwMax
        BY Constants
    <2>3. CwMin \in CwMin .. CwMax
        BY Constants
    <2> QED  BY <2>1, <2>2, <2>3 DEF TxopRecord
<1>3. exchange \in Exchange /\ ~ exchange.acked
    BY DEF Init, Idle, Exchange, NoTime
<1>4. queue \in [Txop -> Nat] /\ \A t \in Txop : queue[t] = 0
    BY DEF Init
<1>5. TypesOfTime
    BY AccessAssumption DEF Init, TypesOfTime
<1>6. Types
    BY <1>1, <1>2, <1>3, <1>4, <1>5 DEF Types, TypesOfGrant
<1>7. WakingIsAwake
    BY DEF Init, WakingIsAwake
<1>8. \A t \in Txop : Served(event, txop, queue, t)
    BY <1>4 DEF Served
<1> QED  BY <1>6, <1>7, <1>8 DEF IInv, ServedAwake, ServedWaking
-----------------------------------------------------------------------------
(* One lemma for what the PHY reports, one step for each other action.     *)

LEMMA ReceptionKeeps ==
    ASSUME IInv, waking = 0, waking' = 0, UNCHANGED qos,
           \/ \E d \in RxTime : NotifyRxStart(d)
           \/ \E d \in CcaTime : NotifyCcaBusyStart(d)
           \/ \E d \in NavTime : UpdateNav(d)
    PROVE  IInv'
<1>1. Types /\ now \in Nat /\ txop \in [Txop -> TxopRecord]
    BY TimeNat DEF IInv, Types, TypesOfGrant
<1>2. /\ last \in LastRecord /\ last.nav \in Nat /\ last.ack \in Nat
      /\ exchange \in Exchange /\ (exchange.acked => exchange.txop # 0 /\ queue[exchange.txop] > 0)
    BY DEF IInv, Types, TypesOfGrant, LastRecord
<1>3. Same(txop, UpdateBackoff(txop))
    BY <1>1, UpdateBackoffKeeps
<1>4. CASE \E d \in RxTime : NotifyRxStart(d)
    <2>1. PICK d \in RxTime : NotifyRxStart(d)
        BY <1>4
    <2>2. d \in Nat /\ now + d \in Nat /\ now + d + Safeguard \in Nat
        BY <1>1, AccessAssumption
    <2>3. last' \in LastRecord
        BY <1>1, <1>2, <2>1, <2>2 DEF NotifyRxStart, LastRecord
    <2>4. /\ exchange' \in Exchange
          /\ exchange'.acked => exchange'.txop # 0 /\ queue[exchange'.txop] > 0
        BY <1>2, <2>1, <2>2 DEF NotifyRxStart, Exchange
    <2>5. txop' = UpdateBackoff(txop) /\ UNCHANGED <<now, queue, event, sleeping>>
        BY <2>1 DEF NotifyRxStart
    <2> QED  BY <1>1, <1>3, <2>3, <2>4, <2>5, MediumKeeps
<1>5. CASE \E d \in CcaTime : NotifyCcaBusyStart(d)
    <2>1. PICK d \in CcaTime : NotifyCcaBusyStart(d)
        BY <1>5
    <2>2. now + d \in Nat
        BY <1>1, AccessAssumption
    <2>3. last' \in LastRecord
        BY <1>2, <2>1, <2>2 DEF NotifyCcaBusyStart, LastRecord
    <2>4. txop' = UpdateBackoff(txop) /\ UNCHANGED <<now, queue, event, sleeping, exchange>>
        BY <2>1 DEF NotifyCcaBusyStart, phy
    <2> QED  BY <1>1, <1>2, <1>3, <2>3, <2>4, MediumKeeps
<1>6. CASE \E d \in NavTime : UpdateNav(d)
    <2>1. PICK d \in NavTime : UpdateNav(d)
        BY <1>6
    <2>a. now + d \in Nat
        BY <1>1, AccessAssumption
    <2>2. Later(last.nav, now + d) \in Nat
        BY <1>2, <2>a, LaterNat
    <2>3. last' \in LastRecord
        BY <1>1, <1>2, <2>1, <2>2 DEF UpdateNav, LastRecord
    <2>4. txop' = UpdateBackoff(txop) /\ UNCHANGED <<now, queue, event, sleeping, exchange>>
        BY <2>1 DEF UpdateNav
    <2> QED  BY <1>1, <1>2, <1>3, <2>3, <2>4, MediumKeeps
<1> QED  BY <1>4, <1>5, <1>6

LEMMA EndOfReceptionKeeps ==
    ASSUME IInv, waking = 0, waking' = 0, UNCHANGED qos,
           NotifyRxEndError \/ ReceivedFrame \/ SendNormalAck
    PROVE  IInv'
<1>1. Types /\ now \in Nat /\ txop \in [Txop -> TxopRecord]
    BY TimeNat DEF IInv, Types, TypesOfGrant
<1>2. /\ last \in LastRecord /\ last.rx \in Nat
      /\ exchange \in Exchange /\ (exchange.acked => exchange.txop # 0 /\ queue[exchange.txop] > 0)
    BY DEF IInv, Types, TypesOfGrant, LastRecord
<1>3. Same(txop, UpdateBackoff(txop)) /\ Same(txop, txop)
    BY <1>1, UpdateBackoffKeeps DEF Same
<1>4. last' \in LastRecord
    <2>1. CASE NotifyRxEndError \/ ReceivedFrame
        BY <1>2, <2>1 DEF NotifyRxEndError, ReceivedFrame, LastRecord
    <2>2. CASE SendNormalAck
        <3>a. Fewer(last.rx, now) \in Nat
            BY <1>1, <1>2, FewerNat
        <3>b. now + AckTx \in Nat
            BY <1>1, AccessAssumption
        <3>1. Fewer(last.rx, now) \in Nat /\ now + AckTx \in Nat
            BY <3>a, <3>b
        <3> DEFINE cut == [last EXCEPT !.ok = TRUE, !.rx = Fewer(last.rx, now)]
        <3>2. last' = last \/ last' = [cut EXCEPT !.tx = now + AckTx]
            BY <2>2 DEF SendNormalAck
        <3>3. cut \in LastRecord
            BY <1>2, <3>1 DEF LastRecord
        <3> HIDE DEF cut
        <3>4. [cut EXCEPT !.tx = now + AckTx] \in LastRecord
            BY <3>1, <3>3 DEF LastRecord
        <3> QED  BY <1>2, <3>2, <3>4
    <2> QED  BY <2>1, <2>2
<1>5. txop' = txop \/ txop' = UpdateBackoff(txop)
    BY DEF NotifyRxEndError, ReceivedFrame, SendNormalAck, contention
<1>6. UNCHANGED <<now, queue, event, sleeping, exchange>>
    BY DEF NotifyRxEndError, ReceivedFrame, SendNormalAck, contention
<1> QED  BY <1>1, <1>2, <1>3, <1>4, <1>5, <1>6, MediumKeeps

\* A Txop that has been reset.
LEMMA ResetRecord ==
    ASSUME NEW r \in TxopRecord, NEW n \in 0 .. CwMax, NEW from \in Nat, NEW cw \in CwMin .. CwMax
    PROVE  [r EXCEPT !.slots = n, !.start = from, !.counter = n, !.cw = cw,
                     !.access = "NOT_REQUESTED"] \in TxopRecord
BY DEF TxopRecord

LEMMA ResetKeeps ==
    ASSUME Types, NEW w \in Txop
    PROVE  /\ ResetBackoff(txop, w) \in [Txop -> TxopRecord]
           /\ ResetBackoff(txop, w)[w].access = "NOT_REQUESTED"
           /\ \A u \in Txop : u # w => ResetBackoff(txop, w)[u] = txop[u]
<1> DEFINE from == IF txop[w].slots > 0 THEN now ELSE txop[w].start
           none == 0
           G == [txop[w] EXCEPT !.slots = none, !.start = from, !.counter = none, !.cw = CwMin,
                                !.access = "NOT_REQUESTED"]
           T == ResetBackoff(txop, w)
<1>1. T = [txop EXCEPT ![w] = G]
    BY DEF ResetBackoff
<1>2. txop \in [Txop -> TxopRecord] /\ now \in Nat /\ CwMin \in CwMin .. CwMax
    BY TimeNat, Constants DEF Types, TypesOfGrant
<1>3. txop[w] \in TxopRecord
    BY <1>2
<1>4. from \in Nat
    BY <1>2, <1>3 DEF TxopRecord
<1>5. none \in 0 .. CwMax
    BY Constants
<1> HIDE DEF from, none
<1>6. G \in TxopRecord
    BY <1>2, <1>3, <1>4, <1>5, ResetRecord
<1>7. G.access = "NOT_REQUESTED"
    BY <1>3 DEF TxopRecord
<1> HIDE DEF G, T
<1>8. /\ T \in [Txop -> TxopRecord] /\ T[w].access = "NOT_REQUESTED"
      /\ \A u \in Txop : u # w => T[u] = txop[u]
    BY <1>1, <1>2, <1>6, <1>7
<1> QED  BY <1>8 DEF T

LEMMA WakeUpKeeps == ASSUME IInv, WakeUp, UNCHANGED qos PROVE IInv'
<1> DEFINE w == waking
           T == ResetBackoff(txop, w)
<1>1. /\ w \in Txop /\ ~ sleeping' /\ UNCHANGED <<now, event, sleeping>>
      /\ waking' = (IF w = NTxop THEN 0 ELSE w + 1) /\ StartAccess(T, w, FALSE, FALSE)
    BY DEF IInv, WakingIsAwake, WakeUp
<1>2. Types /\ TypesOfTime'
    BY <1>1 DEF IInv, Types, TypesOfTime
<1> HIDE DEF w
<1>3. T \in [Txop -> TxopRecord] /\ \A u \in Txop : u # w => T[u] = txop[u]
    BY <1>1, <1>2, ResetKeeps
<1> HIDE DEF T
<1>4. /\ TypesOfGrant'
      /\ \A u \in Txop : Served(event, T, queue, u) => Served(event, txop', queue', u)
      /\ Served(event, txop', queue', w)
    BY <1>1, <1>2, <1>3, StartKeeps
<1>5. \A u \in Txop : u < w => Served(event, T, queue, u)
    BY <1>1, <1>3 DEF IInv, ServedWaking, Served, w, Txop
<1>6. \A u \in Txop : u <= w => Served(event', txop', queue', u)
    BY <1>1, <1>4, <1>5 DEF Txop
<1>7. ServedAwake'
    BY <1>1, <1>6, AccessAssumption DEF ServedAwake, Awake, Txop
<1>8. ServedWaking'
    BY <1>1, <1>6 DEF ServedWaking, Txop
<1>9. WakingIsAwake'
    BY <1>1, AccessAssumption DEF IInv, WakingIsAwake, Txop
<1> QED  BY <1>2, <1>4, <1>7, <1>8, <1>9 DEF IInv, Types
LEMMA AccessKeeps ==
    ASSUME IInv, waking = 0, waking' = 0, UNCHANGED qos,
           \/ AccessTimeout
           \/ \E t \in Txop : StartAccessAfterEvent(t) \/ AccessAgain(t)
    PROVE  IInv'
<1>1. Types /\ txop \in [Txop -> TxopRecord] /\ queue \in [Txop -> Nat]
    BY DEF IInv, Types, TypesOfGrant
<1>2. CASE AccessTimeout
    <2>1. DoGrantDcfAccess(UpdateBackoff(txop)) /\ UNCHANGED <<now, event, sleeping>>
        BY <1>2 DEF AccessTimeout, phy
    <2>2. Same(txop, UpdateBackoff(txop)) /\ UpdateBackoff(txop) \in [Txop -> TxopRecord]
        BY <1>1, UpdateBackoffKeeps DEF Same
    <2>3. TypesOfTime'
        BY <1>1, <2>1 DEF Types, TypesOfTime
    <2>4. \A u \in Txop : Served(event, txop, queue, u) => Served(event, UpdateBackoff(txop), queue, u)
        BY <2>2 DEF Same, Served
    <2> DEFINE T == UpdateBackoff(txop)
    <2> HIDE DEF T
    <2>5. TypesOfGrant' /\ \A u \in Txop : Served(event, T, queue, u) => Served(event, txop', queue', u)
        BY <1>1, <2>1, <2>2, GrantKeeps DEF T
    <2>6. \A u \in Txop : Served(event, txop, queue, u) => Served(event', txop', queue', u)
        BY <2>1, <2>4, <2>5 DEF T
    <2> QED  BY <2>1, <2>3, <2>5, <2>6, StepKeeps
<1>3. ASSUME NEW t \in Txop, StartAccessAfterEvent(t) PROVE IInv'
    <2>1. /\ event' = [event EXCEPT ![t] = "none"] /\ UNCHANGED <<now, sleeping>>
          /\ StartAccess(txop, t, event[t] = "had", TRUE)
        BY <1>3 DEF StartAccessAfterEvent, phy
    <2>2. TypesOfTime' /\ \A u \in Txop : u # t => event'[u] = event[u]
        BY <1>1, <2>1 DEF Types, TypesOfTime
    <2>3. /\ TypesOfGrant'
          /\ \A u \in Txop : Served(event', txop, queue, u) => Served(event', txop', queue', u)
          /\ ~ sleeping' => Served(event', txop', queue', t)
        <3> DEFINE had == event[t] = "had"
        <3>1. had \in BOOLEAN /\ TRUE \in BOOLEAN /\ StartAccess(txop, t, had, TRUE)
            BY <2>1
        <3> HIDE DEF had
        <3> QED  BY <1>1, <3>1, StartKeeps
    <2>4. \A u \in Txop : u # t /\ Served(event, txop, queue, u) => Served(event', txop', queue', u)
        BY <2>2, <2>3 DEF Served
    <2>5. ServedAwake'
        BY <2>1, <2>3, <2>4 DEF IInv, ServedAwake, Awake
    <2> QED  BY <1>1, <2>1, <2>2, <2>3, <2>5 DEF IInv, Types, WakingIsAwake, ServedWaking
<1>4. ASSUME NEW t \in Txop, AccessAgain(t) PROVE IInv'
    <2> DEFINE G == [txop[t] EXCEPT !.again = FALSE]
               T == [txop EXCEPT ![t].again = FALSE]
    <2>1. T = [txop EXCEPT ![t] = G] /\ G \in TxopRecord /\ G.access = txop[t].access
        BY <1>1 DEF TxopRecord
    <2>2. /\ UNCHANGED <<now, event, sleeping>>
          /\ \/ T[t].access = "NOT_REQUESTED" /\ RequestAccess(T, t)
             \/ T[t].access # "NOT_REQUESTED" /\ txop' = T /\ UNCHANGED <<last, queue, exchange>>
        BY <1>4 DEF AccessAgain, phy
    <2> HIDE DEF G
    <2>3. /\ T \in [Txop -> TxopRecord] /\ T[t].access = txop[t].access
          /\ \A u \in Txop : u # t => T[u] = txop[u]
        BY <1>1, <2>1
    <2> HIDE DEF T
    <2>4. TypesOfTime'
        BY <1>1, <2>2 DEF Types, TypesOfTime
    <2>5. /\ TypesOfGrant'
          /\ \A u \in Txop : Served(event, T, queue, u) => Served(event, txop', queue', u)
          /\ ~ sleeping' => Served(event, txop', queue', t)
        <3>1. CASE T[t].access = "NOT_REQUESTED" /\ RequestAccess(T, t)
            BY <1>1, <2>3, <3>1, RequestKeeps
        <3>2. CASE T[t].access # "NOT_REQUESTED" /\ txop' = T /\ UNCHANGED <<last, queue, exchange>>
            BY <1>1, <2>3, <3>2 DEF Types, TypesOfGrant, Served
        <3> QED  BY <2>2, <3>1, <3>2
    <2>6. \A u \in Txop : u # t /\ Served(event, txop, queue, u) => Served(event', txop', queue', u)
        BY <2>2, <2>3, <2>5 DEF Served
    <2>7. ServedAwake'
        BY <2>2, <2>5, <2>6 DEF IInv, ServedAwake, Awake
    <2> QED  BY <2>2, <2>4, <2>5, <2>7 DEF IInv, Types, WakingIsAwake, ServedWaking
<1> QED  BY <1>2, <1>3, <1>4

\* The end of an exchange, whichever it is.
EndsExchange == TransmissionSucceeded \/ NormalAckTimeout \/ ReceivedNormalAck

LEMMA EndEffect ==
    ASSUME Types, EndsExchange
    PROVE  /\ exchange.txop \in Txop /\ txop' \in [Txop -> TxopRecord] /\ queue' \in [Txop -> Nat]
           /\ exchange' \in Exchange /\ exchange' = Idle
           /\ txop'[exchange.txop].access = "NOT_REQUESTED" /\ Begun(txop'[exchange.txop])
           /\ \A u \in Txop : u # exchange.txop => txop'[u] = txop[u]
           /\ \A u \in Txop : Served(event, txop, queue, u) => Served(event, txop', queue', u)
<1> DEFINE t == exchange.txop
           fewer == [queue EXCEPT ![t] = @ - 1]
           WithCw(cw) == [txop EXCEPT ![t].cw = cw]
<1>1. txop \in [Txop -> TxopRecord] /\ queue \in [Txop -> Nat] /\ exchange.txop \in Txop
    <2>1. exchange.txop # 0 /\ exchange.txop \in Txop \union {0}
        BY DEF Types, TypesOfGrant, Exchange, EndsExchange, TransmissionSucceeded, NormalAckTimeout,
               ReceivedNormalAck
    <2> QED  BY <2>1 DEF Types, TypesOfGrant
<1>2. ASSUME exchange.acked PROVE fewer \in [Txop -> Nat] /\ \A u \in Txop : fewer[u] <= queue[u]
    <2>1. queue[t] > 0
        BY <1>2 DEF Types, TypesOfGrant
    <2>2. queue[t] - 1 \in Nat
        BY <1>1, <2>1
    <2> QED  BY <1>1, <2>2
<1>3. ASSUME NEW cw \in CwMin .. CwMax
      PROVE  Same(txop, WithCw(cw)) /\ \A u \in Txop : u # t => WithCw(cw)[u] = txop[u]
    <2> DEFINE G == [txop[t] EXCEPT !.cw = cw]
    <2>1. G \in TxopRecord /\ G.access = txop[t].access /\ G.again = txop[t].again
        BY <1>1 DEF TxopRecord
    <2>2. WithCw(cw) = [txop EXCEPT ![t] = G]
        OBVIOUS
    <2> HIDE DEF G, WithCw
    <2> QED  BY <1>1, <2>1, <2>2 DEF Same
<1>4. CwMin \in CwMin .. CwMax /\ UpdateFailedCw(txop[t].cw) \in CwMin .. CwMax
    <2>1. txop[t].cw \in CwMin .. CwMax
        BY <1>1, TxopRecordNumbers
    <2> QED  BY <2>1, Constants DEF UpdateFailedCw, Fewer
<1>5. PICK T, left : /\ Finish(T, left) /\ Same(txop, T)
                     /\ \A u \in Txop : u # t => T[u] = txop[u]
                     /\ left \in [Txop -> Nat] /\ \A u \in Txop : left[u] <= queue[u]
    <2>0. \A u \in Txop : queue[u] <= queue[u]
        BY <1>1
    <2>1. CASE TransmissionSucceeded
        <3>1. Finish(txop, queue) /\ Same(txop, txop)
            BY <1>1, <2>1 DEF TransmissionSucceeded, Same
        <3> QED  BY <1>1, <2>0, <3>1
    <2>2. CASE NormalAckTimeout
        <3>1. exchange.acked /\ (Finish(WithCw(CwMin), fewer) \/ Finish(WithCw(UpdateFailedCw(txop[t].cw)), queue))
            BY <2>2 DEF NormalAckTimeout
        <3> HIDE DEF fewer, WithCw, t
        <3> QED  BY <1>1, <1>2, <1>3, <1>4, <2>0, <3>1
    <2>3. CASE ReceivedNormalAck
        <3>1. exchange.acked /\ Finish(WithCw(CwMin), fewer)
            BY <2>3 DEF ReceivedNormalAck
        <3> HIDE DEF fewer, WithCw, t
        <3> QED  BY <1>1, <1>2, <1>3, <1>4, <3>1
    <2> QED  BY <2>1, <2>2, <2>3 DEF EndsExchange
<1> HIDE DEF fewer, WithCw
<1> QED  BY <1>1, <1>5, FinishKeeps

LEMMA EndKeeps ==
    ASSUME IInv, waking = 0, waking' = 0, UNCHANGED qos, EndsExchange
    PROVE  IInv'
<1>1. /\ txop' \in [Txop -> TxopRecord] /\ queue' \in [Txop -> Nat]
      /\ exchange' \in Exchange /\ ~ exchange'.acked
      /\ \A u \in Txop : Served(event, txop, queue, u) => Served(event, txop', queue', u)
    BY EndEffect DEF IInv, Idle
<1>2. UNCHANGED <<now, event, sleeping>>
    BY DEF EndsExchange, TransmissionSucceeded, NormalAckTimeout, ReceivedNormalAck, phy
<1>3. last' \in LastRecord
    <2>1. last \in LastRecord /\ now \in Nat
        BY TimeNat DEF IInv, Types, TypesOfGrant
    <2> QED  BY <2>1 DEF EndsExchange, TransmissionSucceeded, NormalAckTimeout, ReceivedNormalAck,
                         LastRecord
<1>4. TypesOfTime' /\ TypesOfGrant'
    BY <1>1, <1>2, <1>3 DEF IInv, Types, TypesOfTime, TypesOfGrant
<1> QED  BY <1>1, <1>2, <1>4, StepKeeps

LEMMA TickKeeps ==
    ASSUME IInv, waking = 0, waking' = 0, UNCHANGED qos, Tick
    PROVE  IInv'
<1>1. /\ txop \in [Txop -> TxopRecord] /\ now \in Nat /\ last \in LastRecord
      /\ exchange \in Exchange /\ (exchange.acked => exchange.txop # 0 /\ queue[exchange.txop] > 0)
    BY TimeNat DEF IInv, Types, TypesOfGrant
<1>2. UNCHANGED <<last, queue, exchange, event, sleeping>> /\ now' = now + 1
    BY DEF Tick, phy
<1>3. Same(txop, txop')
    <2> SUFFICES ASSUME NEW t \in Txop
                 PROVE  /\ txop'[t] \in TxopRecord /\ txop'[t].access = txop[t].access
                        /\ txop'[t].again = txop[t].again
        BY DEF Tick, Same
    <2> DEFINE c == txop[t].counter - 1
    <2>1. txop'[t] = txop[t] \/ (txop[t].counter > 0 /\ txop'[t] = [txop[t] EXCEPT !.counter = c])
        BY DEF Tick
    <2>2. txop[t] \in TxopRecord
        BY <1>1
    <2>3. txop[t].counter > 0 => c \in 0 .. CwMax
        BY <2>2, TxopRecordNumbers, Constants
    <2> HIDE DEF c
    <2>4. ASSUME c \in 0 .. CwMax
          PROVE  /\ [txop[t] EXCEPT !.counter = c] \in TxopRecord
                 /\ [txop[t] EXCEPT !.counter = c].access = txop[t].access
                 /\ [txop[t] EXCEPT !.counter = c].again = txop[t].again
        BY <2>2, <2>4 DEF TxopRecord
    <2> QED  BY <2>1, <2>2, <2>3, <2>4
<1> QED  BY <1>1, <1>2, <1>3, MediumKeeps

\* A frame that is queued has an event that asks for access.
LEMMA QueueKeeps ==
    ASSUME IInv, waking = 0, waking' = 0, UNCHANGED qos, NEW t \in Txop, Queue(t)
    PROVE  IInv'
<1>1. /\ Types /\ queue \in [Txop -> Nat]
      /\ event \in [Txop -> {"none", "had", "had none"}]
    BY DEF IInv, Types, TypesOfTime, TypesOfGrant
<1>2. UNCHANGED <<now, last, txop, exchange, sleeping>>
    BY DEF Queue, phy
<1>3. PICK n \in Nat : n > 0 /\ queue' = [queue EXCEPT ![t] = n]
    <2>1. queue' = [queue EXCEPT ![t] = queue[t] + 1]
        BY DEF Queue
    <2>2. queue \in [Txop -> Nat] /\ queue[t] \in Nat
        BY <1>1
    <2>3. queue[t] + 1 \in Nat /\ queue[t] + 1 > 0
        BY <2>2
    <2> QED  BY <2>1, <2>3
<1>4. PICK e \in {"had", "had none"} : event' = [event EXCEPT ![t] = e]
    BY <1>1 DEF Queue
<1>a. queue' \in [Txop -> Nat] /\ queue'[t] > 0 /\ \A u \in Txop : u # t => queue'[u] = queue[u]
    BY <1>1, <1>3
<1>b. /\ event' \in [Txop -> {"none", "had", "had none"}]
      /\ event'[t] # "none" /\ \A u \in Txop : u # t => event'[u] = event[u]
    BY <1>1, <1>4
<1>5. /\ queue' \in [Txop -> Nat] /\ event' \in [Txop -> {"none", "had", "had none"}]
      /\ event'[t] # "none" /\ \A u \in Txop : u # t => event'[u] = event[u] /\ queue'[u] = queue[u]
    BY <1>a, <1>b
<1>6. \A u \in Txop : Served(event, txop, queue, u) => Served(event', txop', queue', u)
    BY <1>2, <1>5 DEF Served
<1>7. TypesOfTime' /\ TypesOfGrant'
    <2>1. exchange'.acked => exchange'.txop # 0 /\ queue'[exchange'.txop] > 0
        BY <1>1, <1>2, <1>a DEF Types, TypesOfGrant, Exchange
    <2> QED  BY <1>1, <1>2, <1>5, <2>1 DEF Types, TypesOfTime, TypesOfGrant
<1> QED  BY <1>2, <1>6, <1>7, StepKeeps

LEMMA ExpireKeeps ==
    ASSUME IInv, waking = 0, waking' = 0, UNCHANGED qos, NEW t \in Txop, Expire(t)
    PROVE  IInv'
<1>1. Types /\ queue \in [Txop -> Nat] /\ queue[t] > 0 /\ exchange.txop # t
    BY DEF IInv, Types, TypesOfGrant, Expire
<1>2. UNCHANGED <<now, last, txop, exchange, event, sleeping>> /\ queue' = [queue EXCEPT ![t] = @ - 1]
    BY DEF Expire, phy
<1>a. queue[t] - 1 \in Nat
    BY <1>1
<1>3. /\ queue' \in [Txop -> Nat] /\ \A u \in Txop : queue'[u] > 0 => queue[u] > 0
      /\ \A u \in Txop : u # t => queue'[u] = queue[u]
    BY <1>1, <1>2, <1>a
<1>4. \A u \in Txop : Served(event, txop, queue, u) => Served(event', txop', queue', u)
    BY <1>2, <1>3 DEF Served
<1>5. TypesOfTime' /\ TypesOfGrant'
    <2>1. exchange'.acked => exchange'.txop # 0 /\ queue'[exchange'.txop] > 0
        BY <1>1, <1>2, <1>3 DEF Types, TypesOfGrant, Exchange
    <2> QED  BY <1>1, <1>2, <1>3, <2>1 DEF Types, TypesOfTime, TypesOfGrant
<1> QED  BY <1>2, <1>4, <1>5, StepKeeps

LEMMA SleepKeeps ==
    ASSUME IInv, waking = 0, UNCHANGED qos,
           (waking' = 0 /\ NotifySleep) \/ NotifyWakeup
    PROVE  IInv'
<1>1. UNCHANGED <<now, last, txop, queue, exchange, event>>
    BY DEF NotifySleep, NotifyWakeup, contention
<1>2. TypesOfTime' /\ TypesOfGrant'
    BY <1>1 DEF IInv, Types, TypesOfTime, TypesOfGrant
<1>3. 1 \in Txop /\ \A u \in Txop : ~ (u < 1)
    BY AccessAssumption DEF Txop
<1>4. CASE waking' = 0 /\ NotifySleep
    <2>1. sleeping' = TRUE
        BY <1>4 DEF NotifySleep
    <2> QED  BY <1>2, <1>4, <2>1 DEF IInv, Types, WakingIsAwake, ServedAwake, ServedWaking, Awake
<1>5. CASE NotifyWakeup
    <2>1. sleeping' = FALSE /\ waking' = 1
        BY <1>5 DEF NotifyWakeup
    <2>2. WakingIsAwake'
        BY <1>3, <2>1 DEF WakingIsAwake
    <2>3. ServedAwake' /\ ServedWaking'
        BY <1>3, <2>1 DEF ServedAwake, ServedWaking, Awake
    <2> QED  BY <1>2, <2>2, <2>3 DEF IInv, Types
<1> QED  BY <1>4, <1>5
\* IInv is inductive.
LEMMA NextKeeps == IInv /\ [Next]_vars => IInv'
<1> SUFFICES ASSUME IInv, [Next]_vars PROVE IInv'
    OBVIOUS
<1>1. CASE UNCHANGED vars
    BY <1>1 DEF vars, contention, phy, bounds, IInv, Types, TypesOfTime, TypesOfGrant, WakingIsAwake,
                ServedAwake, ServedWaking, Awake
<1>2. CASE UNCHANGED qos /\ WakeUp
    BY <1>2, WakeUpKeeps
<1>3. CASE /\ UNCHANGED qos /\ waking = 0
           /\ \/ Tick \/ AccessTimeout \/ TransmissionSucceeded \/ NormalAckTimeout
              \/ Medium \/ ReceivedNormalAck \/ NotifySleep \/ NotifyWakeup
              \/ \E t \in Txop : Queue(t) \/ Expire(t) \/ StartAccessAfterEvent(t) \/ AccessAgain(t)
    <2>1. CASE NotifySleep \/ NotifyWakeup
        <3>1. NotifySleep => waking' = 0
            BY <1>3 DEF NotifySleep
        <3> QED  BY <1>3, <2>1, <3>1, SleepKeeps
    <2>2. CASE Tick
        BY <1>3, <2>2, TickKeeps DEF Tick, phy
    <2>3. CASE AccessTimeout \/ \E t \in Txop : StartAccessAfterEvent(t) \/ AccessAgain(t)
        <3>1. waking' = 0
            BY <1>3, <2>3 DEF AccessTimeout, StartAccessAfterEvent, AccessAgain, phy
        <3> QED  BY <1>3, <2>3, <3>1, AccessKeeps
    <2>4. CASE TransmissionSucceeded \/ NormalAckTimeout \/ ReceivedNormalAck
        <3>1. waking' = 0
            BY <1>3, <2>4 DEF TransmissionSucceeded, NormalAckTimeout, ReceivedNormalAck, phy
        <3> QED  BY <1>3, <2>4, <3>1, EndKeeps DEF EndsExchange
    <2>5. CASE Medium
        <3>1. waking' = 0
            BY <1>3, <2>5 DEF Medium, NotifyRxStart, NotifyRxEndError, ReceivedFrame, UpdateNav,
                              NotifyCcaBusyStart, SendNormalAck, phy
        <3>2. \/ \E d \in RxTime : NotifyRxStart(d)
              \/ \E d \in CcaTime : NotifyCcaBusyStart(d)
              \/ \E d \in NavTime : UpdateNav(d)
              \/ NotifyRxEndError \/ ReceivedFrame \/ SendNormalAck
            BY <2>5 DEF Medium
        <3> QED  BY <1>3, <3>1, <3>2, ReceptionKeeps, EndOfReceptionKeeps
    <2>6. ASSUME NEW t \in Txop, Queue(t) \/ Expire(t) PROVE IInv'
        <3>1. waking' = 0
            BY <1>3, <2>6 DEF Queue, Expire, phy
        <3> QED  BY <1>3, <2>6, <3>1, QueueKeeps, ExpireKeeps
    <2> QED  BY <1>3, <2>1, <2>2, <2>3, <2>4, <2>5, <2>6
<1> QED  BY <1>1, <1>2, <1>3 DEF Next

LEMMA IInvImplies == IInv => NoFrameStranded
BY DEF IInv, ServedAwake, NoFrameStranded, Served

\* No frame is stranded: once the event that follows it has run, whoever has a
\* frame in its queue contends for the medium or transmits, whatever the number
\* of Txops, their parameters, the durations and what the PHY reports.
THEOREM FramesAreServed == Spec => []NoFrameStranded
<1>1. Spec => []IInv
    BY InitImplies, NextKeeps, PTL DEF Spec
<1> QED  BY <1>1, IInvImplies, PTL
-----------------------------------------------------------------------------
(* Who transmits, and the timer of those who wait.                         *)
(*                                                                         *)
(* Nobody is granted access during an exchange, as the exchange ends within *)
(* a SIFS of the last thing it is known by: the end of the frame, of the   *)
(* wait for the acknowledgment, or of the reception that may be it.        *)

\* What the station knows of the medium.
MediumInv ==
    /\ receiving => now <= last.rx /\ last.tx <= now /\ last.ok
    /\ ~ last.ok => last.rx <= now
    /\ response # NoTime => /\ now <= response /\ response <= last.rx + SIFS /\ last.tx <= now
                            /\ last.rx <= now \/ response - SIFS <= last.rxStart

\* Until when an exchange lasts.
UntilWhen ==
    /\ now <= exchange.until
    /\ ~ exchange.acked => exchange.until <= last.tx
    /\ exchange.acked => exchange.until <= last.ack \/ exchange.until <= last.rx + Safeguard
    /\ exchange.acked /\ receiving => exchange.until <= last.rx + Safeguard
    /\ response # NoTime => exchange.until <= response - SIFS + Safeguard

ExchangeInv == exchange.txop # 0 => UntilWhen

TransmitInv == GrantedTransmits /\ (sleeping \/ waking # 0 => slept)

\* A Txop that contends waits for the timer.
Waits(t) ==
    txop[t].access = "REQUESTED" =>
        now <= accessTimeout /\ (cutShort \/ accessTimeout <= GetBackoffEndFor(txop, t))

TimerInv ==
    /\ accessTimeout = NoTime \/ now <= accessTimeout
    /\ ~ sleeping => \A t \in Txop : waking = 0 \/ t < waking => Waits(t)

\* What TypeOK says of the rest.
TypesOfRest ==
    /\ now <= MaxTime /\ accessTimeout \in Nat \union {NoTime} /\ receiving \in BOOLEAN
    /\ response \in Nat \union {NoTime} /\ inputs \in 0 .. MaxInputs
    /\ slept \in BOOLEAN /\ cutShort \in BOOLEAN /\ failed \in BOOLEAN

AccessInv == MediumInv /\ ExchangeInv /\ TransmitInv /\ TimerInv
CInv == IInv /\ TypesOfRest /\ AccessInv

\* GetAccessGrantStart and GetBackoffEndFor as functions of what they read.
RxStart(l, n) == IF l.rx <= n /\ ~ l.ok THEN l.rx + SIFS + AckTx ELSE l.rx

GrantStart(l, n) ==
    SIFS + Later(RxStart(l, n), Later(l.busy, Later(l.tx, Later(l.nav, l.ack))))

End(x, g, k) == Later(x.start, g + k * SLOT) + x.slots * SLOT

LEMMA GrantStartIs ==
    GetAccessGrantStart = GrantStart(last, now) /\ GetAccessGrantStart' = GrantStart(last', now')
BY DEF GetAccessGrantStart, GrantStart, RxAccessStart, RxStart

LEMMA EndIs ==
    ASSUME NEW t
    PROVE  /\ \A T : GetBackoffEndFor(T, t) = End(T[t], GrantStart(last, now), Aifsn[t])
           /\ GetBackoffEndFor(txop, t)' = End(txop'[t], GrantStart(last', now'), Aifsn[t])
BY GrantStartIs DEF GetBackoffEndFor, GetBackoffStartFor, Aifs, End

LEMMA GrantStartBounds ==
    ASSUME NEW l \in LastRecord, NEW n \in Nat
    PROVE  /\ GrantStart(l, n) \in Nat /\ RxStart(l, n) \in Nat
           /\ GrantStart(l, n) >= SIFS + RxStart(l, n) /\ GrantStart(l, n) >= SIFS + l.rx
           /\ GrantStart(l, n) >= SIFS + l.busy /\ GrantStart(l, n) >= SIFS + l.tx
           /\ GrantStart(l, n) >= SIFS + l.nav /\ GrantStart(l, n) >= SIFS + l.ack
<1>1. l.rx \in Nat /\ l.busy \in Nat /\ l.tx \in Nat /\ l.nav \in Nat /\ l.ack \in Nat
    BY DEF LastRecord
<1>2. RxStart(l, n) \in Nat /\ RxStart(l, n) >= l.rx
    BY <1>1, Constants DEF RxStart
<1> QED  BY <1>1, <1>2, Constants DEF GrantStart, Later

\* The later what is known of the medium, the later a backoff ends.
LEMMA EndBounds ==
    ASSUME NEW x \in TxopRecord, NEW g \in Nat, NEW k \in Nat \ {0}
    PROVE  /\ End(x, g, k) \in Nat /\ End(x, g, k) > g
           /\ \A h \in Nat : h >= g => End(x, h, k) >= End(x, g, k)
<1>1. x.start \in Nat /\ x.slots \in Nat
    BY TxopRecordNumbers
<1>2. x.slots * SLOT \in Nat /\ k * SLOT \in Nat /\ k * SLOT > 0
    <2>1. \A a, b \in Nat : a * b \in Nat /\ (a > 0 /\ b > 0 => a * b > 0)
        OBVIOUS
    <2>2. k \in Nat /\ k > 0
        OBVIOUS
    <2> QED  BY <1>1, <2>1, <2>2, Constants
<1> DEFINE a == x.slots * SLOT
           b == k * SLOT
<1> HIDE DEF a, b
<1>3. a \in Nat /\ b \in Nat /\ b > 0
    BY <1>2 DEF a, b
<1>4. \A h \in Nat : End(x, h, k) = Later(x.start, h + b) + a
    BY DEF End, a, b
<1> QED  BY <1>1, <1>3, <1>4 DEF Later

\* Counting slots does not move the end of a backoff.
LEMMA CountedEnd ==
    ASSUME Types, NEW T \in [Txop -> TxopRecord], NEW t \in Txop
    PROVE  GetBackoffEndFor(UpdateBackoff(T), t) = GetBackoffEndFor(T, t)
<1> DEFINE from == GetBackoffStartFor(T, t)
           n == Fewer(IdleSlots(t, from), T[t].slots)
           U == UpdateBackoff(T)
<1>1. T[t] \in TxopRecord /\ T[t].start \in Nat /\ T[t].slots \in Nat /\ Aifs(t) \in Nat
    BY TxopRecordNumbers, AifsNat
<1>2. from \in Nat /\ from >= Aifs(t)
    BY <1>1, LaterNat DEF GetBackoffStartFor
<1>3. U[t] = IF from > now THEN T[t] ELSE Decrement(T, t, from, n)
    BY DEF UpdateBackoff
<1>4. CASE from > now
    BY <1>3, <1>4 DEF GetBackoffEndFor, GetBackoffStartFor
<1>5. CASE ~ (from > now)
    <2>0. IdleSlots(t, from) \in Nat
        BY <1>2, <1>5, TimeNat, IdleSlotsNat
    <2>1. n \in Nat /\ n <= T[t].slots
        BY <1>1, <2>0, FewerNat
    <2> HIDE DEF n
    <2>2. U[t].start = from + n * SLOT /\ U[t].slots = T[t].slots - n
        BY <1>1, <1>3, <1>5 DEF Decrement, TxopRecord
    <2> HIDE DEF U, from
    <2>3. SLOT \in Nat /\ n * SLOT \in Nat
        BY <2>1, Constants
    <2>4. Later(U[t].start, Aifs(t)) = from + n * SLOT
        BY <1>1, <1>2, <2>2, <2>3 DEF Later
    <2>5. (T[t].slots - n) * SLOT = T[t].slots * SLOT - n * SLOT
        BY <1>1, <2>1, <2>3
    <2>6. T[t].slots * SLOT \in Int
        BY <1>1, <2>3
    <2>7. Later(U[t].start, Aifs(t)) + U[t].slots * SLOT = from + T[t].slots * SLOT
        BY <1>2, <2>2, <2>3, <2>4, <2>5, <2>6
    <2> QED  BY <2>7 DEF GetBackoffEndFor, GetBackoffStartFor, U, from
<1> QED  BY <1>4, <1>5

\* The timer is restarted for the first backoff that ends.
LEMMA RestartEffect ==
    ASSUME IInv', NEW armed \in Nat \union {NoTime}, armed = NoTime \/ now' <= armed,
           DoRestartAccessTimeoutIfNeeded(armed)
    PROVE  /\ accessTimeout' \in Nat \union {NoTime}
           /\ accessTimeout' = NoTime \/ now' <= accessTimeout'
           /\ \A u \in Txop : txop'[u].access = "REQUESTED" /\ now' < GetBackoffEndFor(txop, u)' =>
                  now' <= accessTimeout' /\ accessTimeout' <= GetBackoffEndFor(txop, u)'
<1> DEFINE D == ComingEnds'
           M == D \union (IF armed = NoTime THEN {} ELSE {armed})
<1>1. now' \in Nat
    BY DEF IInv, Types, TypesOfTime
<1>2. \A u \in Txop : GetBackoffEndFor(txop, u)' \in Nat
    <2> SUFFICES ASSUME NEW u \in Txop PROVE GetBackoffEndFor(txop, u)' \in Nat
        OBVIOUS
    <2>1. last' \in LastRecord /\ txop'[u] \in TxopRecord
        BY DEF IInv, Types, TypesOfGrant
    <2>2. GrantStart(last', now') \in Nat /\ Aifsn[u] \in Nat \ {0}
        BY <1>1, <2>1, GrantStartBounds, Constants
    <2>3. End(txop'[u], GrantStart(last', now'), Aifsn[u]) \in Nat
        BY <2>1, <2>2, EndBounds
    <2> QED  BY <2>3, EndIs
<1>3. D \in SUBSET Nat /\ \A e \in D : e > now'
    BY <1>2 DEF ComingEnds
<1>4. \A u \in Txop : txop'[u].access = "REQUESTED" /\ now' < GetBackoffEndFor(txop, u)'
                      => GetBackoffEndFor(txop, u)' \in D
    BY <1>1, <1>2 DEF ComingEnds
<1>5. accessTimeout' = IF D = {} THEN armed ELSE Min(M)
    BY DEF DoRestartAccessTimeoutIfNeeded
<1> HIDE DEF D
<1>6. CASE D = {}
    BY <1>4, <1>5, <1>6
<1>7. CASE D # {}
    <2>1. M \in SUBSET Nat /\ M # {} /\ \A e \in M : now' <= e
        BY <1>1, <1>3, <1>7 DEF NoTime
    <2>2. Min(M) \in M /\ \A e \in M : Min(M) <= e
        BY <2>1, MinIsLeast
    <2>3. accessTimeout' \in M /\ \A e \in D : accessTimeout' <= e
        BY <1>5, <1>7, <2>2
    <2> HIDE DEF M
    <2> QED  BY <1>4, <2>1, <2>3
<1> QED  BY <1>6, <1>7

\* Whose backoff is over knows of nothing on the medium for a SIFS.
LEMMA ExpiredQuiet ==
    ASSUME Types, NEW T \in [Txop -> TxopRecord], NEW t \in Expired(T)
    PROVE  /\ GrantStart(last, now) < now /\ last.rx + SIFS < now /\ last.tx + SIFS < now
           /\ last.ack + SIFS < now
<1>1. t \in Txop /\ End(T[t], GrantStart(last, now), Aifsn[t]) <= now /\ now \in Nat
    BY TimeNat, EndIs DEF Expired
<1>2. last \in LastRecord /\ T[t] \in TxopRecord /\ Aifsn[t] \in Nat \ {0}
    BY <1>1, Constants DEF Types, TypesOfGrant
<1>3. /\ GrantStart(last, now) \in Nat /\ GrantStart(last, now) >= SIFS + last.rx
      /\ GrantStart(last, now) >= SIFS + last.tx /\ GrantStart(last, now) >= SIFS + last.ack
    BY <1>1, <1>2, GrantStartBounds
<1>4. End(T[t], GrantStart(last, now), Aifsn[t]) > GrantStart(last, now)
      /\ End(T[t], GrantStart(last, now), Aifsn[t]) \in Nat
    BY <1>2, <1>3, EndBounds
<1>5. last.rx \in Nat /\ last.tx \in Nat /\ last.ack \in Nat
    BY <1>2, LastNumbers
<1> QED  BY <1>1, <1>3, <1>4, <1>5, Constants

\* So there is no exchange, no reception and no acknowledgment to send.
LEMMA QuietIsIdle ==
    ASSUME Types, TypesOfRest, MediumInv, ExchangeInv, last.rx + SIFS < now, last.tx + SIFS < now,
           last.ack + SIFS < now
    PROVE  exchange.txop = 0 /\ ~ receiving /\ response = NoTime
<1>1. /\ last.rx \in Nat /\ last.tx \in Nat /\ last.ack \in Nat /\ now \in Nat
      /\ exchange.until \in Nat \union {NoTime} /\ exchange.acked \in BOOLEAN
      /\ response \in Nat \union {NoTime}
    BY LastNumbers, TimeNat DEF Types, TypesOfGrant, TypesOfRest, Exchange
<1>2. last.rx < now /\ last.tx < now /\ last.ack < now /\ last.rx + Safeguard < now
    BY <1>1, Constants
<1>3. ~ receiving
    BY <1>1, <1>2 DEF MediumInv
<1>4. response = NoTime
    BY <1>1, Constants DEF MediumInv
<1>5. exchange.txop = 0
    <2> SUFFICES ASSUME exchange.txop # 0 PROVE FALSE
        OBVIOUS
    <2>1. now <= exchange.until /\ exchange.until \in Nat
        BY <1>1 DEF ExchangeInv, UntilWhen, NoTime
    <2>2. CASE exchange.acked
        BY <1>1, <1>2, <2>1, <2>2, Constants DEF ExchangeInv, UntilWhen
    <2>3. CASE ~ exchange.acked
        BY <1>1, <1>2, <2>1, <2>3 DEF ExchangeInv, UntilWhen
    <2> QED  BY <2>2, <2>3
<1> QED  BY <1>3, <1>4, <1>5

\* Granting access when T has the Txops: nobody who still contends could have
\* been granted it, and one transmits only if nobody did.
LEMMA GrantAccess ==
    ASSUME IInv, TypesOfRest, MediumInv, ExchangeInv, TransmitInv,
           NEW T \in [Txop -> TxopRecord], DoGrantDcfAccess(T),
           slept \/ \A u \in Txop : T[u].access = "GRANTED" <=> txop[u].access = "GRANTED",
           UNCHANGED <<now, receiving, response, sleeping, slept>>, waking' # 0 => waking # 0
    PROVE  /\ MediumInv' /\ ExchangeInv' /\ TransmitInv' /\ failed' \in BOOLEAN
           /\ \A u \in Txop : txop'[u].access = "REQUESTED" => now' < GetBackoffEndFor(txop, u)'
<1>1. /\ Types /\ TypesOfGrant' /\ GrantEffect(T) /\ now \in Nat /\ last \in LastRecord
      /\ last' \in LastRecord /\ exchange \in Exchange
    BY GrantKeeps, TimeNat DEF IInv, Types, TypesOfGrant
<1>2. ASSUME NEW u \in Txop, u \notin Expired(T), T[u].access = "REQUESTED",
             GrantStart(last', now') >= GrantStart(last, now) \/ GrantStart(last', now') >= now
      PROVE  now' < GetBackoffEndFor(txop, u)'
    <2>1. /\ GrantStart(last, now) \in Nat /\ GrantStart(last', now') \in Nat
          /\ Aifsn[u] \in Nat \ {0} /\ T[u] \in TxopRecord
        BY <1>1, GrantStartBounds, Constants
    <2>2. End(T[u], GrantStart(last, now), Aifsn[u]) > now
          /\ End(T[u], GrantStart(last, now), Aifsn[u]) \in Nat
        BY <1>1, <1>2, <2>1, EndIs, EndBounds DEF Expired
    <2>3. txop'[u] = T[u]
        BY <1>1, <1>2 DEF GrantEffect
    <2>4. /\ End(T[u], GrantStart(last', now'), Aifsn[u]) \in Nat
          /\ End(T[u], GrantStart(last', now'), Aifsn[u]) > GrantStart(last', now')
          /\ GrantStart(last', now') >= GrantStart(last, now) =>
                 End(T[u], GrantStart(last', now'), Aifsn[u])
                     >= End(T[u], GrantStart(last, now), Aifsn[u])
        BY <2>1, EndBounds
    <2>5. End(txop'[u], GrantStart(last', now'), Aifsn[u]) > now
        BY <1>1, <1>2, <2>1, <2>2, <2>3, <2>4
    <2> QED  BY <2>5, EndIs
<1>3. CASE GrantedNobody(T)
    <2>1. UNCHANGED <<last, queue, exchange, failed>>
          /\ \A u \in Expired(T) : txop'[u].access = "NOT_REQUESTED"
        BY <1>3 DEF GrantedNobody
    <2>2. MediumInv' /\ ExchangeInv'
        BY <2>1 DEF MediumInv, ExchangeInv, UntilWhen
    <2>3. ASSUME NEW u \in Txop, txop'[u].access = "REQUESTED"
          PROVE  now' < GetBackoffEndFor(txop, u)'
        <3>1. u \notin Expired(T) /\ T[u].access = "REQUESTED"
            BY <1>1, <2>1, <2>3 DEF GrantEffect
        <3>2. GrantStart(last', now') >= GrantStart(last, now)
            BY <1>1, <2>1, GrantStartBounds
        <3> QED  BY <1>2, <3>1, <3>2
    <2>4. TransmitInv'
        <3> SUFFICES ASSUME ~ slept, NEW u \in Txop
                     PROVE  txop'[u].access = "GRANTED" <=> exchange'.txop = u
            BY <2>1 DEF TransmitInv, GrantedTransmits
        <3>1. T[u].access = "GRANTED" <=> exchange.txop = u
            BY DEF TransmitInv, GrantedTransmits
        <3>2. CASE u \in Expired(T)
            <4>1. T[u].access = "REQUESTED" /\ txop'[u].access = "NOT_REQUESTED"
                BY <2>1, <3>2 DEF Expired
            <4> QED  BY <2>1, <3>1, <4>1
        <3>3. CASE u \notin Expired(T)
            BY <1>1, <2>1, <3>1, <3>3 DEF GrantEffect
        <3> QED  BY <3>2, <3>3
    <2>5. failed' \in BOOLEAN
        BY <2>1 DEF TypesOfRest
    <2> QED  BY <2>2, <2>3, <2>4, <2>5
<1>4. ASSUME NEW t \in Expired(T), NEW acked \in BOOLEAN, Granted(T, t, acked)
      PROVE  /\ MediumInv' /\ ExchangeInv' /\ TransmitInv' /\ failed' \in BOOLEAN
             /\ \A u \in Txop : txop'[u].access = "REQUESTED" => now' < GetBackoffEndFor(txop, u)'
    <2>1. /\ GrantStart(last, now) < now /\ last.rx + SIFS < now /\ last.tx + SIFS < now
          /\ last.ack + SIFS < now
        BY <1>1, ExpiredQuiet
    <2>a. t \in Txop /\ t # 0
        BY DEF Expired, Txop
    <2>2. exchange.txop = 0 /\ ~ receiving /\ response = NoTime
        BY <1>1, <2>1, QuietIsIdle
    <2>3. last.ack \in Nat /\ last.ack < now /\ ~ failed
        BY <1>1, <2>1, LastNumbers, Constants DEF TransmitInv, GrantedTransmits
    <2>4. /\ exchange' = [txop |-> t, until |-> now + (IF acked THEN AckWait ELSE FrameTx),
                           acked |-> acked]
          /\ last' = [last EXCEPT !.ok = TRUE, !.tx = now + FrameTx,
                                  !.ack = IF acked THEN now + AckWait ELSE @]
        BY <1>4 DEF Granted, Transmit
    <2>b. failed' = FALSE
        <3>1. failed' = (failed \/ (acked /\ last.ack >= now))
            BY <1>4 DEF Granted, Transmit
        <3>2. ~ (last.ack >= now)
            BY <1>1, <2>3
        <3> QED  BY <2>3, <3>1, <3>2, Zenon
    <2>5. /\ last'.ok = TRUE /\ last'.tx = now + FrameTx /\ (acked => last'.ack = now + AckWait)
        BY <1>1, <2>4 DEF LastRecord
    <2>6. MediumInv'
        BY <2>2, <2>5 DEF MediumInv
    <2>7. ExchangeInv'
        <3>1. /\ exchange'.acked = acked
              /\ exchange'.until = now + (IF acked THEN AckWait ELSE FrameTx)
            BY <2>4
        <3>2. CASE acked
            BY <1>1, <2>2, <2>5, <3>1, <3>2, Constants DEF ExchangeInv, UntilWhen
        <3>3. CASE ~ acked
            BY <1>1, <2>2, <2>5, <3>1, <3>3, Constants DEF ExchangeInv, UntilWhen
        <3> QED  BY <3>2, <3>3
    <2>8. ASSUME NEW u \in Txop, ~ slept PROVE txop'[u].access = "GRANTED" <=> exchange'.txop = u
        <3>1. T[u].access # "GRANTED"
            BY <2>2, <2>8 DEF TransmitInv, GrantedTransmits, Txop
        <3>2. CASE u \in Expired(T)
            BY <1>4, <2>4, <3>2 DEF Granted
        <3>3. CASE u \notin Expired(T)
            BY <1>1, <2>4, <3>1, <3>3 DEF GrantEffect
        <3> QED  BY <3>2, <3>3
    <2>9. TransmitInv' /\ failed' \in BOOLEAN
        BY <2>b, <2>8 DEF TransmitInv, GrantedTransmits
    <2>10. ASSUME NEW u \in Txop, txop'[u].access = "REQUESTED"
           PROVE  now' < GetBackoffEndFor(txop, u)'
        <3>1. u \notin Expired(T)
            BY <1>4, <2>10 DEF Granted
        <3>2. T[u].access = "REQUESTED"
            BY <1>1, <2>10, <3>1 DEF GrantEffect
        <3>3. GrantStart(last', now') >= SIFS + last'.tx /\ GrantStart(last', now') \in Nat
            BY <1>1, GrantStartBounds
        <3>4. GrantStart(last', now') >= now
            BY <1>1, <2>5, <3>3, Constants
        <3> QED  BY <1>2, <3>1, <3>2, <3>4
    <2> QED  BY <2>6, <2>7, <2>9, <2>10
<1> QED  BY <1>1, <1>3, <1>4 DEF GrantEffect

\* The end of a backoff depends on when it starts and on its slots.
LEMMA EndSame ==
    ASSUME NEW x, NEW y, x.start = y.start, x.slots = y.slots, NEW g, NEW k
    PROVE  End(x, g, k) = End(y, g, k)
BY DEF End

\* A step after which the backoffs that go on end no earlier, or a busy period
\* was cut short.
BackoffsGoOn ==
    \A u \in Txop : txop'[u].access = "REQUESTED" =>
        /\ txop[u].access = "REQUESTED"
        /\ End(txop'[u], GrantStart(last, now), Aifsn[u]) = End(txop[u], GrantStart(last, now), Aifsn[u])

LEMMA KeepWaits ==
    ASSUME IInv, IInv', TypesOfRest, BackoffsGoOn, accessTimeout' = accessTimeout,
           cutShort => cutShort', cutShort' \/ GrantStart(last', now') >= GrantStart(last, now),
           now <= accessTimeout => now' <= accessTimeout
    PROVE  \A u \in Txop : Waits(u) => Waits(u)'
<1> SUFFICES ASSUME NEW u \in Txop, Waits(u), txop'[u].access = "REQUESTED"
             PROVE  now' <= accessTimeout /\ (cutShort' \/ accessTimeout <= GetBackoffEndFor(txop, u)')
    BY DEF Waits
<1>1. /\ last \in LastRecord /\ last' \in LastRecord /\ now \in Nat /\ now' \in Nat
      /\ txop'[u] \in TxopRecord /\ txop[u] \in TxopRecord
    BY DEF IInv, Types, TypesOfTime, TypesOfGrant
<1>a. Aifsn[u] \in Nat \ {0}
    BY Constants
<1>2. GrantStart(last, now) \in Nat /\ GrantStart(last', now') \in Nat
    BY <1>1, GrantStartBounds
<1>3. now <= accessTimeout /\ (cutShort \/ accessTimeout <= GetBackoffEndFor(txop, u))
    BY DEF Waits, BackoffsGoOn
<1>4. CASE cutShort'
    BY <1>3, <1>4
<1>5. CASE ~ cutShort'
    <2>1. GrantStart(last', now') >= GrantStart(last, now)
        BY <1>5
    <2>2. /\ End(txop'[u], GrantStart(last', now'), Aifsn[u])
                >= End(txop'[u], GrantStart(last, now), Aifsn[u])
          /\ End(txop'[u], GrantStart(last', now'), Aifsn[u]) \in Nat
          /\ End(txop'[u], GrantStart(last, now), Aifsn[u]) \in Nat
        BY <1>1, <1>a, <1>2, <2>1, EndBounds
    <2>3. accessTimeout <= End(txop[u], GrantStart(last, now), Aifsn[u])
        BY <1>3, <1>5, EndIs
    <2>4. End(txop'[u], GrantStart(last, now), Aifsn[u]) = End(txop[u], GrantStart(last, now), Aifsn[u])
        BY DEF BackoffsGoOn
    <2>5. accessTimeout \in Nat \union {NoTime}
        BY DEF TypesOfRest
    <2>6. accessTimeout <= End(txop'[u], GrantStart(last', now'), Aifsn[u])
        BY <2>2, <2>3, <2>4, <2>5 DEF NoTime
    <2> QED  BY <1>3, <2>6, EndIs
<1> QED  BY <1>4, <1>5

\* Counting slots lets the backoffs go on.
LEMMA CountingGoesOn ==
    ASSUME IInv, txop' = UpdateBackoff(txop)
    PROVE  BackoffsGoOn
<1>1. Types /\ txop \in [Txop -> TxopRecord]
    BY DEF IInv, Types, TypesOfGrant
<1>2. Same(txop, txop')
    BY <1>1, UpdateBackoffKeeps
<1> SUFFICES ASSUME NEW u \in Txop, txop'[u].access = "REQUESTED"
             PROVE  /\ txop[u].access = "REQUESTED"
                    /\ End(txop'[u], GrantStart(last, now), Aifsn[u])
                            = End(txop[u], GrantStart(last, now), Aifsn[u])
    BY DEF BackoffsGoOn
<1>3. GetBackoffEndFor(UpdateBackoff(txop), u) = GetBackoffEndFor(txop, u)
    BY <1>1, CountedEnd
<1> QED  BY <1>2, <1>3, EndIs DEF Same

\* The timer goes on for a step after which nobody else contends.
LEMMA TimerGoesOn ==
    ASSUME IInv, IInv', TypesOfRest, TimerInv, BackoffsGoOn, accessTimeout' = accessTimeout,
           cutShort => cutShort', cutShort' \/ GrantStart(last', now') >= GrantStart(last, now),
           now' = now \/ (now' = now + 1 /\ accessTimeout # now),
           sleeping' = sleeping, waking' = waking
    PROVE  TimerInv'
<1>1. now \in Nat /\ accessTimeout \in Nat \union {NoTime}
    BY TimeNat DEF IInv, TypesOfRest
<1>2. now <= accessTimeout => now' <= accessTimeout
    BY <1>1 DEF NoTime
<1>3. \A u \in Txop : Waits(u) => Waits(u)'
    BY <1>2, KeepWaits
<1> QED  BY <1>2, <1>3 DEF TimerInv

\* After the timer has been restarted at the end of a reception, or later in one,
\* everybody waits for it.
LEMMA RestartLater ==
    ASSUME IInv', TypesOfRest, TimerInv, now' = now, last'.rx >= now,
           DoRestartAccessTimeoutIfNeeded(accessTimeout)
    PROVE  TimerInv' /\ accessTimeout' \in Nat \union {NoTime}
<1>1. accessTimeout \in Nat \union {NoTime} /\ (accessTimeout = NoTime \/ now' <= accessTimeout)
    BY DEF TypesOfRest, TimerInv
<1>2. ASSUME NEW u \in Txop PROVE now' < GetBackoffEndFor(txop, u)'
    <2>1. last' \in LastRecord /\ now' \in Nat /\ txop'[u] \in TxopRecord
        BY DEF IInv, Types, TypesOfGrant, TypesOfTime
    <2>2. Aifsn[u] \in Nat \ {0}
        BY Constants
    <2>3. /\ GrantStart(last', now') \in Nat /\ GrantStart(last', now') >= SIFS + last'.rx
          /\ last'.rx \in Nat
        BY <2>1, GrantStartBounds DEF LastRecord
    <2>4. /\ End(txop'[u], GrantStart(last', now'), Aifsn[u]) > GrantStart(last', now')
          /\ End(txop'[u], GrantStart(last', now'), Aifsn[u]) \in Nat
        BY <2>1, <2>2, <2>3, EndBounds
    <2>5. now' < End(txop'[u], GrantStart(last', now'), Aifsn[u])
        BY <2>1, <2>3, <2>4, Constants
    <2> QED  BY <2>5, EndIs
<1>3. /\ accessTimeout' \in Nat \union {NoTime}
      /\ accessTimeout' = NoTime \/ now' <= accessTimeout'
      /\ \A u \in Txop : txop'[u].access = "REQUESTED" /\ now' < GetBackoffEndFor(txop, u)' =>
             now' <= accessTimeout' /\ accessTimeout' <= GetBackoffEndFor(txop, u)'
    BY <1>1, RestartEffect
<1> QED  BY <1>2, <1>3 DEF TimerInv, Waits

-----------------------------------------------------------------------------
(* One lemma for each kind of action.                                      *)

\* What a handler that asks for access, or may, leaves as it is.
Instant ==
    /\ UNCHANGED <<now, receiving, response, sleeping, inputs, slept, cutShort>>
    /\ waking' # 0 => waking # 0

\* T has granted access to those who have been granted it.
SameGrants(T) == slept \/ \A u \in Txop : T[u].access = "GRANTED" <=> txop[u].access = "GRANTED"

\* Those who contend in T do so in txop, with the same backoff, or are to be
\* reset by NotifyWakeupNow.
SameWaits(T) ==
    /\ \A u \in Txop : T[u].access = "REQUESTED" =>
           txop[u].access = "REQUESTED" /\ T[u].start = txop[u].start /\ T[u].slots = txop[u].slots
    /\ \A u \in Txop : waking' = 0 \/ u < waking' =>
           waking = 0 \/ u < waking \/ T[u].access # "REQUESTED"

LEMMA NoRequest ==
    ASSUME CInv, IInv', NEW T, SameGrants(T), SameWaits(T), Instant, txop' = T,
           UNCHANGED <<last, queue, accessTimeout, exchange, failed>>
    PROVE  TypesOfRest' /\ AccessInv'
<1>1. TypesOfRest'
    BY DEF CInv, TypesOfRest, Instant
<1>2. MediumInv' /\ ExchangeInv'
    BY DEF CInv, AccessInv, MediumInv, ExchangeInv, UntilWhen, Instant
<1>3. TransmitInv'
    BY DEF CInv, AccessInv, TransmitInv, GrantedTransmits, Instant, SameGrants
<1>4. TimerInv'
    <2>1. BackoffsGoOn
        <3> SUFFICES ASSUME NEW u \in Txop, txop'[u].access = "REQUESTED"
                     PROVE  /\ txop[u].access = "REQUESTED"
                            /\ End(txop'[u], GrantStart(last, now), Aifsn[u])
                                    = End(txop[u], GrantStart(last, now), Aifsn[u])
            BY DEF BackoffsGoOn
        <3>1. txop[u].access = "REQUESTED" /\ txop'[u].start = txop[u].start
              /\ txop'[u].slots = txop[u].slots
            BY DEF SameWaits
        <3> QED  BY <3>1, EndSame
    <2>2. GrantStart(last', now') >= GrantStart(last, now)
        <3>1. last \in LastRecord /\ now \in Nat
            BY DEF CInv, IInv, Types, TypesOfGrant, TypesOfTime
        <3>2. GrantStart(last, now) \in Nat
            BY <3>1, GrantStartBounds
        <3> QED  BY <3>2 DEF Instant
    <2>3. \A u \in Txop : Waits(u) => Waits(u)'
        BY <2>1, <2>2, KeepWaits DEF CInv, Instant
    <2>4. \A u \in Txop : T[u].access # "REQUESTED" => Waits(u)'
        BY DEF Waits
    <2>5. ~ sleeping' => \A u \in Txop : waking' = 0 \/ u < waking' => Waits(u)'
        BY <2>3, <2>4 DEF CInv, AccessInv, TimerInv, Instant, SameWaits
    <2>6. accessTimeout' = NoTime \/ now' <= accessTimeout'
        BY DEF CInv, AccessInv, TimerInv, Instant
    <2> QED  BY <2>5, <2>6 DEF TimerInv
<1> QED  BY <1>1, <1>2, <1>3, <1>4 DEF AccessInv

\* Access has been granted and the timer restarted.
LEMMA GrantAndRestart ==
    ASSUME CInv, IInv', NEW T \in [Txop -> TxopRecord], SameGrants(T), Instant,
           DoGrantDcfAccess(T), NEW armed \in {accessTimeout, NoTime},
           DoRestartAccessTimeoutIfNeeded(armed)
    PROVE  TypesOfRest' /\ AccessInv'
<1>1. /\ IInv /\ TypesOfRest /\ MediumInv /\ ExchangeInv /\ TransmitInv
      /\ armed \in Nat \union {NoTime} /\ (armed = NoTime \/ now <= armed)
    BY DEF CInv, AccessInv, TimerInv, TypesOfRest
<1>2. /\ slept \/ \A u \in Txop : T[u].access = "GRANTED" <=> txop[u].access = "GRANTED"
      /\ UNCHANGED <<now, receiving, response, sleeping, slept>> /\ (waking' # 0 => waking # 0)
    BY DEF SameGrants, Instant
<1>3. /\ MediumInv' /\ ExchangeInv' /\ TransmitInv' /\ failed' \in BOOLEAN
      /\ \A u \in Txop : txop'[u].access = "REQUESTED" => now' < GetBackoffEndFor(txop, u)'
    BY <1>1, <1>2, GrantAccess
<1>4. /\ accessTimeout' \in Nat \union {NoTime}
      /\ accessTimeout' = NoTime \/ now' <= accessTimeout'
      /\ \A u \in Txop : txop'[u].access = "REQUESTED" /\ now' < GetBackoffEndFor(txop, u)' =>
             now' <= accessTimeout' /\ accessTimeout' <= GetBackoffEndFor(txop, u)'
    <2>1. armed = NoTime \/ now' <= armed
        BY <1>1, <1>2
    <2> QED  BY <1>1, <2>1, RestartEffect
<1>5. TimerInv'
    BY <1>3, <1>4 DEF TimerInv, Waits
<1>6. TypesOfRest'
    BY <1>1, <1>3, <1>4 DEF TypesOfRest, Instant
<1> QED  BY <1>3, <1>5, <1>6 DEF AccessInv

LEMMA RequestContends ==
    ASSUME CInv, IInv', NEW T \in [Txop -> TxopRecord], NEW t \in Txop,
           T[t].access # "GRANTED", RequestAccess(T, t), SameGrants(T), ~ sleeping, Instant
    PROVE  TypesOfRest' /\ AccessInv'
<1>1. Types /\ ~ sleeping'
    BY DEF CInv, IInv, Instant
<1>2. PICK R \in [Txop -> TxopRecord] :
         /\ DoGrantDcfAccess(R) /\ DoRestartAccessTimeoutIfNeeded(accessTimeout)
         /\ R[t].access = "REQUESTED" /\ \A u \in Txop : u # t => R[u].access = T[u].access
    BY <1>1, RequestGrants
<1>3. \A u \in Txop : R[u].access = "GRANTED" <=> T[u].access = "GRANTED"
    BY <1>2
<1>4. SameGrants(R)
    BY <1>3 DEF SameGrants
<1> QED  BY <1>2, <1>4, GrantAndRestart

LEMMA StartContends ==
    ASSUME CInv, IInv', NEW T \in [Txop -> TxopRecord], NEW t \in Txop, NEW had \in BOOLEAN,
           NEW check \in BOOLEAN, StartAccess(T, t, had, check), SameGrants(T), SameWaits(T), Instant
    PROVE  TypesOfRest' /\ AccessInv'
<1>1. CASE T[t].access # "NOT_REQUESTED" \/ queue[t] = 0 \/ sleeping'
    <2>1. txop' = T /\ UNCHANGED <<last, queue, accessTimeout, exchange, failed>>
        BY <1>1 DEF StartAccess
    <2> QED  BY <2>1, NoRequest
<1>2. CASE ~ (T[t].access # "NOT_REQUESTED" \/ queue[t] = 0 \/ sleeping')
    <2>1. Types /\ ~ sleeping
        BY <1>2 DEF CInv, IInv, Instant
    <2>2. PICK V \in [Txop -> TxopRecord] : Same(T, V) /\ RequestAccess(V, t)
        BY <1>2, <2>1, StartRequests
    <2>3. V[t].access # "GRANTED" /\ SameGrants(V)
        BY <1>2, <2>2 DEF Same, SameGrants
    <2> QED  BY <2>1, <2>2, <2>3, RequestContends
<1> QED  BY <1>1, <1>2

\* Whoever asks for access, when its frame comes, when it has been told to or
\* when the timer expires.
LEMMA AccessContends ==
    ASSUME CInv, IInv', waking' = waking,
           \/ AccessTimeout
           \/ \E t \in Txop : StartAccessAfterEvent(t) \/ AccessAgain(t)
    PROVE  TypesOfRest' /\ AccessInv'
<1>1. Types /\ txop \in [Txop -> TxopRecord]
    BY DEF CInv, IInv, Types, TypesOfGrant
<1>2. SameGrants(txop) /\ SameWaits(txop)
    BY DEF SameGrants, SameWaits
<1>3. CASE AccessTimeout
    <2>1. /\ DoGrantDcfAccess(UpdateBackoff(txop)) /\ DoRestartAccessTimeoutIfNeeded(NoTime)
          /\ Instant
        BY <1>3 DEF AccessTimeout, Instant, phy, bounds
    <2>2. Same(txop, UpdateBackoff(txop))
        BY <1>1, UpdateBackoffKeeps
    <2>3. UpdateBackoff(txop) \in [Txop -> TxopRecord] /\ SameGrants(UpdateBackoff(txop))
        BY <2>2 DEF Same, SameGrants
    <2>4. NoTime \in {accessTimeout, NoTime}
        OBVIOUS
    <2> QED  BY <2>1, <2>3, <2>4, GrantAndRestart
<1>4. ASSUME NEW t \in Txop, StartAccessAfterEvent(t) PROVE TypesOfRest' /\ AccessInv'
    <2> DEFINE had == event[t] = "had"
    <2>1. had \in BOOLEAN /\ TRUE \in BOOLEAN /\ StartAccess(txop, t, had, TRUE)
        BY <1>4 DEF StartAccessAfterEvent
    <2>2. Instant
        BY <1>4 DEF StartAccessAfterEvent, Instant, phy, bounds
    <2> HIDE DEF had
    <2> QED  BY <1>1, <1>2, <2>1, <2>2, StartContends
<1>5. ASSUME NEW t \in Txop, AccessAgain(t) PROVE TypesOfRest' /\ AccessInv'
    <2> DEFINE G == [txop[t] EXCEPT !.again = FALSE]
               T == [txop EXCEPT ![t].again = FALSE]
    <2>1. T = [txop EXCEPT ![t] = G] /\ G \in TxopRecord /\ G.access = txop[t].access
          /\ G.start = txop[t].start /\ G.slots = txop[t].slots
        BY <1>1 DEF TxopRecord
    <2>2. \/ T[t].access = "NOT_REQUESTED" /\ RequestAccess(T, t)
          \/ txop' = T /\ UNCHANGED <<last, queue, accessTimeout, exchange, failed>>
        BY <1>5 DEF AccessAgain
    <2>3. Instant
        BY <1>5 DEF AccessAgain, Instant, phy, bounds
    <2> HIDE DEF G
    <2>4. /\ T \in [Txop -> TxopRecord]
          /\ \A u \in Txop : /\ T[u].access = txop[u].access /\ T[u].start = txop[u].start
                             /\ T[u].slots = txop[u].slots
        BY <1>1, <2>1
    <2> HIDE DEF T
    <2>5. SameGrants(T) /\ SameWaits(T)
        BY <2>4 DEF SameGrants, SameWaits
    <2>6. CASE txop' = T /\ UNCHANGED <<last, queue, accessTimeout, exchange, failed>>
        BY <2>3, <2>5, <2>6, NoRequest
    <2>7. CASE T[t].access = "NOT_REQUESTED" /\ RequestAccess(T, t)
        <3>1. CASE sleeping
            <4>1. txop' = T /\ UNCHANGED <<last, queue, accessTimeout, exchange, failed>>
                BY <2>3, <2>7, <3>1 DEF RequestAccess, Instant
            <4> QED  BY <2>6, <4>1
        <3>2. CASE ~ sleeping
            BY <2>3, <2>4, <2>5, <2>7, <3>2, RequestContends
        <3> QED  BY <3>1, <3>2
    <2> QED  BY <2>2, <2>6, <2>7
<1> QED  BY <1>3, <1>4, <1>5

\* NotifyWakeupNow comes to a Txop.
LEMMA WakeUpContends ==
    ASSUME CInv, IInv', WakeUp
    PROVE  TypesOfRest' /\ AccessInv'
<1> DEFINE w == waking
           T == ResetBackoff(txop, w)
<1>1. /\ w \in Txop /\ waking' = (IF w = NTxop THEN 0 ELSE w + 1)
      /\ StartAccess(T, w, FALSE, FALSE) /\ Instant /\ slept
    BY DEF CInv, IInv, WakingIsAwake, AccessInv, TransmitInv, WakeUp, Instant, bounds
<1>2. Types
    BY DEF CInv, IInv
<1> HIDE DEF w
<1>3. /\ T \in [Txop -> TxopRecord] /\ T[w].access = "NOT_REQUESTED"
      /\ \A u \in Txop : u # w => T[u] = txop[u]
    BY <1>1, <1>2, ResetKeeps
<1> HIDE DEF T
<1>4. SameGrants(T)
    BY <1>1 DEF SameGrants
<1>5. SameWaits(T)
    <2>1. ASSUME NEW u \in Txop, T[u].access = "REQUESTED"
          PROVE  txop[u].access = "REQUESTED" /\ T[u].start = txop[u].start /\ T[u].slots = txop[u].slots
        BY <1>3, <2>1
    <2>2. ASSUME NEW u \in Txop, waking' = 0 \/ u < waking'
          PROVE  waking = 0 \/ u < waking \/ T[u].access # "REQUESTED"
        <3>1. u < w \/ u = w
            BY <1>1, <2>2, AccessAssumption DEF Txop
        <3> QED  BY <1>3, <3>1 DEF w
    <2> QED  BY <2>1, <2>2 DEF SameWaits
<1> QED  BY <1>1, <1>3, <1>4, <1>5, StartContends

LEMMA InputBound == ASSUME TypesOfRest, Input \/ UNCHANGED inputs PROVE inputs' \in 0 .. MaxInputs
BY AccessAssumption DEF TypesOfRest, Input

\* The steps that change neither what is known of the medium nor the exchange.
LEMMA QueueContends ==
    ASSUME CInv, IInv', waking' = waking, NEW t \in Txop, Queue(t) \/ Expire(t)
    PROVE  TypesOfRest' /\ AccessInv'
<1>1. /\ UNCHANGED <<now, last, txop, accessTimeout, exchange, failed, receiving, response, sleeping,
                      slept, cutShort>>
    BY DEF Queue, Expire, phy, bounds
<1>2. inputs' \in 0 .. MaxInputs
    BY InputBound DEF CInv, Queue, Expire, bounds
<1>3. TypesOfRest'
    BY <1>1, <1>2 DEF CInv, TypesOfRest
<1>4. MediumInv' /\ ExchangeInv' /\ TransmitInv'
    BY <1>1 DEF CInv, AccessInv, MediumInv, ExchangeInv, UntilWhen, TransmitInv, GrantedTransmits
<1>5. TimerInv'
    <2>1. \A u \in Txop : Waits(u) => Waits(u)'
        BY <1>1, EndIs DEF Waits
    <2> QED  BY <1>1, <2>1 DEF CInv, AccessInv, TimerInv
<1> QED  BY <1>3, <1>4, <1>5 DEF AccessInv

LEMMA SleepContends ==
    ASSUME CInv, IInv', waking = 0, (waking' = 0 /\ NotifySleep) \/ NotifyWakeup
    PROVE  TypesOfRest' /\ AccessInv'
<1>1. UNCHANGED <<now, last, txop, exchange, failed, receiving, response, cutShort>>
    BY DEF NotifySleep, NotifyWakeup, contention
<1>a. inputs' \in 0 .. MaxInputs
    BY InputBound DEF CInv, NotifySleep, NotifyWakeup, bounds
<1>b. slept' \in BOOLEAN /\ accessTimeout' \in {accessTimeout, NoTime}
    BY DEF CInv, TypesOfRest, NotifySleep, NotifyWakeup, bounds, contention
<1>2. TypesOfRest'
    BY <1>1, <1>a, <1>b DEF CInv, TypesOfRest
<1>3. MediumInv' /\ ExchangeInv'
    BY <1>1 DEF CInv, AccessInv, MediumInv, ExchangeInv, UntilWhen
<1>4. slept'
    BY DEF CInv, AccessInv, TransmitInv, NotifySleep, NotifyWakeup, bounds
<1>5. TransmitInv'
    BY <1>1, <1>4 DEF CInv, AccessInv, TransmitInv, GrantedTransmits
<1>6. TimerInv'
    <2>1. CASE waking' = 0 /\ NotifySleep
        BY <2>1 DEF NotifySleep, TimerInv
    <2>2. CASE NotifyWakeup
        <3>1. waking' = 1 /\ UNCHANGED <<now, accessTimeout>>
            BY <2>2 DEF NotifyWakeup, contention
        <3>2. \A u \in Txop : ~ (u < 1)
            BY DEF Txop
        <3> QED  BY <3>1, <3>2 DEF CInv, AccessInv, TimerInv
    <2> QED  BY <2>1, <2>2
<1> QED  BY <1>2, <1>3, <1>5, <1>6 DEF AccessInv

\* The end of an exchange.
LEMMA EndContends ==
    ASSUME CInv, IInv', waking = 0, waking' = 0, EndsExchange
    PROVE  TypesOfRest' /\ AccessInv'
<1>1. /\ Types /\ now \in Nat /\ last \in LastRecord /\ last' \in LastRecord
      /\ IInv /\ TypesOfRest /\ TimerInv
    BY TimeNat DEF CInv, AccessInv, IInv, Types, TypesOfGrant
<1>2. /\ exchange.txop \in Txop /\ exchange' = Idle
      /\ txop'[exchange.txop].access = "NOT_REQUESTED"
      /\ \A u \in Txop : u # exchange.txop => txop'[u] = txop[u]
    BY <1>1, EndEffect
<1>3. /\ UNCHANGED <<now, failed, response, sleeping, slept, inputs, cutShort>>
      /\ receiving' = receiving \/ receiving' = FALSE
      /\ \/ UNCHANGED <<last, accessTimeout>>
         \/ /\ last.rx = now /\ last' = [last EXCEPT !.ok = TRUE, !.ack = now] /\ ~ receiving'
            /\ DoRestartAccessTimeoutIfNeeded(accessTimeout)
    <2>1. CASE TransmissionSucceeded
        BY <2>1 DEF TransmissionSucceeded, phy, bounds
    <2>2. CASE NormalAckTimeout
        BY <2>2 DEF NormalAckTimeout, phy, bounds
    <2>3. CASE ReceivedNormalAck
        BY <2>3 DEF ReceivedNormalAck, bounds
    <2> QED  BY <2>1, <2>2, <2>3 DEF EndsExchange
<1>4. MediumInv'
    <2>1. CASE UNCHANGED last
        <3>1. UNCHANGED <<now, response, last>>
            BY <1>3, <2>1
        <3>2. receiving' => receiving
            BY <1>3, Zenon
        <3> QED  BY <3>1, <3>2 DEF CInv, AccessInv, MediumInv
    <2>2. CASE ~ receiving' /\ last' = [last EXCEPT !.ok = TRUE, !.ack = now]
        <3>1. last'.ok = TRUE /\ last'.rx = last.rx /\ last'.tx = last.tx
              /\ last'.rxStart = last.rxStart
            BY <1>1, <2>2 DEF LastRecord
        <3> QED  BY <1>3, <2>2, <3>1 DEF CInv, AccessInv, MediumInv
    <2> QED  BY <1>3, <2>1, <2>2
<1>5. ExchangeInv'
    BY <1>2 DEF ExchangeInv, Idle
<1>6. TransmitInv'
    <2>1. ASSUME NEW u \in Txop, ~ slept PROVE txop'[u].access = "GRANTED" <=> exchange'.txop = u
        <3>1. exchange'.txop # u
            BY <1>2 DEF Idle, Txop
        <3>2. txop'[u].access # "GRANTED"
            BY <1>2, <2>1 DEF CInv, AccessInv, TransmitInv, GrantedTransmits
        <3> QED  BY <3>1, <3>2
    <2> QED  BY <1>3, <2>1 DEF CInv, AccessInv, TransmitInv, GrantedTransmits
<1>7. CASE UNCHANGED <<last, accessTimeout>>
    <2>1. TypesOfRest'
        BY <1>1, <1>3, <1>7 DEF TypesOfRest
    <2>2. BackoffsGoOn
        BY <1>2 DEF BackoffsGoOn
    <2>3. GrantStart(last', now') >= GrantStart(last, now)
        BY <1>1, <1>3, <1>7, GrantStartBounds
    <2>4. TimerInv'
        BY <1>1, <1>3, <1>7, <2>2, <2>3, TimerGoesOn
    <2> QED  BY <1>4, <1>5, <1>6, <2>1, <2>4 DEF AccessInv
<1>8. CASE /\ last.rx = now /\ last' = [last EXCEPT !.ok = TRUE, !.ack = now]
           /\ DoRestartAccessTimeoutIfNeeded(accessTimeout)
    <2>1. last'.rx = now
        BY <1>1, <1>8 DEF LastRecord
    <2>2. TimerInv' /\ accessTimeout' \in Nat \union {NoTime}
        BY <1>1, <1>3, <1>8, <2>1, RestartLater
    <2>3. TypesOfRest'
        BY <1>1, <1>3, <2>2 DEF TypesOfRest
    <2> QED  BY <1>4, <1>5, <1>6, <2>2, <2>3 DEF AccessInv
<1> QED  BY <1>3, <1>7, <1>8

\* Time passes.
LEMMA TickContends ==
    ASSUME CInv, IInv', waking' = waking, Tick
    PROVE  TypesOfRest' /\ AccessInv'
<1>1. /\ UNCHANGED <<last, queue, accessTimeout, exchange, failed, receiving, response, sleeping,
                      inputs, slept, cutShort>>
      /\ now' = now + 1 /\ now < MaxTime /\ accessTimeout # now /\ exchange.until # now
      /\ response # now /\ ~ (receiving /\ last.rx = now)
    BY DEF Tick, phy, bounds
<1>2. /\ IInv /\ TypesOfRest /\ MediumInv /\ ExchangeInv /\ TimerInv /\ now \in Nat
      /\ last \in LastRecord /\ txop \in [Txop -> TxopRecord]
      /\ last.rx \in Nat /\ last.tx \in Nat
      /\ exchange.until \in Nat \union {NoTime} /\ response \in Nat \union {NoTime}
    BY TimeNat, LastNumbers DEF CInv, AccessInv, IInv, Types, TypesOfGrant, Exchange, TypesOfRest
<1>3. ASSUME NEW u \in Txop
      PROVE  /\ txop'[u].access = txop[u].access /\ txop'[u].start = txop[u].start
             /\ txop'[u].slots = txop[u].slots
    <2> DEFINE c == txop[u].counter - 1
    <2>1. txop'[u] = txop[u] \/ txop'[u] = [txop[u] EXCEPT !.counter = c]
        BY DEF Tick
    <2>2. txop[u] \in TxopRecord
        BY <1>2
    <2> HIDE DEF c
    <2> QED  BY <2>1, <2>2 DEF TxopRecord
<1>4. TypesOfRest'
    <2>1. MaxTime \in Nat
        BY AccessAssumption
    <2>2. now' <= MaxTime
        BY <1>1, <1>2, <2>1
    <2> QED  BY <1>1, <1>2, <2>2 DEF TypesOfRest
<1>5. MediumInv'
    BY <1>1, <1>2 DEF MediumInv, NoTime
<1>6. ExchangeInv'
    <2>1. exchange.txop # 0 => now' <= exchange.until
        BY <1>1, <1>2 DEF ExchangeInv, UntilWhen, NoTime
    <2>2. UNCHANGED <<last, exchange, receiving, response>>
        BY <1>1
    <2> QED  BY <1>2, <2>1, <2>2 DEF ExchangeInv, UntilWhen
<1>7. TransmitInv'
    BY <1>1, <1>3 DEF CInv, AccessInv, TransmitInv, GrantedTransmits
<1>8. TimerInv'
    <2>1. BackoffsGoOn
        BY <1>3, EndSame DEF BackoffsGoOn
    <2>2. RxStart(last', now') = RxStart(last, now)
        BY <1>1, <1>2 DEF RxStart, MediumInv
    <2>3. GrantStart(last', now') = GrantStart(last, now)
        BY <1>1, <2>2 DEF GrantStart
    <2>4. GrantStart(last', now') >= GrantStart(last, now)
        BY <1>2, <2>3, GrantStartBounds
    <2> QED  BY <1>1, <1>2, <2>1, <2>4, TimerGoesOn
<1> QED  BY <1>4, <1>5, <1>6, <1>7, <1>8 DEF AccessInv

\* The slots are counted from a later time, the later the medium is busy.
LEMMA GrantStartLater ==
    ASSUME NEW l \in LastRecord, NEW m \in LastRecord, NEW n \in Nat,
           RxStart(m, n) >= RxStart(l, n), m.busy >= l.busy, m.tx >= l.tx, m.nav >= l.nav,
           m.ack >= l.ack
    PROVE  GrantStart(m, n) >= GrantStart(l, n)
<1>1. /\ l.busy \in Nat /\ l.tx \in Nat /\ l.nav \in Nat /\ l.ack \in Nat
      /\ m.busy \in Nat /\ m.tx \in Nat /\ m.nav \in Nat /\ m.ack \in Nat
      /\ RxStart(l, n) \in Nat /\ RxStart(m, n) \in Nat
    BY GrantStartBounds DEF LastRecord
<1> QED  BY <1>1, Constants DEF GrantStart, Later

\* Who contends and who transmits is not affected by what the PHY reports.
LEMMA SameTransmit ==
    ASSUME TransmitInv, UNCHANGED <<failed, slept, sleeping, waking>>, exchange'.txop = exchange.txop,
           \A u \in Txop : txop'[u].access = txop[u].access
    PROVE  TransmitInv'
BY DEF TransmitInv, GrantedTransmits

\* What the proofs about the PHY need of the state.
LEMMA Facts ==
    ASSUME CInv
    PROVE  /\ IInv /\ Types /\ TypesOfRest /\ MediumInv /\ ExchangeInv /\ TransmitInv /\ TimerInv
           /\ now \in Nat /\ last \in LastRecord /\ txop \in [Txop -> TxopRecord]
           /\ last.rxStart \in Nat /\ last.rx \in Nat /\ last.tx \in Nat /\ last.nav \in Nat
           /\ last.busy \in Nat /\ last.ack \in Nat
           /\ exchange.until \in Nat \union {NoTime} /\ response \in Nat \union {NoTime}
           /\ accessTimeout \in Nat \union {NoTime}
           /\ exchange \in Exchange /\ exchange.acked \in BOOLEAN
           /\ (exchange.acked => exchange.txop # 0)
           /\ Same(txop, UpdateBackoff(txop))
<1>1. /\ IInv /\ Types /\ TypesOfRest /\ MediumInv /\ ExchangeInv /\ TransmitInv /\ TimerInv
    BY DEF CInv, AccessInv, IInv
<1>2. /\ now \in Nat /\ last \in LastRecord /\ txop \in [Txop -> TxopRecord]
      /\ exchange \in Exchange /\ (exchange.acked => exchange.txop # 0)
    BY <1>1, TimeNat DEF Types, TypesOfGrant
<1>3. /\ response \in Nat \union {NoTime} /\ accessTimeout \in Nat \union {NoTime}
    BY <1>1 DEF TypesOfRest
<1>4. exchange.until \in Nat \union {NoTime} /\ exchange.acked \in BOOLEAN
    BY <1>2 DEF Exchange
<1>5. Same(txop, UpdateBackoff(txop))
    BY <1>1, <1>2, UpdateBackoffKeeps
<1> QED  BY <1>1, <1>2, <1>3, <1>4, <1>5, LastNumbers

\* cutShort tells when the slots are counted from an earlier time than before.
LEMMA CutOrLater ==
    ASSUME CInv, IInv', now' = now,
           cutShort' = (cutShort \/ GrantStart(last', now') < GrantStart(last, now))
    PROVE  (cutShort => cutShort') /\ (cutShort' \/ GrantStart(last', now') >= GrantStart(last, now))
<1>1. last \in LastRecord /\ last' \in LastRecord /\ now \in Nat /\ now' \in Nat
    BY DEF CInv, IInv, Types, TypesOfGrant, TypesOfTime
<1>2. GrantStart(last, now) \in Nat /\ GrantStart(last', now') \in Nat
    BY <1>1, GrantStartBounds
<1>3. GrantStart(last', now') < GrantStart(last, now) \/ GrantStart(last', now') >= GrantStart(last, now)
    BY <1>2
<1> QED  BY <1>3, Zenon

LEMMA RxStartContends ==
    ASSUME CInv, IInv', waking' = waking, NEW d \in RxTime, NotifyRxStart(d)
    PROVE  TypesOfRest' /\ AccessInv'
<1>1. /\ ~ receiving /\ last.rx + PhyHeader <= now /\ last.tx + PhyHeader <= now
      /\ UNCHANGED <<now, queue, failed, response, sleeping, slept>> /\ Input /\ receiving' = TRUE
      /\ txop' = UpdateBackoff(txop)
    BY DEF NotifyRxStart, HeaderReceived
<1>2. /\ last'.rxStart = now /\ last'.rx = now + d /\ last'.ok = TRUE /\ last'.tx = last.tx
      /\ d \in Nat /\ now + d >= now
    <2>1. d \in Nat
        BY AccessAssumption
    <2>2. last \in LastRecord /\ now \in Nat
        BY Facts
    <2>3. last' = [last EXCEPT !.rxStart = now, !.rx = now + d, !.ok = TRUE,
                               !.ack = IF exchange.acked THEN now ELSE @]
        BY DEF NotifyRxStart
    <2> QED  BY <2>1, <2>2, <2>3 DEF LastRecord
<1>3. MediumInv'
    <2>1. ASSUME response # NoTime
          PROVE  now <= response /\ response <= now + d + SIFS /\ last.tx <= now /\ response - SIFS <= now
        BY <1>1, <1>2, <2>1, Facts, Constants DEF MediumInv
    <2>2. last.tx <= now
        BY <1>1, Facts, Constants
    <2> QED  BY <1>1, <1>2, <2>1, <2>2 DEF MediumInv
<1>4. CASE exchange.acked
    <2>1. exchange' = [exchange EXCEPT !.until = now + d + Safeguard]
          /\ DoRestartAccessTimeoutIfNeeded(accessTimeout)
        BY <1>4 DEF NotifyRxStart
    <2>2. exchange'.until = now + d + Safeguard /\ exchange'.acked /\ exchange'.txop = exchange.txop
        BY <1>4, <2>1, Facts DEF Exchange
    <2>3. response = NoTime
        <3> SUFFICES ASSUME response # NoTime PROVE FALSE
            OBVIOUS
        <3>1. now <= exchange.until /\ exchange.until <= response - SIFS + Safeguard
              /\ response <= last.rx + SIFS
            BY <1>4, Facts DEF ExchangeInv, UntilWhen, MediumInv
        <3>2. response \in Nat /\ exchange.until \in Nat /\ now \in Nat /\ last.rx \in Nat
            BY <3>1, Facts DEF NoTime
        <3> QED  BY <1>1, <3>1, <3>2, Constants
    <2>4. ExchangeInv'
        BY <1>1, <1>2, <2>2, <2>3, Facts, Constants DEF ExchangeInv, UntilWhen
    <2>5. TransmitInv'
        BY <1>1, <2>2, Facts, SameTransmit DEF Same
    <2>6. TimerInv' /\ accessTimeout' \in Nat \union {NoTime}
        BY <1>1, <1>2, <2>1, Facts, RestartLater
    <2>7. TypesOfRest'
        <3>1. cutShort' \in BOOLEAN
            BY Facts DEF TypesOfRest, NotifyRxStart
        <3>2. inputs' \in 0 .. MaxInputs
            BY <1>1, Facts, InputBound
        <3> QED  BY <1>1, <2>6, <3>1, <3>2, Facts DEF TypesOfRest
    <2> QED  BY <1>3, <2>4, <2>5, <2>6, <2>7 DEF AccessInv
<1>5. CASE ~ exchange.acked
    <2>1. UNCHANGED <<exchange, accessTimeout>>
        BY <1>5 DEF NotifyRxStart
    <2>2. ExchangeInv'
        BY <1>1, <1>2, <1>5, <2>1, Facts DEF ExchangeInv, UntilWhen
    <2>3. TransmitInv'
        BY <1>1, <2>1, Facts, SameTransmit DEF Same
    <2>4. cutShort' = (cutShort \/ GrantStart(last', now') < GrantStart(last, now))
        BY GrantStartIs DEF NotifyRxStart
    <2>5. TimerInv'
        BY <1>1, <2>1, <2>4, CutOrLater, CountingGoesOn, Facts, TimerGoesOn
    <2>6. TypesOfRest'
        <3>1. cutShort' \in BOOLEAN
            BY Facts DEF TypesOfRest, NotifyRxStart
        <3>2. inputs' \in 0 .. MaxInputs
            BY <1>1, Facts, InputBound
        <3> QED  BY <1>1, <2>1, <3>1, <3>2, Facts DEF TypesOfRest
    <2> QED  BY <1>3, <2>2, <2>3, <2>5, <2>6 DEF AccessInv
<1> QED  BY <1>4, <1>5

LEMMA CcaBusyContends ==
    ASSUME CInv, IInv', waking' = waking, NEW d \in CcaTime, NotifyCcaBusyStart(d)
    PROVE  TypesOfRest' /\ AccessInv'
<1>1. /\ UNCHANGED <<now, queue, accessTimeout, exchange, failed, receiving, response, sleeping, slept>>
      /\ Input /\ txop' = UpdateBackoff(txop) /\ last' = [last EXCEPT !.busy = now + d]
      /\ cutShort' = (cutShort \/ GrantStart(last', now') < GrantStart(last, now))
    BY GrantStartIs DEF NotifyCcaBusyStart, phy
<1>2. /\ last'.rxStart = last.rxStart /\ last'.rx = last.rx /\ last'.ok = last.ok
      /\ last'.tx = last.tx /\ last'.ack = last.ack
    BY <1>1, Facts DEF LastRecord
<1>3. MediumInv' /\ ExchangeInv'
    BY <1>1, <1>2, Facts DEF MediumInv, ExchangeInv, UntilWhen
<1>4. TransmitInv'
    BY <1>1, Facts, SameTransmit DEF Same
<1>5. TimerInv'
    BY <1>1, CutOrLater, CountingGoesOn, Facts, TimerGoesOn
<1>6. TypesOfRest'
    <2>1. cutShort' \in BOOLEAN
        BY Facts DEF TypesOfRest, NotifyCcaBusyStart
    <2>2. inputs' \in 0 .. MaxInputs
        BY <1>1, Facts, InputBound
    <2> QED  BY <1>1, <2>1, <2>2, Facts DEF TypesOfRest
<1> QED  BY <1>3, <1>4, <1>5, <1>6 DEF AccessInv

\* A reception ends: it has failed, or what is received is for this station, to
\* be acknowledged, or sets the NAV.
LEMMA RxEndContends ==
    ASSUME CInv, IInv', waking' = waking,
           \/ NotifyRxEndError \/ ReceivedFrame
           \/ \E d \in NavTime : UpdateNav(d)
    PROVE  TypesOfRest' /\ AccessInv'
<1>1. /\ receiving /\ last.rx = now /\ receiving' = FALSE
      /\ UNCHANGED <<now, queue, exchange, failed, sleeping, slept, inputs, cutShort>>
      /\ txop' = txop \/ txop' = UpdateBackoff(txop)
      /\ last.tx <= now /\ last.ok
      /\ response' = response \/ (response = NoTime /\ response' = now + SIFS)
    BY Facts DEF NotifyRxEndError, ReceivedFrame, UpdateNav, contention, bounds, MediumInv
<1>2. /\ last'.rxStart = last.rxStart /\ last'.rx = last.rx /\ last'.tx = last.tx
      /\ last'.busy = last.busy /\ last'.ack = last.ack
    BY Facts DEF NotifyRxEndError, ReceivedFrame, UpdateNav, LastRecord
<1>3. MediumInv'
    <2>1. response' # NoTime => /\ now <= response' /\ response' <= last.rx + SIFS
        BY <1>1, Facts, Constants DEF MediumInv
    <2> QED  BY <1>1, <1>2, <2>1, Facts DEF MediumInv
<1>4. ExchangeInv'
    <2> SUFFICES ASSUME exchange.txop # 0 PROVE UntilWhen'
        BY <1>1 DEF ExchangeInv
    <2>1. UntilWhen /\ exchange.until \in Nat
        BY Facts DEF ExchangeInv, UntilWhen, NoTime
    <2>2. exchange.until <= now + Safeguard
        BY <1>1, <2>1, Facts, Constants DEF UntilWhen
    <2>3. response' # NoTime => exchange.until <= response' - SIFS + Safeguard
        BY <1>1, <2>1, <2>2, Facts, Constants DEF UntilWhen
    <2> QED  BY <1>1, <1>2, <2>1, <2>3, Facts DEF UntilWhen
<1>5. TransmitInv'
    BY <1>1, Facts, SameTransmit DEF Same
<1>6. BackoffsGoOn
    <2>1. CASE txop' = txop
        BY <2>1 DEF BackoffsGoOn
    <2>2. CASE txop' = UpdateBackoff(txop)
        BY <2>2, Facts, CountingGoesOn
    <2> QED  BY <1>1, <2>1, <2>2
<1>7. TimerInv' /\ accessTimeout' \in Nat \union {NoTime}
    <2>1. CASE DoRestartAccessTimeoutIfNeeded(accessTimeout)
        BY <1>1, <1>2, <2>1, Facts, RestartLater
    <2>2. CASE UNCHANGED accessTimeout /\ last'.nav >= last.nav
        <3>1. last' \in LastRecord
            BY DEF IInv, Types, TypesOfGrant
        <3>2. RxStart(last', now) >= RxStart(last, now)
            BY <1>1, <1>2, Facts, Constants DEF RxStart
        <3>3. GrantStart(last', now) >= GrantStart(last, now)
            BY <1>2, <2>2, <3>1, <3>2, Facts, GrantStartLater
        <3>4. GrantStart(last', now') >= GrantStart(last, now)
            BY <1>1, <3>3
        <3> QED  BY <1>1, <1>6, <2>2, <3>4, Facts, TimerGoesOn
    <2>3. \/ DoRestartAccessTimeoutIfNeeded(accessTimeout)
          \/ UNCHANGED accessTimeout /\ last'.nav >= last.nav
        <3>1. CASE NotifyRxEndError \/ ReceivedFrame
            BY <3>1, Facts DEF NotifyRxEndError, ReceivedFrame, contention, LastRecord
        <3>2. ASSUME NEW d \in NavTime, UpdateNav(d)
              PROVE  \/ DoRestartAccessTimeoutIfNeeded(accessTimeout)
                     \/ UNCHANGED accessTimeout /\ last'.nav >= last.nav
            <4>1. now + d \in Nat
                BY Facts, AccessAssumption
            <4>2. Later(last.nav, now + d) >= last.nav
                BY <4>1, Facts, LaterNat
            <4>3. CASE last' = [last EXCEPT !.ok = TRUE, !.nav = Later(@, now + d)]
                       /\ UNCHANGED accessTimeout
                BY <4>2, <4>3, Facts DEF LastRecord
            <4> QED  BY <3>2, <4>3 DEF UpdateNav
        <3> QED  BY <3>1, <3>2
    <2> QED  BY <2>1, <2>2, <2>3, Facts
<1>8. TypesOfRest'
    <2>1. response' \in Nat \union {NoTime}
        BY <1>1, Facts, Constants
    <2> QED  BY <1>1, <1>7, <2>1, Facts DEF TypesOfRest
<1> QED  BY <1>3, <1>4, <1>5, <1>7, <1>8 DEF AccessInv

\* The acknowledgment is sent: there is no exchange any more.
LEMMA SendAckContends ==
    ASSUME CInv, IInv', waking' = waking, SendNormalAck
    PROVE  TypesOfRest' /\ AccessInv'
<1>1. /\ response = now /\ response' = NoTime
      /\ UNCHANGED <<now, queue, accessTimeout, exchange, sleeping, inputs, slept>>
    BY DEF SendNormalAck, bounds
<1>2. exchange.txop = 0
    <2> SUFFICES ASSUME exchange.txop # 0 PROVE FALSE
        OBVIOUS
    <2>1. now <= exchange.until /\ exchange.until <= response - SIFS + Safeguard
        BY <1>1, Facts DEF ExchangeInv, UntilWhen, NoTime
    <2>2. exchange.until \in Nat
        BY <2>1, Facts DEF NoTime
    <2> QED  BY <1>1, <2>1, <2>2, Facts, Constants
<1>3. ExchangeInv'
    BY <1>1, <1>2 DEF ExchangeInv
<1>4. CASE sleeping
    <2>1. UNCHANGED <<last, txop, receiving, failed, cutShort>>
        BY <1>4 DEF SendNormalAck
    <2>2. MediumInv'
        BY <1>1, <2>1, Facts DEF MediumInv
    <2>3. TransmitInv'
        BY <1>1, <2>1, Facts, SameTransmit
    <2>4. TimerInv'
        BY <1>1, <1>4, <2>1, Facts DEF TimerInv
    <2>5. TypesOfRest'
        BY <1>1, <2>1, Facts DEF TypesOfRest
    <2> QED  BY <1>3, <2>2, <2>3, <2>4, <2>5 DEF AccessInv
<1>5. CASE ~ sleeping
    <2>1. /\ failed' = (failed \/ (last.rx > now /\ now - last.rxStart > SIFS))
          /\ receiving' = FALSE /\ txop' = UpdateBackoff(txop)
          /\ cutShort' = (cutShort \/ GrantStart(last', now') < GrantStart(last, now))
        BY <1>5, GrantStartIs DEF SendNormalAck
    <2>2. last'.ok = TRUE
        <3> DEFINE cut == [last EXCEPT !.ok = TRUE, !.rx = Fewer(@, now)]
        <3>1. last' = [cut EXCEPT !.tx = now + AckTx]
            BY <1>5 DEF SendNormalAck
        <3>2. cut \in LastRecord /\ cut.ok = TRUE
            <4>1. Fewer(last.rx, now) \in Nat
                BY Facts, FewerNat
            <4> QED  BY <4>1, Facts DEF LastRecord
        <3> HIDE DEF cut
        <3> QED  BY <3>1, <3>2 DEF LastRecord
    <2>3. MediumInv'
        BY <1>1, <2>1, <2>2 DEF MediumInv
    <2>4. failed' = failed
        <3>1. ~ (last.rx > now /\ now - last.rxStart > SIFS)
            BY <1>1, Facts, Constants DEF MediumInv, NoTime
        <3>2. failed \in BOOLEAN
            BY Facts DEF TypesOfRest
        <3> QED  BY <2>1, <3>1, <3>2, Zenon
    <2>5. TransmitInv'
        BY <1>1, <2>1, <2>4, Facts, SameTransmit DEF Same
    <2>6. TimerInv'
        BY <1>1, <2>1, CutOrLater, CountingGoesOn, Facts, TimerGoesOn
    <2>7. TypesOfRest'
        <3>1. cutShort' \in BOOLEAN
            BY <2>1, Facts DEF TypesOfRest
        <3> QED  BY <1>1, <2>1, <2>4, <3>1, Facts DEF TypesOfRest
    <2> QED  BY <1>3, <2>3, <2>5, <2>6, <2>7 DEF AccessInv
<1> QED  BY <1>4, <1>5

LEMMA InitContends == Init => CInv
<1> SUFFICES ASSUME Init PROVE CInv
    OBVIOUS
<1>1. IInv
    BY InitImplies
<1>2. now = 0 /\ MaxTime \in Nat /\ MaxInputs \in Nat
    BY AccessAssumption DEF Init
<1>3. TypesOfRest
    <2>1. accessTimeout = NoTime /\ response = NoTime /\ inputs \in 0 .. MaxInputs /\ now <= MaxTime
        BY <1>2 DEF Init
    <2>2. receiving \in BOOLEAN /\ slept \in BOOLEAN /\ cutShort \in BOOLEAN /\ failed \in BOOLEAN
        BY Zenon DEF Init
    <2> QED  BY <2>1, <2>2, Zenon DEF TypesOfRest
<1>4. MediumInv
    BY DEF Init, MediumInv
<1>5. ExchangeInv
    BY DEF Init, ExchangeInv, Idle
<1>6. \A t \in Txop : txop[t].access = "NOT_REQUESTED"
    BY DEF Init
<1>7. TransmitInv
    BY <1>6 DEF Init, Idle, TransmitInv, GrantedTransmits, Txop
<1>8. TimerInv
    BY <1>6 DEF Init, TimerInv, Waits
<1> QED  BY <1>1, <1>3, <1>4, <1>5, <1>7, <1>8 DEF CInv, AccessInv

\* CInv is inductive.
LEMMA NextContends == CInv /\ [Next]_vars => CInv'
<1> SUFFICES ASSUME CInv, [Next]_vars PROVE CInv'
    OBVIOUS
<1>1. IInv'
    BY NextKeeps DEF CInv
<1>2. CASE UNCHANGED vars
    BY <1>2, <1>1 DEF vars, contention, phy, bounds, CInv, TypesOfRest, AccessInv, MediumInv, ExchangeInv,
                UntilWhen, TransmitInv, GrantedTransmits, TimerInv, Waits, GetBackoffEndFor,
                GetBackoffStartFor, Aifs, GetAccessGrantStart, RxAccessStart
<1>3. CASE WakeUp
    BY <1>1, <1>3, WakeUpContends DEF CInv
<1>4. CASE /\ waking = 0
           /\ \/ Tick \/ AccessTimeout \/ TransmissionSucceeded \/ NormalAckTimeout
              \/ Medium \/ ReceivedNormalAck \/ NotifySleep \/ NotifyWakeup
              \/ \E t \in Txop : Queue(t) \/ Expire(t) \/ StartAccessAfterEvent(t) \/ AccessAgain(t)
    <2>1. CASE NotifySleep \/ NotifyWakeup
        <3>1. NotifySleep => waking' = 0
            BY <1>4 DEF NotifySleep
        <3> QED  BY <1>1, <1>4, <2>1, <3>1, SleepContends DEF CInv
    <2>2. CASE Tick
        BY <1>1, <2>2, TickContends DEF CInv, Tick, phy
    <2>3. CASE AccessTimeout \/ \E t \in Txop : StartAccessAfterEvent(t) \/ AccessAgain(t)
        <3>1. waking' = waking
            BY <2>3 DEF AccessTimeout, StartAccessAfterEvent, AccessAgain, phy
        <3> QED  BY <1>1, <2>3, <3>1, AccessContends DEF CInv
    <2>4. CASE EndsExchange
        <3>1. waking' = waking
            BY <2>4 DEF EndsExchange, TransmissionSucceeded, NormalAckTimeout, ReceivedNormalAck, phy
        <3> QED  BY <1>1, <1>4, <2>4, <3>1, EndContends DEF CInv
    <2>5. CASE Medium
        <3>1. waking' = waking
            BY <2>5 DEF Medium, NotifyRxStart, NotifyRxEndError, ReceivedFrame, UpdateNav,
                        NotifyCcaBusyStart, SendNormalAck, phy
        <3>2. \/ \E d \in RxTime : NotifyRxStart(d)
              \/ \E d \in CcaTime : NotifyCcaBusyStart(d)
              \/ NotifyRxEndError \/ ReceivedFrame \/ \E d \in NavTime : UpdateNav(d)
              \/ SendNormalAck
            BY <2>5 DEF Medium
        <3> QED  BY <1>1, <3>1, <3>2, RxStartContends, CcaBusyContends, RxEndContends,
                    SendAckContends DEF CInv
    <2>6. ASSUME NEW t \in Txop, Queue(t) \/ Expire(t) PROVE CInv'
        <3>1. waking' = waking
            BY <2>6 DEF Queue, Expire, phy
        <3> QED  BY <1>1, <2>6, <3>1, QueueContends DEF CInv
    <2> QED  BY <1>4, <2>1, <2>2, <2>3, <2>4, <2>5, <2>6 DEF EndsExchange
<1> QED  BY <1>2, <1>3, <1>4 DEF Next

LEMMA ContentionHolds == Spec => []CInv
BY InitContends, NextContends, PTL DEF Spec

\* One Txop at a time transmits, and no assertion fails: the manager grants access
\* to nobody while an exchange lasts, whatever the number of Txops, their
\* parameters and all the durations, provided the safeguard of m_txTimer is
\* shorter than a SIFS and than the header of a frame.
THEOREM OneTransmits == Spec => []GrantedTransmits
<1>1. CInv => GrantedTransmits
    BY DEF CInv, AccessInv, TransmitInv
<1> QED  BY <1>1, ContentionHolds, PTL

\* Whoever contends waits for a timer that expires by the end of its backoff,
\* unless a busy period was shorter than announced.
THEOREM EveryoneWaits == Spec => []WaitersHaveTimeout
<1>1. CInv => WaitersHaveTimeout
    <2> SUFFICES ASSUME CInv, Awake, NEW t \in Txop, txop[t].access = "REQUESTED"
                 PROVE  accessTimeout >= now /\ (cutShort \/ accessTimeout <= GetBackoffEndFor(txop, t))
        BY DEF WaitersHaveTimeout
    <2>1. Waits(t)
        BY DEF CInv, AccessInv, TimerInv, Awake
    <2>2. now <= accessTimeout /\ (cutShort \/ accessTimeout <= GetBackoffEndFor(txop, t))
        BY <2>1 DEF Waits
    <2> QED  BY <2>2, Facts DEF NoTime
<1> QED  BY <1>1, ContentionHolds, PTL

\* The variables stay in their types: no time, queue, backoff or contention window
\* becomes negative or leaves its bounds.
THEOREM TypeCorrect == Spec => []TypeOK
<1>1. CInv => TypeOK
    <2> SUFFICES ASSUME CInv PROVE TypeOK
        OBVIOUS
    <2>1. now \in 0 .. MaxTime
        BY Facts, AccessAssumption DEF TypesOfRest
    <2>2. /\ last \in [rxStart : Nat, rx : Nat, ok : BOOLEAN, tx : Nat, busy : Nat, nav : Nat, ack : Nat]
          /\ txop \in [Txop -> [access : {"NOT_REQUESTED", "REQUESTED", "GRANTED"}, slots : 0 .. CwMax,
                                start : Nat, cw : CwMin .. CwMax, counter : 0 .. CwMax,
                                again : BOOLEAN]]
          /\ exchange \in [txop : Txop \union {0}, until : Nat \union {NoTime}, acked : BOOLEAN]
        BY Facts DEF LastRecord, TxopRecord, Exchange
    <2>3. qos \in BOOLEAN /\ event \in [Txop -> {"none", "had", "had none"}] /\ queue \in [Txop -> Nat]
        BY Facts DEF Types, TypesOfTime, TypesOfGrant
    <2>4. sleeping \in BOOLEAN /\ waking \in Txop \union {0}
        BY Facts DEF IInv, WakingIsAwake
    <2> QED  BY <2>1, <2>2, <2>3, <2>4, Facts DEF TypeOK, TypesOfRest
<1> QED  BY <1>1, ContentionHolds, PTL
-----------------------------------------------------------------------------
(* The slots that are counted.                                             *)
(*                                                                         *)
(* From each time a, what UpdateBackoff counts until m is Counted(a, m, z) *)
(* where z is 1 for an EDCAF, which counts a slot at a.  The invariant is  *)
(* about every later m: the slots a Txop would have left then, if the      *)
(* medium stayed idle, against what the timer would show.                  *)

\* Products and quotients of SLOT.
LEMMA Quotient ==
    ASSUME NEW u \in Nat
    PROVE  /\ u \div SLOT \in Nat /\ (u \div SLOT) * SLOT \in Nat
           /\ (u \div SLOT) * SLOT <= u /\ u < (u \div SLOT) * SLOT + SLOT
           /\ u % SLOT = u - (u \div SLOT) * SLOT
<1>1. SLOT \in Nat /\ SLOT > 0
    BY Constants
<1>2. u = SLOT * (u \div SLOT) + (u % SLOT) /\ u \div SLOT \in Nat /\ u % SLOT \in 0 .. (SLOT - 1)
    BY <1>1
<1> DEFINE q == u \div SLOT
           r == u % SLOT
<1> HIDE DEF q, r
<1>3. q \in Nat /\ r \in 0 .. (SLOT - 1) /\ u = SLOT * q + r
    BY <1>2 DEF q, r
<1>4. SLOT * q = q * SLOT /\ q * SLOT \in Nat
    BY <1>1, <1>3
<1>5. q * SLOT <= u /\ u < q * SLOT + SLOT /\ r = u - q * SLOT
    BY <1>1, <1>3, <1>4
<1> QED  BY <1>3, <1>4, <1>5 DEF q, r

LEMMA Multiples ==
    ASSUME NEW p \in Nat, NEW q \in Nat
    PROVE  /\ p * SLOT \in Nat /\ (p + q) * SLOT = p * SLOT + q * SLOT
           /\ (p + 1) * SLOT = p * SLOT + SLOT
           /\ p <= q => p * SLOT <= q * SLOT
           /\ p <= q => (q - p) * SLOT = q * SLOT - p * SLOT
           /\ 0 * SLOT = 0 /\ 1 * SLOT = SLOT /\ 2 * SLOT = SLOT + SLOT
<1>1. SLOT \in Nat /\ SLOT > 0
    BY Constants
<1>2. p * SLOT \in Nat /\ q * SLOT \in Nat
    BY <1>1
<1>3. (p + q) * SLOT = p * SLOT + q * SLOT /\ (p + 1) * SLOT = p * SLOT + SLOT
    BY <1>1
<1>4. ASSUME p <= q PROVE p * SLOT <= q * SLOT /\ (q - p) * SLOT = q * SLOT - p * SLOT
    <2>1. \A d \in Nat : d * SLOT \in Nat /\ (p + d) * SLOT = p * SLOT + d * SLOT
        BY <1>1
    <2>2. q - p \in Nat /\ p + (q - p) = q
        BY <1>4
    <2> DEFINE d == q - p
    <2>3. d \in Nat /\ p + d = q
        BY <2>2
    <2> HIDE DEF d
    <2>4. d * SLOT \in Nat /\ q * SLOT = p * SLOT + d * SLOT
        BY <2>1, <2>3
    <2>5. p * SLOT <= q * SLOT /\ d * SLOT = q * SLOT - p * SLOT
        BY <1>2, <2>4
    <2> QED  BY <2>5 DEF d
<1>5. 0 * SLOT = 0 /\ 1 * SLOT = SLOT /\ 2 * SLOT = SLOT + SLOT
    BY <1>1
<1> QED  BY <1>2, <1>3, <1>4, <1>5

\* u has no more whole slots than v and k of them together, if it is not longer.
LEMMA QuotientOrder ==
    ASSUME NEW u \in Nat, NEW v \in Nat, NEW k \in Nat
    PROVE  /\ u <= v + k * SLOT => u \div SLOT <= v \div SLOT + k
           /\ v + k * SLOT <= u => v \div SLOT + k <= u \div SLOT
           /\ u < k * SLOT => u \div SLOT < k
           /\ k * SLOT <= u => k <= u \div SLOT
<1> DEFINE p == u \div SLOT
           q == v \div SLOT
<1>1. /\ p \in Nat /\ p * SLOT <= u /\ u < p * SLOT + SLOT /\ p * SLOT \in Nat
      /\ q \in Nat /\ q * SLOT <= v /\ v < q * SLOT + SLOT /\ q * SLOT \in Nat
    BY Quotient
<1> HIDE DEF p, q
<1>2. SLOT \in Nat /\ k * SLOT \in Nat /\ q + k \in Nat /\ q + k + 1 \in Nat /\ p + 1 \in Nat
    BY <1>1, Constants, Multiples
<1>3. (q + k) * SLOT = q * SLOT + k * SLOT
    BY <1>1, Multiples
<1>4. (q + k + 1) * SLOT = q * SLOT + k * SLOT + SLOT
    BY <1>2, <1>3, Multiples
<1>5. (p + 1) * SLOT = p * SLOT + SLOT
    BY <1>1, Multiples
<1>6. ASSUME u <= v + k * SLOT PROVE p <= q + k
    <2> SUFFICES ASSUME p > q + k PROVE FALSE
        BY <1>1, <1>2
    <2>1. q + k + 1 <= p
        BY <1>1, <1>2
    <2>2. (q + k + 1) * SLOT <= p * SLOT
        BY <1>1, <1>2, <2>1, Multiples
    <2> QED  BY <1>1, <1>2, <1>4, <1>6, <2>2
<1>7. ASSUME v + k * SLOT <= u PROVE q + k <= p
    <2> SUFFICES ASSUME p < q + k PROVE FALSE
        BY <1>1, <1>2
    <2>1. p + 1 <= q + k
        BY <1>1, <1>2
    <2>2. (p + 1) * SLOT <= (q + k) * SLOT
        BY <1>1, <1>2, <2>1, Multiples
    <2> QED  BY <1>1, <1>2, <1>3, <1>5, <1>7, <2>2
<1>8. ASSUME u < k * SLOT PROVE p < k
    <2> SUFFICES ASSUME k <= p PROVE FALSE
        BY <1>1
    <2>1. k * SLOT <= p * SLOT
        BY <1>1, Multiples
    <2> QED  BY <1>1, <1>2, <1>8, <2>1
<1>9. ASSUME k * SLOT <= u PROVE k <= p
    <2> SUFFICES ASSUME p + 1 <= k PROVE FALSE
        BY <1>1
    <2>1. (p + 1) * SLOT <= k * SLOT
        BY <1>1, <1>2, Multiples
    <2> QED  BY <1>1, <1>2, <1>5, <1>9, <2>1
<1> QED  BY <1>6, <1>7, <1>8, <1>9 DEF p, q

LEMMA QuotientStep ==
    ASSUME NEW u \in Nat, NEW v \in Nat
    PROVE  /\ v <= u => v \div SLOT <= u \div SLOT
           /\ u <= v + SLOT => u \div SLOT <= v \div SLOT + 1
           /\ v + SLOT <= u => v \div SLOT + 1 <= u \div SLOT
<1>0. SLOT \in Nat /\ 0 * SLOT = 0 /\ 1 * SLOT = SLOT
    BY Constants, Multiples
<1>1. v + 0 * SLOT <= u => v \div SLOT + 0 <= u \div SLOT
    BY QuotientOrder
<1>2. u <= v + 1 * SLOT => u \div SLOT <= v \div SLOT + 1
    BY QuotientOrder
<1>3. v + 1 * SLOT <= u => v \div SLOT + 1 <= u \div SLOT
    BY QuotientOrder
<1>4. u \div SLOT \in Nat /\ v \div SLOT \in Nat
    BY Quotient
<1> QED  BY <1>0, <1>1, <1>2, <1>3, <1>4

\* The slots counted from a until m.
Counted(a, m, z) == IF m < a THEN 0 ELSE (m - a) \div SLOT + z

Monus(a, b) == IF a >= b THEN a - b ELSE 0

\* What is left of the backoff of a Txop at m, when access is granted from g on,
\* and what the timer would show, which shows x.counter at n.
ToGo(x, g, m, z) == Monus(x.slots, Counted(Later(x.start, g), m, z))
OnTimer(x, g, n, m, z) == Monus(x.counter, Counted(g, m, z) - Counted(g, n, z))

LEMMA CountedNat ==
    ASSUME NEW a \in Nat, NEW m \in Nat, NEW z \in {0, 1}
    PROVE  /\ Counted(a, m, z) \in Nat
           /\ m < a => Counted(a, m, z) = 0
           /\ a <= m => m - a \in Nat /\ Counted(a, m, z) = (m - a) \div SLOT + z
<1>1. CASE m < a
    BY <1>1 DEF Counted
<1>2. CASE ~ (m < a)
    <2>1. m - a \in Nat
        BY <1>2
    <2>2. (m - a) \div SLOT \in Nat
        BY <2>1, Quotient
    <2> QED  BY <1>2, <2>1, <2>2 DEF Counted
<1> QED  BY <1>1, <1>2

\* The later the start, the fewer slots are counted; and one less at most, if it is no
\* more than a slot later.
LEMMA CountedLater ==
    ASSUME NEW a \in Nat, NEW b \in Nat, a <= b, NEW m \in Nat, NEW z \in {0, 1}
    PROVE  /\ Counted(b, m, z) <= Counted(a, m, z)
           /\ b <= a + SLOT => Counted(a, m, z) <= Counted(b, m, z) + 1
<1>0. SLOT \in Nat /\ SLOT > 0 /\ 0 * SLOT = 0 /\ 1 * SLOT = SLOT
    BY Constants, Multiples
<1>1. CASE m < a
    BY <1>0, <1>1, CountedNat
<1>2. CASE a <= m /\ m < b
    <2>1. Counted(b, m, z) = 0 /\ Counted(a, m, z) = (m - a) \div SLOT + z /\ m - a \in Nat
          /\ Counted(a, m, z) \in Nat
        BY <1>2, CountedNat
    <2>2. ASSUME b <= a + SLOT PROVE (m - a) \div SLOT < 1
        <3>1. m - a < 1 * SLOT
            BY <1>0, <1>2, <2>2
        <3> QED  BY <2>1, <3>1, QuotientOrder
    <2>3. (m - a) \div SLOT \in Nat
        BY <2>1, Quotient
    <2> QED  BY <2>1, <2>2, <2>3
<1>3. CASE b <= m
    <2> DEFINE u == m - a
               v == m - b
    <2>1. /\ Counted(b, m, z) = v \div SLOT + z /\ v \in Nat
          /\ Counted(a, m, z) = u \div SLOT + z /\ u \in Nat
        BY <1>3, CountedNat
    <2>2. v <= u /\ (b <= a + SLOT => u <= v + SLOT)
        BY <1>0, <1>3
    <2>3. u \div SLOT \in Nat /\ v \div SLOT \in Nat
        BY <2>1, Quotient
    <2> HIDE DEF u, v
    <2>4. v + 0 * SLOT <= u /\ (b <= a + SLOT => u <= v + 1 * SLOT)
        BY <1>0, <2>1, <2>2
    <2>5. v \div SLOT + 0 <= u \div SLOT
        BY <2>1, <2>4, QuotientOrder
    <2>6. b <= a + SLOT => u \div SLOT <= v \div SLOT + 1
        BY <2>1, <2>4, QuotientOrder
    <2> QED  BY <2>1, <2>3, <2>5, <2>6
<1> QED  BY <1>1, <1>2, <1>3


\* The more time, the more slots; one more after a slot.
LEMMA CountedOn ==
    ASSUME NEW a \in Nat, NEW m \in Nat, NEW n \in Nat, n <= m, NEW z \in {0, 1}
    PROVE  /\ Counted(a, n, z) <= Counted(a, m, z)
           /\ a <= n /\ m = n + SLOT => Counted(a, m, z) = Counted(a, n, z) + 1
<1>0. SLOT \in Nat
    BY Constants
<1>1. CASE n < a
    <2>1. Counted(a, n, z) = 0 /\ Counted(a, m, z) \in Nat
        BY <1>1, CountedNat
    <2> QED  BY <1>1, <2>1
<1>2. CASE a <= n
    <2> DEFINE u == m - a
               v == n - a
    <2>1. a <= m
        BY <1>0, <1>2
    <2>2. Counted(a, n, z) = v \div SLOT + z /\ v \in Nat
        BY <1>2, CountedNat
    <2>3. Counted(a, m, z) = u \div SLOT + z /\ u \in Nat
        BY <2>1, CountedNat
    <2>4. v <= u /\ (m = n + SLOT => u = v + SLOT)
        BY <1>0, <1>2
    <2>5. u \div SLOT \in Nat /\ v \div SLOT \in Nat
        BY <2>2, <2>3, Quotient
    <2> HIDE DEF u, v
    <2>6. v \div SLOT <= u \div SLOT
        BY <2>2, <2>3, <2>4, QuotientStep
    <2>7. m = n + SLOT => u \div SLOT <= v \div SLOT + 1 /\ v \div SLOT + 1 <= u \div SLOT
        <3> SUFFICES ASSUME m = n + SLOT
                     PROVE  u \div SLOT <= v \div SLOT + 1 /\ v \div SLOT + 1 <= u \div SLOT
            OBVIOUS
        <3>1. u <= v + SLOT /\ v + SLOT <= u
            BY <1>0, <2>2, <2>3, <2>4
        <3> QED  BY <2>2, <2>3, <3>1, QuotientStep
    <2> QED  BY <2>2, <2>3, <2>5, <2>6, <2>7
<1> QED  BY <1>1, <1>2

\* When n of the slots since a have been taken off, it counts from n slots later.
LEMMA CountedShift ==
    ASSUME NEW a \in Nat, NEW n \in Nat, NEW m \in Nat, n <= m, NEW z \in {0, 1}, a <= n,
           NEW k \in Nat, k <= Counted(a, n, z)
    PROVE  /\ a + k * SLOT \in Nat /\ a + k * SLOT <= n + SLOT
           /\ k <= Counted(a, m, z)
           /\ Counted(a + k * SLOT, m, z) = Counted(a, m, z) - k
<1>0. SLOT \in Nat /\ k * SLOT \in Nat /\ a <= m
    BY Constants, Multiples
<1> DEFINE u == m - a
           v == n - a
           b == a + k * SLOT
<1>1. /\ Counted(a, n, z) = v \div SLOT + z /\ v \in Nat
      /\ Counted(a, m, z) = u \div SLOT + z /\ u \in Nat
    BY <1>0, CountedNat
<1>2. u \div SLOT \in Nat /\ v \div SLOT \in Nat /\ (v \div SLOT) * SLOT <= v
      /\ (v \div SLOT) * SLOT \in Nat
    BY <1>1, Quotient
<1>3. Counted(a, n, z) <= Counted(a, m, z)
    BY CountedOn
<1>4. b \in Nat
    BY <1>0
<1>5. b <= n + SLOT
    <2>1. k <= v \div SLOT + 1
        BY <1>1, <1>2
    <2>2. v \div SLOT + 1 \in Nat
        BY <1>2
    <2>3. k * SLOT <= (v \div SLOT + 1) * SLOT
        BY <2>1, <2>2, Multiples
    <2>4. (v \div SLOT + 1) * SLOT = (v \div SLOT) * SLOT + SLOT
        BY <1>2, Multiples
    <2> QED  BY <1>0, <1>1, <1>2, <2>3, <2>4
<1>6. CASE m < b
    <2>1. Counted(b, m, z) = 0
        BY <1>4, <1>6, CountedNat
    <2>2. u < k * SLOT
        BY <1>0, <1>6
    <2>3. u \div SLOT < k
        BY <1>1, <2>2, QuotientOrder
    <2> QED  BY <1>1, <1>2, <1>3, <1>4, <1>5, <2>1, <2>3
<1>7. CASE b <= m
    <2> DEFINE w == m - b
    <2>1. Counted(b, m, z) = w \div SLOT + z /\ w \in Nat
        BY <1>4, <1>7, CountedNat
    <2>2. u = w + k * SLOT
        BY <1>0
    <2>3. w \div SLOT \in Nat
        BY <2>1, Quotient
    <2> HIDE DEF w, u
    <2>a. u <= w + k * SLOT /\ w + k * SLOT <= u
        BY <1>0, <1>1, <2>1, <2>2
    <2>4. u \div SLOT <= w \div SLOT + k /\ w \div SLOT + k <= u \div SLOT
        BY <1>1, <2>1, <2>a, QuotientOrder
    <2>5. Counted(b, m, z) = Counted(a, m, z) - k
        BY <1>1, <1>2, <2>1, <2>3, <2>4
    <2>6. k <= Counted(a, m, z)
        BY <1>1, <1>2, <1>3
    <2> QED  BY <1>4, <1>5, <2>5, <2>6
<1>8. m < b \/ b <= m
    BY <1>4
<1> QED  BY <1>6, <1>7, <1>8

\* Counting from n, within a slot that began at some multiple from g, is one slot late at most.
LEMMA CountedMidway ==
    ASSUME NEW g \in Nat, NEW n \in Nat, NEW m \in Nat, n <= m, g <= n
    PROVE  Counted(g, m, 0) - Counted(g, n, 0) - Counted(n, m, 0) \in {0, 1}
<1> DEFINE u == m - g
           v == m - n
           w == n - g
<1>0. SLOT \in Nat /\ g <= m /\ n <= n
    BY Constants
<1>1. /\ Counted(g, m, 0) = u \div SLOT + 0 /\ u \in Nat
      /\ Counted(g, n, 0) = w \div SLOT + 0 /\ w \in Nat
      /\ Counted(n, m, 0) = v \div SLOT + 0 /\ v \in Nat
    BY <1>0, CountedNat
<1>2. u = v + w
    BY <1>0
<1> HIDE DEF u, v, w
<1> DEFINE q == w \div SLOT
<1>3. q \in Nat /\ u \div SLOT \in Nat /\ v \div SLOT \in Nat /\ q * SLOT <= w /\ w < q * SLOT + SLOT
      /\ q * SLOT \in Nat
    BY <1>1, Quotient
<1> HIDE DEF q
<1>4. (q + 1) * SLOT = q * SLOT + SLOT /\ q + 1 \in Nat
    BY <1>3, Multiples
<1>5. v + q * SLOT <= u /\ u <= v + (q + 1) * SLOT
    BY <1>0, <1>1, <1>2, <1>3, <1>4
<1>6. v \div SLOT + q <= u \div SLOT /\ u \div SLOT <= v \div SLOT + (q + 1)
    BY <1>1, <1>3, <1>4, <1>5, QuotientOrder
<1> QED  BY <1>1, <1>3, <1>6 DEF q

\* The timer counts what UpdateBackoff does.
Boundary(g, n, z) == n >= g /\ (n - g) % SLOT = 0 /\ (z = 1 \/ n > g)

LEMMA CountedTick ==
    ASSUME NEW g \in Nat, NEW n \in Nat, NEW m \in Nat, m = n + 1, NEW z \in {0, 1}
    PROVE  Counted(g, m, z) = Counted(g, n, z) + (IF Boundary(g, m, z) THEN 1 ELSE 0)
<1>0. SLOT \in Nat /\ SLOT > 0 /\ 0 * SLOT = 0 /\ 1 * SLOT = SLOT
    BY Constants, Multiples
<1>1. CASE m < g
    <2>1. Counted(g, m, z) = 0 /\ Counted(g, n, z) = 0
        BY <1>1, CountedNat
    <2> QED  BY <1>1, <2>1 DEF Boundary
<1>2. CASE m = g
    <2>a. n < g /\ g <= m /\ m - g = 0
        BY <1>2
    <2>b. Counted(g, n, z) = 0
        BY <2>a, CountedNat
    <2>c. Counted(g, m, z) = (m - g) \div SLOT + z
        BY <2>a, CountedNat
    <2>1. Counted(g, n, z) = 0 /\ Counted(g, m, z) = 0 \div SLOT + z /\ m - g = 0
        BY <2>a, <2>b, <2>c
    <2>2. 0 \div SLOT = 0 /\ 0 % SLOT = 0
        <3>1. 0 \div SLOT \in Nat
            BY Quotient
        <3>2. 0 \div SLOT < 1
            <4>1. 0 < 1 * SLOT
                BY <1>0
            <4> QED  BY <4>1, QuotientOrder
        <3>3. 0 % SLOT = 0 - (0 \div SLOT) * SLOT
            BY Quotient
        <3>4. 0 \div SLOT = 0
            BY <3>1, <3>2
        <3> QED  BY <1>0, <3>3, <3>4
    <2>3. Boundary(g, m, z) <=> z = 1
        BY <1>0, <1>2, <2>1, <2>2 DEF Boundary
    <2> QED  BY <2>1, <2>2, <2>3
<1>3. CASE g <= n
    <2> DEFINE u == m - g
               v == n - g
               q == u \div SLOT
    <2>0. g <= m
        BY <1>3
    <2>1. Counted(g, n, z) = v \div SLOT + z /\ v \in Nat
        BY <1>3, CountedNat
    <2>a. Counted(g, m, z) = q + z /\ u \in Nat
        BY <2>0, CountedNat
    <2>2. u = v + 1 /\ (Boundary(g, m, z) <=> u % SLOT = 0)
        BY <1>3 DEF Boundary
    <2> HIDE DEF u, v
    <2>3. q \in Nat /\ q * SLOT \in Nat /\ q * SLOT <= u /\ u % SLOT = u - q * SLOT /\ v \div SLOT \in Nat
        BY <2>1, <2>a, Quotient
    <2>4. CASE u % SLOT = 0
        <3>1. v < q * SLOT /\ u <= v + SLOT
            BY <1>0, <2>1, <2>a, <2>2, <2>3, <2>4
        <3>2. v \div SLOT < q
            BY <2>1, <2>3, <3>1, QuotientOrder
        <3>3. q <= v \div SLOT + 1
            BY <2>1, <2>a, <3>1, QuotientStep
        <3> HIDE DEF q
        <3> QED  BY <2>1, <2>a, <2>2, <2>3, <2>4, <3>2, <3>3
    <2>5. CASE u % SLOT # 0
        <3>1. q * SLOT <= v /\ v <= u
            <4> HIDE DEF q
            <4> QED  BY <2>1, <2>a, <2>2, <2>3, <2>5
        <3>2. q <= v \div SLOT
            BY <2>1, <2>3, <3>1, QuotientOrder
        <3>3. v \div SLOT <= q
            BY <2>1, <2>a, <3>1, QuotientStep
        <3> HIDE DEF q
        <3> QED  BY <2>1, <2>a, <2>2, <2>3, <2>5, <3>2, <3>3
    <2> QED  BY <2>4, <2>5
<1> QED  BY <1>1, <1>2, <1>3


\* Of every later m, if the medium stays idle: the slots left are those the timer would
\* show, or one more; and the start is not far ahead.
Loose(x, g, n, z) ==
    /\ \A m \in Nat : n <= m => ToGo(x, g, m, z) - OnTimer(x, g, n, m, z) \in {0, 1}
    /\ x.slots > 0 => /\ x.start <= n + SLOT + SLOT
                      /\ x.counter > 0 /\ x.slots = x.counter + 1 => x.start <= n + SLOT

Tight(x, g, n, z) ==
    /\ \A m \in Nat : n <= m => ToGo(x, g, m, z) = OnTimer(x, g, n, m, z)
    /\ x.slots > 0 => x.start <= n + SLOT

\* An EDCAF that does not contend has not been moved to a slot boundary yet.
InStep(x, g, n, z) ==
    Loose(x, g, n, z) /\ (z = 1 /\ x.access = "NOT_REQUESTED" => Tight(x, g, n, z))

\* The slots have been counted.
Current(x, g, n, z) == x.slots = ToGo(x, g, n, z)

Numbers(x) == x.slots \in Nat /\ x.start \in Nat /\ x.counter \in Nat

LEMMA MonusNat ==
    ASSUME NEW a \in Nat, NEW b \in Nat
    PROVE  Monus(a, b) \in Nat /\ Monus(a, b) <= a /\ Monus(a, 0) = a
BY DEF Monus

\* What is left at m, and what the timer shows then.
LEMMA AtTime ==
    ASSUME NEW x, Numbers(x), NEW g \in Nat, NEW n \in Nat, NEW m \in Nat, n <= m, NEW z \in {0, 1}
    PROVE  /\ Later(x.start, g) \in Nat /\ Later(x.start, g) >= g /\ Later(x.start, g) >= x.start
           /\ ToGo(x, g, m, z) \in Nat /\ OnTimer(x, g, n, m, z) \in Nat
           /\ ToGo(x, g, m, z) <= x.slots /\ OnTimer(x, g, n, m, z) <= x.counter
           /\ m < Later(x.start, g) => ToGo(x, g, m, z) = x.slots
           /\ OnTimer(x, g, n, n, z) = x.counter
           /\ m < g => OnTimer(x, g, n, m, z) = x.counter
<1>1. Later(x.start, g) \in Nat /\ Later(x.start, g) >= g /\ Later(x.start, g) >= x.start
    BY LaterNat DEF Numbers
<1> DEFINE from == Later(x.start, g)
           C == Counted(from, m, z)
           A == Counted(g, m, z)
           B == Counted(g, n, z)
<1> HIDE DEF from
<1>2. C \in Nat /\ (m < from => C = 0)
    BY <1>1, CountedNat DEF from
<1>3. A \in Nat /\ (m < g => A = 0)
    BY CountedNat
<1>4. B \in Nat /\ (n < g => B = 0) /\ B <= A
    BY CountedNat, CountedOn
<1> HIDE DEF C, A, B
<1>5. A - B \in Nat /\ (m < g => A - B = 0) /\ B - B = 0
    BY <1>3, <1>4
<1>6. ToGo(x, g, m, z) = Monus(x.slots, C) /\ OnTimer(x, g, n, m, z) = Monus(x.counter, A - B)
      /\ OnTimer(x, g, n, n, z) = Monus(x.counter, B - B)
    BY DEF ToGo, OnTimer, C, A, B, from
<1>7. x.slots \in Nat /\ x.counter \in Nat
    BY DEF Numbers
<1>8. ToGo(x, g, m, z) \in Nat /\ ToGo(x, g, m, z) <= x.slots
      /\ (m < from => ToGo(x, g, m, z) = x.slots)
    BY <1>2, <1>6, <1>7, MonusNat
<1>9. /\ OnTimer(x, g, n, m, z) \in Nat /\ OnTimer(x, g, n, m, z) <= x.counter
      /\ OnTimer(x, g, n, n, z) = x.counter
      /\ m < g => OnTimer(x, g, n, m, z) = x.counter
    BY <1>5, <1>6, <1>7, MonusNat
<1> QED  BY <1>1, <1>8, <1>9 DEF from

LEMMA TimerNow ==
    ASSUME NEW x, Numbers(x), NEW g \in Nat, NEW n \in Nat, NEW z \in {0, 1}
    PROVE  OnTimer(x, g, n, n, z) = x.counter
<1>1. Counted(g, n, z) \in Nat
    BY CountedNat
<1>2. Counted(g, n, z) - Counted(g, n, z) = 0
    BY <1>1
<1> QED  BY <1>2, MonusNat DEF OnTimer, Numbers

LEMMA NotStarted ==
    ASSUME NEW x, Numbers(x), NEW g \in Nat, NEW m \in Nat, NEW z \in {0, 1},
           m < Later(x.start, g)
    PROVE  ToGo(x, g, m, z) = x.slots
<1>1. Later(x.start, g) \in Nat
    BY LaterNat DEF Numbers
<1>2. Counted(Later(x.start, g), m, z) = 0
    BY <1>1, CountedNat
<1> QED  BY <1>2, MonusNat DEF ToGo, Numbers

\* SlotsCounted is Loose at m = n.
LEMMA LooseNow ==
    ASSUME NEW x, Numbers(x), NEW g \in Nat, NEW n \in Nat, NEW z \in {0, 1}, Loose(x, g, n, z)
    PROVE  /\ ToGo(x, g, n, z) = x.counter \/ ToGo(x, g, n, z) = x.counter + 1
           /\ x.slots = 0 => x.counter = 0
<1>1. n <= n /\ ToGo(x, g, n, z) - OnTimer(x, g, n, n, z) \in {0, 1}
    BY DEF Loose
<1>2. /\ OnTimer(x, g, n, n, z) = x.counter /\ ToGo(x, g, n, z) \in Nat
      /\ ToGo(x, g, n, z) <= x.slots
    BY <1>1, AtTime, Zenon
<1>3. x.counter \in Nat /\ x.slots \in Nat
    BY DEF Numbers
<1> QED  BY <1>1, <1>2, <1>3

\* A Txop that is exact is in step.
LEMMA TightIsInStep ==
    ASSUME NEW x, Numbers(x), NEW g \in Nat, NEW n \in Nat, NEW z \in {0, 1}, Tight(x, g, n, z)
    PROVE  InStep(x, g, n, z)
<1>1. \A m \in Nat : n <= m => ToGo(x, g, m, z) - OnTimer(x, g, n, m, z) \in {0, 1}
    <2> SUFFICES ASSUME NEW m \in Nat, n <= m PROVE ToGo(x, g, m, z) - OnTimer(x, g, n, m, z) \in {0, 1}
        OBVIOUS
    <2>1. ToGo(x, g, m, z) = OnTimer(x, g, n, m, z) /\ ToGo(x, g, m, z) \in Nat
        BY AtTime DEF Tight
    <2> QED  BY <2>1
<1>2. x.slots > 0 => x.start <= n + SLOT /\ x.start <= n + SLOT + SLOT
    BY Constants DEF Tight, Numbers
<1> QED  BY <1>1, <1>2 DEF InStep, Loose

\* No backoff.
LEMMA NoBackoff ==
    ASSUME NEW x, Numbers(x), NEW g \in Nat, NEW n \in Nat, NEW z \in {0, 1}, x.slots = 0,
           x.counter = 0
    PROVE  InStep(x, g, n, z)
<1>1. ASSUME NEW m \in Nat, n <= m PROVE ToGo(x, g, m, z) = OnTimer(x, g, n, m, z)
    <2>1. /\ ToGo(x, g, m, z) \in Nat /\ ToGo(x, g, m, z) <= x.slots
          /\ OnTimer(x, g, n, m, z) \in Nat /\ OnTimer(x, g, n, m, z) <= x.counter
        BY <1>1, AtTime, Zenon
    <2> QED  BY <2>1
<1>2. Tight(x, g, n, z)
    BY <1>1 DEF Tight
<1> QED  BY <1>2, TightIsInStep

\* What depends on the numbers only.
LEMMA SameNumbers ==
    ASSUME NEW x, NEW y, NEW g, NEW n, NEW z, y.slots = x.slots, y.start = x.start,
           y.counter = x.counter
    PROVE  /\ Numbers(x) => Numbers(y)
           /\ Loose(x, g, n, z) => Loose(y, g, n, z)
           /\ Tight(x, g, n, z) => Tight(y, g, n, z)
           /\ Current(x, g, n, z) => Current(y, g, n, z)
<1>1. \A m : ToGo(x, g, m, z) = ToGo(y, g, m, z) /\ OnTimer(x, g, n, m, z) = OnTimer(y, g, n, m, z)
    BY DEF ToGo, OnTimer
<1>2. Numbers(x) => Numbers(y)
    BY DEF Numbers
<1>3. Loose(x, g, n, z) => Loose(y, g, n, z)
    BY <1>1 DEF Loose
<1>4. Tight(x, g, n, z) => Tight(y, g, n, z)
    BY <1>1 DEF Tight
<1>5. Current(x, g, n, z) => Current(y, g, n, z)
    BY <1>1 DEF Current
<1> QED  BY <1>2, <1>3, <1>4, <1>5


\* UpdateBackoff, from a start that has been reached, changes nothing about the future.
LEMMA CountingKeeps ==
    ASSUME NEW x, Numbers(x), NEW g \in Nat, NEW n \in Nat, NEW z \in {0, 1},
           NEW from, from = Later(x.start, g), from <= n,
           NEW k, k = Fewer(Counted(from, n, z), x.slots),
           NEW y, y.slots = x.slots - k, y.start = from + k * SLOT, y.counter = x.counter
    PROVE  /\ Numbers(y) /\ Current(y, g, n, z)
           /\ Loose(x, g, n, z) => Loose(y, g, n, z)
           /\ Tight(x, g, n, z) => Tight(y, g, n, z)
<1>1. from \in Nat /\ g <= from /\ x.slots \in Nat /\ x.counter \in Nat /\ x.start \in Nat
    BY LaterNat DEF Numbers
<1>2. Counted(from, n, z) \in Nat
    BY <1>1, CountedNat
<1>3. k \in Nat /\ k <= Counted(from, n, z) /\ k <= x.slots
      /\ (k = x.slots \/ k = Counted(from, n, z))
    BY <1>1, <1>2 DEF Fewer
<1>4. y.start \in Nat /\ y.start <= n + SLOT
    <2>1. n <= n
        OBVIOUS
    <2> QED  BY <1>1, <1>3, <2>1, CountedShift
<1>5. y.start >= from /\ Later(y.start, g) = y.start
    <2>1. k * SLOT \in Nat
        BY <1>3, Multiples
    <2> QED  BY <1>1, <2>1 DEF Later
<1>6. Numbers(y)
    BY <1>1, <1>3, <1>4 DEF Numbers
<1>7. ASSUME NEW m \in Nat, n <= m
      PROVE  /\ ToGo(y, g, m, z) = ToGo(x, g, m, z)
             /\ OnTimer(y, g, n, m, z) = OnTimer(x, g, n, m, z)
    <2> DEFINE C == Counted(from, m, z)
    <2>1. k <= C /\ Counted(y.start, m, z) = C - k
        BY <1>1, <1>3, <1>7, CountedShift
    <2>2. C \in Nat
        BY <1>1, CountedNat
    <2> HIDE DEF C
    <2>3. Monus(x.slots - k, C - k) = Monus(x.slots, C)
        BY <1>1, <1>3, <2>1, <2>2 DEF Monus
    <2>4. ToGo(x, g, m, z) = Monus(x.slots, C) /\ ToGo(y, g, m, z) = Monus(x.slots - k, C - k)
        BY <1>5, <2>1 DEF ToGo, C
    <2> QED  BY <2>3, <2>4 DEF OnTimer
<1>8. Current(y, g, n, z)
    <2>1. ToGo(y, g, n, z) = ToGo(x, g, n, z)
        BY <1>7
    <2>2. ToGo(x, g, n, z) = Monus(x.slots, Counted(from, n, z))
        BY DEF ToGo
    <2>3. Monus(x.slots, Counted(from, n, z)) = x.slots - k
        BY <1>1, <1>2, <1>3 DEF Monus
    <2> QED  BY <2>1, <2>2, <2>3 DEF Current
<1>9. ASSUME Loose(x, g, n, z) PROVE Loose(y, g, n, z)
    <2>1. \A m \in Nat : n <= m => ToGo(y, g, m, z) - OnTimer(y, g, n, m, z) \in {0, 1}
        BY <1>7, <1>9 DEF Loose
    <2>2. y.start <= n + SLOT + SLOT
        BY <1>4, Constants
    <2> QED  BY <1>4, <2>1, <2>2 DEF Loose
<1>10. ASSUME Tight(x, g, n, z) PROVE Tight(y, g, n, z)
    BY <1>4, <1>7, <1>10 DEF Tight
<1> QED  BY <1>6, <1>8, <1>9, <1>10

\* The medium becomes busy until after the next boundary.
LEMMA BusyKeeps ==
    ASSUME NEW x, Numbers(x), NEW g \in Nat, NEW n \in Nat, NEW z \in {0, 1},
           Current(x, g, n, z), NEW h \in Nat, n + SLOT < h
    PROVE  /\ Loose(x, g, n, z) => Loose(x, h, n, z)
           /\ Tight(x, g, n, z) => Tight(x, h, n, z)
<1>0. SLOT \in Nat /\ x.slots \in Nat /\ x.start \in Nat /\ x.counter \in Nat /\ n < h
    BY Constants DEF Numbers
<1> DEFINE from == Later(x.start, h)
<1>1. from \in Nat /\ h <= from /\ (x.start <= h => from = h)
      /\ (x.start <= h + SLOT => from <= h + SLOT)
    BY <1>0 DEF Later
<1> HIDE DEF from
<1>2. ASSUME NEW m \in Nat, n <= m
      PROVE  \E A, B \in Nat : /\ ToGo(x, h, m, z) = Monus(x.slots, B)
                               /\ OnTimer(x, h, n, m, z) = Monus(x.counter, A)
                               /\ B <= A /\ (x.start <= h + SLOT => A <= B + 1)
                               /\ x.start <= h => A = B
    <2> DEFINE A == Counted(h, m, z)
               B == Counted(from, m, z)
    <2>1. A \in Nat /\ B \in Nat /\ Counted(h, n, z) = 0
        BY <1>0, <1>1, CountedNat
    <2>2. B <= A /\ (from <= h + SLOT => A <= B + 1)
        BY <1>1, CountedLater
    <2>3. x.start <= h => A = B
        BY <1>1
    <2>4. ToGo(x, h, m, z) = Monus(x.slots, B) /\ OnTimer(x, h, n, m, z) = Monus(x.counter, A - 0)
        BY <2>1 DEF ToGo, OnTimer, from
    <2> HIDE DEF A, B
    <2>5. A - 0 = A
        BY <2>1
    <2>6. x.start <= h + SLOT => A <= B + 1
        BY <1>1, <2>2
    <2> QED  BY <2>1, <2>2, <2>3, <2>4, <2>5, <2>6
<1>3. ASSUME Loose(x, g, n, z) PROVE Loose(x, h, n, z)
    <2>1. /\ x.slots = x.counter \/ x.slots = x.counter + 1
          /\ x.slots = 0 => x.counter = 0
        BY <1>3, LooseNow DEF Current
    <2>2. x.slots > 0 => /\ x.start <= n + SLOT + SLOT
                         /\ x.counter > 0 /\ x.slots = x.counter + 1 => x.start <= n + SLOT
        BY <1>3 DEF Loose
    <2>3. x.slots > 0 => /\ x.start <= h + SLOT
                         /\ x.counter > 0 /\ x.slots = x.counter + 1 => x.start <= h
        BY <1>0, <2>2
    <2>4. ASSUME NEW m \in Nat, n <= m PROVE ToGo(x, h, m, z) - OnTimer(x, h, n, m, z) \in {0, 1}
        <3>1. PICK A, B \in Nat : /\ ToGo(x, h, m, z) = Monus(x.slots, B)
                                  /\ OnTimer(x, h, n, m, z) = Monus(x.counter, A)
                                  /\ B <= A /\ (x.start <= h + SLOT => A <= B + 1)
                                  /\ x.start <= h => A = B
            BY <1>2, <2>4
        <3>2. Monus(x.slots, B) - Monus(x.counter, A) \in {0, 1}
            BY <1>0, <2>1, <2>3, <3>1 DEF Monus
        <3> QED  BY <3>1, <3>2
    <2> QED  BY <2>2, <2>4 DEF Loose
<1>4. ASSUME Tight(x, g, n, z) PROVE Tight(x, h, n, z)
    <2>1. x.slots = x.counter
        <3>1. ToGo(x, g, n, z) = OnTimer(x, g, n, n, z)
            BY <1>4 DEF Tight
        <3>2. OnTimer(x, g, n, n, z) = x.counter
            BY TimerNow
        <3> QED  BY <3>1, <3>2 DEF Current
    <2>2. x.slots > 0 => x.start <= n + SLOT /\ x.start <= h
        BY <1>0, <1>4 DEF Tight
    <2>3. ASSUME NEW m \in Nat, n <= m PROVE ToGo(x, h, m, z) = OnTimer(x, h, n, m, z)
        <3>1. PICK A, B \in Nat : /\ ToGo(x, h, m, z) = Monus(x.slots, B)
                                  /\ OnTimer(x, h, n, m, z) = Monus(x.counter, A)
                                  /\ B <= A /\ (x.start <= h + SLOT => A <= B + 1)
                                  /\ x.start <= h => A = B
            BY <1>2, <2>3
        <3>2. Monus(x.slots, B) = Monus(x.counter, A)
            BY <1>0, <2>1, <2>2, <3>1 DEF Monus
        <3> QED  BY <3>1, <3>2
    <2> QED  BY <2>2, <2>3 DEF Tight
<1> QED  BY <1>3, <1>4

\* RequestAccess moves a backoff that has begun by a slot at most.
LEMMA AligningKeeps ==
    ASSUME NEW x, Numbers(x), NEW g \in Nat, NEW n \in Nat, NEW z \in {0, 1}, Tight(x, g, n, z),
           x.start > g, NEW y, Numbers(y), y.slots = x.slots, y.counter = x.counter,
           x.start <= y.start, y.start <= x.start + SLOT
    PROVE  Loose(y, g, n, z)
<1>0. SLOT \in Nat /\ x.slots \in Nat /\ x.start \in Nat /\ x.counter \in Nat /\ y.start \in Nat
    BY Constants DEF Numbers
<1>1. Later(x.start, g) = x.start /\ Later(y.start, g) = y.start
    BY <1>0 DEF Later
<1>2. ASSUME NEW m \in Nat, n <= m PROVE ToGo(y, g, m, z) - OnTimer(y, g, n, m, z) \in {0, 1}
    <2> DEFINE A == Counted(x.start, m, z)
               B == Counted(y.start, m, z)
    <2>1. A \in Nat /\ B \in Nat
        BY <1>0, CountedNat
    <2>2. B <= A /\ A <= B + 1
        BY <1>0, CountedLater
    <2>3. ToGo(x, g, m, z) = Monus(x.slots, A) /\ ToGo(y, g, m, z) = Monus(x.slots, B)
        BY <1>1 DEF ToGo
    <2>4. OnTimer(y, g, n, m, z) = ToGo(x, g, m, z)
        BY <1>2 DEF Tight, OnTimer
    <2> HIDE DEF A, B
    <2>5. Monus(x.slots, B) - Monus(x.slots, A) \in {0, 1}
        BY <1>0, <2>1, <2>2 DEF Monus
    <2> QED  BY <2>3, <2>4, <2>5
<1>3. ASSUME y.slots > 0
      PROVE  /\ y.start <= n + SLOT + SLOT
             /\ y.counter > 0 /\ y.slots = y.counter + 1 => y.start <= n + SLOT
    <2>1. x.start <= n + SLOT
        BY <1>3 DEF Tight
    <2>2. ASSUME y.slots = y.counter + 1 PROVE x.start <= n
        <3>1. ToGo(x, g, n, z) = OnTimer(x, g, n, n, z) /\ n <= n
            BY DEF Tight
        <3>2. OnTimer(x, g, n, n, z) = x.counter /\ (n < Later(x.start, g) => ToGo(x, g, n, z) = x.slots)
            BY TimerNow, NotStarted
        <3> QED  BY <1>0, <1>1, <2>2, <3>1, <3>2
    <2> QED  BY <1>0, <2>1, <2>2
<1> QED  BY <1>2, <1>3 DEF Loose

\* A backoff starts: that of an EDCAF, when the medium is not idle.
LEMMA FreshIsInStep ==
    ASSUME NEW x, Numbers(x), NEW g \in Nat, NEW n \in Nat, NEW z \in {0, 1},
           x.start = n, x.counter = x.slots, z = 1 => n < g
    PROVE  InStep(x, g, n, z)
<1>0. SLOT \in Nat /\ x.slots \in Nat /\ n <= n + SLOT /\ n <= n + SLOT + SLOT
    BY Constants DEF Numbers
<1>1. CASE n < g
    <2>1. Later(x.start, g) = g
        BY <1>1 DEF Later
    <2>2. ASSUME NEW m \in Nat, n <= m PROVE ToGo(x, g, m, z) = OnTimer(x, g, n, m, z)
        <3>1. Counted(g, n, z) = 0 /\ Counted(g, m, z) \in Nat
            BY <1>1, CountedNat
        <3>2. Counted(g, m, z) - 0 = Counted(g, m, z)
            BY <3>1
        <3> QED  BY <2>1, <3>1, <3>2 DEF ToGo, OnTimer
    <2> QED  BY <1>0, <2>2, TightIsInStep DEF Tight
<1>2. CASE g <= n
    <2>1. z = 0 /\ Later(x.start, g) = n
        BY <1>2 DEF Later
    <2>2. ASSUME NEW m \in Nat, n <= m PROVE ToGo(x, g, m, z) - OnTimer(x, g, n, m, z) \in {0, 1}
        <3> DEFINE A == Counted(g, m, 0)
                   B == Counted(g, n, 0)
                   C == Counted(n, m, 0)
        <3>1. A \in Nat /\ B \in Nat /\ C \in Nat
            BY CountedNat
        <3>2. B <= A
            BY <2>2, CountedOn
        <3>3. A - B - C \in {0, 1}
            BY <1>2, <2>2, CountedMidway
        <3>4. ToGo(x, g, m, z) = Monus(x.slots, C) /\ OnTimer(x, g, n, m, z) = Monus(x.slots, A - B)
            BY <2>1 DEF ToGo, OnTimer
        <3> HIDE DEF A, B, C
        <3>5. Monus(x.slots, C) - Monus(x.slots, A - B) \in {0, 1}
            BY <1>0, <3>1, <3>2, <3>3 DEF Monus
        <3> QED  BY <3>4, <3>5
    <2> QED  BY <1>0, <2>1, <2>2 DEF InStep, Loose
<1> QED  BY <1>1, <1>2

\* Time passes.
LEMMA TickingKeeps ==
    ASSUME NEW x, Numbers(x), NEW g \in Nat, NEW n \in Nat, NEW z \in {0, 1}, NEW n1, n1 = n + 1,
           NEW y, y.slots = x.slots, y.start = x.start,
           y.counter = IF x.counter > 0 /\ Boundary(g, n1, z) THEN x.counter - 1 ELSE x.counter
    PROVE  /\ Loose(x, g, n, z) => Loose(y, g, n1, z)
           /\ Tight(x, g, n, z) => Tight(y, g, n1, z)
<1> DEFINE b == IF Boundary(g, n1, z) THEN 1 ELSE 0
<1>0. SLOT \in Nat /\ x.slots \in Nat /\ x.start \in Nat /\ x.counter \in Nat /\ b \in {0, 1}
      /\ n1 \in Nat /\ n <= n1
    BY Constants DEF Numbers
<1>1. y.counter = Monus(x.counter, b) /\ y.counter \in Nat
    BY <1>0 DEF Monus
<1>2. Counted(g, n1, z) = Counted(g, n, z) + b
    BY <1>0, CountedTick
<1> HIDE DEF b
<1>3. ASSUME NEW m \in Nat, n1 <= m
      PROVE  /\ n <= m /\ ToGo(y, g, m, z) = ToGo(x, g, m, z)
             /\ OnTimer(y, g, n1, m, z) = OnTimer(x, g, n, m, z)
    <2> DEFINE A == Counted(g, m, z)
               B == Counted(g, n, z)
               D == Counted(g, n1, z)
    <2>1. A \in Nat /\ B \in Nat /\ D \in Nat
        BY <1>0, CountedNat
    <2>2. D <= A
        BY <1>0, <1>3, CountedOn
    <2>3. D = B + b
        BY <1>2
    <2>4. OnTimer(y, g, n1, m, z) = Monus(Monus(x.counter, b), A - D)
          /\ OnTimer(x, g, n, m, z) = Monus(x.counter, A - B)
        BY <1>1 DEF OnTimer
    <2> HIDE DEF A, B, D
    <2>5. Monus(Monus(x.counter, b), A - D) = Monus(x.counter, A - B)
        BY <1>0, <2>1, <2>2, <2>3 DEF Monus
    <2>6. n <= m
        BY <1>0, <1>3
    <2> QED  BY <2>4, <2>5, <2>6 DEF ToGo
<1>4. ASSUME Loose(x, g, n, z) PROVE Loose(y, g, n1, z)
    <2>1. \A m \in Nat : n1 <= m => ToGo(y, g, m, z) - OnTimer(y, g, n1, m, z) \in {0, 1}
        BY <1>3, <1>4 DEF Loose
    <2>2. ASSUME y.slots > 0
          PROVE  /\ x.start <= n + SLOT + SLOT
                 /\ x.counter > 0 /\ x.slots = x.counter + 1 => x.start <= n + SLOT
        BY <1>4, <2>2 DEF Loose
    <2>3. ASSUME y.slots > 0, y.counter > 0, y.slots = y.counter + 1 PROVE y.start <= n1 + SLOT
        <3>1. CASE y.counter = x.counter
            BY <1>0, <2>2, <2>3, <3>1
        <3>2. CASE y.counter # x.counter
            <4>1. Boundary(g, n1, z) /\ b = 1 /\ y.counter = x.counter - 1 /\ g <= n1
                  /\ x.counter = x.slots /\ x.counter >= 2
                BY <1>0, <1>1, <2>3, <3>2 DEF b, Monus, Boundary
            <4> DEFINE m == n1 + SLOT
            <4>2. m \in Nat /\ n1 <= m /\ n <= m /\ m = n1 + SLOT
                BY <1>0
            <4> HIDE DEF m
            <4>3. SUFFICES ASSUME m < x.start PROVE FALSE
                BY <1>0, <4>2
            <4> DEFINE A == Counted(g, m, z)
                       B == Counted(g, n, z)
                       D == Counted(g, n1, z)
            <4>4. A = D + 1 /\ D = B + 1 /\ B \in Nat
                <5>1. A = D + 1
                    BY <1>0, <4>1, <4>2, CountedOn
                <5>2. B \in Nat
                    BY CountedNat
                <5> QED  BY <1>2, <4>1, <5>1, <5>2
            <4>5. OnTimer(x, g, n, m, z) = Monus(x.counter, A - B)
                BY DEF OnTimer
            <4> HIDE DEF A, B, D
            <4>6. A - B = 2
                BY <4>4
            <4>7. OnTimer(x, g, n, m, z) = x.counter - 2
                BY <1>0, <4>1, <4>5, <4>6 DEF Monus
            <4>8. m < Later(x.start, g)
                BY <1>0, <4>2, <4>3 DEF Later
            <4>9. ToGo(x, g, m, z) = x.slots
                BY <4>2, <4>8, NotStarted
            <4>10. ToGo(x, g, m, z) - OnTimer(x, g, n, m, z) \in {0, 1}
                BY <1>4, <4>2 DEF Loose
            <4> QED  BY <1>0, <4>1, <4>7, <4>9, <4>10
        <3> QED  BY <3>1, <3>2
    <2>4. y.slots > 0 => y.start <= n1 + SLOT + SLOT
        BY <1>0, <2>2
    <2> QED  BY <2>1, <2>3, <2>4 DEF Loose
<1>5. ASSUME Tight(x, g, n, z) PROVE Tight(y, g, n1, z)
    <2>1. \A m \in Nat : n1 <= m => ToGo(y, g, m, z) = OnTimer(y, g, n1, m, z)
        BY <1>3, <1>5 DEF Tight
    <2>2. y.slots > 0 => y.start <= n1 + SLOT
        BY <1>0, <1>5 DEF Tight
    <2> QED  BY <2>1, <2>2 DEF Tight
<1> QED  BY <1>4, <1>5


\* Of an EDCAF.
Z(t) == IF t \in Edcaf THEN 1 ELSE 0

AifsOf(l, n, t) == GrantStart(l, n) + Aifsn[t] * SLOT

AllInStep(T) == \A u \in Txop : InStep(T[u], Aifs(u), now, Z(u))
AllCurrent(T) == \A u \in Txop : Current(T[u], Aifs(u), now, Z(u))

SInv == ~ slept => AllInStep(txop)

LEMMA RecordNumbers == ASSUME NEW x \in TxopRecord PROVE Numbers(x)
BY TxopRecordNumbers DEF Numbers

LEMMA AifsIs == ASSUME NEW t PROVE Aifs(t) = AifsOf(last, now, t) /\ Aifs(t)' = AifsOf(last', now', t)
BY GrantStartIs DEF Aifs, AifsOf

\* No slot is counted for more than a slot after the last thing that is known.
LEMMA AifsLate ==
    ASSUME NEW l \in LastRecord, NEW n \in Nat, NEW t \in Txop, NEW c \in Nat,
           l.rx + Safeguard >= c \/ l.tx >= c \/ l.busy >= c \/ l.nav >= c \/ l.ack >= c
    PROVE  AifsOf(l, n, t) \in Nat /\ AifsOf(l, n, t) > c + SLOT
<1>1. /\ GrantStart(l, n) \in Nat /\ GrantStart(l, n) >= SIFS + l.rx
      /\ GrantStart(l, n) >= SIFS + l.busy /\ GrantStart(l, n) >= SIFS + l.tx
      /\ GrantStart(l, n) >= SIFS + l.nav /\ GrantStart(l, n) >= SIFS + l.ack
    BY GrantStartBounds
<1>2. l.rx \in Nat /\ l.busy \in Nat /\ l.tx \in Nat /\ l.nav \in Nat /\ l.ack \in Nat
    BY DEF LastRecord
<1>3. GrantStart(l, n) > c
    BY <1>1, <1>2, Constants
<1>4. 1 \in Nat /\ Aifsn[t] \in Nat /\ 1 <= Aifsn[t]
    BY Constants
<1>5. 1 * SLOT <= Aifsn[t] * SLOT /\ 1 * SLOT = SLOT /\ Aifsn[t] * SLOT \in Nat
    BY <1>4, Multiples
<1> DEFINE p == Aifsn[t] * SLOT
<1>6. AifsOf(l, n, t) = GrantStart(l, n) + p /\ p \in Nat /\ SLOT <= p
    BY <1>5 DEF AifsOf
<1> HIDE DEF p
<1> QED  BY <1>1, <1>3, <1>6, Constants

LEMMA BusyInStep ==
    ASSUME NEW x, Numbers(x), NEW g \in Nat, NEW n \in Nat, NEW z \in {0, 1}, InStep(x, g, n, z),
           Current(x, g, n, z), NEW h \in Nat, n + SLOT < h, NEW y, y.slots = x.slots,
           y.start = x.start, y.counter = x.counter, y.access = x.access
    PROVE  InStep(y, h, n, z)
<1>1. /\ Loose(x, g, n, z) => Loose(x, h, n, z)
      /\ Tight(x, g, n, z) => Tight(x, h, n, z)
    BY BusyKeeps, Zenon
<1>2. /\ Loose(x, h, n, z) => Loose(y, h, n, z)
      /\ Tight(x, h, n, z) => Tight(y, h, n, z)
    BY SameNumbers, Zenon
<1> QED  BY <1>1, <1>2 DEF InStep

LEMMA SameInStep ==
    ASSUME NEW x, NEW y, NEW g, NEW n, NEW z, InStep(x, g, n, z), y.slots = x.slots,
           y.start = x.start, y.counter = x.counter, y.access = x.access
    PROVE  InStep(y, g, n, z)
<1>1. /\ Loose(x, g, n, z) => Loose(y, g, n, z)
      /\ Tight(x, g, n, z) => Tight(y, g, n, z)
    BY SameNumbers, Zenon
<1> QED  BY <1>1 DEF InStep

\* Whose backoff is over has none, if its slots have been counted.
LEMMA ExpiredHasNone ==
    ASSUME Types, NEW T \in [Txop -> TxopRecord], NEW u \in Expired(T),
           InStep(T[u], Aifs(u), now, Z(u)), Current(T[u], Aifs(u), now, Z(u))
    PROVE  T[u].slots = 0 /\ T[u].counter = 0
<1> DEFINE from == GetBackoffStartFor(T, u)
           k == T[u].slots
<1>1. /\ u \in Txop /\ T[u] \in TxopRecord /\ Aifs(u) \in Nat /\ now \in Nat /\ Z(u) \in {0, 1}
      /\ from + k * SLOT <= now
    BY AifsNat, TimeNat DEF Expired, GetBackoffEndFor, Z
<1>2. Numbers(T[u]) /\ T[u].start \in Nat /\ k \in Nat
    BY <1>1, RecordNumbers DEF Numbers
<1>3. from \in Nat /\ from = Later(T[u].start, Aifs(u))
    BY <1>1, <1>2, LaterNat DEF GetBackoffStartFor
<1>4. k * SLOT \in Nat
    BY <1>2, Multiples
<1> DEFINE v == now - from
<1>5. from <= now /\ v \in Nat /\ k * SLOT <= v
    BY <1>1, <1>3, <1>4
<1>6. Counted(from, now, Z(u)) = v \div SLOT + Z(u) /\ Counted(from, now, Z(u)) \in Nat
    BY <1>1, <1>3, <1>5, CountedNat
<1>7. T[u].slots = Monus(k, Counted(from, now, Z(u)))
    BY <1>3 DEF Current, ToGo
<1> HIDE DEF v, from
<1>8. k <= v \div SLOT /\ v \div SLOT \in Nat
    BY <1>2, <1>5, Quotient, QuotientOrder
<1>9. k <= Counted(from, now, Z(u))
    BY <1>1, <1>2, <1>6, <1>8
<1>10. T[u].slots = 0
    BY <1>2, <1>6, <1>7, <1>9 DEF Monus
<1>11. Loose(T[u], Aifs(u), now, Z(u))
    BY DEF InStep
<1>12. T[u].slots = 0 => T[u].counter = 0
    BY <1>1, <1>2, <1>11, LooseNow, Zenon
<1> QED  BY <1>10, <1>12

\* UpdateBackoff counts the slots of every Txop and leaves it in step.
LEMMA CountingOne ==
    ASSUME Types, NEW T \in [Txop -> TxopRecord], NEW u \in Txop
    PROVE  /\ Current(UpdateBackoff(T)[u], Aifs(u), now, Z(u))
           /\ Loose(T[u], Aifs(u), now, Z(u)) => Loose(UpdateBackoff(T)[u], Aifs(u), now, Z(u))
           /\ Tight(T[u], Aifs(u), now, Z(u)) => Tight(UpdateBackoff(T)[u], Aifs(u), now, Z(u))
<1> DEFINE from == GetBackoffStartFor(T, u)
           k == Fewer(IdleSlots(u, from), T[u].slots)
           y == UpdateBackoff(T)[u]
           x == T[u]
<1>1. /\ x \in TxopRecord /\ Aifs(u) \in Nat /\ now \in Nat /\ Z(u) \in {0, 1}
    BY AifsNat, TimeNat DEF Z
<1>2. Numbers(x) /\ x.start \in Nat
    BY <1>1, RecordNumbers DEF Numbers
<1>3. from \in Nat /\ from = Later(x.start, Aifs(u))
    BY <1>1, <1>2, LaterNat DEF GetBackoffStartFor
<1>4. y = IF from > now THEN x ELSE Decrement(T, u, from, k)
    BY DEF UpdateBackoff
<1>5. CASE from > now
    <2>1. now < Later(x.start, Aifs(u))
        BY <1>1, <1>3, <1>5
    <2>2. ToGo(x, Aifs(u), now, Z(u)) = x.slots
        BY <1>1, <1>2, <2>1, NotStarted, Zenon
    <2>3. y = x
        BY <1>4, <1>5
    <2>4. Current(y, Aifs(u), now, Z(u))
        BY <2>2, <2>3 DEF Current
    <2> HIDE DEF y, x
    <2>5. /\ Loose(x, Aifs(u), now, Z(u)) => Loose(y, Aifs(u), now, Z(u))
          /\ Tight(x, Aifs(u), now, Z(u)) => Tight(y, Aifs(u), now, Z(u))
        BY <2>3
    <2> QED  BY <2>4, <2>5 DEF x, y
<1>6. CASE ~ (from > now)
    <2>1. from <= now
        BY <1>1, <1>3, <1>6
    <2>2. IdleSlots(u, from) = Counted(from, now, Z(u))
        <3>1. Counted(from, now, Z(u)) = (now - from) \div SLOT + Z(u)
            BY <1>1, <1>3, <2>1, CountedNat
        <3> QED  BY <3>1 DEF IdleSlots, Z
    <2>3. k = Fewer(Counted(from, now, Z(u)), x.slots)
        BY <2>2
    <2>4. y = Decrement(T, u, from, k)
        BY <1>4, <1>6
    <2> HIDE DEF from, k, y
    <2>5. y.slots = x.slots - k /\ y.start = from + k * SLOT /\ y.counter = x.counter
        BY <1>1, <2>4 DEF Decrement, TxopRecord
    <2> HIDE DEF x
    <2>6. PICK g \in Nat, n \in Nat, z \in {0, 1} : g = Aifs(u) /\ n = now /\ z = Z(u)
        BY <1>1
    <2>7. Numbers(x) /\ from = Later(x.start, g) /\ from <= n /\ k = Fewer(Counted(from, n, z), x.slots)
        BY <1>2, <1>3, <2>1, <2>3, <2>6
    <2>8. /\ Numbers(y) /\ Current(y, g, n, z)
          /\ Loose(x, g, n, z) => Loose(y, g, n, z)
          /\ Tight(x, g, n, z) => Tight(y, g, n, z)
        BY <2>5, <2>7, CountingKeeps
    <2>9. /\ Current(y, Aifs(u), now, Z(u))
          /\ Loose(x, Aifs(u), now, Z(u)) => Loose(y, Aifs(u), now, Z(u))
          /\ Tight(x, Aifs(u), now, Z(u)) => Tight(y, Aifs(u), now, Z(u))
        BY <2>6, <2>8
    <2> QED  BY <2>9 DEF x, y
<1> QED  BY <1>5, <1>6

LEMMA CountingAll ==
    ASSUME Types, NEW T \in [Txop -> TxopRecord], AllInStep(T)
    PROVE  AllInStep(UpdateBackoff(T)) /\ AllCurrent(UpdateBackoff(T))
<1> SUFFICES ASSUME NEW u \in Txop
             PROVE  /\ InStep(UpdateBackoff(T)[u], Aifs(u), now, Z(u))
                    /\ Current(UpdateBackoff(T)[u], Aifs(u), now, Z(u))
    BY DEF AllInStep, AllCurrent
<1>1. /\ Current(UpdateBackoff(T)[u], Aifs(u), now, Z(u))
      /\ Loose(T[u], Aifs(u), now, Z(u)) => Loose(UpdateBackoff(T)[u], Aifs(u), now, Z(u))
      /\ Tight(T[u], Aifs(u), now, Z(u)) => Tight(UpdateBackoff(T)[u], Aifs(u), now, Z(u))
    BY CountingOne
<1>2. UpdateBackoff(T)[u].access = T[u].access
    BY UpdateBackoffKeeps DEF Same
<1>3. InStep(T[u], Aifs(u), now, Z(u))
    BY DEF AllInStep
<1> QED  BY <1>1, <1>2, <1>3 DEF InStep


\* After a step in which neither the time nor what is known of the medium changes.
LEMMA Settled ==
    ASSUME UNCHANGED <<qos, now, last>>,
           ASSUME ~ slept', NEW u \in Txop PROVE InStep(txop'[u], Aifs(u), now, Z(u))
    PROVE  SInv'
<1> SUFFICES ASSUME ~ slept', NEW u \in Txop PROVE InStep(txop'[u], Aifs(u)', now', Z(u)')
    BY DEF SInv, AllInStep
<1>1. Aifs(u)' = Aifs(u)
    BY AifsIs
<1>2. Z(u)' = Z(u)
    BY DEF Z, Edcaf
<1>3. InStep(txop'[u], Aifs(u), now, Z(u))
    OBVIOUS
<1> QED  BY <1>1, <1>2, <1>3

\* After one that makes the medium busy, for those that have been counted, those whose
\* backoff starts and those that have none.
LEMMA SettledBusy ==
    ASSUME CInv, IInv', UNCHANGED <<qos, now>>,
           \/ last'.rx + Safeguard >= now \/ last'.tx >= now \/ last'.busy >= now
           \/ last'.nav >= now \/ last'.ack >= now,
           ASSUME ~ slept', NEW u \in Txop
           PROVE  \/ txop'[u].slots = 0 /\ txop'[u].counter = 0
                  \/ txop'[u].start = now /\ txop'[u].counter = txop'[u].slots
                  \/ \E x \in TxopRecord :
                        /\ InStep(x, Aifs(u), now, Z(u)) /\ Current(x, Aifs(u), now, Z(u))
                        /\ txop'[u].slots = x.slots /\ txop'[u].start = x.start
                        /\ txop'[u].counter = x.counter /\ txop'[u].access = x.access
    PROVE  SInv'
<1> SUFFICES ASSUME ~ slept', NEW u \in Txop PROVE InStep(txop'[u], Aifs(u)', now', Z(u)')
    BY DEF SInv, AllInStep
<1>1. PICK y, n, l, z : y = txop'[u] /\ n = now' /\ l = last' /\ z = Z(u)'
    OBVIOUS
<1>2. n = now /\ n \in Nat /\ y \in TxopRecord /\ l \in LastRecord /\ z \in {0, 1} /\ z = Z(u)
    <2>1. txop' \in [Txop -> TxopRecord] /\ last' \in LastRecord
        BY DEF IInv, Types, TypesOfGrant
    <2>2. Z(u)' = Z(u) /\ Z(u) \in {0, 1}
        BY DEF Z, Edcaf
    <2> QED  BY <1>1, <2>1, <2>2, Facts
<1>3. Aifs(u)' = AifsOf(l, n, u)
    BY <1>1, AifsIs
<1>4. l.rx + Safeguard >= n \/ l.tx >= n \/ l.busy >= n \/ l.nav >= n \/ l.ack >= n
    BY <1>1
<1>5. PICK h \in Nat : h = AifsOf(l, n, u) /\ n + SLOT < h
    <2>1. AifsOf(l, n, u) \in Nat /\ AifsOf(l, n, u) > n + SLOT
        BY <1>2, <1>4, AifsLate
    <2> DEFINE a == AifsOf(l, n, u)
    <2>2. a \in Nat /\ a > n + SLOT
        BY <2>1
    <2> HIDE DEF a
    <2>3. n + SLOT < a
        BY <1>2, <2>2, Constants
    <2> QED  BY <2>2, <2>3 DEF a
<1>6. Numbers(y) /\ n < h
    <2>1. n < h
        BY <1>2, <1>5, Constants
    <2> QED  BY <1>2, <2>1, RecordNumbers
<1>7. CASE y.slots = 0 /\ y.counter = 0
    <2>1. InStep(y, h, n, z)
        BY <1>2, <1>6, <1>7, NoBackoff
    <2> QED  BY <1>1, <1>3, <1>5, <2>1
<1>8. CASE y.start = n /\ y.counter = y.slots
    <2>1. InStep(y, h, n, z)
        BY <1>2, <1>6, <1>8, FreshIsInStep
    <2> QED  BY <1>1, <1>3, <1>5, <2>1
<1>9. CASE \E x \in TxopRecord :
              /\ InStep(x, Aifs(u), now, Z(u)) /\ Current(x, Aifs(u), now, Z(u))
              /\ y.slots = x.slots /\ y.start = x.start /\ y.counter = x.counter
              /\ y.access = x.access
    <2>1. PICK x \in TxopRecord :
              /\ InStep(x, Aifs(u), now, Z(u)) /\ Current(x, Aifs(u), now, Z(u))
              /\ y.slots = x.slots /\ y.start = x.start /\ y.counter = x.counter
              /\ y.access = x.access
        BY <1>9
    <2>2. PICK g \in Nat : g = Aifs(u)
        BY Facts, AifsNat
    <2>3. InStep(x, g, n, z) /\ Current(x, g, n, z) /\ Numbers(x)
        BY <1>2, <2>1, <2>2, RecordNumbers
    <2>4. InStep(y, h, n, z)
        BY <1>2, <1>5, <2>1, <2>3, BusyInStep
    <2> QED  BY <1>1, <1>3, <1>5, <2>4
<1> QED  BY <1>1, <1>2, <1>7, <1>8, <1>9

\* A Txop whose backoff starts: an EDCAF's while the medium is not idle.
LEMMA StartsInStep ==
    ASSUME Types, NEW u \in Txop, NEW y \in TxopRecord, y.start = now, y.counter = y.slots,
           u \in Edcaf => now < Aifs(u)
    PROVE  InStep(y, Aifs(u), now, Z(u))
<1>1. PICK g \in Nat, n \in Nat, z \in {0, 1} : g = Aifs(u) /\ n = now /\ z = Z(u)
    BY AifsNat, TimeNat DEF Z
<1>2. Numbers(y) /\ y.start = n /\ (z = 1 => n < g)
    BY <1>1, RecordNumbers DEF Z
<1>3. InStep(y, g, n, z)
    BY <1>2, FreshIsInStep
<1> QED  BY <1>1, <1>3

LEMMA NoneInStep ==
    ASSUME Types, NEW u \in Txop, NEW y \in TxopRecord, y.slots = 0, y.counter = 0
    PROVE  InStep(y, Aifs(u), now, Z(u))
<1>1. PICK g \in Nat, n \in Nat, z \in {0, 1} : g = Aifs(u) /\ n = now /\ z = Z(u)
    BY AifsNat, TimeNat DEF Z
<1>2. Numbers(y)
    BY RecordNumbers
<1>3. InStep(y, g, n, z)
    BY <1>2, NoBackoff
<1> QED  BY <1>1, <1>3

\* While nothing is counted, the slots are those that have been.
LEMMA NotYetCounted ==
    ASSUME Types, NEW u \in Txop, NEW x \in TxopRecord, now < Aifs(u)
    PROVE  Current(x, Aifs(u), now, Z(u))
<1>1. PICK g \in Nat, n \in Nat, z \in {0, 1} : g = Aifs(u) /\ n = now /\ z = Z(u)
    BY AifsNat, TimeNat DEF Z
<1>2. Numbers(x) /\ x.start \in Nat
    BY RecordNumbers DEF Numbers
<1>3. n < Later(x.start, g)
    BY <1>1, <1>2 DEF Later
<1>4. ToGo(x, g, n, z) = x.slots
    BY <1>2, <1>3, NotStarted
<1> QED  BY <1>1, <1>4 DEF Current

-----------------------------------------------------------------------------
(* One lemma for each way a handler asks for access, one for each action.  *)

\* Access is granted when the slots of all have been counted.
LEMMA GrantInStep ==
    ASSUME CInv, IInv', UNCHANGED <<qos, now>>, NEW T \in [Txop -> TxopRecord],
           DoGrantDcfAccess(T), AllInStep(T), AllCurrent(T)
    PROVE  SInv'
<1>1. Types /\ GrantEffect(T) /\ txop' \in [Txop -> TxopRecord]
    BY Facts, GrantKeeps DEF TypesOfGrant
<1>2. ASSUME NEW u \in Txop
      PROVE  InStep(T[u], Aifs(u), now, Z(u)) /\ Current(T[u], Aifs(u), now, Z(u))
    BY DEF AllInStep, AllCurrent
<1>3. ASSUME NEW u \in Expired(T) PROVE T[u].slots = 0 /\ T[u].counter = 0 /\ u \in Txop
    <2>1. u \in Txop
        BY DEF Expired
    <2> QED  BY <1>1, <1>2, <2>1, ExpiredHasNone
<1>4. CASE GrantedNobody(T)
    <2>1. UNCHANGED last
        BY <1>4 DEF GrantedNobody
    <2>2. ASSUME NEW u \in Txop PROVE InStep(txop'[u], Aifs(u), now, Z(u))
        <3>1. CASE u \notin Expired(T)
            BY <1>1, <1>2, <3>1 DEF GrantEffect
        <3> PICK y \in TxopRecord : y = txop'[u]
            BY <1>1
        <3>2. CASE u \in Expired(T) /\ u \in Edcaf
            <4>1. y.slots = 0 /\ y.counter = 0
                BY <1>3, <1>4, <3>2 DEF GrantedNobody, Kept
            <4> QED  BY <1>1, <4>1, NoneInStep
        <3>3. CASE u \in Expired(T) /\ u \notin Edcaf
            <4>1. y.start = now /\ y.counter = y.slots
                BY <1>4, <3>3 DEF GrantedNobody, Begun
            <4> QED  BY <1>1, <3>3, <4>1, StartsInStep
        <3> QED  BY <3>1, <3>2, <3>3
    <2> QED  BY <2>1, <2>2, Settled
<1>5. ASSUME NEW t \in Expired(T), NEW acked \in BOOLEAN, Granted(T, t, acked) PROVE SInv'
    <2>1. last'.tx >= now
        <3>1. last'.tx = now + FrameTx
            BY <1>5, Facts DEF Granted, Transmit, LastRecord
        <3> QED  BY <3>1, Facts, Constants
    <2>2. ASSUME NEW u \in Txop
          PROVE  \/ txop'[u].slots = 0 /\ txop'[u].counter = 0
                 \/ txop'[u].start = now /\ txop'[u].counter = txop'[u].slots
                 \/ \E x \in TxopRecord :
                       /\ InStep(x, Aifs(u), now, Z(u)) /\ Current(x, Aifs(u), now, Z(u))
                       /\ txop'[u].slots = x.slots /\ txop'[u].start = x.start
                       /\ txop'[u].counter = x.counter /\ txop'[u].access = x.access
        <3>1. CASE u \notin Expired(T)
            <4>1. txop'[u] = T[u] /\ T[u] \in TxopRecord
                BY <1>1, <3>1 DEF GrantEffect
            <4> QED  BY <1>2, <4>1
        <3>2. CASE u \in Expired(T)
            <4>1. T[u].slots = 0 /\ T[u].counter = 0
                BY <1>3, <3>2
            <4>2. Kept(T[u], txop'[u]) \/ Begun(txop'[u])
                BY <1>5, <3>2 DEF Granted
            <4> QED  BY <4>1, <4>2 DEF Kept, Begun
        <3> QED  BY <3>1, <3>2
    <2> QED  BY <2>1, <2>2, SettledBusy
<1> QED  BY <1>1, <1>4, <1>5 DEF GrantEffect

\* A Txop asks for access: an EDCAF whose slots are running is moved to a slot boundary.
LEMMA RequestInStep ==
    ASSUME CInv, IInv', UNCHANGED <<qos, now>>, NEW T \in [Txop -> TxopRecord], NEW t \in Txop,
           T[t].access = "NOT_REQUESTED", RequestAccess(T, t), ~ sleeping', AllInStep(T)
    PROVE  SInv'
<1> DEFINE A == AlignStart(T, t)
           B == UpdateBackoff(A)
           R == [B EXCEPT ![t].access = "REQUESTED"]
<1>1. DoGrantDcfAccess(R)
    BY DEF RequestAccess
<1>2. Types /\ Same(T, A) /\ A \in [Txop -> TxopRecord]
    BY Facts, AlignKeeps DEF Same
<1>3. Same(A, B) /\ B \in [Txop -> TxopRecord]
    BY <1>2, UpdateBackoffKeeps DEF Same
<1>4. ASSUME NEW u \in Txop
      PROVE  /\ Current(B[u], Aifs(u), now, Z(u))
             /\ Loose(A[u], Aifs(u), now, Z(u)) => Loose(B[u], Aifs(u), now, Z(u))
             /\ Tight(A[u], Aifs(u), now, Z(u)) => Tight(B[u], Aifs(u), now, Z(u))
    BY <1>2, CountingOne
<1>5. ASSUME NEW u \in Txop, u # t PROVE A[u] = T[u]
    BY <1>5 DEF AlignStart
<1>6. Loose(A[t], Aifs(t), now, Z(t))
    <2> PICK g \in Nat, n \in Nat, z \in {0, 1} : g = Aifs(t) /\ n = now /\ z = Z(t)
        BY <1>2, AifsNat, TimeNat DEF Z
    <2>1. T[t] \in TxopRecord /\ InStep(T[t], g, n, z) /\ Numbers(T[t])
        BY RecordNumbers DEF AllInStep
    <2>2. CASE t \in Edcaf /\ T[t].start > Aifs(t)
        <3> DEFINE v == T[t].start - g
                   q == v \div SLOT
                   to == g + (q + 1) * SLOT
        <3>1. T[t].start \in Nat /\ v \in Nat /\ T[t].start = g + v
            BY <2>1, <2>2 DEF Numbers
        <3>2. q \in Nat /\ q * SLOT \in Nat /\ q * SLOT <= v /\ v < q * SLOT + SLOT
            BY <3>1, Quotient
        <3>3. (q + 1) * SLOT = q * SLOT + SLOT
            <4> HIDE DEF q
            <4> QED  BY <3>2, Multiples
        <3>4. A[t] = [T[t] EXCEPT !.start = to]
            BY <2>2 DEF AlignStart
        <3> HIDE DEF A, q, v
        <3>5. to \in Nat /\ T[t].start <= to /\ to <= T[t].start + SLOT
            BY <3>1, <3>2, <3>3, Constants
        <3> HIDE DEF to
        <3>6. PICK x \in TxopRecord, y \in TxopRecord : x = T[t] /\ y = A[t]
            BY <1>2, <2>1
        <3>7. y.slots = x.slots /\ y.counter = x.counter /\ y.start = to
            BY <3>4, <3>6 DEF TxopRecord
        <3>8. Numbers(x) /\ Numbers(y) /\ Tight(x, g, n, z) /\ x.start > g
            BY <2>1, <2>2, <3>6, RecordNumbers DEF InStep, Z
        <3>9. x.start <= y.start /\ y.start <= x.start + SLOT
            BY <3>5, <3>6, <3>7
        <3>10. Loose(y, g, n, z)
            BY <3>7, <3>8, <3>9, AligningKeeps
        <3> QED  BY <3>6, <3>10
    <2>3. CASE ~ (t \in Edcaf /\ T[t].start > Aifs(t))
        BY <2>1, <2>3 DEF AlignStart, InStep
    <2> QED  BY <2>2, <2>3
<1> HIDE DEF A, B
<1>7. /\ R \in [Txop -> TxopRecord] /\ R[t] = [B[t] EXCEPT !.access = "REQUESTED"]
      /\ \A u \in Txop : u # t => R[u] = B[u]
    <2>1. [B[t] EXCEPT !.access = "REQUESTED"] \in TxopRecord
        BY <1>3 DEF TxopRecord
    <2> QED  BY <1>3, <2>1
<1> HIDE DEF R
<1>8. ASSUME NEW u \in Txop
      PROVE  InStep(R[u], Aifs(u), now, Z(u)) /\ Current(R[u], Aifs(u), now, Z(u))
    <2>1. CASE u # t
        <3>1. R[u] = B[u] /\ A[u] = T[u] /\ B[u].access = T[u].access
            BY <1>3, <1>5, <1>7, <2>1 DEF Same
        <3>2. InStep(T[u], Aifs(u), now, Z(u))
            BY DEF AllInStep
        <3> QED  BY <1>4, <3>1, <3>2 DEF InStep
    <2>2. CASE u = t
        <3> PICK x \in TxopRecord, y \in TxopRecord,
                 g \in {Aifs(t)}, n \in {now}, z \in {Z(t)} :
                x = B[t] /\ y = R[t]
            BY <1>3, <1>7
        <3>1. /\ y.slots = x.slots /\ y.start = x.start /\ y.counter = x.counter
              /\ y.access = "REQUESTED"
            BY <1>7 DEF TxopRecord
        <3>2. Loose(x, g, n, z) /\ Current(x, g, n, z)
            BY <1>4, <1>6
        <3>3. Loose(y, g, n, z) /\ Current(y, g, n, z)
            BY <3>1, <3>2, SameNumbers
        <3> QED  BY <2>2, <3>1, <3>3 DEF InStep
    <2> QED  BY <2>1, <2>2
<1> QED  BY <1>1, <1>7, <1>8, GrantInStep DEF AllInStep, AllCurrent

\* A frame comes: a backoff starts if the medium is busy.
LEMMA StartInStep ==
    ASSUME CInv, IInv', UNCHANGED <<qos, now, sleeping, slept>>, SInv, NEW t \in Txop,
           NEW had \in BOOLEAN, StartAccess(txop, t, had, TRUE)
    PROVE  SInv'
<1>0. Types /\ txop \in [Txop -> TxopRecord] /\ now \in Nat /\ (sleeping => slept)
    BY Facts DEF TransmitInv
<1>1. CASE txop[t].access # "NOT_REQUESTED" \/ queue[t] = 0 \/ sleeping'
    <2>1. UNCHANGED <<txop, last>>
        BY <1>1 DEF StartAccess
    <2> QED  BY <2>1, Settled DEF SInv, AllInStep
<1>2. CASE slept
    BY <1>2 DEF SInv
<1>3. CASE ~ slept /\ ~ (txop[t].access # "NOT_REQUESTED" \/ queue[t] = 0 \/ sleeping')
    <2> DEFINE U == UpdateBackoff(txop)
    <2>1. AllInStep(U) /\ U \in [Txop -> TxopRecord] /\ U[t].access = "NOT_REQUESTED"
        BY <1>0, <1>3, CountingAll, UpdateBackoffKeeps DEF SInv, Same
    <2>2. \/ NeedBackoffUponAccess(U, t, had, TRUE)
                /\ \E n \in 0 .. U[t].cw : RequestAccess(GenerateBackoff(U, t, n), t)
          \/ RequestAccess(AccessAtOnce(U, t, had), t)
        BY <1>3 DEF StartAccess
    <2> HIDE DEF U
    <2>3. ASSUME NEW V \in [Txop -> TxopRecord], V[t].access = "NOT_REQUESTED",
                 RequestAccess(V, t), \A u \in Txop : u # t => V[u] = U[u],
                 InStep(V[t], Aifs(t), now, Z(t))
          PROVE  SInv'
        <3>1. AllInStep(V)
            BY <2>1, <2>3 DEF AllInStep
        <3> QED  BY <1>3, <2>3, <3>1, RequestInStep
    <2>4. ASSUME NeedBackoffUponAccess(U, t, had, TRUE), NEW n \in 0 .. U[t].cw,
                 RequestAccess(GenerateBackoff(U, t, n), t)
          PROVE  SInv'
        <3> DEFINE y == [U[t] EXCEPT !.slots = n, !.start = now, !.counter = n]
        <3>1. GenerateBackoff(U, t, n) = [U EXCEPT ![t] = y]
            BY DEF GenerateBackoff
        <3>2. n \in 0 .. CwMax
            BY <2>1, TxopRecordNumbers, Constants
        <3>3. y \in TxopRecord /\ y.access = "NOT_REQUESTED" /\ y.start = now /\ y.counter = y.slots
            BY <1>0, <2>1, <3>2 DEF TxopRecord
        <3> HIDE DEF y
        <3>4. now < Aifs(t)
            <4>1. last.rx > now \/ last.tx > now \/ last.nav > now \/ last.busy > now
                BY <2>4 DEF NeedBackoffUponAccess, IsBusy
            <4>2. last.rx + Safeguard >= now \/ last.tx >= now \/ last.busy >= now \/ last.nav >= now
                BY <4>1, Facts, Constants
            <4>3. AifsOf(last, now, t) \in Nat /\ AifsOf(last, now, t) > now + SLOT
                BY <4>2, Facts, AifsLate
            <4>4. Aifs(t) \in Nat /\ Aifs(t) > now + SLOT
                BY <4>3, AifsIs
            <4> QED  BY <1>0, <4>4, Constants
        <3>5. InStep(y, Aifs(t), now, Z(t))
            BY <1>0, <3>3, <3>4, StartsInStep
        <3> QED  BY <2>1, <2>3, <2>4, <3>1, <3>3, <3>5
    <2>5. CASE RequestAccess(AccessAtOnce(U, t, had), t)
        <3>1. CASE had \/ U[t].slots > 0
            <4>1. AccessAtOnce(U, t, had) = U
                BY <3>1 DEF AccessAtOnce
            <4> QED  BY <2>1, <2>3, <2>5, <4>1 DEF AllInStep
        <3>2. CASE ~ (had \/ U[t].slots > 0)
            <4> DEFINE from == now + (IF t \in Edcaf THEN 0 ELSE SIFS + Aifsn[t] * SLOT)
                       y == [U[t] EXCEPT !.start = from]
            <4>1. AccessAtOnce(U, t, had) = [U EXCEPT ![t] = y]
                BY <3>2 DEF AccessAtOnce
            <4>2. from \in Nat
                <5>1. Aifsn[t] * SLOT \in Nat
                    BY Constants
                <5> QED  BY <1>0, <5>1, Constants
            <4> HIDE DEF from
            <4>3. U[t] \in TxopRecord /\ U[t].slots = 0
                BY <2>1, <3>2, TxopRecordNumbers
            <4>4. U[t].counter = 0
                <5> PICK x \in TxopRecord, g \in Nat, n \in Nat, z \in {0, 1} :
                        x = U[t] /\ g = Aifs(t) /\ n = now /\ z = Z(t)
                    BY <1>0, <4>3, AifsNat DEF Z
                <5>1. Numbers(x) /\ Loose(x, g, n, z)
                    BY <2>1, RecordNumbers DEF AllInStep, InStep
                <5> QED  BY <4>3, <5>1, LooseNow
            <4>5. /\ y \in TxopRecord /\ y.access = "NOT_REQUESTED" /\ y.slots = 0 /\ y.counter = 0
                BY <2>1, <4>2, <4>3, <4>4 DEF TxopRecord
            <4> HIDE DEF y
            <4>6. InStep(y, Aifs(t), now, Z(t))
                BY <1>0, <4>5, NoneInStep
            <4> QED  BY <2>1, <2>3, <2>5, <4>1, <4>5, <4>6
        <3> QED  BY <3>1, <3>2
    <2> QED  BY <2>2, <2>4, <2>5
<1> QED  BY <1>1, <1>2, <1>3


LEMMA AccessInStep ==
    ASSUME CInv, IInv', SInv, UNCHANGED qos,
           AccessTimeout \/ \E t \in Txop : StartAccessAfterEvent(t) \/ AccessAgain(t)
    PROVE  SInv'
<1>1. Types /\ txop \in [Txop -> TxopRecord] /\ (sleeping => slept)
    BY Facts DEF TransmitInv
<1>2. UNCHANGED <<now, sleeping, slept>>
    BY DEF AccessTimeout, StartAccessAfterEvent, AccessAgain, phy, bounds
<1> SUFFICES ASSUME ~ slept PROVE SInv'
    BY <1>2 DEF SInv
<1>3. AllInStep(txop) /\ ~ sleeping'
    BY <1>1, <1>2 DEF SInv
<1>4. CASE AccessTimeout
    <2> DEFINE U == UpdateBackoff(txop)
    <2>1. AllInStep(U) /\ AllCurrent(U) /\ U \in [Txop -> TxopRecord] /\ DoGrantDcfAccess(U)
        BY <1>1, <1>3, <1>4, CountingAll, UpdateBackoffKeeps DEF Same, AccessTimeout
    <2> HIDE DEF U
    <2> QED  BY <1>2, <2>1, GrantInStep
<1>5. ASSUME NEW t \in Txop, StartAccessAfterEvent(t) PROVE SInv'
    <2> DEFINE had == event[t] = "had"
    <2>1. had \in BOOLEAN /\ StartAccess(txop, t, had, TRUE)
        BY <1>5 DEF StartAccessAfterEvent
    <2> HIDE DEF had
    <2> QED  BY <1>2, <2>1, StartInStep
<1>6. ASSUME NEW t \in Txop, AccessAgain(t) PROVE SInv'
    <2> DEFINE G == [txop[t] EXCEPT !.again = FALSE]
               T == [txop EXCEPT ![t].again = FALSE]
    <2>1. T = [txop EXCEPT ![t] = G]
        OBVIOUS
    <2>2. G \in TxopRecord /\ G.access = txop[t].access /\ Kept(txop[t], G) /\ G.start = txop[t].start
        BY <1>1 DEF TxopRecord, Kept
    <2>3. \/ T[t].access = "NOT_REQUESTED" /\ RequestAccess(T, t)
          \/ txop' = T /\ UNCHANGED last
        BY <1>6 DEF AccessAgain
    <2> HIDE DEF G
    <2>4. T \in [Txop -> TxopRecord] /\ T[t] = G /\ \A u \in Txop : u # t => T[u] = txop[u]
        BY <1>1, <2>1, <2>2
    <2> HIDE DEF T
    <2>5. ASSUME NEW u \in Txop PROVE InStep(T[u], Aifs(u), now, Z(u))
        <3> PICK x, y, g, n, z : x = txop[u] /\ y = T[u] /\ g = Aifs(u) /\ n = now /\ z = Z(u)
            OBVIOUS
        <3>1. InStep(x, g, n, z)
            BY <1>3 DEF AllInStep
        <3>2. y.slots = x.slots /\ y.start = x.start /\ y.counter = x.counter /\ y.access = x.access
            BY <2>2, <2>4 DEF Kept
        <3>3. InStep(y, g, n, z)
            BY <3>1, <3>2, SameInStep
        <3> QED  BY <3>3
    <2>6. CASE T[t].access = "NOT_REQUESTED" /\ RequestAccess(T, t)
        BY <1>2, <1>3, <2>4, <2>5, <2>6, RequestInStep DEF AllInStep
    <2>7. CASE txop' = T /\ UNCHANGED last
        BY <1>2, <2>5, <2>7, Settled
    <2> QED  BY <2>3, <2>6, <2>7
<1> QED  BY <1>4, <1>5, <1>6

\* The end of an exchange: the medium has been busy until now.
LEMMA EndInStep ==
    ASSUME CInv, IInv', SInv, UNCHANGED qos, EndsExchange
    PROVE  SInv'
<1>1. /\ exchange.txop \in Txop /\ Begun(txop'[exchange.txop])
      /\ \A u \in Txop : u # exchange.txop => txop'[u] = txop[u]
    BY Facts, EndEffect
<1>2. UNCHANGED <<now, slept>>
    BY DEF EndsExchange, TransmissionSucceeded, NormalAckTimeout, ReceivedNormalAck, bounds
<1>3. \/ UNCHANGED last /\ exchange.until = now
      \/ last.rx = now /\ last' = [last EXCEPT !.ok = TRUE, !.ack = now]
    BY DEF EndsExchange, TransmissionSucceeded, NormalAckTimeout, ReceivedNormalAck
<1> SUFFICES ASSUME ~ slept PROVE SInv'
    BY <1>2 DEF SInv
<1>4. ASSUME NEW u \in Txop
      PROVE  txop[u] \in TxopRecord /\ InStep(txop[u], Aifs(u), now, Z(u))
    BY Facts DEF SInv, AllInStep
<1>5. last.rx + Safeguard >= now \/ last.tx >= now \/ last.ack >= now
    <2>1. CASE exchange.until = now
        <3>1. exchange.txop # 0
            BY <1>1 DEF Txop
        <3>2. /\ ~ exchange.acked => exchange.until <= last.tx
              /\ exchange.acked => exchange.until <= last.ack \/ exchange.until <= last.rx + Safeguard
            BY <3>1, Facts DEF ExchangeInv, UntilWhen
        <3> QED  BY <2>1, <3>2, Facts, Constants
    <2>2. CASE last.rx = now
        BY <2>2, Facts, Constants
    <2> QED  BY <1>3, <2>1, <2>2
<1>6. ASSUME NEW u \in Txop PROVE now < Aifs(u)
    <2>1. AifsOf(last, now, u) \in Nat /\ AifsOf(last, now, u) > now + SLOT
        BY <1>5, Facts, AifsLate
    <2>2. Aifs(u) \in Nat /\ Aifs(u) > now + SLOT
        BY <2>1, AifsIs
    <2> QED  BY <2>2, Facts, Constants
<1>7. CASE UNCHANGED last
    <2>1. ASSUME NEW u \in Txop PROVE InStep(txop'[u], Aifs(u), now, Z(u))
        <3>1. CASE u = exchange.txop
            <4> PICK y \in TxopRecord : y = txop'[u]
                BY DEF IInv, Types, TypesOfGrant
            <4>1. y.start = now /\ y.counter = y.slots
                BY <1>1, <3>1 DEF Begun
            <4> QED  BY <1>6, <4>1, Facts, StartsInStep
        <3>2. CASE u # exchange.txop
            BY <1>1, <1>4, <3>2
        <3> QED  BY <3>1, <3>2
    <2> QED  BY <1>2, <1>7, <2>1, Settled
<1>8. CASE last.rx = now /\ last' = [last EXCEPT !.ok = TRUE, !.ack = now]
    <2>1. last'.ack >= now
        BY <1>8, Facts DEF LastRecord
    <2>2. ASSUME NEW u \in Txop
          PROVE  \/ txop'[u].slots = 0 /\ txop'[u].counter = 0
                 \/ txop'[u].start = now /\ txop'[u].counter = txop'[u].slots
                 \/ \E x \in TxopRecord :
                       /\ InStep(x, Aifs(u), now, Z(u)) /\ Current(x, Aifs(u), now, Z(u))
                       /\ txop'[u].slots = x.slots /\ txop'[u].start = x.start
                       /\ txop'[u].counter = x.counter /\ txop'[u].access = x.access
        <3>1. CASE u = exchange.txop
            BY <1>1, <3>1 DEF Begun
        <3>2. CASE u # exchange.txop
            <4>1. txop'[u] = txop[u] /\ Current(txop[u], Aifs(u), now, Z(u))
                BY <1>1, <1>4, <1>6, <3>2, Facts, NotYetCounted
            <4> QED  BY <1>4, <4>1
        <3> QED  BY <3>1, <3>2
    <2> QED  BY <1>2, <2>1, <2>2, SettledBusy
<1> QED  BY <1>3, <1>7, <1>8

\* What the PHY reports makes the medium busy.
LEMMA MediumInStep ==
    ASSUME CInv, IInv', SInv, UNCHANGED qos, Medium
    PROVE  SInv'
<1>1. UNCHANGED <<now, slept>>
    BY DEF Medium, NotifyRxStart, NotifyRxEndError, ReceivedFrame, UpdateNav, NotifyCcaBusyStart,
           SendNormalAck, bounds
<1> SUFFICES ASSUME ~ slept PROVE SInv'
    BY <1>1 DEF SInv
<1>2. ~ sleeping /\ Types /\ txop \in [Txop -> TxopRecord] /\ now \in Nat /\ last \in LastRecord
    BY Facts DEF TransmitInv
<1>3. /\ txop' = UpdateBackoff(txop) \/ (txop' = txop /\ last.rx = now)
      /\ \/ last'.rx + Safeguard >= now \/ last'.tx >= now \/ last'.busy >= now
         \/ last'.nav >= now \/ last'.ack >= now
    <2>1. CASE \E d \in RxTime : NotifyRxStart(d)
        <3> PICK d \in RxTime : NotifyRxStart(d)
            BY <2>1
        <3>1. d \in Nat
            BY AccessAssumption
        <3>2. last'.rx = now + d
            BY <1>2 DEF NotifyRxStart, LastRecord
        <3>3. last'.rx + Safeguard >= now
            BY <1>2, <3>1, <3>2, Constants
        <3> QED  BY <3>3 DEF NotifyRxStart
    <2>2. CASE NotifyRxEndError \/ ReceivedFrame
        <3>1. txop' = txop /\ last.rx = now /\ last'.rx = last.rx
            BY <1>2, <2>2 DEF NotifyRxEndError, ReceivedFrame, contention, LastRecord
        <3>2. last'.rx + Safeguard >= now
            BY <1>2, <3>1, Constants
        <3> QED  BY <3>1, <3>2
    <2>3. CASE \E d \in NavTime : UpdateNav(d)
        <3>1. last.rx = now /\ last'.rx = last.rx /\ txop' = UpdateBackoff(txop)
            BY <1>2, <2>3 DEF UpdateNav, LastRecord
        <3>2. last'.rx + Safeguard >= now
            BY <1>2, <3>1, Constants
        <3> QED  BY <3>1, <3>2
    <2>4. CASE \E d \in CcaTime : NotifyCcaBusyStart(d)
        <3> PICK d \in CcaTime : NotifyCcaBusyStart(d)
            BY <2>4
        <3>1. d \in Nat
            BY AccessAssumption
        <3>2. last'.busy = now + d
            BY <1>2 DEF NotifyCcaBusyStart, LastRecord
        <3>3. last'.busy >= now
            BY <1>2, <3>1, <3>2
        <3> QED  BY <3>3 DEF NotifyCcaBusyStart
    <2>5. CASE SendNormalAck
        <3> DEFINE cut == [last EXCEPT !.ok = TRUE, !.rx = Fewer(last.rx, now)]
        <3>1. txop' = UpdateBackoff(txop) /\ last' = [cut EXCEPT !.tx = now + AckTx]
            BY <1>2, <2>5 DEF SendNormalAck
        <3>2. cut \in LastRecord
            <4>1. Fewer(last.rx, now) \in Nat
                BY Facts, FewerNat
            <4> QED  BY <1>2, <4>1 DEF LastRecord
        <3> HIDE DEF cut
        <3>3. last'.tx = now + AckTx
            BY <3>1, <3>2 DEF LastRecord
        <3>4. last'.tx >= now
            BY <1>2, <3>3, Constants
        <3> QED  BY <3>1, <3>4
    <2> QED  BY <2>1, <2>2, <2>3, <2>4, <2>5 DEF Medium
<1>4. ASSUME NEW u \in Txop
      PROVE  \E x \in TxopRecord :
                /\ InStep(x, Aifs(u), now, Z(u)) /\ Current(x, Aifs(u), now, Z(u))
                /\ txop'[u].slots = x.slots /\ txop'[u].start = x.start
                /\ txop'[u].counter = x.counter /\ txop'[u].access = x.access
    <2>1. CASE txop' = UpdateBackoff(txop)
        <3> DEFINE U == UpdateBackoff(txop)
        <3>1. AllInStep(U) /\ AllCurrent(U) /\ U \in [Txop -> TxopRecord]
            BY <1>2, CountingAll, UpdateBackoffKeeps DEF Same, SInv
        <3>2. txop' = U
            BY <2>1
        <3> HIDE DEF U
        <3>3. U[u] \in TxopRecord /\ InStep(U[u], Aifs(u), now, Z(u)) /\ Current(U[u], Aifs(u), now, Z(u))
            BY <3>1 DEF AllInStep, AllCurrent
        <3> QED  BY <3>2, <3>3
    <2>2. CASE txop' = txop /\ last.rx = now
        <3>1. last.rx + Safeguard >= now
            BY <1>2, <2>2, Constants
        <3>2. AifsOf(last, now, u) \in Nat /\ AifsOf(last, now, u) > now + SLOT
            BY <1>2, <3>1, AifsLate
        <3>3. Aifs(u) \in Nat /\ Aifs(u) > now + SLOT
            BY <3>2, AifsIs
        <3>4. now < Aifs(u) /\ txop[u] \in TxopRecord
            BY <1>2, <3>3, Constants
        <3>5. Current(txop[u], Aifs(u), now, Z(u))
            BY <1>2, <3>4, NotYetCounted
        <3>6. InStep(txop[u], Aifs(u), now, Z(u))
            BY DEF SInv, AllInStep
        <3> QED  BY <2>2, <3>4, <3>5, <3>6
    <2> QED  BY <1>3, <2>1, <2>2
<1> QED  BY <1>1, <1>3, <1>4, SettledBusy


\* Time passes.
LEMMA TickInStep ==
    ASSUME CInv, IInv', SInv, UNCHANGED qos, Tick
    PROVE  SInv'
<1>1. UNCHANGED <<last, slept>> /\ now' = now + 1 /\ ~ (receiving /\ last.rx = now)
    BY DEF Tick, bounds
<1> SUFFICES ASSUME ~ slept, NEW u \in Txop PROVE InStep(txop'[u], Aifs(u)', now', Z(u)')
    BY <1>1 DEF SInv, AllInStep
<1>2. ~ sleeping /\ Types /\ now \in Nat /\ last \in LastRecord /\ last.rx \in Nat
    BY Facts DEF TransmitInv
<1>3. Aifs(u)' = Aifs(u)
    <2>1. RxStart(last', now') = RxStart(last, now)
        BY <1>1, <1>2, Facts DEF RxStart, MediumInv
    <2>2. GrantStart(last', now') = GrantStart(last, now)
        BY <1>1, <2>1 DEF GrantStart
    <2> QED  BY <2>2, AifsIs DEF AifsOf
<1>4. Z(u)' = Z(u)
    BY DEF Z, Edcaf
<1>5. PICK x \in TxopRecord, y \in TxopRecord, g \in Nat, n \in Nat, n1 \in Nat, z \in {0, 1} :
         x = txop[u] /\ y = txop'[u] /\ g = Aifs(u) /\ n = now /\ n1 = now' /\ z = Z(u)
    <2>1. txop[u] \in TxopRecord /\ txop'[u] \in TxopRecord
        BY Facts DEF IInv, Types, TypesOfGrant
    <2>2. Aifs(u) \in Nat /\ now' \in Nat
        BY <1>1, <1>2, AifsNat
    <2> QED  BY <1>2, <2>1, <2>2 DEF Z
<1>6. SlotBoundary(u)' <=> Boundary(g, n1, z)
    <2>1. SlotBoundary(u)' <=> /\ n1 - g >= 0 /\ (n1 - g) % SLOT = 0
                               /\ u \in Edcaf \/ n1 - g > 0
        BY <1>3, <1>5 DEF SlotBoundary, Edcaf
    <2>2. u \in Edcaf <=> z = 1
        BY <1>5 DEF Z
    <2>3. (n1 - g >= 0 <=> n1 >= g) /\ (n1 - g > 0 <=> n1 > g)
        BY <1>5
    <2> QED  BY <2>1, <2>2, <2>3 DEF Boundary
<1>7. y = IF x.counter > 0 /\ SlotBoundary(u)' THEN [x EXCEPT !.counter = x.counter - 1] ELSE x
    <2>1. txop'[u] = IF txop[u].counter > 0 /\ SlotBoundary(u)' /\ ~ sleeping
                     THEN [txop[u] EXCEPT !.counter = @ - 1] ELSE txop[u]
        BY DEF Tick
    <2> QED  BY <1>2, <1>5, <2>1
<1>8. /\ y.slots = x.slots /\ y.start = x.start /\ y.access = x.access
      /\ y.counter = IF x.counter > 0 /\ Boundary(g, n1, z) THEN x.counter - 1 ELSE x.counter
    <2>1. CASE x.counter > 0 /\ SlotBoundary(u)'
        <3> DEFINE c == x.counter - 1
        <3>1. y = [x EXCEPT !.counter = c]
            BY <1>7, <2>1
        <3> HIDE DEF c
        <3>2. y.slots = x.slots /\ y.start = x.start /\ y.access = x.access /\ y.counter = c
            BY <3>1 DEF TxopRecord
        <3> QED  BY <1>6, <2>1, <3>2 DEF c
    <2>2. CASE ~ (x.counter > 0 /\ SlotBoundary(u)')
        <3>1. y = x
            BY <1>7, <2>2
        <3>2. ~ (x.counter > 0 /\ Boundary(g, n1, z))
            BY <1>6, <2>2
        <3> QED  BY <3>1, <3>2
    <2> QED  BY <2>1, <2>2
<1>9. Numbers(x) /\ n1 = n + 1 /\ InStep(x, g, n, z)
    BY <1>1, <1>5, RecordNumbers DEF SInv, AllInStep
<1>10. /\ Loose(x, g, n, z) => Loose(y, g, n1, z)
       /\ Tight(x, g, n, z) => Tight(y, g, n1, z)
    BY <1>8, <1>9, TickingKeeps
<1>11. InStep(y, g, n1, z)
    BY <1>8, <1>9, <1>10 DEF InStep
<1> QED  BY <1>3, <1>4, <1>5, <1>11

LEMMA InitInStep == Init => SInv
<1> SUFFICES ASSUME Init, NEW u \in Txop PROVE InStep(txop[u], Aifs(u), now, Z(u))
    BY DEF SInv, AllInStep
<1>1. Types /\ now \in Nat /\ now = 0 /\ last \in LastRecord /\ txop[u] \in TxopRecord
    BY InitContends, Facts DEF Init
<1>2. txop[u].start = now /\ txop[u].counter = txop[u].slots
    BY DEF Init
<1>3. now < Aifs(u)
    <2>1. last.tx >= now
        BY DEF Init
    <2>2. AifsOf(last, now, u) \in Nat /\ AifsOf(last, now, u) > now + SLOT
        BY <1>1, <2>1, AifsLate
    <2>3. Aifs(u) \in Nat /\ Aifs(u) > now + SLOT
        BY <2>2, AifsIs
    <2> QED  BY <1>1, <2>3, Constants
<1> QED  BY <1>1, <1>2, <1>3, StartsInStep

\* SInv is inductive, where CInv holds.
LEMMA NextInStep == CInv /\ CInv' /\ SInv /\ [Next]_vars => SInv'
<1> SUFFICES ASSUME CInv, IInv', SInv, [Next]_vars PROVE SInv'
    BY DEF CInv
<1>1. sleeping \/ waking # 0 => slept
    BY Facts DEF TransmitInv
<1>2. UNCHANGED <<qos, now, last, txop, slept>> => SInv'
    <2> SUFFICES ASSUME UNCHANGED <<qos, now, last, txop, slept>>, ~ slept PROVE SInv'
        BY DEF SInv
    <2>1. ASSUME NEW u \in Txop PROVE InStep(txop'[u], Aifs(u), now, Z(u))
        BY DEF SInv, AllInStep
    <2> QED  BY <2>1, Settled
<1>3. CASE UNCHANGED vars
    BY <1>2, <1>3 DEF vars, contention, bounds
<1>4. CASE UNCHANGED qos /\ WakeUp
    <2>1. slept'
        BY <1>1, <1>4 DEF WakeUp, bounds
    <2> QED  BY <2>1 DEF SInv
<1>5. CASE /\ UNCHANGED qos
           /\ \/ Tick \/ AccessTimeout \/ TransmissionSucceeded \/ NormalAckTimeout
              \/ Medium \/ ReceivedNormalAck \/ NotifySleep \/ NotifyWakeup
              \/ \E t \in Txop : Queue(t) \/ Expire(t) \/ StartAccessAfterEvent(t) \/ AccessAgain(t)
    <2>1. CASE NotifySleep \/ NotifyWakeup
        <3>1. slept'
            BY <1>1, <2>1 DEF NotifySleep, NotifyWakeup, bounds
        <3> QED  BY <3>1 DEF SInv
    <2>2. CASE Tick
        BY <1>5, <2>2, TickInStep
    <2>3. CASE AccessTimeout \/ \E t \in Txop : StartAccessAfterEvent(t) \/ AccessAgain(t)
        BY <1>5, <2>3, AccessInStep
    <2>4. CASE EndsExchange
        BY <1>5, <2>4, EndInStep
    <2>5. CASE Medium
        BY <1>5, <2>5, MediumInStep
    <2>6. CASE \E t \in Txop : Queue(t) \/ Expire(t)
        <3>1. UNCHANGED <<qos, now, last, txop, slept>>
            BY <1>5, <2>6 DEF Queue, Expire, bounds
        <3> QED  BY <1>2, <3>1
    <2> QED  BY <1>5, <2>1, <2>2, <2>3, <2>4, <2>5, <2>6 DEF EndsExchange
<1> QED  BY <1>3, <1>4, <1>5 DEF Next

\* What Remaining is.
LEMMA InStepImplies == CInv /\ SInv => SlotsCounted
<1> SUFFICES ASSUME CInv, SInv, ~ slept, NEW t \in Txop
             PROVE  Remaining(t) \in {txop[t].counter, txop[t].counter + 1}
    BY DEF SlotsCounted
<1> DEFINE U == UpdateBackoff(txop)
<1>1. Types /\ txop \in [Txop -> TxopRecord] /\ U \in [Txop -> TxopRecord]
    BY Facts DEF Same
<1>2. AllInStep(txop)
    BY DEF SInv
<1>3. Current(U[t], Aifs(t), now, Z(t)) /\ InStep(U[t], Aifs(t), now, Z(t))
    BY <1>1, <1>2, CountingAll DEF AllInStep, AllCurrent
<1>4. U[t].counter = txop[t].counter
    <2> DEFINE from == GetBackoffStartFor(txop, t)
               k == Fewer(IdleSlots(t, from), txop[t].slots)
    <2>1. U[t] = txop[t] \/ U[t] = Decrement(txop, t, from, k)
        BY DEF UpdateBackoff
    <2> HIDE DEF U, from, k
    <2>2. txop[t] \in TxopRecord
        BY <1>1
    <2> QED  BY <2>1, <2>2 DEF Decrement, TxopRecord
<1>5. Remaining(t) = U[t].slots
    BY DEF Remaining
<1> HIDE DEF U
<1>6. PICK x \in TxopRecord, g \in Nat, n \in Nat, z \in {0, 1} :
         x = U[t] /\ g = Aifs(t) /\ n = now /\ z = Z(t)
    BY <1>1, AifsNat, TimeNat DEF Z
<1>7. Current(x, g, n, z) /\ Loose(x, g, n, z) /\ Numbers(x)
    BY <1>3, <1>6, RecordNumbers DEF InStep
<1>8. ToGo(x, g, n, z) = x.counter \/ ToGo(x, g, n, z) = x.counter + 1
    BY <1>7, LooseNow
<1>9. x.slots = x.counter \/ x.slots = x.counter + 1
    BY <1>7, <1>8 DEF Current
<1> QED  BY <1>4, <1>5, <1>6, <1>9

\* The slots are counted as a timer that runs at each slot boundary would have counted
\* them, or one fewer, whatever the number of Txops, their parameters, the durations and
\* what the PHY reports, as long as the PHY has not slept: no Txop is ahead of its
\* backoff, and none loses more than a slot.
THEOREM SlotsAreCounted == Spec => []SlotsCounted
<1>1. Init /\ []CInv /\ [][Next]_vars => []SInv
    BY InitInStep, NextInStep, PTL
<1> QED  BY <1>1, ContentionHolds, InStepImplies, PTL DEF Spec
=============================================================================
