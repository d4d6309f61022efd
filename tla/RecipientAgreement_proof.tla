------------------------ MODULE RecipientAgreement_proof ------------------------
(***************************************************************************)
(* Lemmas about sequence numbers and about the operations of a recipient   *)
(* agreement, and the facts about sequences and numbers they rest on; for  *)
(* every size of the window and of the sequence number space.              *)
(***************************************************************************)
EXTENDS RecipientAgreement, SequencesExt, FiniteSetTheorems, WellFoundedInduction, TLAPS

-----------------------------------------------------------------------------
(* The elements of sequences that have been shortened or extended.        *)

\* The elements of a sequence over a set.
LEMMA SeqElements ==
    ASSUME NEW S, NEW q \in Seq(S)
    PROVE  Len(q) \in Nat /\ DOMAIN q = 1 .. Len(q) /\ \A i \in DOMAIN q : q[i] \in S
OBVIOUS

\* The elements of its tail, and its head.
LEMMA TailElements ==
    ASSUME NEW S, NEW q \in Seq(S), q # <<>>
    PROVE  /\ Tail(q) \in Seq(S) /\ Head(q) = q[1] /\ 1 \in DOMAIN q
           /\ \A i \in DOMAIN Tail(q) : i + 1 \in DOMAIN q /\ Tail(q)[i] = q[i + 1]
           /\ \A i \in DOMAIN q : i = 1 \/ (i - 1 \in DOMAIN Tail(q) /\ Tail(q)[i - 1] = q[i])
OBVIOUS

\* The elements of a sequence to which another has been added.
LEMMA ConcatElements ==
    ASSUME NEW S, NEW a \in Seq(S), NEW b \in Seq(S)
    PROVE  /\ a \o b \in Seq(S) /\ Len(a) \in Nat /\ Len(b) \in Nat
           /\ Len(a \o b) = Len(a) + Len(b) /\ DOMAIN (a \o b) = 1 .. (Len(a) + Len(b))
           /\ \A i \in 1 .. Len(a) : (a \o b)[i] = a[i]
           /\ \A j \in 1 .. Len(b) : (a \o b)[Len(a) + j] = b[j]
OBVIOUS

\* The elements of a sequence to which one has been added.
LEMMA AppendElements ==
    ASSUME NEW S, NEW q \in Seq(S), NEW e \in S
    PROVE  /\ Append(q, e) \in Seq(S)
           /\ \E i \in DOMAIN Append(q, e) : Append(q, e)[i] = e
           /\ \A i \in DOMAIN q : i \in DOMAIN Append(q, e) /\ Append(q, e)[i] = q[i]
           /\ \A i \in DOMAIN Append(q, e) :
                  Append(q, e)[i] = e \/ (i \in DOMAIN q /\ Append(q, e)[i] = q[i])
<1>1. Append(q, e) \in Seq(S) /\ DOMAIN Append(q, e) = 1 .. (Len(q) + 1)
  OBVIOUS
<1>2. DOMAIN q = 1 .. Len(q) /\ Len(q) \in Nat
  OBVIOUS
<1>3. \A i \in 1 .. (Len(q) + 1) : Append(q, e)[i] = IF i = Len(q) + 1 THEN e ELSE q[i]
  OBVIOUS
<1>4. Len(q) + 1 \in 1 .. (Len(q) + 1)
  BY <1>2
<1> QED BY <1>1, <1>2, <1>3, <1>4

\* The elements of a sequence from which one has been removed.
LEMMA RemoveAtElements ==
    ASSUME NEW S, NEW q \in Seq(S), NEW i \in DOMAIN q
    PROVE  /\ RemoveAt(q, i) \in Seq(S)
           /\ \A k \in DOMAIN RemoveAt(q, i) : \E j \in DOMAIN q : j # i /\ RemoveAt(q, i)[k] = q[j]
<1> DEFINE a == SubSeq(q, 1, i - 1)
           b == SubSeq(q, i + 1, Len(q))
<1>1. a \in Seq(S) /\ \A k \in DOMAIN a : \E j \in DOMAIN q : j # i /\ a[k] = q[j]
  <2>1. a \in Seq(S) /\ \A k \in DOMAIN a : k \in DOMAIN q /\ k # i /\ a[k] = q[k]
    OBVIOUS
  <2> QED BY <2>1
<1>2. b \in Seq(S) /\ \A k \in DOMAIN b : \E j \in DOMAIN q : j # i /\ b[k] = q[j]
  <2>1. b \in Seq(S) /\ \A k \in DOMAIN b : k + i \in DOMAIN q /\ k + i # i /\ b[k] = q[k + i]
    OBVIOUS
  <2> QED BY <2>1
<1>3. RemoveAt(q, i) = a \o b
  BY DEF RemoveAt
<1> HIDE DEF a, b
<1>4. \A k \in DOMAIN (a \o b) :
         (\E j \in DOMAIN a : (a \o b)[k] = a[j]) \/ (\E j \in DOMAIN b : (a \o b)[k] = b[j])
  <2>1. /\ Len(a) \in Nat /\ DOMAIN a = 1 .. Len(a)
        /\ Len(b) \in Nat /\ DOMAIN b = 1 .. Len(b)
        /\ DOMAIN (a \o b) = 1 .. (Len(a) + Len(b))
    BY <1>1, <1>2
  <2>2. \A k \in 1 .. (Len(a) + Len(b)) :
           (a \o b)[k] = IF k <= Len(a) THEN a[k] ELSE b[k - Len(a)]
    BY <1>1, <1>2
  <2> SUFFICES ASSUME NEW k \in 1 .. (Len(a) + Len(b))
               PROVE  (\E j \in 1 .. Len(a) : (a \o b)[k] = a[j])
                      \/ (\E j \in 1 .. Len(b) : (a \o b)[k] = b[j])
    BY <2>1, Zenon
  <2>3. CASE k <= Len(a)
    BY <2>1, <2>2, <2>3
  <2>4. CASE ~ (k <= Len(a))
    <3>1. k - Len(a) \in 1 .. Len(b)
      BY <2>1, <2>4
    <3> QED BY <2>2, <2>4, <3>1
  <2> QED BY <2>3, <2>4
<1>5. a \o b \in Seq(S)
  BY <1>1, <1>2
<1>6. \A k \in DOMAIN (a \o b) : \E j \in DOMAIN q : j # i /\ (a \o b)[k] = q[j]
  <2> SUFFICES ASSUME NEW k \in DOMAIN (a \o b)
               PROVE  \E j \in DOMAIN q : j # i /\ (a \o b)[k] = q[j]
    OBVIOUS
  <2>1. CASE \E j \in DOMAIN a : (a \o b)[k] = a[j]
    BY <1>1, <2>1
  <2>2. CASE \E j \in DOMAIN b : (a \o b)[k] = b[j]
    BY <1>2, <2>2
  <2> QED BY <1>4, <2>1, <2>2
<1> QED BY <1>3, <1>5, <1>6
-----------------------------------------------------------------------------
(* Least and greatest elements.                                            *)

\* A set of naturals that is not empty has a least element.
LEMMA LeastExists ==
    ASSUME NEW S \in SUBSET Nat, S # {}
    PROVE  \E x \in S : \A y \in S : x <= y
<1>1. PICK x \in S : \A y \in S : ~ (<<y, x>> \in OpToRel(<, Nat))
    BY NatLessThanWellFounded, WFMin
<1>2. \A y \in S : ~ (y < x)
    BY <1>1 DEF OpToRel
<1> QED  BY <1>2

\* Min is that element.
LEMMA MinIsLeast ==
    ASSUME NEW S \in SUBSET Nat, S # {}
    PROVE  Min(S) \in S /\ \A y \in S : Min(S) <= y
BY LeastExists DEF Min

\* A bounded set of naturals has a greatest element, which is Max.
LEMMA MaxIsGreatest ==
    ASSUME NEW S \in SUBSET Nat, S # {}, NEW n \in Nat, \A y \in S : y <= n
    PROVE  Max(S) \in S /\ \A y \in S : y <= Max(S)
<1> DEFINE R == {n - y : y \in S}
<1>1. R \in SUBSET Nat /\ R # {}
    <2>1. \A y \in S : n - y \in Nat
        OBVIOUS
    <2> QED  BY <2>1
<1>2. PICK t \in R : \A z \in R : t <= z
    BY <1>1, LeastExists
<1>3. PICK x \in S : t = n - x
    BY <1>2
<1>4. \A y \in S : x >= y
    <2> SUFFICES ASSUME NEW y \in S PROVE x >= y
        OBVIOUS
    <2>1. n - x <= n - y
        BY <1>2, <1>3
    <2> QED  BY <2>1
<1> QED  BY <1>3, <1>4 DEF Max
-----------------------------------------------------------------------------
(* Sequence numbers.                                                       *)

LEMMA HalfOfSpace ==
    /\ SEQNO_SPACE_SIZE \in Nat /\ SEQNO_SPACE_SIZE > 0 /\ SEQNO_SPACE_HALF_SIZE \in Nat
    /\ SEQNO_SPACE_SIZE = 2 * SEQNO_SPACE_HALF_SIZE /\ SEQNO_SPACE_HALF_SIZE > 0
    /\ WinSize \in Nat /\ 0 < WinSize /\ WinSize <= SEQNO_SPACE_HALF_SIZE
    /\ WinSize < SEQNO_SPACE_SIZE
BY SequenceSpaceAssumption, WinSizeAssumption DEF SEQNO_SPACE_HALF_SIZE

LEMMA SnOfType == ASSUME NEW n \in Int PROVE SnOf(n) \in SeqNo
BY SequenceSpaceAssumption DEF SnOf, SeqNo

\* A number is its remainder if it differs from it by a multiple and is in range.
LEMMA RemainderUnique ==
    ASSUME NEW n \in Nat, n > 0, NEW k \in Int, NEW x \in 0 .. (n - 1), NEW y \in Int,
           y = n * k + x
    PROVE  y % n = x
<1>1. PICK j \in Int : y = n * j + (y % n)
    BY y \div n \in Int
<1>2. y % n \in 0 .. (n - 1)
    OBVIOUS
<1> DEFINE e == j - k
<1>3. e \in Int /\ n * e = x - (y % n)
    <2>1. n * e = n * j - n * k
        OBVIOUS
    <2> QED  BY <1>1, <1>2, <2>1
<1> HIDE DEF e
<1>4. n * e < n /\ - n < n * e
    BY <1>2, <1>3
<1>5. e < 1 /\ e > -1
    BY <1>3, <1>4
<1>6. n * e = 0
    BY <1>3, <1>5
<1> QED  BY <1>2, <1>3, <1>6

\* The reduction of a sum.
LEMMA SnOfSum ==
    ASSUME NEW b \in Int, NEW c \in Int PROVE SnOf(SnOf(b) + c) = SnOf(b + c)
<1> DEFINE n == SEQNO_SPACE_SIZE
           x == (b % n) + c
<1>1. n \in Nat /\ n > 0
    BY HalfOfSpace
<1> HIDE DEF n
<1>2. b = n * (b \div n) + (b % n) /\ b \div n \in Int /\ b % n \in 0 .. (n - 1)
    BY <1>1
<1>3. x \in Int /\ x = n * (x \div n) + (x % n) /\ x \div n \in Int /\ x % n \in 0 .. (n - 1)
    <2>1. x \in Int
        BY <1>2
    <2> HIDE DEF x
    <2> QED  BY <1>1, <2>1
<1> DEFINE k == (b \div n) + (x \div n)
<1>4. k \in Int /\ n * k = n * (b \div n) + n * (x \div n)
    BY <1>1, <1>2, <1>3
<1> HIDE DEF k
<1>5. b + c = n * k + (x % n)
    <2>1. x = (b % n) + c
        BY DEF x
    <2> HIDE DEF x
    <2> QED  BY <1>1, <1>2, <1>3, <1>4, <2>1
<1> HIDE DEF x
<1>6. b + c \in Int
    OBVIOUS
<1>7. (b + c) % n = x % n
    BY <1>1, <1>3, <1>4, <1>5, <1>6, RemainderUnique
<1> QED  BY <1>7 DEF SnOf, n, x

\* The distance of two numbers at most half a space apart, and which of them is old.
LEMMA DistanceValue ==
    ASSUME NEW s \in Int, NEW b \in Int, b - SEQNO_SPACE_HALF_SIZE <= s,
           s < b + SEQNO_SPACE_SIZE
    PROVE  GetDistance(SnOf(s), SnOf(b)) = IF b <= s THEN s - b ELSE SEQNO_SPACE_SIZE + s - b
<1> DEFINE n == SEQNO_SPACE_SIZE
           x == SnOf(s) - SnOf(b) + n
           v == IF b <= s THEN s - b ELSE n + s - b
<1>1. n \in Nat /\ n > 0 /\ v \in 0 .. (n - 1)
    BY HalfOfSpace
<1>2. SnOf(s) \in 0 .. (n - 1) /\ SnOf(b) \in 0 .. (n - 1)
    BY SnOfType DEF SeqNo
<1> HIDE DEF n
<1>3. \A y \in Int : \E i \in Int : y = n * i + SnOf(y)
    <2> SUFFICES ASSUME NEW y \in Int PROVE \E i \in Int : y = n * i + SnOf(y)
        OBVIOUS
    <2>1. y \div n \in Int /\ y = n * (y \div n) + (y % n)
        BY <1>1
    <2> QED  BY <2>1 DEF SnOf, n
<1>3a. PICK i \in Int : s = n * i + SnOf(s)
    BY <1>3
<1>3b. PICK j \in Int : b = n * j + SnOf(b)
    BY <1>3
<1>4. PICK k \in Int : x = n * k + v
    <2> DEFINE d == j - i
    <2>1. d \in Int /\ n * d = n * j - n * i
        BY <1>1
    <2>2. n * (d + 1) = n * d + n
        BY <1>1, <1>3
    <2> HIDE DEF d
    <2>b. SnOf(s) \in Int /\ SnOf(b) \in Int /\ n * i \in Int /\ n * j \in Int /\ n * d \in Int
        BY <1>1, <1>2, <2>1
    <2>c. SnOf(s) = s - n * i /\ SnOf(b) = b - n * j
        BY <1>3a, <1>3b, <2>b
    <2>3. x = n * d + (s - b) + n
        BY <1>1, <2>1, <2>b, <2>c
    <2>a. v = IF b <= s THEN s - b ELSE n + s - b
        OBVIOUS
    <2> HIDE DEF x, v
    <2>4. b <= s => x = n * (d + 1) + v /\ d + 1 \in Int
        BY <1>1, <2>1, <2>2, <2>3, <2>a
    <2>5. ~ (b <= s) => x = n * d + v
        BY <1>1, <2>1, <2>3, <2>a
    <2> QED  BY <2>1, <2>4, <2>5
<1>5. x \in Nat /\ x % n = v
    <2>1. x \in Nat
        BY <1>1, <1>2
    <2> HIDE DEF x, v
    <2> QED  BY <1>1, <1>4, <2>1, RemainderUnique
<1>6. UINT16_SIZE \in Nat /\ v < UINT16_SIZE /\ v % UINT16_SIZE = v
    BY <1>1, SequenceSpaceAssumption DEF n
<1> QED  BY <1>5, <1>6 DEF GetDistance, Remainder, ToUInt16, n

-----------------------------------------------------------------------------
(* Enumerations of finite sets by a key.                                   *)

\* A finite set whose elements have distinct keys can be enumerated by them.
LEMMA SortedExists ==
    ASSUME NEW F, IsFiniteSet(F), NEW key \in [F -> Int],
           \A f, g \in F : key[f] = key[g] => f = g
    PROVE  \E q \in [1 .. Cardinality(F) -> F] :
              \A i, j \in 1 .. Cardinality(F) : i < j => key[q[i]] < key[q[j]]
<1> DEFINE n == Cardinality(F)
           Below(f) == {g \in F : key[g] <= key[f]}
           rank == [f \in F |-> Cardinality(Below(f))]
<1>1. n \in Nat
    BY FS_CardinalityType
<1>2. \A f \in F : IsFiniteSet(Below(f)) /\ Cardinality(Below(f)) \in 1 .. n
    <2> SUFFICES ASSUME NEW f \in F
                 PROVE  IsFiniteSet(Below(f)) /\ Cardinality(Below(f)) \in 1 .. n
        OBVIOUS
    <2>1. Below(f) \in SUBSET F /\ f \in Below(f)
        OBVIOUS
    <2> HIDE DEF Below
    <2>2. IsFiniteSet(Below(f)) /\ Cardinality(Below(f)) <= n
        BY <2>1, FS_Subset
    <2>3. Cardinality(Below(f)) \in Nat /\ Cardinality(Below(f)) # 0
        BY <2>1, <2>2, FS_CardinalityType, FS_EmptySet
    <2> QED  BY <1>1, <2>2, <2>3
<1>3. \A f, g \in F : key[f] < key[g] => rank[f] < rank[g]
    <2> SUFFICES ASSUME NEW f \in F, NEW g \in F, key[f] < key[g] PROVE rank[f] < rank[g]
        OBVIOUS
    <2>1. Below(f) \in SUBSET Below(g) /\ g \in Below(g) /\ g \notin Below(f)
        OBVIOUS
    <2> HIDE DEF Below
    <2>2. Cardinality(Below(f)) <= Cardinality(Below(g))
          /\ Cardinality(Below(f)) # Cardinality(Below(g))
        BY <1>2, <2>1, FS_Subset
    <2> QED  BY <1>1, <1>2, <2>2
<1> HIDE DEF Below
<1>4. rank \in [F -> 1 .. n]
    BY <1>2
<1>5. \A f, g \in F : rank[f] = rank[g] => f = g
    <2> SUFFICES ASSUME NEW f \in F, NEW g \in F, rank[f] = rank[g] PROVE f = g
        OBVIOUS
    <2>1. rank[f] \in Nat /\ ~ (rank[f] < rank[g]) /\ ~ (rank[g] < rank[f])
        BY <1>1, <1>4
    <2>2. ~ (key[f] < key[g]) /\ ~ (key[g] < key[f])
        BY <1>3, <2>1
    <2> QED  BY <2>2
<1> HIDE DEF rank
<1>6. rank \in Surjection(F, 1 .. n)
    <2>1. rank \in Injection(F, 1 .. n)
        BY <1>4, <1>5 DEF Injection, IsInjective
    <2>2. IsFiniteSet(1 .. n) /\ Cardinality(1 .. n) = n
        BY <1>1, FS_Interval
    <2> QED  BY <2>1, <2>2, FS_Injection
<1> DEFINE q == [i \in 1 .. n |-> CHOOSE f \in F : rank[f] = i]
<1>7. \A i \in 1 .. n : q[i] \in F /\ rank[q[i]] = i
    BY <1>6 DEF Surjection
<1>8. q \in [1 .. n -> F]
    BY <1>7
<1> HIDE DEF q
<1>9. \A i, j \in 1 .. n : i < j => key[q[i]] < key[q[j]]
    <2> SUFFICES ASSUME NEW i \in 1 .. n, NEW j \in 1 .. n, i < j PROVE key[q[i]] < key[q[j]]
        OBVIOUS
    <2>1. q[i] \in F /\ q[j] \in F /\ rank[q[i]] = i /\ rank[q[j]] = j
        BY <1>7
    <2>2. ~ (key[q[j]] < key[q[i]]) /\ q[i] # q[j]
        BY <1>1, <1>3, <2>1
    <2>3. key[q[i]] \in Int /\ key[q[j]] \in Int /\ key[q[i]] # key[q[j]]
        BY <2>1, <2>2
    <2> QED  BY <2>2, <2>3
<1> QED  BY <1>8, <1>9

\* Such an enumeration names every element.
LEMMA SortedOnto ==
    ASSUME NEW F, IsFiniteSet(F), NEW key \in [F -> Int], NEW q \in [1 .. Cardinality(F) -> F],
           \A i, j \in 1 .. Cardinality(F) : i < j => key[q[i]] < key[q[j]]
    PROVE  \A f \in F : \E i \in 1 .. Cardinality(F) : q[i] = f
<1> DEFINE n == Cardinality(F)
<1>1. n \in Nat
    BY FS_CardinalityType
<1>2. \A i, j \in 1 .. n : q[i] = q[j] => i = j
    <2> SUFFICES ASSUME NEW i \in 1 .. n, NEW j \in 1 .. n, q[i] = q[j] PROVE i = j
        OBVIOUS
    <2>1. key[q[i]] \in Int
        OBVIOUS
    <2>2. ~ (i < j) /\ ~ (j < i)
        BY <2>1
    <2> QED  BY <1>1, <2>2
<1>3. q \in Injection(1 .. n, F)
    BY <1>2 DEF Injection, IsInjective
<1>4. Cardinality(1 .. n) = n
    BY <1>1, FS_Interval
<1>5. q \in Surjection(1 .. n, F)
    BY <1>3, <1>4, FS_Injection
<1> QED  BY <1>5 DEF Surjection

-----------------------------------------------------------------------------
(* The order of the buffer.                                                *)

\* A number and its remainder differ by a multiple.
LEMMA RemainderValue ==
    ASSUME NEW a \in Int
    PROVE  /\ Remainder(a, SEQNO_SPACE_SIZE) \in Int
           /\ \E k \in Int : a = SEQNO_SPACE_SIZE * k + Remainder(a, SEQNO_SPACE_SIZE)
<1> DEFINE n == SEQNO_SPACE_SIZE
<1>1. n \in Nat /\ n > 0
    BY HalfOfSpace
<1> HIDE DEF n
<1>2. \A x \in Int : x = n * (x \div n) + (x % n) /\ x \div n \in Int /\ x % n \in 0 .. (n - 1)
    BY <1>1
<1>3. CASE a >= 0
    <2>1. Remainder(a, n) = a % n
        BY <1>3 DEF Remainder
    <2> QED  BY <1>2, <2>1 DEF n
<1>4. CASE ~ (a >= 0)
    <2> DEFINE x == - a
    <2>1. x \in Int /\ Remainder(a, n) = - (x % n)
        BY <1>4 DEF Remainder
    <2>2. a = - x
        OBVIOUS
    <2> HIDE DEF x
    <2>3. x = n * (x \div n) + (x % n) /\ x \div n \in Int /\ x % n \in 0 .. (n - 1)
        BY <1>2, <2>1
    <2> DEFINE k == - (x \div n)
    <2>4. k \in Int /\ n * k = - (n * (x \div n))
        BY <1>1, <2>3
    <2> HIDE DEF k
    <2>5. a = n * k + (- (x % n))
        BY <1>1, <2>1, <2>2, <2>3, <2>4
    <2> QED  BY <2>1, <2>3, <2>4, <2>5 DEF n
<1> QED  BY <1>3, <1>4

\* What Compare compares.
CompareKey(sn, winStartB) == Remainder(sn - winStartB + SEQNO_SPACE_SIZE, SEQNO_SPACE_SIZE)

\* Different sequence numbers are never equal to Compare, whatever m_winStartB is.
LEMMA CompareKeyInjective ==
    ASSUME NEW w \in Int, NEW x \in SeqNo, NEW y \in SeqNo, CompareKey(x, w) = CompareKey(y, w)
    PROVE  x = y
<1> DEFINE n == SEQNO_SPACE_SIZE
           a == x - w + n
           b == y - w + n
<1>1. n \in Nat /\ n > 0 /\ x \in 0 .. (n - 1) /\ y \in 0 .. (n - 1)
    BY HalfOfSpace DEF SeqNo
<1>2. a \in Int /\ b \in Int /\ a - b = x - y /\ Remainder(a, n) = Remainder(b, n)
    BY <1>1 DEF CompareKey
<1> HIDE DEF n, a, b
<1>3. PICK i \in Int : a = n * i + Remainder(a, n)
    BY <1>2, RemainderValue DEF n
<1>4. PICK j \in Int : b = n * j + Remainder(b, n)
    BY <1>2, RemainderValue DEF n
<1>5. Remainder(a, n) \in Int
    BY <1>2, RemainderValue DEF n
<1> DEFINE d == i - j
<1>6. d \in Int /\ n * d = n * i - n * j /\ n * i \in Int /\ n * j \in Int
    BY <1>1
<1> HIDE DEF d
<1>7. n * d = x - y
    BY <1>1, <1>2, <1>3, <1>4, <1>5, <1>6
<1>8. n * d < n /\ - n < n * d
    BY <1>1, <1>7
<1>9. d < 1 /\ d > -1
    BY <1>1, <1>6, <1>8
<1>10. n * d = 0
    BY <1>1, <1>6, <1>9
<1> QED  BY <1>1, <1>7, <1>10

\* MPDUs, and the recipient's record.
Frames(Ids) == [id : Ids, sn : SeqNo]

RecipientRecord(Ids) ==
    [scoreboard : Window, winStartB : Int, buffered : SUBSET Frames(Ids), lastSn : Int, up : Seq(Ids)]

Distinct(B) == IsFiniteSet(B) /\ \A f, g \in B : f.sn = g.sn => f = g

RecipientOK(rx, Ids) == rx \in RecipientRecord(Ids) /\ Distinct(rx.buffered)

\* Every element of F is in q.
Enumerates(q, F) == \A f \in F : \E i \in 1 .. Cardinality(F) : q[i] = f

\* InOrder is an enumeration by Compare.
LEMMA InOrderIs ==
    ASSUME NEW Ids, NEW F \in SUBSET Frames(Ids), Distinct(F), NEW w \in Int
    PROVE  /\ Cardinality(F) \in Nat
           /\ InOrder(F, w) \in [1 .. Cardinality(F) -> F]
           /\ \A i, j \in 1 .. Cardinality(F) : i < j => Compare(InOrder(F, w)[i], InOrder(F, w)[j], w)
           /\ Enumerates(InOrder(F, w), F)
<1> DEFINE key == [f \in F |-> CompareKey(f.sn, w)]
           n == Cardinality(F)
<1>0. n \in Nat
    BY FS_CardinalityType DEF Distinct
<1>1. \A f \in F : f.sn \in SeqNo /\ CompareKey(f.sn, w) \in Int
    <2> SUFFICES ASSUME NEW f \in F PROVE f.sn \in SeqNo /\ CompareKey(f.sn, w) \in Int
        OBVIOUS
    <2>1. f.sn \in SeqNo
        BY DEF Frames
    <2>2. f.sn - w + SEQNO_SPACE_SIZE \in Int
        BY <2>1, HalfOfSpace DEF SeqNo
    <2> QED  BY <2>1, <2>2, RemainderValue DEF CompareKey
<1>2. key \in [F -> Int]
    BY <1>1
<1>3. \A f, g \in F : key[f] = key[g] => f = g
    BY <1>1, CompareKeyInjective DEF Distinct
<1>4. \A f, g \in F : Compare(f, g, w) <=> key[f] < key[g]
    BY DEF Compare, CompareKey
<1> HIDE DEF key
<1>5. \E q \in [1 .. n -> F] : \A i, j \in 1 .. n : i < j => key[q[i]] < key[q[j]]
    BY <1>2, <1>3, SortedExists DEF Distinct
<1>6. \E q \in [1 .. n -> F] : \A i, j \in 1 .. n : i < j => Compare(q[i], q[j], w)
    BY <1>4, <1>5
<1>7. /\ InOrder(F, w) \in [1 .. n -> F]
      /\ \A i, j \in 1 .. n : i < j => Compare(InOrder(F, w)[i], InOrder(F, w)[j], w)
    BY <1>6 DEF InOrder
<1> DEFINE q == InOrder(F, w)
<1> HIDE DEF q
<1>8. q \in [1 .. n -> F] /\ \A i, j \in 1 .. n : i < j => key[q[i]] < key[q[j]]
    BY <1>4, <1>7 DEF q
<1>9. \A f \in F : \E i \in 1 .. n : q[i] = f
    BY <1>2, <1>8, SortedOnto DEF Distinct
<1>10. Enumerates(InOrder(F, w), F)
    BY <1>9 DEF Enumerates, q
<1> QED  BY <1>0, <1>7, <1>10

-----------------------------------------------------------------------------
(* The record of a recipient keeps its type, whatever it is given.         *)

LEMMA FrameFields ==
    ASSUME NEW Ids, NEW f \in Frames(Ids) PROVE f.id \in Ids /\ f.sn \in SeqNo /\ f.sn \in Int
BY HalfOfSpace DEF Frames, SeqNo

LEMMA RecipientFields ==
    ASSUME NEW Ids, NEW rx, RecipientOK(rx, Ids)
    PROVE  /\ rx.scoreboard \in Window /\ rx.winStartB \in Int /\ rx.buffered \subseteq Frames(Ids)
           /\ rx.lastSn \in Int /\ rx.up \in Seq(Ids)
           /\ IsFiniteSet(rx.buffered) /\ \A f, g \in rx.buffered : f.sn = g.sn => f = g
BY DEF RecipientOK, RecipientRecord, Distinct

\* What MacRxMiddle does with the MPDUs of q: the first is dropped if it is a duplicate.
IsDuplicate(rx, q, retry) == q # <<>> /\ q[1].id \in retry /\ q[1].sn = rx.lastSn
Passed(rx, q, retry) == IF IsDuplicate(rx, q, retry) THEN Tail(q) ELSE q

IdsOf(s) == [i \in DOMAIN s |-> s[i].id]

\* s has been passed up.
ReceiveEffect(rx, p, s) ==
    /\ p.scoreboard = rx.scoreboard /\ p.winStartB = rx.winStartB /\ p.buffered = rx.buffered
    /\ p.up = rx.up \o IdsOf(s)
    /\ p.lastSn = IF s = <<>> THEN rx.lastSn ELSE s[Len(s)].sn

LEMMA ReceiveIs ==
    ASSUME NEW Ids, NEW rx, RecipientOK(rx, Ids), NEW F \in SUBSET Frames(Ids), NEW n \in Nat,
           NEW q \in [1 .. n -> F], NEW retry
    PROVE  /\ RecipientOK(MacRxMiddleReceive(rx, q, retry), Ids)
           /\ ReceiveEffect(rx, MacRxMiddleReceive(rx, q, retry), Passed(rx, q, retry))
           /\ Passed(rx, q, retry) \in Seq(F) /\ IdsOf(Passed(rx, q, retry)) \in Seq(Ids)
           /\ q \in Seq(F) /\ Len(q) = n
<1> DEFINE p == MacRxMiddleReceive(rx, q, retry)
           s == Passed(rx, q, retry)
           t == IdsOf(s)
           sn == IF s = <<>> THEN rx.lastSn ELSE s[Len(s)].sn
<1>1. q \in Seq(F) /\ Len(q) = n
    OBVIOUS
<1>2. s \in Seq(F)
    BY <1>1, TailElements DEF Passed, IsDuplicate
<1>3. p = [rx EXCEPT !.up = @ \o t, !.lastSn = sn]
    BY RecipientFields DEF MacRxMiddleReceive, Passed, IsDuplicate, IdsOf, RecipientOK, RecipientRecord
<1> HIDE DEF s
<1>4. t \in Seq(Ids)
    <2>1. \A i \in DOMAIN s : s[i].id \in Ids
        BY <1>2, FrameFields
    <2>2. Len(s) \in Nat /\ DOMAIN s = 1 .. Len(s)
        BY <1>2, SeqElements
    <2> QED  BY <2>1, <2>2 DEF IdsOf
<1>5. sn \in Int
    <2>1. s # <<>> => Len(s) \in DOMAIN s
        BY <1>2, SeqElements
    <2>2. s # <<>> => s[Len(s)].sn \in Int
        BY <1>2, <2>1, FrameFields
    <2> QED  BY <2>2, RecipientFields
<1> DEFINE u == rx.up \o t
<1>6. u \in Seq(Ids)
    BY <1>4, RecipientFields
<1>7. p = [rx EXCEPT !.up = u, !.lastSn = sn]
    BY <1>3 DEF RecipientOK, RecipientRecord
<1> HIDE DEF p, t, sn, u
<1>8. p \in RecipientRecord(Ids) /\ p.scoreboard = rx.scoreboard /\ p.winStartB = rx.winStartB
      /\ p.buffered = rx.buffered /\ p.up = u /\ p.lastSn = sn
    BY <1>5, <1>6, <1>7 DEF RecipientOK, RecipientRecord
<1>9. RecipientOK(p, Ids)
    BY <1>8 DEF RecipientOK
<1> QED  BY <1>1, <1>2, <1>4, <1>8, <1>9 DEF p, s, t, sn, u, ReceiveEffect

LEMMA ReceiveTyped ==
    ASSUME NEW Ids, NEW rx, RecipientOK(rx, Ids), NEW F \in SUBSET Frames(Ids), NEW n \in Nat,
           NEW q \in [1 .. n -> F], NEW retry
    PROVE  /\ RecipientOK(MacRxMiddleReceive(rx, q, retry), Ids)
           /\ MacRxMiddleReceive(rx, q, retry).scoreboard = rx.scoreboard
           /\ MacRxMiddleReceive(rx, q, retry).winStartB = rx.winStartB
           /\ MacRxMiddleReceive(rx, q, retry).buffered = rx.buffered
<1>1. /\ RecipientOK(MacRxMiddleReceive(rx, q, retry), Ids)
      /\ ReceiveEffect(rx, MacRxMiddleReceive(rx, q, retry), Passed(rx, q, retry))
    BY ReceiveIs, Zenon
<1> QED  BY <1>1 DEF ReceiveEffect

\* MPDUs are taken out of the buffer and passed up in order.
Taken(rx, D, w) == [rx EXCEPT !.buffered = @ \ D, !.winStartB = w]

Pass(rx, D, w, retry) ==
    MacRxMiddleReceive(Taken(rx, D, w), InOrder(D, rx.winStartB), retry)

LEMMA PassTyped ==
    ASSUME NEW Ids, NEW rx, RecipientOK(rx, Ids), NEW D \in SUBSET rx.buffered, NEW w \in Int, NEW retry
    PROVE  /\ RecipientOK(Taken(rx, D, w), Ids)
           /\ Taken(rx, D, w).up = rx.up /\ Taken(rx, D, w).lastSn = rx.lastSn
           /\ RecipientOK(Pass(rx, D, w, retry), Ids)
           /\ Pass(rx, D, w, retry).scoreboard = rx.scoreboard
           /\ Pass(rx, D, w, retry).winStartB = w
           /\ Pass(rx, D, w, retry).buffered = rx.buffered \ D
           /\ D \in SUBSET Frames(Ids) /\ Distinct(D)
<1> DEFINE r1 == Taken(rx, D, w)
           B == rx.buffered \ D
<1>1. D \in SUBSET Frames(Ids) /\ Distinct(D)
    BY RecipientFields, FS_Subset DEF Distinct
<1>2. B \in SUBSET Frames(Ids) /\ Distinct(B)
    BY RecipientFields, FS_Subset DEF Distinct
<1>3. r1 = [rx EXCEPT !.buffered = B, !.winStartB = w]
    BY DEF Taken, RecipientOK, RecipientRecord
<1> HIDE DEF r1, B
<1>4. r1 \in RecipientRecord(Ids) /\ r1.buffered = B /\ r1.winStartB = w /\ r1.up = rx.up
      /\ r1.lastSn = rx.lastSn /\ r1.scoreboard = rx.scoreboard
    BY <1>2, <1>3 DEF RecipientOK, RecipientRecord
<1>5. RecipientOK(r1, Ids)
    BY <1>2, <1>4 DEF RecipientOK
<1> DEFINE n == Cardinality(D)
           q == InOrder(D, rx.winStartB)
<1>6. n \in Nat /\ q \in [1 .. n -> D]
    BY <1>1, InOrderIs, RecipientFields
<1>7. Pass(rx, D, w, retry) = MacRxMiddleReceive(r1, q, retry)
    BY DEF Pass, r1
<1> HIDE DEF n, q
<1> DEFINE p == MacRxMiddleReceive(r1, q, retry)
<1>8. /\ RecipientOK(p, Ids) /\ p.scoreboard = r1.scoreboard /\ p.winStartB = r1.winStartB
      /\ p.buffered = r1.buffered
    BY <1>1, <1>5, <1>6, ReceiveTyped
<1> HIDE DEF p
<1> QED  BY <1>1, <1>4, <1>5, <1>7, <1>8 DEF r1, B, p

\* What the two functions pass up.
FirstRun(rx) ==
    {f \in rx.buffered : \A k \in 0 .. GetDistance(f.sn, rx.winStartB) : Holds(rx, k)}

AfterRun(rx) ==
    IF FirstRun(rx) = {} THEN rx.winStartB ELSE SnOf(rx.winStartB + Cardinality(FirstRun(rx)))

IsBelow(rx, newWinStartB, f) ==
    GetDistance(f.sn, rx.winStartB) < GetDistance(newWinStartB, rx.winStartB)

Lower(rx, newWinStartB) ==
    {f \in rx.buffered :
        /\ IsBelow(rx, newWinStartB, f)
        /\ \A g \in rx.buffered : Compare(g, f, rx.winStartB) => IsBelow(rx, newWinStartB, g)}

LEMMA UntilFirstLostTyped ==
    ASSUME NEW Ids, NEW rx, RecipientOK(rx, Ids), NEW retry
    PROVE  /\ PassBufferedMpdusUntilFirstLost(rx, retry) = Pass(rx, FirstRun(rx), AfterRun(rx), retry)
           /\ FirstRun(rx) \in SUBSET rx.buffered /\ AfterRun(rx) \in Int
           /\ RecipientOK(PassBufferedMpdusUntilFirstLost(rx, retry), Ids)
<1> DEFINE D == FirstRun(rx)
           w == AfterRun(rx)
<1>1. D \in SUBSET rx.buffered
    BY DEF FirstRun
<1>2. w \in Int
    <2>1. Cardinality(D) \in Nat
        BY <1>1, RecipientFields, FS_Subset, FS_CardinalityType
    <2>2. SnOf(rx.winStartB + Cardinality(D)) \in Int
        BY <2>1, RecipientFields, SnOfType, HalfOfSpace DEF SeqNo
    <2> QED  BY <2>2, RecipientFields DEF AfterRun
<1>3. PassBufferedMpdusUntilFirstLost(rx, retry)
      = MacRxMiddleReceive([rx EXCEPT !.buffered = @ \ D,
                                      !.winStartB = IF D = {} THEN @ ELSE SnOf(@ + Cardinality(D))],
                           InOrder(D, rx.winStartB), retry)
    BY DEF PassBufferedMpdusUntilFirstLost, FirstRun
<1>4. [rx EXCEPT !.buffered = @ \ D, !.winStartB = IF D = {} THEN @ ELSE SnOf(@ + Cardinality(D))]
      = [rx EXCEPT !.buffered = @ \ D, !.winStartB = w]
    BY DEF AfterRun, RecipientOK, RecipientRecord
<1>5. PassBufferedMpdusUntilFirstLost(rx, retry) = Pass(rx, D, w, retry)
    BY <1>3, <1>4 DEF Pass, Taken
<1>6. RecipientOK(Pass(rx, D, w, retry), Ids)
    BY <1>1, <1>2, PassTyped
<1> QED  BY <1>1, <1>2, <1>5, <1>6

LEMMA LessThanTyped ==
    ASSUME NEW Ids, NEW rx, RecipientOK(rx, Ids), NEW w \in Int, NEW retry
    PROVE  /\ PassBufferedMpdusWithSeqNumberLessThan(rx, w, retry) = Pass(rx, Lower(rx, w), w, retry)
           /\ Lower(rx, w) \in SUBSET rx.buffered
           /\ RecipientOK(PassBufferedMpdusWithSeqNumberLessThan(rx, w, retry), Ids)
<1> DEFINE D == Lower(rx, w)
<1>1. D \in SUBSET rx.buffered
    BY DEF Lower
<1>2. PassBufferedMpdusWithSeqNumberLessThan(rx, w, retry) = Pass(rx, D, w, retry)
    BY DEF PassBufferedMpdusWithSeqNumberLessThan, Lower, IsBelow, Pass, Taken
<1>3. RecipientOK(Pass(rx, D, w, retry), Ids)
    BY <1>1, PassTyped
<1> QED  BY <1>1, <1>2, <1>3

LEMMA DistanceType ==
    ASSUME NEW a \in Int, NEW b \in Int PROVE GetDistance(a, b) \in Nat /\ ToUInt16(a) \in Nat
<1>1. UINT16_SIZE \in Nat \ {0}
    BY SequenceSpaceAssumption
<1>2. a - b + SEQNO_SPACE_SIZE \in Int
    BY HalfOfSpace
<1>3. Remainder(a - b + SEQNO_SPACE_SIZE, SEQNO_SPACE_SIZE) \in Int
    BY <1>2, RemainderValue
<1> QED  BY <1>1, <1>3 DEF GetDistance, ToUInt16

LEMMA ScoreboardTyped ==
    ASSUME NEW w \in Window, NEW sn \in SeqNo
    PROVE  ScoreboardReceived(w, sn) \in Window /\ ScoreboardBar(w, sn) \in Window
<1> DEFINE d == GetDistance(sn, w.start)
<1>1. w.start \in SeqNo /\ w.start \in Int /\ sn \in Int /\ w.marked \subseteq 0 .. (WinSize - 1)
    BY HalfOfSpace DEF Window, SeqNo
<1>2. d \in Nat
    BY <1>1, DistanceType
<1>3. \A v \in Window, e \in 0 .. (WinSize - 1) : WindowMark(v, e) \in Window
    BY DEF WindowMark, Window
<1>4. \A c \in Int : WindowAdvance(w, c) \in Window
    <2> SUFFICES ASSUME NEW c \in Int PROVE WindowAdvance(w, c) \in Window
        OBVIOUS
    <2>1. SnOf(w.start + c) \in SeqNo
        BY <1>1, SnOfType
    <2> QED  BY <2>1 DEF WindowAdvance, Window
<1> HIDE DEF d
<1>5. ScoreboardBar(w, sn) \in Window
    BY <1>2, <1>4 DEF ScoreboardBar, d
<1>6. ScoreboardReceived(w, sn) \in Window
    <2>1. d < WinSize => d \in 0 .. (WinSize - 1)
        BY <1>2, HalfOfSpace
    <2>2. d - WinSize + 1 \in Int /\ WinSize - 1 \in 0 .. (WinSize - 1)
        BY <1>2, HalfOfSpace
    <2> QED  BY <1>3, <1>4, <2>1, <2>2 DEF ScoreboardReceived, d
<1> QED  BY <1>5, <1>6

\* The scoreboard is replaced.
LEMMA ScoreTyped ==
    ASSUME NEW Ids, NEW rx, RecipientOK(rx, Ids), NEW w \in Window
    PROVE  LET p == [rx EXCEPT !.scoreboard = w]
           IN  /\ RecipientOK(p, Ids) /\ p.scoreboard = w /\ p.winStartB = rx.winStartB
               /\ p.buffered = rx.buffered /\ p.up = rx.up /\ p.lastSn = rx.lastSn
BY DEF RecipientOK, RecipientRecord

LEMMA StoreTyped ==
    ASSUME NEW Ids, NEW rx, RecipientOK(rx, Ids), NEW f \in Frames(Ids)
    PROVE  /\ RecipientOK(Store(rx, f), Ids)
           /\ Store(rx, f).scoreboard = rx.scoreboard /\ Store(rx, f).winStartB = rx.winStartB
           /\ Store(rx, f).up = rx.up /\ Store(rx, f).lastSn = rx.lastSn
           /\ Store(rx, f).buffered
              = IF \E g \in rx.buffered : g.sn = f.sn THEN rx.buffered ELSE rx.buffered \union {f}
<1>1. CASE \E g \in rx.buffered : g.sn = f.sn
    BY <1>1 DEF Store
<1>2. CASE ~ (\E g \in rx.buffered : g.sn = f.sn)
    <2> DEFINE B == rx.buffered \union {f}
    <2>1. B \in SUBSET Frames(Ids) /\ Distinct(B)
        BY <1>2, RecipientFields, FS_AddElement DEF Distinct
    <2>2. Store(rx, f) = [rx EXCEPT !.buffered = B]
        BY <1>2 DEF Store, RecipientOK, RecipientRecord
    <2> HIDE DEF B
    <2>3. /\ Store(rx, f) \in RecipientRecord(Ids) /\ Store(rx, f).buffered = B
          /\ Store(rx, f).scoreboard = rx.scoreboard /\ Store(rx, f).winStartB = rx.winStartB
          /\ Store(rx, f).up = rx.up /\ Store(rx, f).lastSn = rx.lastSn
        BY <2>1, <2>2 DEF RecipientOK, RecipientRecord
    <2> QED  BY <1>2, <2>1, <2>3 DEF RecipientOK, B
<1> QED  BY <1>1, <1>2

\* Both functions, one after the other.
PassUpTo(rx, w, retry) ==
    PassBufferedMpdusUntilFirstLost(PassBufferedMpdusWithSeqNumberLessThan(rx, w, retry), retry)

LEMMA PassUpToTyped ==
    ASSUME NEW Ids, NEW rx, RecipientOK(rx, Ids), NEW w \in Int, NEW retry
    PROVE  RecipientOK(PassUpTo(rx, w, retry), Ids)
BY LessThanTyped, UntilFirstLostTyped, Zenon DEF PassUpTo

\* The operations of the recipient.
LEMMA NotifyReceivedMpduTyped ==
    ASSUME NEW Ids, NEW rx, RecipientOK(rx, Ids), NEW f \in Frames(Ids), NEW retry
    PROVE  RecipientOK(NotifyReceivedMpdu(rx, f, retry), Ids)
<1> DEFINE w == ScoreboardReceived(rx.scoreboard, f.sn)
           r1 == [rx EXCEPT !.scoreboard = w]
           s == Store(r1, f)
           b == ToUInt16(f.sn - WinSize + 1)
<1>1. w \in Window
    BY FrameFields, RecipientFields, ScoreboardTyped
<1> HIDE DEF w
<1>2. RecipientOK(r1, Ids) /\ r1.winStartB = rx.winStartB
    BY <1>1, ScoreTyped, Zenon
<1>3. RecipientOK([rx EXCEPT !.scoreboard = ScoreboardReceived(@, f.sn)], Ids)
      /\ [rx EXCEPT !.scoreboard = ScoreboardReceived(@, f.sn)] = r1
    BY <1>2 DEF w, RecipientOK, RecipientRecord
<1> HIDE DEF r1
<1>4. RecipientOK(s, Ids)
    BY <1>2, StoreTyped
<1>5. b \in Int
    BY FrameFields, HalfOfSpace, DistanceType
<1> HIDE DEF s, b
<1>6. /\ RecipientOK(PassBufferedMpdusUntilFirstLost(s, retry), Ids)
      /\ RecipientOK(PassUpTo(s, b, retry), Ids)
    BY <1>4, <1>5, UntilFirstLostTyped, PassUpToTyped
<1> QED  BY <1>2, <1>3, <1>6 DEF NotifyReceivedMpdu, PassUpTo, s, b

LEMMA FlushTyped ==
    ASSUME NEW Ids, NEW rx, RecipientOK(rx, Ids), NEW retry
    PROVE  RecipientOK(Flush(rx, retry), Ids)
<1>1. rx.scoreboard.start \in Int
    BY RecipientFields, HalfOfSpace DEF Window, SeqNo
<1> QED  BY <1>1, PassUpToTyped DEF Flush, PassUpTo

LEMMA NewRecipientTyped ==
    ASSUME NEW Ids, NEW start \in SeqNo, NEW lastSn \in Int, NEW up \in Seq(Ids)
    PROVE  RecipientOK(NewRecipient(start, lastSn, up), Ids)
<1>1. start \in Int /\ IsFiniteSet({})
    BY HalfOfSpace, FS_EmptySet DEF SeqNo
<1> QED  BY <1>1 DEF NewRecipient, RecipientOK, RecipientRecord, Distinct, WindowInit, Window

\* An MPDU that is not buffered goes to MacRxMiddle.
LEMMA ReceiveOneTyped ==
    ASSUME NEW Ids, NEW rx, RecipientOK(rx, Ids), NEW f \in Frames(Ids), NEW retry
    PROVE  RecipientOK(MacRxMiddleReceive(rx, <<f>>, retry), Ids)
<1> DEFINE q == <<f>>
           F == {f}
<1>1. q \in [1 .. 1 -> F] /\ F \in SUBSET Frames(Ids)
    OBVIOUS
<1> HIDE DEF q, F
<1>2. RecipientOK(MacRxMiddleReceive(rx, q, retry), Ids)
    BY <1>1, ReceiveTyped
<1> QED  BY <1>2 DEF q

-----------------------------------------------------------------------------
(* The buffer seen through unreduced numbers: num gives each MSDU the      *)
(* number its sequence number is the reduction of.                         *)

\* Numbers less than the space apart have different reductions.
LEMMA SnOfInjective ==
    ASSUME NEW a \in Int, NEW b \in Int, SnOf(a) = SnOf(b),
           a < b + SEQNO_SPACE_SIZE, b < a + SEQNO_SPACE_SIZE
    PROVE  a = b
<1>1. \A s, t \in Int : t <= s /\ s < t + SEQNO_SPACE_SIZE
                        => GetDistance(SnOf(s), SnOf(t)) = s - t
    BY DistanceValue, HalfOfSpace
<1>2. GetDistance(SnOf(a), SnOf(a)) = 0
    BY <1>1, HalfOfSpace
<1>3. CASE a <= b
    BY <1>1, <1>2, <1>3
<1>4. CASE b <= a
    BY <1>1, <1>2, <1>4
<1> QED  BY <1>3, <1>4

\* The window starts at W, and the MPDUs buffered are those of a space from W on.
BufferAt(rx, num, W) ==
    /\ rx.winStartB = SnOf(W)
    /\ \A f \in rx.buffered : /\ f.sn = SnOf(num[f.id]) /\ num[f.id] \in Int
                              /\ W <= num[f.id] /\ num[f.id] < W + SEQNO_SPACE_SIZE

\* Distances from the start of the window, and the order of the buffer.
LEMMA BufferDistance ==
    ASSUME NEW rx, NEW num, NEW W \in Int, BufferAt(rx, num, W)
    PROVE  /\ \A f \in rx.buffered : GetDistance(f.sn, rx.winStartB) = num[f.id] - W
           /\ \A f, g \in rx.buffered : Compare(f, g, rx.winStartB) <=> num[f.id] < num[g.id]
<1>1. \A f \in rx.buffered : GetDistance(f.sn, rx.winStartB) = num[f.id] - W
    <2> SUFFICES ASSUME NEW f \in rx.buffered
                 PROVE  GetDistance(f.sn, rx.winStartB) = num[f.id] - W
        OBVIOUS
    <2>1. /\ f.sn = SnOf(num[f.id]) /\ num[f.id] \in Int /\ rx.winStartB = SnOf(W)
          /\ W <= num[f.id] /\ num[f.id] < W + SEQNO_SPACE_SIZE
        BY DEF BufferAt
    <2>2. PICK n \in Int : n = num[f.id]
        BY <2>1
    <2>3. W - SEQNO_SPACE_HALF_SIZE <= n
        BY <2>1, <2>2, HalfOfSpace
    <2>4. GetDistance(SnOf(n), SnOf(W)) = n - W
        BY <2>1, <2>2, <2>3, DistanceValue
    <2> QED  BY <2>1, <2>2, <2>4
<1>2. \A f \in rx.buffered : CompareKey(f.sn, rx.winStartB) = num[f.id] - W
    <2> SUFFICES ASSUME NEW f \in rx.buffered
                 PROVE  CompareKey(f.sn, rx.winStartB) = GetDistance(f.sn, rx.winStartB)
        BY <1>1
    <2>1. f.sn \in SeqNo /\ rx.winStartB \in SeqNo
        BY SnOfType DEF BufferAt
    <2> DEFINE a == f.sn - rx.winStartB + SEQNO_SPACE_SIZE
    <2>2. a \in Nat
        BY <2>1, HalfOfSpace DEF SeqNo
    <2> HIDE DEF a
    <2>3. a % SEQNO_SPACE_SIZE \in 0 .. (SEQNO_SPACE_SIZE - 1)
        BY <2>2, HalfOfSpace
    <2>4. (a % SEQNO_SPACE_SIZE) % UINT16_SIZE = a % SEQNO_SPACE_SIZE
        <3>1. \A x \in 0 .. (SEQNO_SPACE_SIZE - 1) : x % UINT16_SIZE = x
            BY SequenceSpaceAssumption
        <3> QED  BY <2>3, <3>1
    <2>5. Remainder(a, SEQNO_SPACE_SIZE) = a % SEQNO_SPACE_SIZE
        BY <2>2 DEF Remainder
    <2> QED  BY <2>4, <2>5 DEF CompareKey, GetDistance, ToUInt16, a
<1>3. \A f, g \in rx.buffered : Compare(f, g, rx.winStartB) <=> num[f.id] < num[g.id]
    <2> SUFFICES ASSUME NEW f \in rx.buffered, NEW g \in rx.buffered
                 PROVE  Compare(f, g, rx.winStartB) <=> num[f.id] < num[g.id]
        OBVIOUS
    <2>1. Compare(f, g, rx.winStartB)
          <=> CompareKey(f.sn, rx.winStartB) < CompareKey(g.sn, rx.winStartB)
        BY DEF Compare, CompareKey
    <2>2. num[f.id] \in Int /\ num[g.id] \in Int
        BY DEF BufferAt
    <2> QED  BY <1>2, <2>1, <2>2
<1> QED  BY <1>1, <1>3

\* Whether the MPDU at a distance from m_winStartB is buffered.
LEMMA HoldsIs ==
    ASSUME NEW rx, NEW num, NEW W \in Int, BufferAt(rx, num, W), NEW k \in Nat,
           k < SEQNO_SPACE_SIZE
    PROVE  Holds(rx, k) <=> \E f \in rx.buffered : num[f.id] = W + k
<1>1. (IF k = 0 THEN rx.winStartB ELSE SnOf(rx.winStartB + k)) = SnOf(W + k)
    <2>1. rx.winStartB = SnOf(W) /\ SnOf(SnOf(W) + k) = SnOf(W + k)
        BY SnOfSum DEF BufferAt
    <2>2. k = 0 => W + k = W
        OBVIOUS
    <2> QED  BY <2>1, <2>2
<1>2. \A f \in rx.buffered : f.sn = SnOf(W + k) <=> num[f.id] = W + k
    <2> SUFFICES ASSUME NEW f \in rx.buffered PROVE f.sn = SnOf(W + k) <=> num[f.id] = W + k
        OBVIOUS
    <2>1. f.sn = SnOf(num[f.id]) /\ num[f.id] \in Int /\ W <= num[f.id]
          /\ num[f.id] < W + SEQNO_SPACE_SIZE
        BY DEF BufferAt
    <2>2. PICK n \in Int : n = num[f.id]
        BY <2>1
    <2>3. n < W + k + SEQNO_SPACE_SIZE /\ W + k < n + SEQNO_SPACE_SIZE /\ W + k \in Int
        BY <2>1, <2>2, HalfOfSpace
    <2>4. SnOf(n) = SnOf(W + k) => n = W + k
        BY <2>3, SnOfInjective
    <2> QED  BY <2>1, <2>2, <2>4
<1> QED  BY <1>1, <1>2 DEF Holds

\* Keys that leave no gap are counted by the set.
LEMMA RunLength ==
    ASSUME NEW F, IsFiniteSet(F), NEW key \in [F -> Nat], NEW n \in Nat,
           \A f, g \in F : key[f] = key[g] => f = g,
           \A f \in F : key[f] < n,
           \A f \in F, k \in Nat : k <= key[f] => \E g \in F : key[g] = k
    PROVE  /\ Cardinality(F) \in Nat
           /\ \A f \in F : key[f] < Cardinality(F)
           /\ \A k \in Nat : k < Cardinality(F) => \E f \in F : key[f] = k
<1> DEFINE K == {key[f] : f \in F}
<1>1. PICK m \in Nat : /\ \A f \in F : key[f] < m
                       /\ \A k \in Nat : k < m => \E f \in F : key[f] = k
    <2>1. CASE F = {}
        BY <2>1
    <2>2. CASE F # {}
        <3>1. K \in SUBSET Nat /\ K # {} /\ \A y \in K : y <= n
            BY <2>2
        <3>2. PICK x \in K : \A y \in K : y <= x
            <4> HIDE DEF K
            <4> QED  BY <3>1, MaxIsGreatest
        <3>3. PICK e \in F : key[e] = x
            BY <3>2
        <3>4. x \in Nat /\ x + 1 \in Nat
            BY <3>3
        <3>5. \A f \in F : key[f] < x + 1
            <4> SUFFICES ASSUME NEW f \in F PROVE key[f] < x + 1
                OBVIOUS
            <4>1. key[f] \in K /\ key[f] \in Nat
                OBVIOUS
            <4> QED  BY <3>2, <3>4, <4>1
        <3>6. \A k \in Nat : k < x + 1 => \E f \in F : key[f] = k
            <4> SUFFICES ASSUME NEW k \in Nat, k < x + 1 PROVE \E f \in F : key[f] = k
                OBVIOUS
            <4>1. k <= key[e]
                BY <3>3, <3>4
            <4> QED  BY <4>1
        <3> QED  BY <3>4, <3>5, <3>6
    <2> QED  BY <2>1, <2>2
<1> DEFINE T == 0 .. (m - 1)
<1>2. key \in Surjection(F, T) /\ key \in Injection(F, T)
    <2>1. \A f \in F : key[f] \in T
        BY <1>1
    <2>2. key \in [F -> T]
        BY <2>1
    <2>3. \A t \in T : \E f \in F : key[f] = t
        BY <1>1
    <2> HIDE DEF T
    <2> QED  BY <2>2, <2>3 DEF Surjection, Injection, IsInjective
<1>3. Cardinality(T) = m
    BY <1>1, FS_Interval
<1>4. Cardinality(F) = m
    <2> HIDE DEF T
    <2> QED  BY <1>2, <1>3, FS_Surjection
<1> QED  BY <1>1, <1>4

\* PassBufferedMpdusUntilFirstLost passes the MPDUs below the first number that is
\* missing, and the window starts there.
LEMMA FirstRunIs ==
    ASSUME NEW Ids, NEW rx, RecipientOK(rx, Ids), NEW num, NEW W \in Int, BufferAt(rx, num, W)
    PROVE  \E m \in Nat :
              /\ m = Cardinality(FirstRun(rx))
              /\ FirstRun(rx) = {f \in rx.buffered : num[f.id] < W + m}
              /\ \A f \in rx.buffered : num[f.id] # W + m
              /\ \A k \in Nat : k < m => \E f \in rx.buffered : num[f.id] = W + k
              /\ AfterRun(rx) = SnOf(W + m)
<1> DEFINE B == rx.buffered
           D == FirstRun(rx)
           key == [f \in D |-> num[f.id] - W]
           m == Cardinality(D)
<1>1. /\ \A f \in B : /\ num[f.id] \in Int /\ num[f.id] - W \in Nat
                      /\ num[f.id] - W < SEQNO_SPACE_SIZE /\ f.sn = SnOf(num[f.id])
      /\ \A f, g \in B : f.sn = g.sn => f = g
      /\ IsFiniteSet(B)
    <2>1. \A f \in B : /\ num[f.id] \in Int /\ num[f.id] - W \in Nat
                       /\ num[f.id] - W < SEQNO_SPACE_SIZE /\ f.sn = SnOf(num[f.id])
        BY HalfOfSpace DEF BufferAt
    <2> QED  BY <2>1, RecipientFields
<1>2. \A f \in B : f \in D <=> \A k \in 0 .. (num[f.id] - W) : \E g \in B : num[g.id] = W + k
    <2> SUFFICES ASSUME NEW f \in B
                 PROVE  f \in D <=> \A k \in 0 .. (num[f.id] - W) : \E g \in B : num[g.id] = W + k
        OBVIOUS
    <2>1. f \in D <=> \A k \in 0 .. (num[f.id] - W) : Holds(rx, k)
        <3>1. GetDistance(f.sn, rx.winStartB) = num[f.id] - W
            BY BufferDistance
        <3> QED  BY <3>1 DEF FirstRun
    <2>2. \A k \in 0 .. (num[f.id] - W) : Holds(rx, k) <=> \E g \in B : num[g.id] = W + k
        <3> SUFFICES ASSUME NEW k \in 0 .. (num[f.id] - W)
                     PROVE  Holds(rx, k) <=> \E g \in B : num[g.id] = W + k
            OBVIOUS
        <3>1. k \in Nat /\ k < SEQNO_SPACE_SIZE
            BY <1>1, HalfOfSpace
        <3> QED  BY <3>1, HoldsIs
    <2> QED  BY <2>1, <2>2
<1>3. D \in SUBSET B /\ IsFiniteSet(D)
    BY <1>1, FS_Subset DEF FirstRun
<1> HIDE DEF D
<1>4. key \in [D -> Nat]
    BY <1>1, <1>3
<1>5. \A f, g \in D : key[f] = key[g] => f = g
    <2> SUFFICES ASSUME NEW f \in D, NEW g \in D, key[f] = key[g] PROVE f = g
        OBVIOUS
    <2>1. f \in B /\ g \in B /\ num[f.id] - W = num[g.id] - W
        BY <1>3
    <2>2. num[f.id] = num[g.id]
        BY <1>1, <2>1
    <2> QED  BY <1>1, <2>1, <2>2
<1>6. \A f \in D : key[f] < SEQNO_SPACE_SIZE /\ key[f] = num[f.id] - W
    BY <1>1, <1>3
<1> HIDE DEF B
<1>7. \A f \in D, k \in Nat : k <= key[f] => \E g \in D : key[g] = k
    <2> SUFFICES ASSUME NEW f \in D, NEW k \in Nat, k <= key[f] PROVE \E g \in D : key[g] = k
        OBVIOUS
    <2>1. f \in B /\ k \in 0 .. (num[f.id] - W)
        BY <1>1, <1>3, <1>6
    <2>2. PICK g \in B : num[g.id] = W + k
        BY <1>2, <2>1
    <2>3. num[g.id] - W = k
        BY <2>2
    <2>4. \A l \in 0 .. (num[g.id] - W) : l \in 0 .. (num[f.id] - W)
        BY <1>1, <2>1, <2>3
    <2>5. g \in D
        BY <1>2, <2>1, <2>4
    <2> QED  BY <1>6, <2>3, <2>5
<1> HIDE DEF key
<1>8. /\ m \in Nat
      /\ \A f \in D : key[f] < m
      /\ \A k \in Nat : k < m => \E f \in D : key[f] = k
    <2>1. SEQNO_SPACE_SIZE \in Nat
        BY HalfOfSpace
    <2>2. \A f \in D : key[f] < SEQNO_SPACE_SIZE
        BY <1>6
    <2> QED  BY <1>3, <1>4, <1>5, <1>7, <2>1, <2>2, RunLength
<1> HIDE DEF m
<1>9. \A k \in Nat : k < m => \E f \in B : num[f.id] = W + k
    <2> SUFFICES ASSUME NEW k \in Nat, k < m PROVE \E f \in B : num[f.id] = W + k
        OBVIOUS
    <2>1. PICK f \in D : key[f] = k
        BY <1>8
    <2>2. f \in B /\ num[f.id] - W = k
        BY <1>3, <1>6, <2>1
    <2> QED  BY <1>1, <2>2
<1>10. \A f \in B : f \in D <=> num[f.id] < W + m
    <2> SUFFICES ASSUME NEW f \in B PROVE f \in D <=> num[f.id] < W + m
        OBVIOUS
    <2>1. f \in D => num[f.id] < W + m
        BY <1>1, <1>6, <1>8
    <2>2. ASSUME num[f.id] < W + m PROVE f \in D
        <3>1. \A k \in 0 .. (num[f.id] - W) : k \in Nat /\ k < m
            BY <1>1, <1>8, <2>2
        <3> QED  BY <1>2, <1>9, <3>1
    <2> QED  BY <2>1, <2>2
<1>11. \A f \in B : num[f.id] # W + m
    <2> SUFFICES ASSUME NEW f \in B, num[f.id] = W + m PROVE FALSE
        OBVIOUS
    <2>1. \A k \in 0 .. (num[f.id] - W) : \E g \in B : num[g.id] = W + k
        <3> SUFFICES ASSUME NEW k \in 0 .. (num[f.id] - W)
                     PROVE  \E g \in B : num[g.id] = W + k
            OBVIOUS
        <3>1. k \in Nat /\ (k < m \/ k = m)
            BY <1>8
        <3> QED  BY <1>9, <3>1
    <2>2. f \in D
        BY <1>2, <2>1
    <2> QED  BY <1>8, <1>10, <2>2
<1>12. AfterRun(rx) = SnOf(W + m)
    <2>1. rx.winStartB = SnOf(W) /\ SnOf(SnOf(W) + m) = SnOf(W + m)
        BY <1>8, SnOfSum DEF BufferAt
    <2>2. D = {} => W + m = W
        BY FS_EmptySet DEF m
    <2>3. AfterRun(rx) = IF D = {} THEN rx.winStartB ELSE SnOf(rx.winStartB + m)
        BY DEF AfterRun, D, m
    <2> QED  BY <2>1, <2>2, <2>3
<1>13. D = {f \in B : num[f.id] < W + m}
    BY <1>3, <1>10
<1> QED  BY <1>8, <1>9, <1>11, <1>12, <1>13 DEF B, D, m

\* What PassBufferedMpdusWithSeqNumberLessThan passes comes before the rest.
LEMMA LowerIsFirst ==
    ASSUME NEW rx, NEW num, NEW W \in Int, BufferAt(rx, num, W), NEW w
    PROVE  \A f \in Lower(rx, w), g \in rx.buffered \ Lower(rx, w) : num[f.id] <= num[g.id]
<1> SUFFICES ASSUME NEW f \in Lower(rx, w), NEW g \in rx.buffered, num[g.id] < num[f.id]
             PROVE  g \in Lower(rx, w)
    <2>1. \A f \in rx.buffered : num[f.id] \in Int
        BY DEF BufferAt
    <2>2. Lower(rx, w) \subseteq rx.buffered
        BY DEF Lower
    <2> QED  BY <2>1, <2>2
<1>1. f \in rx.buffered /\ \A h \in rx.buffered : num[h.id] \in Int
    BY DEF Lower, BufferAt
<1>2. \A h \in rx.buffered : /\ Compare(h, g, rx.winStartB) <=> num[h.id] < num[g.id]
                             /\ Compare(h, f, rx.winStartB) <=> num[h.id] < num[f.id]
    BY <1>1, BufferDistance
<1>3. \A h \in rx.buffered : Compare(h, g, rx.winStartB) => Compare(h, f, rx.winStartB)
    BY <1>1, <1>2
<1>4. Compare(g, f, rx.winStartB)
    BY <1>2
<1> QED  BY <1>3, <1>4 DEF Lower

\* These are the MPDUs below the new start of the window, if it is not behind.
LEMMA LowerIs ==
    ASSUME NEW rx, NEW num, NEW W \in Int, BufferAt(rx, num, W), NEW V \in Int, W <= V,
           V < W + SEQNO_SPACE_SIZE
    PROVE  Lower(rx, SnOf(V)) = {f \in rx.buffered : num[f.id] < V}
<1>1. GetDistance(SnOf(V), rx.winStartB) = V - W
    BY DistanceValue, HalfOfSpace DEF BufferAt
<1>2. \A f \in rx.buffered : num[f.id] \in Int /\ (IsBelow(rx, SnOf(V), f) <=> num[f.id] < V)
    <2> SUFFICES ASSUME NEW f \in rx.buffered
                 PROVE  num[f.id] \in Int /\ (IsBelow(rx, SnOf(V), f) <=> num[f.id] < V)
        OBVIOUS
    <2>1. GetDistance(f.sn, rx.winStartB) = num[f.id] - W /\ num[f.id] \in Int
        BY BufferDistance DEF BufferAt
    <2> QED  BY <1>1, <2>1 DEF IsBelow
<1>3. \A f, g \in rx.buffered : Compare(g, f, rx.winStartB) <=> num[g.id] < num[f.id]
    BY BufferDistance
<1>4. \A f, g \in rx.buffered : IsBelow(rx, SnOf(V), f) /\ Compare(g, f, rx.winStartB)
                                => IsBelow(rx, SnOf(V), g)
    BY <1>2, <1>3
<1>5. Lower(rx, SnOf(V)) = {f \in rx.buffered : IsBelow(rx, SnOf(V), f)}
    BY <1>4 DEF Lower
<1> QED  BY <1>2, <1>5

-----------------------------------------------------------------------------
(* What has been passed up is in order, and the filter knows the last of it. *)

UpOK(rx, num) ==
    /\ \A i \in DOMAIN rx.up : num[rx.up[i]] \in Int
    /\ \A i, j \in DOMAIN rx.up : i < j => num[rx.up[i]] < num[rx.up[j]]
    /\ rx.lastSn = IF rx.up = <<>> THEN NoSn ELSE SnOf(num[rx.up[Len(rx.up)]])

\* The MPDUs of D come after what has been passed up, or are retries of the last.
UpBelow(rx, num, D, retry) ==
    \A f \in D, i \in DOMAIN rx.up :
        /\ num[rx.up[i]] <= num[f.id] /\ num[f.id] < num[rx.up[i]] + SEQNO_SPACE_SIZE
        /\ num[rx.up[i]] = num[f.id] => rx.up[i] = f.id /\ f.id \in retry

\* What has been passed up stays, the MPDUs of D are passed up, and nothing else.
UpGains(rx, p, D) ==
    /\ \A i \in DOMAIN rx.up : i \in DOMAIN p.up /\ p.up[i] = rx.up[i]
    /\ \A f \in D : \E i \in DOMAIN p.up : p.up[i] = f.id
    /\ \A i \in DOMAIN p.up : \/ i \in DOMAIN rx.up /\ p.up[i] = rx.up[i]
                              \/ \E f \in D : p.up[i] = f.id

\* MPDUs in order, given to MacRxMiddle, are passed up once.
LEMMA ReceiveKeepsOrder ==
    ASSUME NEW Ids, NEW rx, RecipientOK(rx, Ids), NEW F \in SUBSET Frames(Ids), NEW n \in Nat,
           NEW q \in [1 .. n -> F], NEW retry, NEW num,
           \A f \in F : \E i \in 1 .. n : q[i] = f,
           \A f \in F : num[f.id] \in Int /\ f.sn = SnOf(num[f.id]),
           \A i, j \in 1 .. n : i < j => num[q[i].id] < num[q[j].id],
           UpOK(rx, num), UpBelow(rx, num, F, retry)
    PROVE  /\ UpOK(MacRxMiddleReceive(rx, q, retry), num)
           /\ UpGains(rx, MacRxMiddleReceive(rx, q, retry), F)
<1> DEFINE p == MacRxMiddleReceive(rx, q, retry)
           s == Passed(rx, q, retry)
           t == IdsOf(s)
           u == rx.up
           L == Len(rx.up)
<1>1. /\ RecipientOK(p, Ids) /\ ReceiveEffect(rx, p, s)
      /\ s \in Seq(F) /\ t \in Seq(Ids) /\ q \in Seq(F) /\ Len(q) = n
    BY ReceiveIs, Zenon
<1>2. u \in Seq(Ids) /\ L \in Nat /\ DOMAIN u = 1 .. L /\ (u = <<>> <=> L = 0)
    BY RecipientFields
<1>3. /\ \A i \in 1 .. L : num[u[i]] \in Int
      /\ \A i, j \in 1 .. L : i < j => num[u[i]] < num[u[j]]
      /\ rx.lastSn = IF L = 0 THEN NoSn ELSE SnOf(num[u[L]])
    BY <1>2 DEF UpOK
<1>4. \A f \in F, i \in 1 .. L :
        /\ num[u[i]] <= num[f.id] /\ num[f.id] < num[u[i]] + SEQNO_SPACE_SIZE
        /\ num[u[i]] = num[f.id] => u[i] = f.id /\ f.id \in retry
    BY <1>2 DEF UpBelow
<1>5. \A i \in 1 .. n : q[i] \in F /\ num[q[i].id] \in Int /\ q[i].sn = SnOf(num[q[i].id])
    OBVIOUS
<1> HIDE DEF p, s, u, L
<1>6. \A f \in F, a \in Int : a = num[f.id] /\ SnOf(a) = SnOf(num[u[L]]) /\ L > 0 => num[u[L]] = num[f.id]
    <2> SUFFICES ASSUME NEW f \in F, L > 0, SnOf(num[f.id]) = SnOf(num[u[L]])
                 PROVE  num[u[L]] = num[f.id]
        OBVIOUS
    <2>1. L \in 1 .. L
        BY <1>2
    <2>2. num[u[L]] \in Int /\ num[f.id] \in Int /\ num[u[L]] <= num[f.id]
          /\ num[f.id] < num[u[L]] + SEQNO_SPACE_SIZE
        BY <1>3, <1>4, <2>1
    <2>3. num[u[L]] < num[f.id] + SEQNO_SPACE_SIZE
        BY <2>2, HalfOfSpace
    <2> DEFINE a == num[u[L]]
               b == num[f.id]
    <2>4. a \in Int /\ b \in Int /\ SnOf(a) = SnOf(b) /\ a < b + SEQNO_SPACE_SIZE
          /\ b < a + SEQNO_SPACE_SIZE
        BY <2>2, <2>3
    <2> HIDE DEF a, b
    <2>5. a = b
        BY <2>4, SnOfInjective
    <2> QED  BY <2>5 DEF a, b
\* The first is a duplicate exactly when it has been passed up already.
<1>7. n > 0 => /\ IsDuplicate(rx, q, retry) => L > 0 /\ u[L] = q[1].id
               /\ ~ IsDuplicate(rx, q, retry) => \A i \in 1 .. L : num[u[i]] < num[q[1].id]
    <2> SUFFICES ASSUME n > 0
                 PROVE  /\ IsDuplicate(rx, q, retry) => L > 0 /\ u[L] = q[1].id
                        /\ ~ IsDuplicate(rx, q, retry) => \A i \in 1 .. L : num[u[i]] < num[q[1].id]
        OBVIOUS
    <2>1. 1 \in 1 .. n /\ q # <<>>
        BY <1>1
    <2>2. q[1] \in F /\ num[q[1].id] \in Int /\ q[1].sn = SnOf(num[q[1].id])
        BY <1>5, <2>1
    <2>3. ASSUME IsDuplicate(rx, q, retry) PROVE L > 0 /\ u[L] = q[1].id
        <3>1. q[1].sn = rx.lastSn
            BY <2>3 DEF IsDuplicate
        <3>2. q[1].sn \in SeqNo
            BY <2>2, SnOfType
        <3>3. NoSn \notin SeqNo
            BY HalfOfSpace DEF NoSn, SeqNo
        <3>4. L > 0
            BY <1>2, <1>3, <3>1, <3>2, <3>3
        <3>5. num[u[L]] = num[q[1].id]
            BY <1>3, <1>6, <2>2, <3>1, <3>4
        <3>6. L \in 1 .. L
            BY <1>2, <3>4
        <3> QED  BY <1>4, <2>2, <3>4, <3>5, <3>6
    <2>4. ASSUME ~ IsDuplicate(rx, q, retry), NEW i \in 1 .. L PROVE num[u[i]] < num[q[1].id]
        <3> SUFFICES ASSUME num[u[i]] = num[q[1].id] PROVE FALSE
            BY <1>3, <1>4, <2>2
        <3>1. u[i] = q[1].id /\ q[1].id \in retry
            BY <1>4, <2>2
        <3>2. L \in 1 .. L /\ L > 0
            BY <1>2
        <3>3. num[u[L]] <= num[q[1].id] /\ num[u[L]] \in Int
            BY <1>3, <1>4, <2>2, <3>2
        <3>4. i = L
            <4>1. i < L => num[u[i]] < num[u[L]]
                BY <1>3, <3>2
            <4> QED  BY <1>2, <2>2, <3>3, <4>1
        <3>5. rx.lastSn = q[1].sn
            BY <1>3, <2>2, <3>2, <3>4
        <3> QED  BY <2>1, <2>4, <3>1, <3>5 DEF IsDuplicate
    <2> QED  BY <2>3, <2>4
<1>8. PICK off \in {0, 1} :
        /\ off = 1 <=> IsDuplicate(rx, q, retry)
        /\ off <= n
        /\ Len(s) = n - off /\ \A i \in 1 .. (n - off) : s[i] = q[i + off]
    <2>1. CASE IsDuplicate(rx, q, retry)
        <3>1. q # <<>> /\ s = Tail(q)
            BY <2>1 DEF IsDuplicate, Passed, s
        <3>2. n > 0
            BY <1>1, <3>1
        <3>3. Len(s) = n - 1 /\ \A i \in 1 .. (n - 1) : s[i] = q[i + 1]
            BY <1>1, <3>1, <3>2
        <3> QED  BY <2>1, <3>2, <3>3
    <2>2. CASE ~ IsDuplicate(rx, q, retry)
        BY <1>1, <2>2 DEF Passed, s
    <2> QED  BY <2>1, <2>2
<1>9. \A i \in 1 .. (n - off) : i + off \in 1 .. n /\ s[i] \in F /\ num[s[i].id] \in Int
    BY <1>5, <1>8
<1>10. \A i, j \in 1 .. (n - off) : i < j => num[s[i].id] < num[s[j].id]
    <2> SUFFICES ASSUME NEW i \in 1 .. (n - off), NEW j \in 1 .. (n - off), i < j
                 PROVE  num[s[i].id] < num[s[j].id]
        OBVIOUS
    <2>0. i \in Int /\ j \in Int /\ off \in Int
        BY <1>8
    <2>1. /\ i + off \in 1 .. n /\ j + off \in 1 .. n /\ i + off < j + off
          /\ s[i] = q[i + off] /\ s[j] = q[j + off]
        <3>1. i + off \in 1 .. n /\ j + off \in 1 .. n
            BY <1>9
        <3>2. i + off < j + off
            BY <2>0
        <3> QED  BY <1>8, <3>1, <3>2
    <2>2. num[q[i + off].id] < num[q[j + off].id]
        BY <2>1
    <2> QED  BY <2>1, <2>2
<1>11. \A i \in 1 .. L, j \in 1 .. (n - off) : num[u[i]] < num[s[j].id]
    <2> SUFFICES ASSUME NEW i \in 1 .. L, NEW j \in 1 .. (n - off) PROVE num[u[i]] < num[s[j].id]
        OBVIOUS
    <2>1. n > 0 /\ 1 \in 1 .. n /\ j + off \in 1 .. n /\ s[j] = q[j + off]
        BY <1>8, <1>9
    <2>2. num[u[i]] \in Int /\ num[q[1].id] \in Int /\ num[q[j + off].id] \in Int
        BY <1>3, <1>5, <2>1
    <2>3. CASE off = 1
        <3>1. num[u[i]] <= num[q[1].id]
            BY <1>4, <1>5, <2>1
        <3>2. num[q[1].id] < num[q[j + off].id]
            BY <2>1, <2>3
        <3> QED  BY <2>1, <2>2, <3>1, <3>2
    <2>4. CASE off = 0
        <3>1. num[u[i]] < num[q[1].id]
            BY <1>7, <1>8, <2>1, <2>4
        <3>2. num[q[1].id] <= num[q[j + off].id]
            <4>1. j = 1 \/ 1 < j + off
                BY <2>4
            <4> QED  BY <2>1, <2>2, <2>4, <4>1
        <3> QED  BY <2>1, <2>2, <3>1, <3>2
    <2> QED  BY <2>3, <2>4
<1>12. /\ p.up \in Seq(Ids) /\ Len(p.up) = L + (n - off) /\ DOMAIN p.up = 1 .. (L + (n - off))
       /\ \A i \in 1 .. L : p.up[i] = u[i]
       /\ \A j \in 1 .. (n - off) : p.up[L + j] = s[j].id
    <2>1. Len(t) = n - off /\ \A j \in 1 .. (n - off) : t[j] = s[j].id
        BY <1>1, <1>8 DEF IdsOf
    <2>2. p.up = u \o t
        BY <1>1 DEF ReceiveEffect, u
    <2> HIDE DEF t
    <2>3. /\ u \o t \in Seq(Ids) /\ Len(u \o t) = L + (n - off)
          /\ DOMAIN (u \o t) = 1 .. (L + (n - off))
          /\ \A i \in 1 .. L : (u \o t)[i] = u[i]
          /\ \A j \in 1 .. (n - off) : (u \o t)[L + j] = t[j]
        <3>1. u \in Seq(Ids) /\ t \in Seq(Ids) /\ Len(t) = n - off
            BY <1>1, <1>2, <2>1
        <3>2. Len(u) = L
            BY DEF L, u
        <3>3. u \o t \in Seq(Ids)
            BY <3>1, ConcatElements
        <3>4. Len(u \o t) = Len(u) + Len(t)
            BY <3>1, ConcatElements
        <3>5. DOMAIN (u \o t) = 1 .. (Len(u) + Len(t))
            BY <3>1, ConcatElements
        <3>6. \A i \in 1 .. Len(u) : (u \o t)[i] = u[i]
            BY <3>1, ConcatElements
        <3>7. \A j \in 1 .. Len(t) : (u \o t)[Len(u) + j] = t[j]
            BY <3>1, ConcatElements
        <3> QED  BY <3>1, <3>2, <3>3, <3>4, <3>5, <3>6, <3>7
    <2> QED  BY <2>1, <2>2, <2>3
<1>13. \A i \in DOMAIN p.up : \/ i \in 1 .. L /\ p.up[i] = u[i]
                              \/ i > L /\ \E j \in 1 .. (n - off) : i = L + j /\ p.up[i] = s[j].id
    <2> SUFFICES ASSUME NEW i \in 1 .. (L + (n - off)), ~ (i \in 1 .. L)
                 PROVE  i > L /\ \E j \in 1 .. (n - off) : i = L + j /\ p.up[i] = s[j].id
        BY <1>12
    <2>1. i - L \in 1 .. (n - off) /\ i = L + (i - L) /\ i > L
        BY <1>2, <1>8
    <2> QED  BY <1>12, <2>1
<1>14. \A i \in DOMAIN p.up : num[p.up[i]] \in Int
    BY <1>3, <1>9, <1>13
<1>15. \A i, j \in DOMAIN p.up : i < j => num[p.up[i]] < num[p.up[j]]
    <2> SUFFICES ASSUME NEW i \in DOMAIN p.up, NEW j \in DOMAIN p.up, i < j
                 PROVE  num[p.up[i]] < num[p.up[j]]
        OBVIOUS
    <2>1. i \in Int /\ j \in Int
        BY <1>12
    <2>2. CASE j \in 1 .. L
        <3>1. i \in 1 .. L
            BY <1>2, <1>13, <2>1, <2>2
        <3> QED  BY <1>3, <1>12, <2>2, <3>1
    <2>3. CASE ~ (j \in 1 .. L)
        <3>1. PICK b \in 1 .. (n - off) : j = L + b /\ p.up[j] = s[b].id
            BY <1>13, <2>3
        <3>2. CASE i \in 1 .. L
            BY <1>11, <1>12, <3>1, <3>2
        <3>3. CASE ~ (i \in 1 .. L)
            <4>1. PICK a \in 1 .. (n - off) : i = L + a /\ p.up[i] = s[a].id
                BY <1>13, <3>3
            <4>2. a < b
                BY <1>2, <1>8, <3>1, <4>1
            <4> QED  BY <1>10, <3>1, <4>1, <4>2
        <3> QED  BY <3>2, <3>3
    <2> QED  BY <2>2, <2>3
<1>16. p.lastSn = IF p.up = <<>> THEN NoSn ELSE SnOf(num[p.up[Len(p.up)]])
    <2>1. s = <<>> <=> n - off = 0
        BY <1>1, <1>8
    <2>2. p.lastSn = IF s = <<>> THEN rx.lastSn ELSE s[Len(s)].sn
        BY <1>1 DEF ReceiveEffect
    <2>3. CASE n - off = 0
        <3>1. p.up = u
            <4>1. Len(p.up) = L /\ L = Len(u)
                BY <1>2, <1>12, <2>3 DEF L, u
            <4> QED  BY <1>2, <1>12, <2>3, <4>1
        <3>2. p.lastSn = IF L = 0 THEN NoSn ELSE SnOf(num[u[L]])
            BY <1>3, <2>1, <2>2, <2>3
        <3> QED  BY <1>2, <3>1, <3>2 DEF L, u
    <2>4. CASE n - off # 0
        <3>1. n - off \in 1 .. (n - off) /\ n - off > 0
            BY <1>8, <2>4
        <3>2. p.up # <<>> /\ Len(p.up) = L + (n - off) /\ p.up[L + (n - off)] = s[n - off].id
            BY <1>2, <1>12, <3>1
        <3>3. s[n - off].sn = SnOf(num[s[n - off].id])
            BY <1>9, <3>1
        <3> QED  BY <1>8, <2>1, <2>2, <2>4, <3>2, <3>3
    <2> QED  BY <2>3, <2>4
<1>17. UpOK(p, num)
    BY <1>14, <1>15, <1>16 DEF UpOK
<1>18. UpGains(rx, p, F)
    <2>1. \A i \in DOMAIN rx.up : i \in DOMAIN p.up /\ p.up[i] = rx.up[i]
        BY <1>2, <1>8, <1>12 DEF u
    <2>2. \A f \in F : \E i \in DOMAIN p.up : p.up[i] = f.id
        <3> SUFFICES ASSUME NEW f \in F PROVE \E i \in DOMAIN p.up : p.up[i] = f.id
            OBVIOUS
        <3>1. PICK k \in 1 .. n : q[k] = f
            OBVIOUS
        <3>2. CASE k - off \in 1 .. (n - off)
            <4>1. PICK m \in 1 .. (n - off) : m = k - off
                BY <3>2
            <4>2. m + off = k
                BY <1>8, <4>1
            <4>3. s[m] = q[m + off]
                BY <1>8, <4>1
            <4>4. s[m] = f
                BY <3>1, <4>2, <4>3
            <4>5. L + m \in DOMAIN p.up /\ p.up[L + m] = s[m].id
                BY <1>2, <1>8, <1>12, <4>1
            <4> QED  BY <4>4, <4>5
        <3>3. CASE ~ (k - off \in 1 .. (n - off))
            <4>1. k = 1 /\ off = 1 /\ n > 0
                BY <1>8, <3>3
            <4>2. L > 0 /\ u[L] = f.id
                BY <1>7, <1>8, <3>1, <4>1
            <4>3. L \in 1 .. L /\ L \in DOMAIN p.up
                BY <1>2, <1>8, <1>12, <4>2
            <4> QED  BY <1>12, <4>2, <4>3
        <3> QED  BY <3>2, <3>3
    <2>3. \A i \in DOMAIN p.up : \/ i \in DOMAIN rx.up /\ p.up[i] = rx.up[i]
                                 \/ \E f \in F : p.up[i] = f.id
        BY <1>2, <1>9, <1>13 DEF u
    <2> QED  BY <2>1, <2>2, <2>3 DEF UpGains
<1> QED  BY <1>17, <1>18 DEF p

\* MPDUs taken out of the buffer in order are passed up once.
LEMMA PassKeepsOrder ==
    ASSUME NEW Ids, NEW rx, RecipientOK(rx, Ids), NEW D \in SUBSET rx.buffered, NEW w \in Int,
           NEW retry, NEW num, NEW W \in Int, BufferAt(rx, num, W), UpOK(rx, num),
           UpBelow(rx, num, D, retry)
    PROVE  UpOK(Pass(rx, D, w, retry), num) /\ UpGains(rx, Pass(rx, D, w, retry), D)
<1> DEFINE r1 == Taken(rx, D, w)
           n == Cardinality(D)
           q == InOrder(D, rx.winStartB)
<1>1. /\ RecipientOK(r1, Ids) /\ r1.up = rx.up /\ r1.lastSn = rx.lastSn
      /\ D \in SUBSET Frames(Ids) /\ Distinct(D)
    <2>1. RecipientOK(Taken(rx, D, w), Ids) /\ D \in SUBSET Frames(Ids) /\ Distinct(D)
        BY PassTyped
    <2>2. Taken(rx, D, w).up = rx.up /\ Taken(rx, D, w).lastSn = rx.lastSn
        BY DEF Taken, RecipientOK, RecipientRecord
    <2> QED  BY <2>1, <2>2
<1>2. /\ n \in Nat /\ q \in [1 .. n -> D]
      /\ \A i, j \in 1 .. n : i < j => Compare(q[i], q[j], rx.winStartB)
      /\ \A f \in D : \E i \in 1 .. n : q[i] = f
    <2>1. rx.winStartB \in Int
        BY RecipientFields
    <2>2. D \in SUBSET Frames(Ids) /\ Distinct(D)
        BY <1>1
    <2>3. n \in Nat /\ q \in [1 .. n -> D]
        BY <2>1, <2>2, InOrderIs
    <2>4. \A i, j \in 1 .. n : i < j => Compare(q[i], q[j], rx.winStartB)
        BY <2>1, <2>2, InOrderIs
    <2>5. Enumerates(q, D)
        BY <2>1, <2>2, InOrderIs
    <2> QED  BY <2>3, <2>4, <2>5 DEF Enumerates
<1>3. Pass(rx, D, w, retry) = MacRxMiddleReceive(r1, q, retry)
    BY DEF Pass
<1> HIDE DEF r1, n, q
<1>4. \A f \in D : num[f.id] \in Int /\ f.sn = SnOf(num[f.id])
    BY DEF BufferAt
<1>5. \A i, j \in 1 .. n : i < j => num[q[i].id] < num[q[j].id]
    BY <1>2, BufferDistance
<1>6. UpOK(r1, num) /\ UpBelow(r1, num, D, retry)
    BY <1>1 DEF UpOK, UpBelow
<1>7. UpOK(MacRxMiddleReceive(r1, q, retry), num) /\ UpGains(r1, MacRxMiddleReceive(r1, q, retry), D)
    BY <1>1, <1>2, <1>4, <1>5, <1>6, ReceiveKeepsOrder, Zenon
<1> QED  BY <1>1, <1>3, <1>7 DEF UpGains

\* What is left in the buffer comes after what has been passed up.
LEMMA RestIsAbove ==
    ASSUME NEW rx, NEW p, NEW num, NEW W \in Int, NEW D \in SUBSET rx.buffered, NEW retry,
           BufferAt(rx, num, W), UpBelow(rx, num, rx.buffered, retry), UpGains(rx, p, D),
           \A f \in D, g \in rx.buffered \ D : num[f.id] <= num[g.id],
           \A f, g \in rx.buffered : f.sn = g.sn => f = g
    PROVE  UpBelow(p, num, rx.buffered \ D, retry)
<1> SUFFICES ASSUME NEW g \in rx.buffered \ D, NEW i \in DOMAIN p.up
             PROVE  /\ num[p.up[i]] <= num[g.id] /\ num[g.id] < num[p.up[i]] + SEQNO_SPACE_SIZE
                    /\ num[p.up[i]] = num[g.id] => p.up[i] = g.id /\ g.id \in retry
    BY DEF UpBelow
<1>1. CASE i \in DOMAIN rx.up /\ p.up[i] = rx.up[i]
    BY <1>1 DEF UpBelow
<1>2. CASE \E f \in D : p.up[i] = f.id
    <2>1. PICK f \in D : p.up[i] = f.id
        BY <1>2
    <2>2. /\ num[f.id] \in Int /\ num[g.id] \in Int /\ W <= num[f.id]
          /\ num[g.id] < W + SEQNO_SPACE_SIZE /\ f.sn = SnOf(num[f.id]) /\ g.sn = SnOf(num[g.id])
        BY DEF BufferAt
    <2>3. num[f.id] # num[g.id]
        BY <2>2
    <2>4. num[f.id] <= num[g.id]
        OBVIOUS
    <2> QED  BY <2>1, <2>2, <2>3, <2>4, HalfOfSpace
<1> QED  BY <1>1, <1>2 DEF UpGains

\* Each of the two functions keeps the order, for a window that starts at W.
Above(rx, num, retry) == UpOK(rx, num) /\ UpBelow(rx, num, rx.buffered, retry)

LEMMA LessThanKeepsOrder ==
    ASSUME NEW Ids, NEW rx, RecipientOK(rx, Ids), NEW w \in Int, NEW retry, NEW num,
           NEW W \in Int, BufferAt(rx, num, W), Above(rx, num, retry)
    PROVE  \E p : /\ p = PassBufferedMpdusWithSeqNumberLessThan(rx, w, retry)
                  /\ RecipientOK(p, Ids) /\ p.scoreboard = rx.scoreboard /\ p.winStartB = w
                  /\ p.buffered = rx.buffered \ Lower(rx, w)
                  /\ Above(p, num, retry) /\ UpGains(rx, p, Lower(rx, w))
<1> DEFINE D == Lower(rx, w)
           p == Pass(rx, D, w, retry)
<1>1. /\ PassBufferedMpdusWithSeqNumberLessThan(rx, w, retry) = p
      /\ D \in SUBSET rx.buffered
    BY LessThanTyped, Zenon
<1>2. \A f \in D, g \in rx.buffered \ D : num[f.id] <= num[g.id]
    BY LowerIsFirst
<1> HIDE DEF D
<1>3. UpBelow(rx, num, D, retry) /\ UpOK(rx, num)
    BY <1>1 DEF Above, UpBelow
<1>4. /\ RecipientOK(p, Ids) /\ p.scoreboard = rx.scoreboard /\ p.winStartB = w
      /\ p.buffered = rx.buffered \ D
    <2>1. D \in SUBSET rx.buffered
        BY <1>1
    <2> QED  BY <2>1, PassTyped
<1>5. UpOK(p, num) /\ UpGains(rx, p, D)
    BY <1>1, <1>3, PassKeepsOrder, Zenon
<1> HIDE DEF p
<1>6. UpBelow(p, num, rx.buffered \ D, retry)
    <2>1. \A f, g \in rx.buffered : f.sn = g.sn => f = g
        BY RecipientFields
    <2> QED  BY <1>1, <1>2, <1>5, <2>1, RestIsAbove, Zenon DEF Above
<1>7. Above(p, num, retry)
    BY <1>4, <1>5, <1>6 DEF Above
<1> QED  BY <1>1, <1>4, <1>5, <1>7 DEF D

\* The effect p of PassBufferedMpdusUntilFirstLost, which passes m numbers from W.
RunPassed(Ids, rx, p, m, num, retry, W) ==
    /\ p = PassBufferedMpdusUntilFirstLost(rx, retry) /\ m \in Nat
    /\ RecipientOK(p, Ids) /\ p.scoreboard = rx.scoreboard
    /\ BufferAt(p, num, W + m) /\ \A f \in p.buffered : num[f.id] # W + m
    /\ p.buffered = rx.buffered \ FirstRun(rx)
    /\ FirstRun(rx) = {f \in rx.buffered : num[f.id] < W + m}
    /\ \A k \in Nat : k < m => \E f \in rx.buffered : num[f.id] = W + k
    /\ Above(p, num, retry) /\ UpGains(rx, p, FirstRun(rx))

LEMMA UntilFirstLostKeepsOrder ==
    ASSUME NEW Ids, NEW rx, RecipientOK(rx, Ids), NEW retry, NEW num,
           NEW W \in Int, BufferAt(rx, num, W), Above(rx, num, retry)
    PROVE  \E p, m : RunPassed(Ids, rx, p, m, num, retry, W)
<1>1. PICK m \in Nat :
              /\ FirstRun(rx) = {f \in rx.buffered : num[f.id] < W + m}
              /\ \A f \in rx.buffered : num[f.id] # W + m
              /\ \A k \in Nat : k < m => \E f \in rx.buffered : num[f.id] = W + k
              /\ AfterRun(rx) = SnOf(W + m)
    BY FirstRunIs, ZenonT(60)
<1> DEFINE D == FirstRun(rx)
           w == AfterRun(rx)
           p == Pass(rx, D, w, retry)
<1>2. /\ PassBufferedMpdusUntilFirstLost(rx, retry) = p
      /\ D \in SUBSET rx.buffered /\ w \in Int
    BY UntilFirstLostTyped, Zenon
<1>3. \A f \in rx.buffered : /\ num[f.id] \in Int /\ f.sn = SnOf(num[f.id])
                             /\ W <= num[f.id] /\ num[f.id] < W + SEQNO_SPACE_SIZE
    BY DEF BufferAt
<1>4. \A f \in D, g \in rx.buffered \ D : num[f.id] <= num[g.id]
    BY <1>1, <1>3
<1>5. w = SnOf(W + m)
    BY <1>1
<1> HIDE DEF D, w
<1>6. UpBelow(rx, num, D, retry) /\ UpOK(rx, num)
    BY <1>2 DEF Above, UpBelow
<1>7. /\ RecipientOK(p, Ids) /\ p.scoreboard = rx.scoreboard /\ p.winStartB = w
      /\ p.buffered = rx.buffered \ D
    BY <1>2, PassTyped
<1>8. UpOK(p, num) /\ UpGains(rx, p, D)
    BY <1>2, <1>6, PassKeepsOrder, Zenon
<1> HIDE DEF p
<1>9. UpBelow(p, num, rx.buffered \ D, retry)
    <2>1. \A f, g \in rx.buffered : f.sn = g.sn => f = g
        BY RecipientFields
    <2> QED  BY <1>2, <1>4, <1>8, <2>1, RestIsAbove, Zenon DEF Above
<1>10. Above(p, num, retry)
    BY <1>7, <1>8, <1>9 DEF Above
<1>11. \A f \in p.buffered : /\ f.sn = SnOf(num[f.id]) /\ num[f.id] \in Int /\ num[f.id] # W + m
                             /\ W + m <= num[f.id] /\ num[f.id] < W + m + SEQNO_SPACE_SIZE
    <2> SUFFICES ASSUME NEW f \in rx.buffered, f \notin D
                 PROVE  /\ f.sn = SnOf(num[f.id]) /\ num[f.id] \in Int /\ num[f.id] # W + m
                        /\ W + m <= num[f.id] /\ num[f.id] < W + m + SEQNO_SPACE_SIZE
        BY <1>7
    <2>1. ~ (num[f.id] < W + m)
        BY <1>1 DEF D
    <2> QED  BY <1>1, <1>3, <2>1, HalfOfSpace
<1>12. BufferAt(p, num, W + m)
    BY <1>5, <1>7, <1>11 DEF BufferAt
<1> QED  BY <1>1, <1>2, <1>7, <1>8, <1>10, <1>11, <1>12 DEF D, RunPassed

-----------------------------------------------------------------------------
(* The operations of the recipient, through unreduced numbers.             *)

\* What is passed up in two steps.
LEMMA UpGainsTwice ==
    ASSUME NEW rx, NEW p1, NEW p2, NEW D1, NEW D2, UpGains(rx, p1, D1), UpGains(p1, p2, D2)
    PROVE  UpGains(rx, p2, D1 \union D2)
<1>1. \A i \in DOMAIN rx.up : i \in DOMAIN p2.up /\ p2.up[i] = rx.up[i]
    BY DEF UpGains
<1>2. \A f \in D1 \union D2 : \E i \in DOMAIN p2.up : p2.up[i] = f.id
    <2>1. \A f \in D1 : \E i \in DOMAIN p1.up : p1.up[i] = f.id
        BY DEF UpGains
    <2>2. \A i \in DOMAIN p1.up : i \in DOMAIN p2.up /\ p2.up[i] = p1.up[i]
        BY DEF UpGains
    <2>3. \A f \in D2 : \E i \in DOMAIN p2.up : p2.up[i] = f.id
        BY DEF UpGains
    <2> QED  BY <2>1, <2>2, <2>3
<1>3. \A i \in DOMAIN p2.up : \/ i \in DOMAIN rx.up /\ p2.up[i] = rx.up[i]
                              \/ \E f \in D1 \union D2 : p2.up[i] = f.id
    BY DEF UpGains
<1> QED  BY <1>1, <1>2, <1>3 DEF UpGains

\* A start of the window beyond the sequence number space is never left.
LEMMA StaysOutOfRange ==
    ASSUME NEW Ids, NEW rx, RecipientOK(rx, Ids), rx.winStartB \notin SeqNo, NEW retry
    PROVE  PassBufferedMpdusUntilFirstLost(rx, retry).winStartB = rx.winStartB
<1>1. FirstRun(rx) = {}
    <2> SUFFICES ASSUME NEW f \in FirstRun(rx) PROVE FALSE
        OBVIOUS
    <2>1. f \in rx.buffered /\ f.sn \in Int /\ rx.winStartB \in Int
        BY RecipientFields, FrameFields DEF FirstRun
    <2>2. 0 \in 0 .. GetDistance(f.sn, rx.winStartB)
        BY <2>1, DistanceType
    <2>3. Holds(rx, 0)
        BY <2>2 DEF FirstRun
    <2> QED  BY <2>3, RecipientFields, FrameFields DEF Holds
<1>2. AfterRun(rx) = rx.winStartB
    BY <1>1 DEF AfterRun
<1>3. /\ PassBufferedMpdusUntilFirstLost(rx, retry) = Pass(rx, FirstRun(rx), AfterRun(rx), retry)
      /\ FirstRun(rx) \in SUBSET rx.buffered /\ AfterRun(rx) \in Int
    BY UntilFirstLostTyped, Zenon
<1>4. Pass(rx, FirstRun(rx), AfterRun(rx), retry).winStartB = AfterRun(rx)
    BY <1>3, PassTyped
<1> QED  BY <1>2, <1>3, <1>4

\* A start of the window within it stays within it.
LEMMA StaysInRange ==
    ASSUME NEW Ids, NEW rx, RecipientOK(rx, Ids), NEW retry, rx.winStartB \in SeqNo
    PROVE  PassBufferedMpdusUntilFirstLost(rx, retry).winStartB \in SeqNo
<1>1. /\ PassBufferedMpdusUntilFirstLost(rx, retry) = Pass(rx, FirstRun(rx), AfterRun(rx), retry)
      /\ FirstRun(rx) \in SUBSET rx.buffered /\ AfterRun(rx) \in Int
    BY UntilFirstLostTyped, Zenon
<1>2. Pass(rx, FirstRun(rx), AfterRun(rx), retry).winStartB = AfterRun(rx)
    BY <1>1, PassTyped
<1>3. AfterRun(rx) \in SeqNo
    <2>1. Cardinality(FirstRun(rx)) \in Nat
        BY <1>1, RecipientFields, FS_Subset, FS_CardinalityType
    <2>2. SnOf(rx.winStartB + Cardinality(FirstRun(rx))) \in SeqNo
        BY <2>1, RecipientFields, SnOfType
    <2> QED  BY <2>2 DEF AfterRun
<1> QED  BY <1>1, <1>2, <1>3

LEMMA LessThanStart ==
    ASSUME NEW Ids, NEW rx, RecipientOK(rx, Ids), NEW w \in Int, NEW retry
    PROVE  PassBufferedMpdusWithSeqNumberLessThan(rx, w, retry).winStartB = w
<1>1. /\ PassBufferedMpdusWithSeqNumberLessThan(rx, w, retry) = Pass(rx, Lower(rx, w), w, retry)
      /\ Lower(rx, w) \in SUBSET rx.buffered
    BY LessThanTyped, Zenon
<1>2. Pass(rx, Lower(rx, w), w, retry).winStartB = w
    BY <1>1, PassTyped
<1> QED  BY <1>1, <1>2

\* Where the scoreboard starts, once an MPDU of number n has been received.
ScoreboardStart(sb, n) ==
    IF sb + WinSize <= n /\ n < sb + SEQNO_SPACE_HALF_SIZE THEN n - WinSize + 1 ELSE sb

LEMMA ScoreboardStartIs ==
    ASSUME NEW w \in Window, NEW sb \in Int, w.start = SnOf(sb), NEW n \in Int,
           sb - SEQNO_SPACE_HALF_SIZE <= n, n < sb + SEQNO_SPACE_SIZE
    PROVE  /\ ScoreboardReceived(w, SnOf(n)).start = SnOf(ScoreboardStart(sb, n))
           /\ ScoreboardStart(sb, n) \in Int /\ sb <= ScoreboardStart(sb, n)
<1> DEFINE d == GetDistance(SnOf(n), w.start)
<1>1. d = IF sb <= n THEN n - sb ELSE SEQNO_SPACE_SIZE + n - sb
    BY DistanceValue
<1>2. ScoreboardReceived(w, SnOf(n)).start
      = IF d < WinSize THEN w.start
        ELSE IF d < SEQNO_SPACE_HALF_SIZE THEN SnOf(w.start + (d - WinSize + 1)) ELSE w.start
    BY DEF ScoreboardReceived, WindowMark, WindowAdvance, Window
<1> HIDE DEF d
<1>3. CASE sb + WinSize <= n /\ n < sb + SEQNO_SPACE_HALF_SIZE
    <2>1. d = n - sb /\ ~ (d < WinSize) /\ d < SEQNO_SPACE_HALF_SIZE
        BY <1>1, <1>3, HalfOfSpace
    <2>2. SnOf(w.start + (d - WinSize + 1)) = SnOf(sb + (d - WinSize + 1))
        BY <2>1, SnOfSum, HalfOfSpace
    <2>3. sb + (d - WinSize + 1) = n - WinSize + 1 /\ sb <= n - WinSize + 1
        BY <1>3, <2>1, HalfOfSpace
    <2> QED  BY <1>2, <1>3, <2>1, <2>2, <2>3, HalfOfSpace DEF ScoreboardStart
<1>4. CASE ~ (sb + WinSize <= n /\ n < sb + SEQNO_SPACE_HALF_SIZE)
    <2>1. d < WinSize \/ ~ (d < SEQNO_SPACE_HALF_SIZE)
        BY <1>1, <1>4, HalfOfSpace
    <2> QED  BY <1>2, <1>4, <2>1 DEF ScoreboardStart
<1> QED  BY <1>3, <1>4

\* The agreement: the windows start at W and sb, the buffer is above what is up.
AgreementAt(rx, num, retry, W, sb) ==
    /\ W \in Int /\ sb \in Int /\ sb <= W
    /\ rx.scoreboard.start = SnOf(sb) /\ BufferAt(rx, num, W) /\ Above(rx, num, retry)
    /\ \A f \in rx.buffered : num[f.id] < sb + SEQNO_SPACE_SIZE

\* The effect p of the two functions in turn: the window moves from W up to V, and
\* on by the m numbers that follow; G is what is passed up.
PassedUpTo(Ids, rx, p, m, G, num, retry, V) ==
    /\ p = PassUpTo(rx, SnOf(V), retry) /\ m \in Nat
    /\ RecipientOK(p, Ids) /\ p.scoreboard = rx.scoreboard
    /\ BufferAt(p, num, V + m) /\ \A f \in p.buffered : num[f.id] # V + m
    /\ G \subseteq rx.buffered /\ p.buffered = rx.buffered \ G
    /\ G = {f \in rx.buffered : num[f.id] < V + m}
    /\ \A k \in Nat : k < m => \E f \in rx.buffered : num[f.id] = V + k
    /\ Above(p, num, retry) /\ UpGains(rx, p, G)

LEMMA PassUpToKeepsOrder ==
    ASSUME NEW Ids, NEW rx, RecipientOK(rx, Ids), NEW retry, NEW num, NEW W \in Int,
           BufferAt(rx, num, W), Above(rx, num, retry), NEW V \in Int, W <= V,
           V < W + SEQNO_SPACE_SIZE
    PROVE  \E p, m, G : PassedUpTo(Ids, rx, p, m, G, num, retry, V)
<1> DEFINE w == SnOf(V)
<1>0. w \in Int
    BY SnOfType, HalfOfSpace DEF SeqNo
<1>1. Lower(rx, w) = {f \in rx.buffered : num[f.id] < V}
    BY LowerIs
<1>2. PICK p1 : /\ p1 = PassBufferedMpdusWithSeqNumberLessThan(rx, w, retry)
                /\ RecipientOK(p1, Ids) /\ p1.scoreboard = rx.scoreboard /\ p1.winStartB = w
                /\ p1.buffered = rx.buffered \ Lower(rx, w)
                /\ Above(p1, num, retry) /\ UpGains(rx, p1, Lower(rx, w))
    BY <1>0, LessThanKeepsOrder, Zenon
<1>3. \A f \in rx.buffered : /\ num[f.id] \in Int /\ f.sn = SnOf(num[f.id])
                             /\ W <= num[f.id] /\ num[f.id] < W + SEQNO_SPACE_SIZE
    BY DEF BufferAt
<1>4. BufferAt(p1, num, V)
    <2> SUFFICES ASSUME NEW f \in p1.buffered
                 PROVE  /\ f.sn = SnOf(num[f.id]) /\ num[f.id] \in Int
                        /\ V <= num[f.id] /\ num[f.id] < V + SEQNO_SPACE_SIZE
        BY <1>2 DEF BufferAt
    <2>1. f \in rx.buffered /\ ~ (num[f.id] < V)
        BY <1>1, <1>2
    <2> QED  BY <1>3, <2>1, HalfOfSpace
<1>5. PICK p, m : RunPassed(Ids, p1, p, m, num, retry, V)
    <2>1. RecipientOK(p1, Ids) /\ Above(p1, num, retry)
        BY <1>2
    <2> QED  BY <2>1, <1>4, UntilFirstLostKeepsOrder
<1> DEFINE G == Lower(rx, w) \union FirstRun(p1)
<1>6. UpGains(rx, p, G)
    BY <1>2, <1>5, UpGainsTwice, Zenon DEF RunPassed
<1>7. p = PassUpTo(rx, SnOf(V), retry)
    BY <1>2, <1>5 DEF PassUpTo, RunPassed
<1>8. G = {f \in rx.buffered : num[f.id] < V + m}
    <2>1. \A f \in rx.buffered : num[f.id] < V => num[f.id] < V + m
        BY <1>3, <1>5 DEF RunPassed
    <2> QED  BY <1>1, <1>2, <1>5, <2>1 DEF RunPassed
<1>9. p.buffered = rx.buffered \ G /\ G \subseteq rx.buffered
    BY <1>2, <1>5, <1>8 DEF RunPassed
<1>10. \A k \in Nat : k < m => \E f \in rx.buffered : num[f.id] = V + k
    BY <1>2, <1>5 DEF RunPassed
<1> HIDE DEF G
<1>11. p.scoreboard = rx.scoreboard
    BY <1>2, <1>5 DEF RunPassed
<1> QED  BY <1>5, <1>6, <1>7, <1>8, <1>9, <1>10, <1>11 DEF RunPassed, PassedUpTo

\* SN - WinSizeB + 1, computed in uint16_t, is right unless it wraps.
LEMMA NewStartValue ==
    ASSUME NEW n \in Int
    PROVE  /\ ToUInt16(SnOf(n) - WinSize + 1) \in Int
           /\ ToUInt16(SnOf(n) - WinSize + 1) \in SeqNo
                => ToUInt16(SnOf(n) - WinSize + 1) = SnOf(n - WinSize + 1)
           /\ SnOf(n) - WinSize + 1 >= 0 => ToUInt16(SnOf(n) - WinSize + 1) \in SeqNo
<1> DEFINE x == SnOf(n) - WinSize + 1
           u == UINT16_SIZE
           b == ToUInt16(x)
<1>1. u \in Nat /\ u > 0 /\ u >= 2 * SEQNO_SPACE_SIZE
    BY SequenceSpaceAssumption, HalfOfSpace
<1>2. SnOf(n) \in Int /\ 0 <= SnOf(n) /\ SnOf(n) < SEQNO_SPACE_SIZE
    BY SnOfType, HalfOfSpace DEF SeqNo
<1>3. x \in Int /\ x < SEQNO_SPACE_SIZE /\ - SEQNO_SPACE_HALF_SIZE < x
    BY <1>2, HalfOfSpace
<1>4. SnOf(n - WinSize + 1) = SnOf(x)
    <2>1. 1 - WinSize \in Int /\ WinSize \in Int
        BY HalfOfSpace
    <2>2. SnOf(SnOf(n) + (1 - WinSize)) = SnOf(n + (1 - WinSize))
        BY <2>1, SnOfSum
    <2>3. SnOf(n) + (1 - WinSize) = x /\ n + (1 - WinSize) = n - WinSize + 1
        BY <1>2, <2>1
    <2> QED  BY <2>2, <2>3
<1> HIDE DEF x, u
<1>5. CASE x >= 0
    <2>1. x \in 0 .. (u - 1) /\ x \in 0 .. (SEQNO_SPACE_SIZE - 1) /\ x = u * 0 + x
          /\ x = SEQNO_SPACE_SIZE * 0 + x
        BY <1>1, <1>3, <1>5, HalfOfSpace
    <2>2. x % u = x
        BY <1>1, <1>3, <2>1, RemainderUnique
    <2>3. x % SEQNO_SPACE_SIZE = x
        BY <1>3, <2>1, HalfOfSpace, RemainderUnique
    <2>4. b = x /\ SnOf(x) = x /\ x \in SeqNo
        BY <2>1, <2>2, <2>3 DEF ToUInt16, SnOf, SeqNo, u
    <2> QED  BY <1>3, <1>4, <2>4 DEF x
<1>6. CASE ~ (x >= 0)
    <2>1. x + u \in 0 .. (u - 1) /\ x = u * (-1) + (x + u)
        BY <1>1, <1>3, <1>6, HalfOfSpace
    <2>2. x % u = x + u
        BY <1>1, <1>3, <2>1, RemainderUnique
    <2>3. b = x + u
        BY <2>2 DEF ToUInt16, u
    <2>4. b \in Int /\ b \notin SeqNo
        BY <1>1, <1>3, <2>3, HalfOfSpace DEF SeqNo
    <2> QED  BY <1>6, <2>4 DEF x
<1> QED  BY <1>5, <1>6

\* The recipient moves on from windows at W and sb to windows at V and tb: the MPDUs
\* of G are passed up, and those of G and of the buffer come from F.
MovedOn(Ids, rx, p, F, G, num, retry, W, sb, V, tb) ==
    /\ RecipientOK(p, Ids) /\ AgreementAt(p, num, retry, V, tb)
    /\ W <= V /\ sb <= tb
    /\ UpGains(rx, p, G) /\ G \subseteq F /\ p.buffered \subseteq F
    /\ rx.buffered \subseteq p.buffered \union G

\* What is passed up is what the window passes, and nothing is missing of it but what
\* the windows leave behind; if nothing was at the start of the window, nothing is.
PassedBy(rx, p, G, num, W, V, low) ==
    /\ \A g \in G : num[g.id] < V
    /\ \A k \in Int : W <= k /\ low <= k /\ k < V => \E g \in G : num[g.id] = k
    /\ (\A g \in rx.buffered : num[g.id] # W) => \A g \in p.buffered : num[g.id] # V

\* MPDU f of number n is received.
ReceiveMoves(Ids, rx, p, f, n, G, num, retry, W, sb, V, tb) ==
    /\ MovedOn(Ids, rx, p, rx.buffered \union {f}, G, num, retry, W, sb, V, tb)
    /\ V = W \/ V <= n \/ \E g \in G : num[g.id] = V - 1
    /\ p.scoreboard = ScoreboardReceived(rx.scoreboard, f.sn) /\ tb = ScoreboardStart(sb, n)
    /\ W <= n /\ n < W + SEQNO_SPACE_HALF_SIZE
         => \E g \in p.buffered \union G : num[g.id] = n
    /\ n < sb + SEQNO_SPACE_HALF_SIZE => PassedBy(rx, p, G, num, W, V, tb)

\* The MPDU received, n, is neither far behind the windows nor far ahead of them.
Receivable(rx, f, n, num, retry, W, sb) ==
    /\ n \in Int /\ num[f.id] = n /\ f.sn = SnOf(n)
    /\ W - SEQNO_SPACE_HALF_SIZE <= n /\ n < W + SEQNO_SPACE_SIZE
    /\ sb - SEQNO_SPACE_HALF_SIZE <= n /\ n < sb + SEQNO_SPACE_SIZE
    /\ W <= n => UpBelow(rx, num, {f}, retry)

\* The scoreboard first, and the buffer next.
Scored(rx, f) == [rx EXCEPT !.scoreboard = ScoreboardReceived(@, f.sn)]

LEMMA ScoredIs ==
    ASSUME NEW Ids, NEW rx, RecipientOK(rx, Ids), NEW f \in Frames(Ids)
    PROVE  /\ RecipientOK(Scored(rx, f), Ids)
           /\ Scored(rx, f).scoreboard = ScoreboardReceived(rx.scoreboard, f.sn)
           /\ Scored(rx, f).winStartB = rx.winStartB /\ Scored(rx, f).buffered = rx.buffered
           /\ Scored(rx, f).up = rx.up /\ Scored(rx, f).lastSn = rx.lastSn
<1>1. ScoreboardReceived(rx.scoreboard, f.sn) \in Window
    BY FrameFields, RecipientFields, ScoreboardTyped
<1> QED  BY <1>1 DEF Scored, RecipientOK, RecipientRecord

\* The MPDU is stored in its place.
LEMMA StoreKeepsOrder ==
    ASSUME NEW Ids, NEW rx, RecipientOK(rx, Ids), NEW f \in Frames(Ids), NEW retry, NEW num,
           NEW W \in Int, BufferAt(rx, num, W), Above(rx, num, retry), NEW n, NEW sb \in Int,
           Receivable(rx, f, n, num, retry, W, sb), W <= n
    PROVE  \E r, s : /\ r = Scored(rx, f) /\ s = Store(r, f) /\ RecipientOK(s, Ids)
                     /\ s.scoreboard = ScoreboardReceived(rx.scoreboard, f.sn)
                     /\ BufferAt(s, num, W) /\ Above(s, num, retry) /\ s.up = rx.up
                     /\ rx.buffered \subseteq s.buffered /\ s.buffered \subseteq rx.buffered \union {f}
                     /\ \E g \in s.buffered : num[g.id] = n
<1>1. PICK r : r = Scored(rx, f)
    OBVIOUS
<1>2. /\ RecipientOK(r, Ids) /\ r.scoreboard = ScoreboardReceived(rx.scoreboard, f.sn)
      /\ r.winStartB = rx.winStartB /\ r.buffered = rx.buffered
      /\ r.up = rx.up /\ r.lastSn = rx.lastSn
    BY <1>1, ScoredIs
<1>3. PICK s : s = Store(r, f)
    OBVIOUS
<1>4. /\ RecipientOK(s, Ids) /\ s.scoreboard = r.scoreboard /\ s.winStartB = r.winStartB
      /\ s.up = r.up /\ s.lastSn = r.lastSn
      /\ s.buffered = IF \E g \in r.buffered : g.sn = f.sn THEN r.buffered
                      ELSE r.buffered \union {f}
    BY <1>2, <1>3, StoreTyped
<1>5. rx.buffered \subseteq s.buffered /\ s.buffered \subseteq rx.buffered \union {f}
    BY <1>2, <1>4
<1>6. BufferAt(s, num, W)
    BY <1>2, <1>4, <1>5 DEF BufferAt, Receivable
<1>7. Above(s, num, retry)
    <2>1. UpOK(s, num)
        BY <1>2, <1>4 DEF Above, UpOK
    <2>2. UpBelow(s, num, s.buffered, retry)
        BY <1>2, <1>4, <1>5 DEF Above, UpBelow, Receivable
    <2> QED  BY <2>1, <2>2 DEF Above
<1>8. \E g \in s.buffered : num[g.id] = n
    <2>1. n \in Int /\ num[f.id] = n /\ f.sn = SnOf(n) /\ n < W + SEQNO_SPACE_SIZE
        BY DEF Receivable
    <2>2. CASE f \in s.buffered
        BY <2>1, <2>2
    <2>3. CASE f \notin s.buffered
        <3>1. PICK g \in rx.buffered : g.sn = f.sn
            BY <1>2, <1>4, <2>3
        <3>2. /\ num[g.id] \in Int /\ SnOf(num[g.id]) = SnOf(n)
              /\ W <= num[g.id] /\ num[g.id] < W + SEQNO_SPACE_SIZE
            BY <2>1, <3>1 DEF BufferAt
        <3>3. num[g.id] = n
            BY <2>1, <3>2, HalfOfSpace, SnOfInjective
        <3> QED  BY <1>5, <3>1, <3>3
    <2> QED  BY <2>2, <2>3
<1> QED  BY <1>1, <1>2, <1>3, <1>4, <1>5, <1>6, <1>7, <1>8

\* The MPDU is in the window of the buffer.
LEMMA ReceiveInWindow ==
    ASSUME NEW Ids, NEW rx, RecipientOK(rx, Ids), NEW f \in Frames(Ids), NEW retry, NEW num,
           NEW W, NEW sb, AgreementAt(rx, num, retry, W, sb), NEW n,
           Receivable(rx, f, n, num, retry, W, sb), W <= n, n < W + WinSize
    PROVE  \E p, G, V, tb : /\ p = NotifyReceivedMpdu(rx, f, retry)
                            /\ ReceiveMoves(Ids, rx, p, f, n, G, num, retry, W, sb, V, tb)
<1>1. /\ W \in Int /\ sb \in Int /\ n \in Int /\ sb <= W /\ BufferAt(rx, num, W)
      /\ Above(rx, num, retry) /\ rx.scoreboard.start = SnOf(sb) /\ num[f.id] = n /\ f.sn = SnOf(n)
      /\ sb - SEQNO_SPACE_HALF_SIZE <= n /\ n < sb + SEQNO_SPACE_SIZE
      /\ \A g \in rx.buffered : num[g.id] < sb + SEQNO_SPACE_SIZE
    BY DEF AgreementAt, Receivable
<1>2. PICK r, s : /\ r = Scored(rx, f) /\ s = Store(r, f) /\ RecipientOK(s, Ids)
                  /\ s.scoreboard = ScoreboardReceived(rx.scoreboard, f.sn)
                  /\ BufferAt(s, num, W) /\ Above(s, num, retry) /\ s.up = rx.up
                  /\ rx.buffered \subseteq s.buffered /\ s.buffered \subseteq rx.buffered \union {f}
                  /\ \E g \in s.buffered : num[g.id] = n
    BY <1>1, StoreKeepsOrder
<1>3. PICK p, m : RunPassed(Ids, s, p, m, num, retry, W)
    BY <1>1, <1>2, UntilFirstLostKeepsOrder
<1>4. p = NotifyReceivedMpdu(rx, f, retry)
    <2>1. GetDistance(f.sn, rx.winStartB) < WinSize
        BY <1>1, DistanceValue, HalfOfSpace DEF BufferAt
    <2> QED  BY <1>2, <1>3, <2>1 DEF NotifyReceivedMpdu, Scored, RunPassed
<1> DEFINE G == FirstRun(s)
           V == W + m
           tb == ScoreboardStart(sb, n)
<1>5. /\ m \in Nat /\ RecipientOK(p, Ids) /\ p.scoreboard = s.scoreboard /\ BufferAt(p, num, W + m)
      /\ p.buffered = s.buffered \ G /\ G = {g \in s.buffered : num[g.id] < W + m}
      /\ Above(p, num, retry) /\ UpGains(s, p, G)
    BY <1>3 DEF RunPassed
<1>6. \A k \in Nat : k < m => \E g \in s.buffered : num[g.id] = W + k
    BY <1>3 DEF RunPassed
<1> HIDE DEF G
<1>7. p.scoreboard.start = SnOf(tb) /\ tb \in Int /\ sb <= tb
    <2>1. PICK w \in Window : w = rx.scoreboard
        BY RecipientFields
    <2>2. w.start = SnOf(sb)
        BY <1>1, <2>1
    <2>3. /\ ScoreboardReceived(w, SnOf(n)).start = SnOf(ScoreboardStart(sb, n))
          /\ ScoreboardStart(sb, n) \in Int /\ sb <= ScoreboardStart(sb, n)
        <3> HIDE DEF tb
        <3> QED  BY <1>1, <2>2, ScoreboardStartIs
    <2> QED  BY <1>1, <1>2, <1>5, <2>1, <2>3
<1>8. tb <= V
    BY <1>1, <1>5, HalfOfSpace DEF ScoreboardStart
<1> HIDE DEF tb
<1>9. \A g \in p.buffered : num[g.id] < tb + SEQNO_SPACE_SIZE
    <2>1. \A g \in p.buffered : num[g.id] \in Int
        BY <1>5 DEF BufferAt
    <2>2. p.buffered \subseteq rx.buffered \union {f}
        BY <1>2, <1>5
    <2>3. \A g \in p.buffered : num[g.id] < sb + SEQNO_SPACE_SIZE
        BY <1>1, <2>2
    <2> QED  BY <1>1, <1>7, <2>1, <2>3, HalfOfSpace
<1>10. AgreementAt(p, num, retry, V, tb)
    BY <1>1, <1>5, <1>7, <1>8, <1>9 DEF AgreementAt
<1>11. UpGains(rx, p, G)
    BY <1>2, <1>5 DEF UpGains
<1>12. V = W \/ V <= n \/ \E g \in G : num[g.id] = V - 1
    <2>1. CASE m = 0
        BY <1>1, <2>1
    <2>2. CASE m # 0
        <3>1. m - 1 \in Nat /\ m - 1 < m
            BY <1>5, <2>2
        <3>2. PICK g \in s.buffered : num[g.id] = W + (m - 1)
            BY <1>6, <3>1
        <3>3. W + (m - 1) = V - 1 /\ W + (m - 1) < W + m
            BY <1>1, <1>5
        <3> QED  BY <1>5, <3>2, <3>3
    <2> QED  BY <2>1, <2>2
<1>13. W <= V
    BY <1>1, <1>5
<1>14. MovedOn(Ids, rx, p, rx.buffered \union {f}, G, num, retry, W, sb, V, tb)
    BY <1>2, <1>5, <1>7, <1>10, <1>11, <1>13 DEF MovedOn
<1>15. PassedBy(rx, p, G, num, W, V, tb)
    <2>1. ASSUME NEW k \in Int, W <= k, k < V PROVE \E g \in G : num[g.id] = k
        <3>1. k - W \in Nat /\ k - W < m /\ W + (k - W) = k
            BY <1>1, <1>5, <2>1
        <3>2. PICK g \in s.buffered : num[g.id] = k
            BY <1>6, <3>1
        <3> QED  BY <1>5, <2>1, <3>2
    <2>2. \A g \in p.buffered : num[g.id] # V
        BY <1>3 DEF RunPassed
    <2>3. \A g \in G : num[g.id] < V
        BY <1>5
    <2> HIDE DEF V
    <2> QED  BY <2>1, <2>2, <2>3 DEF PassedBy
<1>16. \E g \in p.buffered \union G : num[g.id] = n
    BY <1>2, <1>5
<1>17. p.scoreboard = ScoreboardReceived(rx.scoreboard, f.sn) /\ tb = ScoreboardStart(sb, n)
    BY <1>2, <1>5 DEF tb
<1> HIDE DEF V
<1> QED  BY <1>4, <1>12, <1>14, <1>15, <1>16, <1>17 DEF ReceiveMoves

\* The MPDU is beyond the window, and the new start does not wrap.
LEMMA ReceiveBeyondWindow ==
    ASSUME NEW Ids, NEW rx, RecipientOK(rx, Ids), NEW f \in Frames(Ids), NEW retry, NEW num,
           NEW W, NEW sb, AgreementAt(rx, num, retry, W, sb), NEW n,
           Receivable(rx, f, n, num, retry, W, sb), W + WinSize <= n,
           n < W + SEQNO_SPACE_HALF_SIZE,
           NotifyReceivedMpdu(rx, f, retry).winStartB \in SeqNo
    PROVE  \E p, G, V, tb : /\ p = NotifyReceivedMpdu(rx, f, retry)
                            /\ ReceiveMoves(Ids, rx, p, f, n, G, num, retry, W, sb, V, tb)
<1>1. /\ W \in Int /\ sb \in Int /\ n \in Int /\ sb <= W /\ BufferAt(rx, num, W)
      /\ Above(rx, num, retry) /\ rx.scoreboard.start = SnOf(sb) /\ num[f.id] = n /\ f.sn = SnOf(n)
      /\ sb - SEQNO_SPACE_HALF_SIZE <= n /\ n < sb + SEQNO_SPACE_SIZE
      /\ \A g \in rx.buffered : num[g.id] < sb + SEQNO_SPACE_SIZE
    BY DEF AgreementAt, Receivable
<1>2. PICK r, s : /\ r = Scored(rx, f) /\ s = Store(r, f) /\ RecipientOK(s, Ids)
                  /\ s.scoreboard = ScoreboardReceived(rx.scoreboard, f.sn)
                  /\ BufferAt(s, num, W) /\ Above(s, num, retry) /\ s.up = rx.up
                  /\ rx.buffered \subseteq s.buffered /\ s.buffered \subseteq rx.buffered \union {f}
                  /\ \E g \in s.buffered : num[g.id] = n
    <2>1. W <= n
        BY <1>1, HalfOfSpace
    <2> QED  BY <1>1, <2>1, StoreKeepsOrder
<1> DEFINE b == ToUInt16(SnOf(n) - WinSize + 1)
           U == n - WinSize + 1
<1>3. PassUpTo(s, b, retry) = NotifyReceivedMpdu(rx, f, retry)
    <2>1. GetDistance(f.sn, rx.winStartB) = n - W
        BY <1>1, DistanceValue, HalfOfSpace DEF BufferAt
    <2>2. ~ (n - W < WinSize) /\ n - W < SEQNO_SPACE_HALF_SIZE
        BY <1>1, HalfOfSpace
    <2> QED  BY <1>1, <1>2, <2>1, <2>2 DEF NotifyReceivedMpdu, Scored, PassUpTo
<1>4. b = SnOf(U)
    <2>1. b \in Int /\ (b \in SeqNo => b = SnOf(U))
        BY <1>1, NewStartValue
    <2> SUFFICES ASSUME b \notin SeqNo PROVE FALSE
        BY <2>1
    <2> HIDE DEF b
    <2>2. PICK p1 : p1 = PassBufferedMpdusWithSeqNumberLessThan(s, b, retry)
        OBVIOUS
    <2>3. RecipientOK(p1, Ids)
        BY <1>2, <2>1, <2>2, LessThanTyped, Zenon
    <2>4. p1.winStartB = b
        <3>1. RecipientOK(s, Ids) /\ b \in Int
            BY <1>2, <2>1
        <3>2. PassBufferedMpdusWithSeqNumberLessThan(s, b, retry).winStartB = b
            BY <3>1, LessThanStart, Zenon
        <3> QED  BY <2>2, <3>2
    <2>5. PassBufferedMpdusUntilFirstLost(p1, retry).winStartB = p1.winStartB
        BY <2>3, <2>4, StaysOutOfRange
    <2> QED  BY <1>3, <2>2, <2>4, <2>5 DEF PassUpTo
<1>5. U \in Int /\ W <= U /\ U < W + SEQNO_SPACE_SIZE
    BY <1>1, HalfOfSpace
<1> HIDE DEF b
<1>6. PICK p, m, G : PassedUpTo(Ids, s, p, m, G, num, retry, U)
    <2> HIDE DEF U
    <2> QED  BY <1>1, <1>2, <1>5, PassUpToKeepsOrder
<1>7. p = NotifyReceivedMpdu(rx, f, retry)
    BY <1>3, <1>4, <1>6 DEF PassedUpTo
<1> DEFINE V == U + m
           tb == ScoreboardStart(sb, n)
<1>8. /\ m \in Nat /\ RecipientOK(p, Ids) /\ p.scoreboard = s.scoreboard /\ BufferAt(p, num, V)
      /\ p.buffered = s.buffered \ G /\ G = {g \in s.buffered : num[g.id] < V}
      /\ Above(p, num, retry) /\ UpGains(s, p, G)
    BY <1>6 DEF PassedUpTo
<1>9. \A k \in Nat : k < m => \E g \in s.buffered : num[g.id] = U + k
    BY <1>6 DEF PassedUpTo
<1>10. p.scoreboard.start = SnOf(tb) /\ tb \in Int /\ sb <= tb
    <2>1. PICK w \in Window : w = rx.scoreboard
        BY RecipientFields
    <2>2. w.start = SnOf(sb)
        BY <1>1, <2>1
    <2>3. /\ ScoreboardReceived(w, SnOf(n)).start = SnOf(ScoreboardStart(sb, n))
          /\ ScoreboardStart(sb, n) \in Int /\ sb <= ScoreboardStart(sb, n)
        <3> HIDE DEF tb
        <3> QED  BY <1>1, <2>2, ScoreboardStartIs
    <2> QED  BY <1>1, <1>2, <1>8, <2>1, <2>3
<1>11. tb <= V /\ W <= V /\ V \in Int
    BY <1>1, <1>5, <1>8, HalfOfSpace DEF ScoreboardStart
<1> HIDE DEF tb
<1>12. \A g \in p.buffered : num[g.id] < tb + SEQNO_SPACE_SIZE
    <2>1. \A g \in p.buffered : num[g.id] \in Int
        BY <1>8 DEF BufferAt
    <2>2. p.buffered \subseteq rx.buffered \union {f}
        BY <1>2, <1>8
    <2>3. \A g \in p.buffered : num[g.id] < sb + SEQNO_SPACE_SIZE
        BY <1>1, <2>2
    <2> QED  BY <1>1, <1>10, <2>1, <2>3, HalfOfSpace
<1>13. UpGains(rx, p, G)
    BY <1>2, <1>8 DEF UpGains
<1>14. V = W \/ V <= n \/ \E g \in G : num[g.id] = V - 1
    <2>1. CASE m = 0
        BY <1>1, <2>1, HalfOfSpace
    <2>2. CASE m # 0
        <3>1. m - 1 \in Nat /\ m - 1 < m
            BY <1>8, <2>2
        <3>2. PICK g \in s.buffered : num[g.id] = U + (m - 1)
            BY <1>9, <3>1
        <3>3. U + (m - 1) = V - 1 /\ V - 1 < V
            BY <1>5, <1>8, <1>11
        <3> QED  BY <1>8, <3>2, <3>3
    <2> QED  BY <2>1, <2>2
<1> HIDE DEF V
<1>15. AgreementAt(p, num, retry, V, tb)
    BY <1>1, <1>8, <1>10, <1>11, <1>12 DEF AgreementAt
<1>16. MovedOn(Ids, rx, p, rx.buffered \union {f}, G, num, retry, W, sb, V, tb)
    BY <1>2, <1>8, <1>10, <1>11, <1>13, <1>15 DEF MovedOn
<1>17. ASSUME n < sb + SEQNO_SPACE_HALF_SIZE PROVE PassedBy(rx, p, G, num, W, V, tb)
    <2>1. tb = U
        BY <1>1, <1>17, HalfOfSpace DEF ScoreboardStart, tb
    <2>2. ASSUME NEW k \in Int, tb <= k, k < V PROVE \E g \in G : num[g.id] = k
        <3>1. k - U \in Nat /\ k - U < m /\ U + (k - U) = k
            BY <1>5, <1>8, <2>1, <2>2 DEF V
        <3>2. PICK g \in s.buffered : num[g.id] = k
            BY <1>9, <3>1
        <3> QED  BY <1>8, <2>2, <3>2
    <2>3. \A g \in p.buffered : num[g.id] # V
        BY <1>6 DEF PassedUpTo, V
    <2>4. \A g \in G : num[g.id] < V
        BY <1>8
    <2> QED  BY <2>2, <2>3, <2>4 DEF PassedBy
<1>18. \E g \in p.buffered \union G : num[g.id] = n
    BY <1>2, <1>8
<1>19. p.scoreboard = ScoreboardReceived(rx.scoreboard, f.sn) /\ tb = ScoreboardStart(sb, n)
    BY <1>2, <1>8 DEF tb
<1> QED  BY <1>7, <1>14, <1>16, <1>17, <1>18, <1>19 DEF ReceiveMoves

\* The MPDU is old: only the scoreboard may change.
LEMMA ReceiveOld ==
    ASSUME NEW Ids, NEW rx, RecipientOK(rx, Ids), NEW f \in Frames(Ids), NEW retry, NEW num,
           NEW W, NEW sb, AgreementAt(rx, num, retry, W, sb), NEW n,
           Receivable(rx, f, n, num, retry, W, sb), n < W \/ W + SEQNO_SPACE_HALF_SIZE <= n
    PROVE  \E p, G, V, tb : /\ p = NotifyReceivedMpdu(rx, f, retry)
                            /\ ReceiveMoves(Ids, rx, p, f, n, G, num, retry, W, sb, V, tb)
<1>1. /\ W \in Int /\ sb \in Int /\ n \in Int /\ sb <= W /\ BufferAt(rx, num, W)
      /\ Above(rx, num, retry) /\ rx.scoreboard.start = SnOf(sb) /\ num[f.id] = n /\ f.sn = SnOf(n)
      /\ sb - SEQNO_SPACE_HALF_SIZE <= n /\ n < sb + SEQNO_SPACE_SIZE
      /\ W - SEQNO_SPACE_HALF_SIZE <= n /\ n < W + SEQNO_SPACE_SIZE
      /\ \A g \in rx.buffered : num[g.id] < sb + SEQNO_SPACE_SIZE
    BY DEF AgreementAt, Receivable
<1>2. PICK p : p = Scored(rx, f)
    OBVIOUS
<1>3. /\ RecipientOK(p, Ids) /\ p.scoreboard = ScoreboardReceived(rx.scoreboard, f.sn)
      /\ p.winStartB = rx.winStartB /\ p.buffered = rx.buffered
      /\ p.up = rx.up /\ p.lastSn = rx.lastSn
    BY <1>2, ScoredIs
<1>4. p = NotifyReceivedMpdu(rx, f, retry)
    <2>1. GetDistance(f.sn, rx.winStartB) = IF W <= n THEN n - W ELSE SEQNO_SPACE_SIZE + n - W
        BY <1>1, DistanceValue DEF BufferAt
    <2>2. ~ (GetDistance(f.sn, rx.winStartB) < WinSize)
          /\ ~ (GetDistance(f.sn, rx.winStartB) < SEQNO_SPACE_HALF_SIZE)
        BY <1>1, <2>1, HalfOfSpace
    <2> QED  BY <1>2, <2>2 DEF NotifyReceivedMpdu, Scored
<1> DEFINE tb == ScoreboardStart(sb, n)
<1>5. p.scoreboard.start = SnOf(tb) /\ tb \in Int /\ sb <= tb
    <2>1. PICK w \in Window : w = rx.scoreboard
        BY RecipientFields
    <2>2. w.start = SnOf(sb)
        BY <1>1, <2>1
    <2>3. /\ ScoreboardReceived(w, SnOf(n)).start = SnOf(ScoreboardStart(sb, n))
          /\ ScoreboardStart(sb, n) \in Int /\ sb <= ScoreboardStart(sb, n)
        <3> HIDE DEF tb
        <3> QED  BY <1>1, <2>2, ScoreboardStartIs
    <2> QED  BY <1>1, <1>3, <2>1, <2>3
<1>6. tb <= W
    BY <1>1, HalfOfSpace DEF ScoreboardStart
<1> HIDE DEF tb
<1>7. \A g \in p.buffered : num[g.id] < tb + SEQNO_SPACE_SIZE
    <2>1. \A g \in p.buffered : num[g.id] \in Int /\ num[g.id] < sb + SEQNO_SPACE_SIZE
        BY <1>1, <1>3 DEF BufferAt
    <2> QED  BY <1>1, <1>5, <2>1, HalfOfSpace
<1>8. BufferAt(p, num, W)
    BY <1>1, <1>3 DEF BufferAt
<1>9. Above(p, num, retry)
    BY <1>1, <1>3 DEF Above, UpOK, UpBelow
<1>10. AgreementAt(p, num, retry, W, tb)
    BY <1>1, <1>5, <1>6, <1>7, <1>8, <1>9 DEF AgreementAt
<1>11. UpGains(rx, p, {})
    BY <1>3 DEF UpGains
<1>12. MovedOn(Ids, rx, p, rx.buffered \union {f}, {}, num, retry, W, sb, W, tb)
    BY <1>1, <1>3, <1>5, <1>10, <1>11 DEF MovedOn
<1>13. PassedBy(rx, p, {}, num, W, W, tb)
    BY <1>1, <1>3 DEF PassedBy
<1>14. ~ (W <= n /\ n < W + SEQNO_SPACE_HALF_SIZE)
    BY <1>1, HalfOfSpace
<1>15. p.scoreboard = ScoreboardReceived(rx.scoreboard, f.sn) /\ tb = ScoreboardStart(sb, n)
    BY <1>3 DEF tb
<1> QED  BY <1>4, <1>12, <1>13, <1>14, <1>15 DEF ReceiveMoves

\* NotifyReceivedMpdu keeps the agreement, as long as m_winStartB does not wrap.
LEMMA NotifyKeepsOrder ==
    ASSUME NEW Ids, NEW rx, RecipientOK(rx, Ids), NEW f \in Frames(Ids), NEW retry, NEW num,
           NEW W, NEW sb, AgreementAt(rx, num, retry, W, sb), NEW n,
           Receivable(rx, f, n, num, retry, W, sb),
           NotifyReceivedMpdu(rx, f, retry).winStartB \in SeqNo
    PROVE  \E p, G, V, tb : /\ p = NotifyReceivedMpdu(rx, f, retry)
                            /\ ReceiveMoves(Ids, rx, p, f, n, G, num, retry, W, sb, V, tb)
<1>1. W \in Int /\ n \in Int
    BY DEF AgreementAt, Receivable
<1>2. CASE W <= n /\ n < W + WinSize
    BY <1>2, ReceiveInWindow, Zenon
<1>3. CASE W + WinSize <= n /\ n < W + SEQNO_SPACE_HALF_SIZE
    BY <1>3, ReceiveBeyondWindow, Zenon
<1>4. CASE n < W \/ W + SEQNO_SPACE_HALF_SIZE <= n
    BY <1>4, ReceiveOld, Zenon
<1>5. \/ W <= n /\ n < W + WinSize
      \/ W + WinSize <= n /\ n < W + SEQNO_SPACE_HALF_SIZE
      \/ n < W \/ W + SEQNO_SPACE_HALF_SIZE <= n
    BY <1>1, HalfOfSpace
<1> QED  BY <1>2, <1>3, <1>4, <1>5

\* The new start of the window does not wrap, if n is at least WinSize - 1 above a
\* multiple of the space.
LEMMA NotifyInRange ==
    ASSUME NEW Ids, NEW rx, RecipientOK(rx, Ids), NEW f \in Frames(Ids), NEW retry, NEW num,
           NEW W, NEW sb, AgreementAt(rx, num, retry, W, sb), NEW n,
           Receivable(rx, f, n, num, retry, W, sb), rx.winStartB \in SeqNo,
           W + WinSize <= n => SnOf(n) - WinSize + 1 >= 0
    PROVE  NotifyReceivedMpdu(rx, f, retry).winStartB \in SeqNo
<1>1. /\ W \in Int /\ n \in Int /\ BufferAt(rx, num, W) /\ f.sn = SnOf(n)
      /\ W - SEQNO_SPACE_HALF_SIZE <= n /\ n < W + SEQNO_SPACE_SIZE
    BY DEF AgreementAt, Receivable
<1>2. GetDistance(f.sn, rx.winStartB) = IF W <= n THEN n - W ELSE SEQNO_SPACE_SIZE + n - W
    BY <1>1, DistanceValue DEF BufferAt
<1>3. PICK r : r = Scored(rx, f)
    OBVIOUS
<1>4. RecipientOK(r, Ids) /\ r.winStartB = rx.winStartB
    BY <1>3, ScoredIs
<1>5. PICK s : s = Store(r, f)
    OBVIOUS
<1>6. RecipientOK(s, Ids) /\ s.winStartB \in SeqNo
    <2>1. /\ RecipientOK(s, Ids) /\ s.scoreboard = r.scoreboard /\ s.winStartB = r.winStartB
          /\ s.up = r.up /\ s.lastSn = r.lastSn
          /\ s.buffered = IF \E g \in r.buffered : g.sn = f.sn THEN r.buffered
                          ELSE r.buffered \union {f}
        BY <1>4, <1>5, StoreTyped
    <2> QED  BY <1>4, <2>1
<1>7. CASE W <= n /\ n < W + WinSize
    <2>1. GetDistance(f.sn, rx.winStartB) < WinSize
        BY <1>1, <1>2, <1>7, HalfOfSpace
    <2>2. NotifyReceivedMpdu(rx, f, retry) = PassBufferedMpdusUntilFirstLost(s, retry)
        BY <1>3, <1>5, <2>1 DEF NotifyReceivedMpdu, Scored
    <2>3. PassBufferedMpdusUntilFirstLost(s, retry).winStartB \in SeqNo
        BY <1>6, StaysInRange
    <2> QED  BY <2>2, <2>3
<1>8. CASE W + WinSize <= n /\ n < W + SEQNO_SPACE_HALF_SIZE
    <2> DEFINE b == ToUInt16(SnOf(n) - WinSize + 1)
    <2>1. ~ (GetDistance(f.sn, rx.winStartB) < WinSize)
          /\ GetDistance(f.sn, rx.winStartB) < SEQNO_SPACE_HALF_SIZE
        BY <1>1, <1>2, <1>8, HalfOfSpace
    <2>2. NotifyReceivedMpdu(rx, f, retry) = PassUpTo(s, b, retry)
        BY <1>1, <1>3, <1>5, <2>1 DEF NotifyReceivedMpdu, Scored, PassUpTo
    <2>3. b \in Int /\ b \in SeqNo
        BY <1>1, <1>8, NewStartValue
    <2> HIDE DEF b
    <2>4. PICK p1 : p1 = PassBufferedMpdusWithSeqNumberLessThan(s, b, retry)
        OBVIOUS
    <2>5. RecipientOK(p1, Ids)
        BY <1>6, <2>3, <2>4, LessThanTyped, Zenon
    <2>6. p1.winStartB \in SeqNo
        <3>1. PassBufferedMpdusWithSeqNumberLessThan(s, b, retry).winStartB = b
            BY <1>6, <2>3, LessThanStart, Zenon
        <3> QED  BY <2>3, <2>4, <3>1
    <2>7. PassBufferedMpdusUntilFirstLost(p1, retry).winStartB \in SeqNo
        BY <2>5, <2>6, StaysInRange
    <2> QED  BY <2>2, <2>4, <2>7 DEF PassUpTo
<1>9. CASE n < W \/ W + SEQNO_SPACE_HALF_SIZE <= n
    <2>1. ~ (GetDistance(f.sn, rx.winStartB) < WinSize)
          /\ ~ (GetDistance(f.sn, rx.winStartB) < SEQNO_SPACE_HALF_SIZE)
        BY <1>1, <1>2, <1>9, HalfOfSpace
    <2>2. NotifyReceivedMpdu(rx, f, retry) = r
        BY <1>3, <2>1 DEF NotifyReceivedMpdu, Scored
    <2> QED  BY <1>4, <2>2
<1> QED  BY <1>1, <1>7, <1>8, <1>9, HalfOfSpace

\* The agreement goes: what its buffer holds is passed up in order.
Flushed(Ids, rx, p, G, num, retry) ==
    /\ p = Flush(rx, retry) /\ RecipientOK(p, Ids) /\ UpOK(p, num)
    /\ UpGains(rx, p, G) /\ G \subseteq rx.buffered /\ p.winStartB \in SeqNo

LEMMA FlushKeepsOrder ==
    ASSUME NEW Ids, NEW rx, RecipientOK(rx, Ids), NEW retry, NEW num,
           NEW W, NEW sb, AgreementAt(rx, num, retry, W, sb)
    PROVE  \E p, G : Flushed(Ids, rx, p, G, num, retry)
<1> DEFINE w == rx.scoreboard.start
<1>1. /\ W \in Int /\ sb \in Int /\ sb <= W /\ BufferAt(rx, num, W) /\ Above(rx, num, retry)
      /\ w = SnOf(sb) /\ \A f \in rx.buffered : num[f.id] < sb + SEQNO_SPACE_SIZE
    BY DEF AgreementAt
<1>2. w \in Int /\ w \in SeqNo
    BY RecipientFields, HalfOfSpace DEF Window, SeqNo
<1> HIDE DEF w
<1>3. PICK p1 : /\ p1 = PassBufferedMpdusWithSeqNumberLessThan(rx, w, retry)
                /\ RecipientOK(p1, Ids) /\ p1.scoreboard = rx.scoreboard /\ p1.winStartB = w
                /\ p1.buffered = rx.buffered \ Lower(rx, w)
                /\ Above(p1, num, retry) /\ UpGains(rx, p1, Lower(rx, w))
    BY <1>1, <1>2, LessThanKeepsOrder, Zenon
<1>4. BufferAt(p1, num, sb)
    <2> SUFFICES ASSUME NEW f \in rx.buffered
                 PROVE  /\ f.sn = SnOf(num[f.id]) /\ num[f.id] \in Int
                        /\ sb <= num[f.id] /\ num[f.id] < sb + SEQNO_SPACE_SIZE
        BY <1>1, <1>3 DEF BufferAt
    <2>1. f.sn = SnOf(num[f.id]) /\ num[f.id] \in Int /\ W <= num[f.id]
        BY <1>1 DEF BufferAt
    <2> QED  BY <1>1, <2>1
<1>5. PICK p, m : RunPassed(Ids, p1, p, m, num, retry, sb)
    <2>1. RecipientOK(p1, Ids) /\ Above(p1, num, retry)
        BY <1>3
    <2> QED  BY <1>1, <1>4, <2>1, UntilFirstLostKeepsOrder
<1> DEFINE G == Lower(rx, w) \union FirstRun(p1)
<1>6. UpGains(rx, p, G)
    BY <1>3, <1>5, UpGainsTwice, Zenon DEF RunPassed
<1>7. G \subseteq rx.buffered
    <2>1. Lower(rx, w) \subseteq rx.buffered /\ FirstRun(p1) \subseteq p1.buffered
        BY DEF Lower, FirstRun
    <2> QED  BY <1>3, <2>1
<1>8. p.winStartB \in SeqNo
    BY <1>2, <1>3, <1>5, StaysInRange DEF RunPassed
<1>9. p = Flush(rx, retry)
    BY <1>3, <1>5 DEF Flush, RunPassed, w
<1>10. RecipientOK(p, Ids) /\ UpOK(p, num)
    BY <1>5 DEF RunPassed, Above
<1> HIDE DEF G
<1> QED  BY <1>6, <1>7, <1>8, <1>9, <1>10 DEF Flushed

\* A new agreement, whose windows start at S.
LEMMA NewRecipientIs ==
    ASSUME NEW start, NEW lastSn, NEW up, NEW p, p = NewRecipient(start, lastSn, up)
    PROVE  /\ p.scoreboard.start = start /\ p.winStartB = start /\ p.buffered = {}
           /\ p.lastSn = lastSn /\ p.up = up
BY DEF NewRecipient, WindowInit

LEMMA NewRecipientAt ==
    ASSUME NEW rx, NEW num, UpOK(rx, num), NEW retry, NEW S \in Int, NEW p,
           p.scoreboard.start = SnOf(S), p.winStartB = SnOf(S), p.buffered = {},
           p.lastSn = rx.lastSn, p.up = rx.up
    PROVE  UpOK(p, num) /\ AgreementAt(p, num, retry, S, S)
<1>1. UpOK(p, num)
    BY DEF UpOK
<1>2. AgreementAt(p, num, retry, S, S)
    BY <1>1 DEF AgreementAt, BufferAt, Above, UpBelow
<1> QED  BY <1>1, <1>2

\* Without an agreement, an MPDU goes straight to MacRxMiddle.
LEMMA ReceiveOneKeepsOrder ==
    ASSUME NEW Ids, NEW rx, RecipientOK(rx, Ids), NEW f \in Frames(Ids), NEW retry, NEW num,
           NEW F, F = {f}, NEW q, q = <<f>>,
           UpOK(rx, num), UpBelow(rx, num, F, retry), num[f.id] \in Int, f.sn = SnOf(num[f.id]),
           NEW p, p = MacRxMiddleReceive(rx, q, retry)
    PROVE  UpOK(p, num) /\ UpGains(rx, p, F) /\ p.winStartB = rx.winStartB
<1>1. q \in [1 .. 1 -> F] /\ F \in SUBSET Frames(Ids)
    OBVIOUS
<1>2. /\ \A g \in F : \E i \in 1 .. 1 : q[i] = g
      /\ \A g \in F : num[g.id] \in Int /\ g.sn = SnOf(num[g.id])
      /\ \A i, j \in 1 .. 1 : i < j => num[q[i].id] < num[q[j].id]
      /\ UpBelow(rx, num, F, retry)
    OBVIOUS
<1>3. UpOK(MacRxMiddleReceive(rx, q, retry), num) /\ UpGains(rx, MacRxMiddleReceive(rx, q, retry), F)
    BY <1>1, <1>2, ReceiveKeepsOrder
<1>4. MacRxMiddleReceive(rx, q, retry).winStartB = rx.winStartB
    BY DEF MacRxMiddleReceive, RecipientOK, RecipientRecord
<1> QED  BY <1>3, <1>4

-----------------------------------------------------------------------------
(* What is marked in the scoreboard, and the BlockAckReq.                  *)

\* The numbers marked in a window that starts at b.
Marks(w, b) == {b + d : d \in w.marked}

\* Advancing a window makes no marks.
LEMMA AdvanceMarks ==
    ASSUME NEW w \in Window, NEW b \in Int, w.start = SnOf(b), NEW c \in Nat
    PROVE  /\ WindowAdvance(w, c) \in Window /\ WindowAdvance(w, c).start = SnOf(b + c)
           /\ Marks(WindowAdvance(w, c), b + c) \subseteq Marks(w, b)
<1>1. WindowAdvance(w, c).start = SnOf(b + c)
  BY SnOfSum DEF WindowAdvance
<1>2. WindowAdvance(w, c).marked = {d \in 0 .. (WinSize - 1) : d + c \in w.marked}
  BY DEF WindowAdvance
<1>3. WindowAdvance(w, c) \in Window
  <2>1. SnOf(b + c) \in SeqNo
    BY SnOfType
  <2> QED BY <1>1, <1>2, <2>1 DEF WindowAdvance, Window
<1>4. ASSUME NEW d \in WindowAdvance(w, c).marked PROVE b + c + d \in Marks(w, b)
  <2>1. d \in Int /\ d + c \in w.marked
    BY <1>2, HalfOfSpace
  <2>2. b + c + d = b + (d + c)
    BY <2>1
  <2> QED BY <2>1, <2>2 DEF Marks
<1> QED BY <1>1, <1>3, <1>4 DEF Marks

\* Marking a distance.
LEMMA MarkMarks ==
    ASSUME NEW w \in Window, NEW b \in Int, NEW d \in 0 .. (WinSize - 1)
    PROVE  WindowMark(w, d).start = w.start /\ Marks(WindowMark(w, d), b) = Marks(w, b) \union {b + d}
BY DEF WindowMark, Marks, Window

\* An MPDU received is the only one marked by it.
LEMMA ScoreboardMarks ==
    ASSUME NEW w \in Window, NEW sb \in Int, w.start = SnOf(sb), NEW n \in Int, sb <= n,
           n < sb + SEQNO_SPACE_HALF_SIZE
    PROVE  Marks(ScoreboardReceived(w, SnOf(n)), ScoreboardStart(sb, n)) \subseteq Marks(w, sb) \union {n}
<1> DEFINE d == n - sb
<1>1. GetDistance(SnOf(n), w.start) = d
  BY DistanceValue, HalfOfSpace
<1>2. d \in Nat /\ sb + d = n
  OBVIOUS
<1>3. CASE d < WinSize
  <2>1. ScoreboardReceived(w, SnOf(n)) = WindowMark(w, d)
    BY <1>1, <1>3 DEF ScoreboardReceived
  <2>2. ScoreboardStart(sb, n) = sb
    BY <1>2, <1>3, HalfOfSpace DEF ScoreboardStart
  <2>3. d \in 0 .. (WinSize - 1)
    BY <1>2, <1>3, HalfOfSpace
  <2> QED BY <1>2, <2>1, <2>2, <2>3, MarkMarks
<1>4. CASE ~ (d < WinSize)
  <2>1. PICK v : v = WindowAdvance(w, d - WinSize + 1)
    OBVIOUS
  <2>2. ScoreboardReceived(w, SnOf(n)) = WindowMark(v, WinSize - 1)
    BY <1>1, <1>4, <2>1, HalfOfSpace DEF ScoreboardReceived
  <2>3. ScoreboardStart(sb, n) = n - WinSize + 1
    BY <1>2, <1>4, HalfOfSpace DEF ScoreboardStart
  <2>4. d - WinSize + 1 \in Nat /\ sb + (d - WinSize + 1) = n - WinSize + 1
        /\ WinSize - 1 \in 0 .. (WinSize - 1) /\ (n - WinSize + 1) + (WinSize - 1) = n
        /\ n - WinSize + 1 \in Int
    BY <1>2, <1>4, HalfOfSpace
  <2>5. v \in Window /\ Marks(v, n - WinSize + 1) \subseteq Marks(w, sb)
    <3>1. PICK c \in Nat : c = d - WinSize + 1
      BY <2>4
    <3> QED BY <2>1, <2>4, <3>1, AdvanceMarks
  <2>6. Marks(WindowMark(v, WinSize - 1), n - WinSize + 1) = Marks(v, n - WinSize + 1) \union {n}
    <3>1. PICK b \in Int : b = n - WinSize + 1
      BY <2>4
    <3>2. Marks(WindowMark(v, WinSize - 1), b) = Marks(v, b) \union {b + (WinSize - 1)}
      BY <2>4, <2>5, MarkMarks
    <3> QED BY <2>4, <3>1, <3>2
  <2> QED BY <2>2, <2>3, <2>5, <2>6
<1> QED BY <1>3, <1>4

\* Where the scoreboard starts once a BlockAckReq of number s has been received.
BarStart(sb, s) == IF sb < s THEN s ELSE sb

LEMMA BarMarks ==
    ASSUME NEW w \in Window, NEW sb \in Int, w.start = SnOf(sb), NEW s \in Int,
           sb - SEQNO_SPACE_HALF_SIZE <= s, s < sb + SEQNO_SPACE_HALF_SIZE
    PROVE  /\ ScoreboardBar(w, SnOf(s)).start = SnOf(BarStart(sb, s))
           /\ Marks(ScoreboardBar(w, SnOf(s)), BarStart(sb, s)) \subseteq Marks(w, sb)
<1>1. GetDistance(SnOf(s), w.start) = IF sb <= s THEN s - sb ELSE SEQNO_SPACE_SIZE + s - sb
  BY DistanceValue, HalfOfSpace
<1>2. CASE sb < s
  <2>1. ScoreboardBar(w, SnOf(s)) = WindowAdvance(w, s - sb)
    BY <1>1, <1>2, HalfOfSpace DEF ScoreboardBar
  <2>2. PICK c \in Nat : c = s - sb /\ sb + c = s
    BY <1>2
  <2>3. WindowAdvance(w, c).start = SnOf(s) /\ Marks(WindowAdvance(w, c), s) \subseteq Marks(w, sb)
    BY <2>2, AdvanceMarks
  <2> QED BY <1>2, <2>1, <2>2, <2>3 DEF BarStart
<1>3. CASE ~ (sb < s)
  <2>1. ScoreboardBar(w, SnOf(s)) = w
    BY <1>1, <1>3, HalfOfSpace DEF ScoreboardBar
  <2> QED BY <1>3, <2>1 DEF BarStart
<1> QED BY <1>2, <1>3

\* A BlockAckReq of number s is received.
BarMoves(Ids, rx, p, s, G, num, retry, W, sb, V, tb) ==
    /\ p = NotifyReceivedBar(rx, SnOf(s), retry)
    /\ MovedOn(Ids, rx, p, rx.buffered, G, num, retry, W, sb, V, tb)
    /\ s <= V /\ (V = W \/ V = s \/ \E g \in G : num[g.id] = V - 1)
    /\ p.scoreboard = ScoreboardBar(rx.scoreboard, SnOf(s)) /\ tb = BarStart(sb, s)
    /\ PassedBy(rx, p, G, num, W, V, tb)

LEMMA BarKeepsOrder ==
    ASSUME NEW Ids, NEW rx, RecipientOK(rx, Ids), NEW retry, NEW num,
           NEW W, NEW sb, AgreementAt(rx, num, retry, W, sb), NEW s \in Int,
           W - SEQNO_SPACE_HALF_SIZE <= s, sb - SEQNO_SPACE_HALF_SIZE <= s,
           s < sb + SEQNO_SPACE_HALF_SIZE
    PROVE  \E p, G, V, tb : BarMoves(Ids, rx, p, s, G, num, retry, W, sb, V, tb)
<1>1. /\ W \in Int /\ sb \in Int /\ sb <= W /\ BufferAt(rx, num, W) /\ rx.winStartB = SnOf(W)
      /\ Above(rx, num, retry) /\ rx.scoreboard.start = SnOf(sb)
      /\ \A g \in rx.buffered : num[g.id] < sb + SEQNO_SPACE_SIZE
  BY DEF AgreementAt, BufferAt
<1>2. PICK w \in Window : w = rx.scoreboard
  BY RecipientFields
<1>3. PICK v : v = ScoreboardBar(w, SnOf(s))
  OBVIOUS
<1>4. v \in Window
  BY <1>3, SnOfType, ScoreboardTyped
<1>5. PICK r : r = [rx EXCEPT !.scoreboard = v]
  OBVIOUS
<1>6. /\ RecipientOK(r, Ids) /\ r.scoreboard = v /\ r.winStartB = rx.winStartB
      /\ r.buffered = rx.buffered /\ r.up = rx.up /\ r.lastSn = rx.lastSn
  BY <1>4, <1>5, ScoreTyped
<1>7. r = [rx EXCEPT !.scoreboard = ScoreboardBar(@, SnOf(s))]
  BY <1>2, <1>3, <1>5
<1>8. BufferAt(r, num, W) /\ Above(r, num, retry)
  BY <1>1, <1>6 DEF BufferAt, Above, UpOK, UpBelow
<1>9. PICK tb \in Int : tb = BarStart(sb, s)
  BY <1>1 DEF BarStart
<1>10. v.start = SnOf(tb) /\ sb <= tb /\ s <= tb
  <2>1. w.start = SnOf(sb)
    BY <1>1, <1>2
  <2>2. ScoreboardBar(w, SnOf(s)).start = SnOf(BarStart(sb, s))
    BY <1>1, <2>1, BarMarks
  <2>3. sb <= tb /\ s <= tb
    BY <1>1, <1>9 DEF BarStart
  <2> QED BY <1>3, <1>9, <2>2, <2>3
<1>11. GetDistance(SnOf(s), rx.winStartB) = IF W <= s THEN s - W ELSE SEQNO_SPACE_SIZE + s - W
  BY <1>1, DistanceValue, HalfOfSpace
<1>12. CASE W < s
  <2>1. NotifyReceivedBar(rx, SnOf(s), retry) = PassUpTo(r, SnOf(s), retry)
    <3>1. GetDistance(SnOf(s), rx.winStartB) > 0
          /\ GetDistance(SnOf(s), rx.winStartB) < SEQNO_SPACE_HALF_SIZE
      BY <1>1, <1>11, <1>12, HalfOfSpace
    <3> QED BY <1>7, <3>1 DEF NotifyReceivedBar, PassUpTo
  <2>2. PICK p, m, G : PassedUpTo(Ids, r, p, m, G, num, retry, s)
    <3>1. W <= s /\ s < W + SEQNO_SPACE_SIZE
      BY <1>1, <1>12, HalfOfSpace
    <3> QED BY <1>1, <1>6, <1>8, <3>1, PassUpToKeepsOrder
  <2>3. PICK V : V = s + m
    OBVIOUS
  <2>4. /\ m \in Nat /\ V \in Int /\ s <= V /\ RecipientOK(p, Ids) /\ p.scoreboard = v
        /\ BufferAt(p, num, V) /\ \A g \in p.buffered : num[g.id] # V
        /\ G \subseteq rx.buffered /\ p.buffered = rx.buffered \ G
        /\ G = {g \in rx.buffered : num[g.id] < V}
        /\ Above(p, num, retry) /\ UpGains(r, p, G)
    BY <1>6, <2>2, <2>3 DEF PassedUpTo
  <2>5. \A k \in Nat : k < m => \E g \in rx.buffered : num[g.id] = s + k
    BY <1>6, <2>2 DEF PassedUpTo
  <2>6. tb = s
    BY <1>1, <1>9, <1>12 DEF BarStart
  <2>7. \A g \in p.buffered : num[g.id] < tb + SEQNO_SPACE_SIZE
    <3>1. \A g \in p.buffered : num[g.id] \in Int /\ num[g.id] < sb + SEQNO_SPACE_SIZE
      BY <1>1, <2>4 DEF BufferAt
    <3> QED BY <1>1, <1>10, <3>1, HalfOfSpace
  <2>8. AgreementAt(p, num, retry, V, tb)
    BY <1>10, <2>4, <2>6, <2>7 DEF AgreementAt
  <2>9. UpGains(rx, p, G)
    BY <1>6, <2>4 DEF UpGains
  <2>10. MovedOn(Ids, rx, p, rx.buffered, G, num, retry, W, sb, V, tb)
    <3>1. W <= V
      BY <1>1, <1>12, <2>4
    <3> QED BY <1>10, <2>4, <2>8, <2>9, <3>1 DEF MovedOn
  <2>11. ASSUME NEW k \in Int, s <= k, k < V PROVE \E g \in G : num[g.id] = k
    <3>1. k - s \in Nat /\ k - s < m /\ s + (k - s) = k
      BY <2>3, <2>4, <2>11
    <3>2. PICK g \in rx.buffered : num[g.id] = k
      BY <2>5, <3>1
    <3> QED BY <2>4, <2>11, <3>2
  <2>12. PassedBy(rx, p, G, num, W, V, tb)
    BY <2>4, <2>6, <2>11 DEF PassedBy
  <2>13. V = s \/ \E g \in G : num[g.id] = V - 1
    <3>1. CASE V = s
      BY <3>1
    <3>2. CASE V # s
      <4>1. V - 1 \in Int /\ s <= V - 1 /\ V - 1 < V
        BY <2>4, <3>2
      <4> QED BY <2>11, <4>1
    <3> QED BY <3>1, <3>2
  <2> QED BY <1>2, <1>3, <1>9, <2>1, <2>2, <2>4, <2>10, <2>12, <2>13 DEF BarMoves, PassedUpTo
<1>13. CASE ~ (W < s)
  <2>1. NotifyReceivedBar(rx, SnOf(s), retry) = r
    <3>1. ~ (GetDistance(SnOf(s), rx.winStartB) > 0
             /\ GetDistance(SnOf(s), rx.winStartB) < SEQNO_SPACE_HALF_SIZE)
      BY <1>1, <1>11, <1>13, HalfOfSpace
    <3> QED BY <1>7, <3>1 DEF NotifyReceivedBar
  <2>2. tb <= W
    BY <1>1, <1>9, <1>13 DEF BarStart
  <2>3. \A g \in r.buffered : num[g.id] < tb + SEQNO_SPACE_SIZE
    <3>1. \A g \in r.buffered : num[g.id] \in Int /\ num[g.id] < sb + SEQNO_SPACE_SIZE
      BY <1>1, <1>6 DEF BufferAt
    <3> QED BY <1>1, <1>10, <3>1, HalfOfSpace
  <2>4. AgreementAt(r, num, retry, W, tb)
    BY <1>1, <1>6, <1>8, <1>10, <2>2, <2>3 DEF AgreementAt
  <2>5. UpGains(rx, r, {})
    BY <1>6 DEF UpGains
  <2>6. MovedOn(Ids, rx, r, rx.buffered, {}, num, retry, W, sb, W, tb)
    BY <1>1, <1>6, <1>10, <2>4, <2>5 DEF MovedOn
  <2>7. PassedBy(rx, r, {}, num, W, W, tb)
    BY <1>1, <1>6 DEF PassedBy
  <2>8. s <= W
    BY <1>1, <1>13
  <2>9. BarMoves(Ids, rx, r, s, {}, num, retry, W, sb, W, tb)
    BY <1>2, <1>3, <1>6, <1>9, <2>1, <2>6, <2>7, <2>8 DEF BarMoves
  <2> QED BY <2>9
<1> QED BY <1>12, <1>13

-----------------------------------------------------------------------------
(* The reordering of one agreement, whose first number is known.           *)

\* The MSDUs held back, and all that the recipient has; their numbers.
HeldBack(rx) == {f.id : f \in rx.buffered}
Has(rx) == HeldBack(rx) \union {rx.up[i] : i \in DOMAIN rx.up}
NumbersOf(rx, num) == {num[m] : m \in Has(rx)}

\* The windows start at W and sb.  What is up is below W, and W itself is missing;
\* whatever the scoreboard marks has been received, and so has all that lies between
\* the two starts.
Reordering(Ids, rx, num, retry, W, sb) ==
    /\ RecipientOK(rx, Ids) /\ AgreementAt(rx, num, retry, W, sb)
    /\ \A m \in Has(rx) : num[m] < sb + WinSize
    /\ \A i \in DOMAIN rx.up : num[rx.up[i]] < W
    /\ \A f \in rx.buffered : num[f.id] # W
    /\ Marks(rx.scoreboard, sb) \subseteq NumbersOf(rx, num)
    /\ sb .. (W - 1) \subseteq NumbersOf(rx, num)

\* Numbers are integers, on the right side of W, and the windows are near each other.
LEMMA ReorderingFacts ==
    ASSUME NEW Ids, NEW rx, NEW num, NEW retry, NEW W, NEW sb, Reordering(Ids, rx, num, retry, W, sb)
    PROVE  /\ W \in Int /\ sb \in Int /\ sb <= W /\ W <= sb + WinSize
           /\ \A m \in Has(rx) : num[m] \in Int /\ num[m] < sb + WinSize
           /\ \A i \in DOMAIN rx.up : num[rx.up[i]] < W
           /\ \A m \in HeldBack(rx) : W < num[m]
           /\ W \notin NumbersOf(rx, num)
           /\ W = sb \/ W - 1 \in NumbersOf(rx, num)
<1>1. W \in Int /\ sb \in Int /\ sb <= W /\ WinSize \in Nat
    BY HalfOfSpace DEF Reordering, AgreementAt
<1>2. \A i \in DOMAIN rx.up : num[rx.up[i]] \in Int /\ num[rx.up[i]] < W
    BY DEF Reordering, AgreementAt, Above, UpOK
<1>3. \A m \in HeldBack(rx) : num[m] \in Int /\ W < num[m]
    <2> SUFFICES ASSUME NEW f \in rx.buffered PROVE num[f.id] \in Int /\ W < num[f.id]
        BY DEF HeldBack
    <2>1. num[f.id] \in Int /\ W <= num[f.id] /\ num[f.id] # W
        BY DEF Reordering, AgreementAt, BufferAt
    <2> QED  BY <1>1, <2>1
<1>4. \A m \in Has(rx) : num[m] \in Int /\ num[m] < sb + WinSize /\ num[m] # W
    <2> SUFFICES ASSUME NEW m \in Has(rx) PROVE num[m] \in Int /\ num[m] < sb + WinSize /\ num[m] # W
        OBVIOUS
    <2>1. num[m] < sb + WinSize
        BY DEF Reordering
    <2>2. CASE m \in HeldBack(rx)
        BY <1>1, <1>3, <2>1, <2>2
    <2>3. CASE \E i \in DOMAIN rx.up : m = rx.up[i]
        BY <1>1, <1>2, <2>1, <2>3
    <2> QED  BY <2>2, <2>3 DEF Has
<1>5. W = sb \/ W - 1 \in NumbersOf(rx, num)
    <2>1. W # sb => W - 1 \in sb .. (W - 1)
        BY <1>1
    <2> QED  BY <2>1 DEF Reordering
<1>6. W <= sb + WinSize
    <2>1. CASE W = sb
        BY <1>1, <2>1
    <2>2. CASE W - 1 \in NumbersOf(rx, num)
        <3>1. W - 1 < sb + WinSize
            BY <1>4, <2>2 DEF NumbersOf
        <3> QED  BY <1>1, <3>1
    <2> QED  BY <1>5, <2>1, <2>2
<1> QED  BY <1>1, <1>2, <1>3, <1>4, <1>5, <1>6 DEF NumbersOf

\* Only the numbers of what the recipient has matter, and retries may become more.
LEMMA ReorderingKept ==
    ASSUME NEW Ids, NEW rx, NEW num, NEW retry, NEW W, NEW sb, Reordering(Ids, rx, num, retry, W, sb),
           NEW num2, \A m \in Has(rx) : num2[m] = num[m], NEW retry2, retry \subseteq retry2
    PROVE  Reordering(Ids, rx, num2, retry2, W, sb)
<1>1. /\ \A f \in rx.buffered : num2[f.id] = num[f.id]
      /\ \A i \in DOMAIN rx.up : num2[rx.up[i]] = num[rx.up[i]]
    BY DEF Has, HeldBack
<1>2. NumbersOf(rx, num2) = NumbersOf(rx, num)
    BY DEF NumbersOf
<1>3. UpOK(rx, num2)
    <2>1. UpOK(rx, num) /\ rx.up \in Seq(Ids)
        BY RecipientFields DEF Reordering, AgreementAt, Above
    <2>2. rx.up # <<>> => Len(rx.up) \in DOMAIN rx.up
        BY <2>1, SeqElements
    <2> QED  BY <1>1, <2>1, <2>2 DEF UpOK
<1>4. UpBelow(rx, num2, rx.buffered, retry2)
    BY <1>1 DEF Reordering, AgreementAt, Above, UpBelow
<1>5. BufferAt(rx, num2, W)
    BY <1>1 DEF Reordering, AgreementAt, BufferAt
<1>6. AgreementAt(rx, num2, retry2, W, sb)
    BY <1>1, <1>3, <1>4, <1>5 DEF Reordering, AgreementAt, Above
<1> QED  BY <1>1, <1>2, <1>6 DEF Reordering

\* What the recipient has after it has moved on.
LEMMA MovedOnHas ==
    ASSUME NEW Ids, NEW rx, NEW p, NEW F, NEW G, NEW num, NEW retry, NEW W, NEW sb, NEW V, NEW tb,
           MovedOn(Ids, rx, p, F, G, num, retry, W, sb, V, tb)
    PROVE  /\ Has(p) = Has(rx) \union {g.id : g \in p.buffered \union G}
           /\ HeldBack(p) \subseteq {f.id : f \in F}
           /\ \A i \in DOMAIN rx.up : i \in DOMAIN p.up /\ p.up[i] = rx.up[i]
           /\ {p.up[i] : i \in DOMAIN p.up}
              = {rx.up[i] : i \in DOMAIN rx.up} \union {g.id : g \in G}
<1>1. UpGains(rx, p, G) /\ G \subseteq F /\ p.buffered \subseteq F /\ rx.buffered \subseteq p.buffered \union G
    BY DEF MovedOn
<1>2. {p.up[i] : i \in DOMAIN p.up} = {rx.up[i] : i \in DOMAIN rx.up} \union {g.id : g \in G}
    BY <1>1 DEF UpGains
<1>3. Has(p) = Has(rx) \union {g.id : g \in p.buffered \union G}
    BY <1>1, <1>2 DEF Has, HeldBack
<1> QED  BY <1>1, <1>2, <1>3 DEF HeldBack, UpGains

\* The recipient p of windows V and tb has what rx had, and the MSDUs of M.
Extended(Ids, rx, p, M, num, retry, W, sb, V, tb) ==
    /\ Reordering(Ids, p, num, retry, V, tb) /\ W <= V /\ sb <= tb
    /\ Has(p) = Has(rx) \union M /\ HeldBack(p) \subseteq HeldBack(rx) \union M
    /\ \A i \in DOMAIN rx.up : i \in DOMAIN p.up /\ p.up[i] = rx.up[i]

LEMMA MovedOnExtends ==
    ASSUME NEW Ids, NEW rx, NEW num, NEW retry, NEW W, NEW sb, Reordering(Ids, rx, num, retry, W, sb),
           NEW p, NEW F, NEW G, NEW V, NEW tb, NEW M,
           MovedOn(Ids, rx, p, F, G, num, retry, W, sb, V, tb), PassedBy(rx, p, G, num, W, V, tb),
           Has(p) = Has(rx) \union M, HeldBack(p) \subseteq HeldBack(rx) \union M,
           \A m \in M : num[m] < tb + WinSize,
           Marks(p.scoreboard, tb) \subseteq Marks(rx.scoreboard, sb) \union {num[m] : m \in M}
    PROVE  Extended(Ids, rx, p, M, num, retry, W, sb, V, tb)
<1>1. /\ W \in Int /\ sb \in Int /\ V \in Int /\ tb \in Int /\ W <= V /\ sb <= tb /\ WinSize \in Nat
      /\ RecipientOK(p, Ids) /\ AgreementAt(p, num, retry, V, tb)
    BY ReorderingFacts, HalfOfSpace DEF MovedOn, AgreementAt
<1>2. NumbersOf(p, num) = NumbersOf(rx, num) \union {num[m] : m \in M}
    BY DEF NumbersOf
<1>3. \A m \in Has(p) : num[m] < tb + WinSize
    <2> SUFFICES ASSUME NEW m \in Has(rx) PROVE num[m] < tb + WinSize
        OBVIOUS
    <2>1. num[m] \in Int /\ num[m] < sb + WinSize
        BY ReorderingFacts
    <2> QED  BY <1>1, <2>1
<1>4. \A i \in DOMAIN p.up : num[p.up[i]] < V
    <2> SUFFICES ASSUME NEW i \in DOMAIN p.up PROVE num[p.up[i]] < V
        OBVIOUS
    <2>1. CASE i \in DOMAIN rx.up /\ p.up[i] = rx.up[i]
        <3>1. num[rx.up[i]] \in Int /\ num[rx.up[i]] < W
            BY <2>1, ReorderingFacts DEF Has
        <3> QED  BY <1>1, <2>1, <3>1
    <2>2. CASE \E g \in G : p.up[i] = g.id
        BY <2>2 DEF PassedBy
    <2> QED  BY <2>1, <2>2 DEF MovedOn, UpGains
<1>5. \A f \in p.buffered : num[f.id] # V
    <2>1. \A f \in rx.buffered : num[f.id] # W
        BY DEF Reordering
    <2> QED  BY <2>1 DEF PassedBy
<1>6. Marks(p.scoreboard, tb) \subseteq NumbersOf(p, num)
    BY <1>2 DEF Reordering
<1>7. tb .. (V - 1) \subseteq NumbersOf(p, num)
    <2> SUFFICES ASSUME NEW k \in tb .. (V - 1) PROVE k \in NumbersOf(p, num)
        OBVIOUS
    <2>1. k \in Int /\ tb <= k /\ k < V /\ sb <= k
        BY <1>1
    <2>2. CASE k < W
        <3>1. k \in sb .. (W - 1)
            BY <1>1, <2>1, <2>2
        <3> QED  BY <1>2, <3>1 DEF Reordering
    <2>3. CASE W <= k
        <3>1. PICK g \in G : num[g.id] = k
            BY <2>1, <2>3 DEF PassedBy
        <3>2. g.id \in Has(p)
            BY <3>1, MovedOnHas
        <3> QED  BY <3>1, <3>2 DEF NumbersOf
    <2> QED  BY <1>1, <2>1, <2>2, <2>3
<1>8. Reordering(Ids, p, num, retry, V, tb)
    BY <1>1, <1>3, <1>4, <1>5, <1>6, <1>7 DEF Reordering
<1> QED  BY <1>1, <1>8, MovedOnHas DEF Extended

\* An MPDU received extends what the recipient has, if its number is at most half a space
\* beyond the scoreboard's start, and its reduction does not make m_winStartB wrap.
LEMMA ReorderingReceives ==
    ASSUME NEW Ids, NEW rx, NEW num, NEW retry, NEW W, NEW sb, Reordering(Ids, rx, num, retry, W, sb),
           NEW f \in Frames(Ids), NEW n \in Int, num[f.id] = n, f.sn = SnOf(n),
           sb <= n, n < sb + SEQNO_SPACE_HALF_SIZE, \A m \in Has(rx) : n < num[m] + SEQNO_SPACE_SIZE,
           \A m \in Has(rx) : num[m] = n => m = f.id,
           W + WinSize <= n => SnOf(n) - WinSize + 1 >= 0
    PROVE  \E p, V : /\ p = NotifyReceivedMpdu(rx, f, retry)
                     /\ Extended(Ids, rx, p, {f.id}, num, retry, W, sb, V, ScoreboardStart(sb, n))
<1>1. /\ W \in Int /\ sb \in Int /\ sb <= W /\ W <= sb + WinSize
      /\ \A m \in Has(rx) : num[m] \in Int /\ num[m] < sb + WinSize
      /\ \A i \in DOMAIN rx.up : num[rx.up[i]] < W
      /\ RecipientOK(rx, Ids) /\ AgreementAt(rx, num, retry, W, sb)
    BY ReorderingFacts DEF Reordering
<1>2. W <= n => UpBelow(rx, num, {f}, retry)
    <2> SUFFICES ASSUME W <= n, NEW i \in DOMAIN rx.up
                 PROVE  /\ num[rx.up[i]] <= n /\ n < num[rx.up[i]] + SEQNO_SPACE_SIZE
                        /\ num[rx.up[i]] # n
        BY DEF UpBelow
    <2>1. rx.up[i] \in Has(rx)
        BY DEF Has
    <2>2. num[rx.up[i]] \in Int /\ num[rx.up[i]] < W /\ n < num[rx.up[i]] + SEQNO_SPACE_SIZE
        BY <1>1, <2>1
    <2> QED  BY <1>1, <2>2
<1>3. /\ W - SEQNO_SPACE_HALF_SIZE <= n /\ n < W + SEQNO_SPACE_SIZE
      /\ sb - SEQNO_SPACE_HALF_SIZE <= n /\ n < sb + SEQNO_SPACE_SIZE
      /\ n < W + SEQNO_SPACE_HALF_SIZE
    BY <1>1, HalfOfSpace
<1>4. Receivable(rx, f, n, num, retry, W, sb)
    BY <1>2, <1>3 DEF Receivable
<1>5. rx.winStartB \in SeqNo
    BY <1>1, SnOfType DEF AgreementAt, BufferAt
<1>6. NotifyReceivedMpdu(rx, f, retry).winStartB \in SeqNo
    BY <1>1, <1>4, <1>5, NotifyInRange
<1>7. PICK p, G, V, tb : /\ p = NotifyReceivedMpdu(rx, f, retry)
                         /\ ReceiveMoves(Ids, rx, p, f, n, G, num, retry, W, sb, V, tb)
    BY <1>1, <1>4, <1>6, NotifyKeepsOrder
<1>8. /\ MovedOn(Ids, rx, p, rx.buffered \union {f}, G, num, retry, W, sb, V, tb)
      /\ PassedBy(rx, p, G, num, W, V, tb) /\ tb = ScoreboardStart(sb, n)
      /\ p.scoreboard = ScoreboardReceived(rx.scoreboard, f.sn)
      /\ W <= n => \E g \in p.buffered \union G : num[g.id] = n
    BY <1>3, <1>7 DEF ReceiveMoves
<1>9. Has(p) = Has(rx) \union {f.id}
    <2>1. /\ Has(p) = Has(rx) \union {g.id : g \in p.buffered \union G}
          /\ p.buffered \union G \subseteq rx.buffered \union {f}
        <3>1. Has(p) = Has(rx) \union {g.id : g \in p.buffered \union G}
            BY <1>8, MovedOnHas
        <3> QED  BY <1>8, <3>1 DEF MovedOn
    <2>2. \A g \in p.buffered \union G : g.id \in Has(rx) \union {f.id}
        BY <2>1 DEF Has, HeldBack
    <2>3. f.id \in Has(p)
        <3>1. CASE W <= n
            <4>1. PICK g \in p.buffered \union G : num[g.id] = n
                BY <1>8, <3>1
            <4>2. g.id = f.id
                BY <2>2, <4>1
            <4> QED  BY <2>1, <4>1, <4>2
        <3>2. CASE n < W
            <4>1. n \in sb .. (W - 1)
                BY <1>1, <3>2
            <4>2. \E m \in Has(rx) : num[m] = n
                BY <4>1 DEF Reordering, NumbersOf
            <4> QED  BY <2>1, <4>2
        <3> QED  BY <1>1, <3>1, <3>2
    <2> QED  BY <2>1, <2>2, <2>3
<1>10. HeldBack(p) \subseteq HeldBack(rx) \union {f.id}
    BY <1>8 DEF MovedOn, HeldBack
<1>11. n < tb + WinSize
    BY <1>1, <1>8, HalfOfSpace DEF ScoreboardStart
<1>12. Marks(p.scoreboard, tb) \subseteq Marks(rx.scoreboard, sb) \union {n}
    <2>1. rx.scoreboard \in Window /\ rx.scoreboard.start = SnOf(sb)
        BY <1>1, RecipientFields DEF AgreementAt
    <2> QED  BY <1>1, <1>8, <2>1, ScoreboardMarks
<1>13. \A m \in {f.id} : num[m] < tb + WinSize
    BY <1>11
<1>14. Marks(p.scoreboard, tb) \subseteq Marks(rx.scoreboard, sb) \union {num[m] : m \in {f.id}}
    BY <1>12
<1>15. Extended(Ids, rx, p, {f.id}, num, retry, W, sb, V, tb)
    <2> DEFINE M == {f.id}
               F == rx.buffered \union {f}
    <2>1. /\ MovedOn(Ids, rx, p, F, G, num, retry, W, sb, V, tb)
          /\ Has(p) = Has(rx) \union M /\ HeldBack(p) \subseteq HeldBack(rx) \union M
          /\ \A m \in M : num[m] < tb + WinSize
          /\ Marks(p.scoreboard, tb) \subseteq Marks(rx.scoreboard, sb) \union {num[m] : m \in M}
        BY <1>8, <1>9, <1>10, <1>13, <1>14
    <2> HIDE DEF M, F
    <2>2. Extended(Ids, rx, p, M, num, retry, W, sb, V, tb)
        BY <1>8, <2>1, MovedOnExtends
    <2> QED  BY <2>2 DEF M
<1> QED  BY <1>7, <1>8, <1>15

\* So does a BlockAckReq, which gives it nothing.
LEMMA ReorderingBar ==
    ASSUME NEW Ids, NEW rx, NEW num, NEW retry, NEW W, NEW sb, Reordering(Ids, rx, num, retry, W, sb),
           NEW s \in Int, W - SEQNO_SPACE_HALF_SIZE <= s, sb - SEQNO_SPACE_HALF_SIZE <= s,
           s < sb + SEQNO_SPACE_HALF_SIZE
    PROVE  \E p, V : /\ p = NotifyReceivedBar(rx, SnOf(s), retry) /\ s <= V
                     /\ Extended(Ids, rx, p, {}, num, retry, W, sb, V, BarStart(sb, s))
<1>1. /\ RecipientOK(rx, Ids) /\ AgreementAt(rx, num, retry, W, sb) /\ sb \in Int
    BY ReorderingFacts DEF Reordering
<1>2. PICK p, G, V, tb : BarMoves(Ids, rx, p, s, G, num, retry, W, sb, V, tb)
    BY <1>1, BarKeepsOrder
<1>3. /\ MovedOn(Ids, rx, p, rx.buffered, G, num, retry, W, sb, V, tb)
      /\ PassedBy(rx, p, G, num, W, V, tb) /\ tb = BarStart(sb, s) /\ s <= V
      /\ p.scoreboard = ScoreboardBar(rx.scoreboard, SnOf(s))
      /\ p = NotifyReceivedBar(rx, SnOf(s), retry)
    BY <1>2 DEF BarMoves
<1> DEFINE M == {m \in Has(rx) : FALSE}
           B == rx.buffered
<1>4. M = {}
    OBVIOUS
<1>5. Has(p) = Has(rx) \union M /\ HeldBack(p) \subseteq HeldBack(rx) \union M
    <2>1. Has(p) = Has(rx) \union {g.id : g \in p.buffered \union G}
        BY <1>3, MovedOnHas
    <2>2. p.buffered \subseteq rx.buffered /\ G \subseteq rx.buffered
        BY <1>3 DEF MovedOn
    <2> QED  BY <2>1, <2>2 DEF Has, HeldBack
<1>6. Marks(p.scoreboard, tb) \subseteq Marks(rx.scoreboard, sb)
    <2>1. rx.scoreboard \in Window /\ rx.scoreboard.start = SnOf(sb)
        BY <1>1, RecipientFields DEF AgreementAt
    <2> QED  BY <1>1, <1>3, <2>1, BarMarks
<1>7. /\ \A m \in M : num[m] < tb + WinSize
      /\ Marks(p.scoreboard, tb) \subseteq Marks(rx.scoreboard, sb) \union {num[m] : m \in M}
    BY <1>4, <1>6
<1>8. MovedOn(Ids, rx, p, B, G, num, retry, W, sb, V, tb)
    BY <1>3
<1> HIDE DEF M, B
<1>9. Extended(Ids, rx, p, M, num, retry, W, sb, V, tb)
    BY <1>3, <1>5, <1>7, <1>8, MovedOnExtends
<1>10. Extended(Ids, rx, p, {}, num, retry, W, sb, V, tb)
    BY <1>4, <1>9
<1> QED  BY <1>3, <1>10

\* Numbers are given in the order of the MSDUs.
InNumberOrder(S, num) == \A m, k \in S : m < k => num[m] < num[k]

\* p hands over in order those of H, which rx has, that it does not hold back.
HandsOver(rx, p, H, D) ==
    /\ D = H \ HeldBack(p) /\ HeldBack(p) = H \ D /\ \A d \in D, h \in H \ D : d < h
    /\ IsPrefix(rx.up, p.up) /\ ToSet(p.up) = ToSet(rx.up) \union D
    /\ \A i, j \in DOMAIN p.up : i < j => p.up[i] < p.up[j]

\* The first elements of a sequence.
LEMMA SubSeqFromOne ==
    ASSUME NEW S, NEW q \in Seq(S), NEW n \in Nat, n <= Len(q)
    PROVE  SubSeq(q, 1, n) = [i \in 1 .. n |-> q[i]]
<1>1. SubSeq(q, 1, n) = [i \in 1 .. (1 + n - 1) |-> q[i + 1 - 1]]
    BY SMT
<1> QED  BY <1>1

LEMMA HandedOver ==
    ASSUME NEW Ids, Ids \subseteq Int, NEW rx, NEW p, NEW M, NEW num, NEW retry, NEW W, NEW sb,
           NEW V, NEW tb, Reordering(Ids, rx, num, retry, W, sb),
           Extended(Ids, rx, p, M, num, retry, W, sb, V, tb), InNumberOrder(Has(p), num),
           NEW H, Has(p) = ToSet(rx.up) \union H
    PROVE  HandsOver(rx, p, H, H \ HeldBack(p))
<1> DEFINE D == H \ HeldBack(p)
<1>1. /\ rx.up \in Seq(Ids) /\ p.up \in Seq(Ids) /\ p.buffered \subseteq Frames(Ids)
      /\ RecipientOK(p, Ids) /\ UpOK(p, num) /\ Reordering(Ids, p, num, retry, V, tb)
    BY RecipientFields DEF Reordering, Extended, AgreementAt, Above
<1>2. /\ Len(rx.up) \in Nat /\ DOMAIN rx.up = 1 .. Len(rx.up)
      /\ Len(p.up) \in Nat /\ DOMAIN p.up = 1 .. Len(p.up)
      /\ \A i \in DOMAIN p.up : p.up[i] \in Ids
    BY <1>1, SeqElements
<1>3. \A i \in DOMAIN rx.up : i \in DOMAIN p.up /\ p.up[i] = rx.up[i]
    BY DEF Extended
<1>4. ToSet(rx.up) \subseteq ToSet(p.up) /\ ToSet(p.up) \subseteq Has(p) /\ HeldBack(p) \subseteq Has(p)
      /\ Has(p) = HeldBack(p) \union ToSet(p.up)
    BY <1>3 DEF ToSet, Has
<1>5. \A m \in Has(p) : m \in Int
    <2>1. HeldBack(p) \subseteq Ids
        BY <1>1, FrameFields DEF HeldBack
    <2>2. ToSet(p.up) \subseteq Ids
        BY <1>2 DEF ToSet
    <2> QED  BY <1>4, <2>1, <2>2
<1>6. /\ V \in Int /\ \A m \in Has(p) : num[m] \in Int
      /\ \A m \in ToSet(p.up) : num[m] < V
      /\ \A m \in HeldBack(p) : V < num[m]
    BY <1>1, ReorderingFacts DEF ToSet
<1>7. ToSet(p.up) \intersect HeldBack(p) = {}
    <2> SUFFICES ASSUME NEW m \in ToSet(p.up), m \in HeldBack(p) PROVE FALSE
        OBVIOUS
    <2>1. num[m] \in Int /\ num[m] < V /\ V < num[m]
        BY <1>4, <1>6
    <2> QED  BY <1>6, <2>1
<1>8. HeldBack(p) = H \ D /\ ToSet(p.up) = ToSet(rx.up) \union D
    BY <1>4, <1>7
<1>9. ASSUME NEW d \in D, NEW h \in H \ D PROVE d < h
    <2>1. d \in ToSet(p.up) /\ h \in HeldBack(p) /\ d \in Has(p) /\ h \in Has(p)
        BY <1>4, <1>8, <1>9
    <2>2. d \in Int /\ h \in Int
        BY <1>5, <2>1
    <2>3. num[d] \in Int /\ num[h] \in Int /\ num[d] < V /\ V < num[h]
        BY <1>6, <2>1
    <2>4. num[d] < num[h]
        BY <1>6, <2>3
    <2>5. ~ (h < d) /\ h # d
        <3>1. h < d => num[h] < num[d]
            BY <2>1 DEF InNumberOrder
        <3> QED  BY <2>3, <2>4, <3>1
    <2> QED  BY <2>2, <2>5
<1>10. ASSUME NEW i \in DOMAIN p.up, NEW j \in DOMAIN p.up, i < j PROVE p.up[i] < p.up[j]
    <2>1. num[p.up[i]] \in Int /\ num[p.up[j]] \in Int /\ num[p.up[i]] < num[p.up[j]]
        BY <1>1, <1>10 DEF UpOK
    <2>2. p.up[i] \in Has(p) /\ p.up[j] \in Has(p)
        BY <1>4 DEF ToSet
    <2>3. p.up[i] \in Int /\ p.up[j] \in Int
        BY <1>5, <2>2
    <2>4. ~ (p.up[j] < p.up[i]) /\ p.up[i] # p.up[j]
        <3>1. p.up[j] < p.up[i] => num[p.up[j]] < num[p.up[i]]
            BY <2>2 DEF InNumberOrder
        <3> QED  BY <2>1, <3>1
    <2> QED  BY <2>3, <2>4
<1>11. IsPrefix(rx.up, p.up)
    <2>1. Len(rx.up) <= Len(p.up)
        <3>1. CASE Len(rx.up) = 0
            BY <1>2, <3>1
        <3>2. CASE Len(rx.up) # 0
            <4>1. Len(rx.up) \in DOMAIN p.up
                BY <1>2, <1>3, <3>2
            <4> QED  BY <1>2, <4>1
        <3> QED  BY <3>1, <3>2
    <2> DEFINE n == Len(rx.up)
               a == SubSeq(rx.up, 1, n)
               b == SubSeq(p.up, 1, n)
    <2>2. /\ a = [i \in 1 .. n |-> rx.up[i]] /\ b = [i \in 1 .. n |-> p.up[i]]
        BY <1>1, <1>2, <2>1, SubSeqFromOne
    <2>3. a = b
        BY <1>2, <1>3, <2>2
    <2> QED  BY <2>1, <2>3 DEF IsPrefix
<1> QED  BY <1>8, <1>9, <1>10, <1>11 DEF HandsOver
=============================================================================
