---------------------------- MODULE DdcmpProofs ----------------------------
(***************************************************************************)
(* What two DDCMP stations with fast lines keep true: TypeOK, Accounted,   *)
(* Agreement, NeverExhausted and NoControlQueued, for any pool, modulus    *)
(* and buffers that the assumptions of Ddcmp and DdcmpNumber allow, any    *)
(* messages, and any packets lost or damaged, connections broken and       *)
(* controllers cleared, as long as no write to the line fails or stalls.   *)
(*                                                                         *)
(* Of a controller between two actions (Settled) the invariant says that   *)
(* no packet is being sent, that its buffers are messages and no more than *)
(* a driver may have outstanding, that none is forgotten (Sound), and that *)
(* the messages with a number are the ones it may have to send again       *)
(* (Window).  Of the two and the line (Pair) it says in which order        *)
(* START, STACK and the rest arrive, that acknowledgements arrive in order *)
(* and are true, and how old a message on the line can be.                 *)
(*                                                                         *)
(* The sections follow the code: what is said of numbers, queues and the   *)
(* line; each routine; each rule; the scan; the calls one routine makes of *)
(* another, of which each keeps the controller Working; each action.       *)
(***************************************************************************)
EXTENDS Ddcmp, ListProofs, FiniteSetTheorems, WellFoundedInduction

-----------------------------------------------------------------------------
(* Numbers *)

\* The number of the message d places after, or before, the one numbered n.
After(n, d) == IF n + d < Modulus THEN n + d ELSE n + d - Modulus
Back(n, d) == IF d <= n THEN n - d ELSE n - d + Modulus

LEMMA Sizes ==
  /\ Modulus \in Nat /\ Pool \in Nat /\ MaxXmt \in Nat /\ MaxRcv \in Nat
  /\ Modulus > 0 /\ Modulus > 2 * Pool /\ MaxXmt + MaxRcv < Pool /\ 3 * MaxXmt <= Modulus
BY NumberAssumption, DdcmpAssumption

LEMMA Numbers == \A n : n \in Number <=> n \in Int /\ 0 <= n /\ n < Modulus
BY Sizes DEF Number

LEMMA SuccIs ==
  ASSUME NEW n \in Number
  PROVE  /\ Succ(n) \in Number
         /\ Succ(n) = IF n + 1 = Modulus THEN 0 ELSE n + 1
BY Sizes DEF Number, Succ

LEMMA AheadIs ==
  ASSUME NEW a \in Number, NEW b \in Number
  PROVE  /\ Ahead(a, b) \in Nat /\ Ahead(a, b) < Modulus
         /\ Ahead(a, b) = 0 <=> a = b
         /\ Ahead(a, a) = 0
BY Sizes DEF Number, Ahead

LEMMA AheadSucc ==
  ASSUME NEW a \in Number, NEW b \in Number
  PROVE  /\ Ahead(a, b) + 1 < Modulus => Ahead(a, Succ(b)) = Ahead(a, b) + 1
         /\ Ahead(a, b) + 1 >= Modulus => Ahead(a, Succ(b)) = 0
         /\ a # b => Ahead(Succ(a), b) = Ahead(a, b) - 1
         /\ Ahead(Succ(a), Succ(b)) = Ahead(a, b)
BY Sizes, SuccIs DEF Number, Ahead

LEMMA AheadSplit ==
  ASSUME NEW a \in Number, NEW b \in Number, NEW c \in Number,
         Ahead(a, b) <= Ahead(a, c)
  PROVE  Ahead(a, c) = Ahead(a, b) + Ahead(b, c)
BY Sizes DEF Number, Ahead

\* Two numbers that are as far ahead of a third are the same.
LEMMA AheadOnce ==
  ASSUME NEW a \in Number, NEW b \in Number, NEW c \in Number
  PROVE  /\ Ahead(a, b) = Ahead(a, c) => b = c
         /\ Ahead(b, a) = Ahead(c, a) => b = c
BY Sizes DEF Number, Ahead

LEMMA AfterIs ==
  ASSUME NEW n \in Number, NEW d \in Nat, d < Modulus
  PROVE  /\ After(n, d) \in Number /\ Ahead(n, After(n, d)) = d
         /\ Back(n, d) \in Number /\ Ahead(Back(n, d), n) = d
BY Sizes DEF Number, Ahead, After, Back

\* The comparison tells which of two numbers at most Pool apart comes first,
\* wrapped or not: what ddcmp_CompleteAckedTransmits, rules 23, 29, 32 and 37
\* and ddcmp_NAKMissingPacket decide by.
THEOREM CompareTrue ==
  ASSUME NEW n \in Number, NEW m \in Number, Ahead(n, m) <= Pool
  PROVE  /\ LE(n, m) /\ GE(m, n)
         /\ LT(n, m) <=> n # m
         /\ GT(m, n) <=> n # m
BY Sizes DEF Number, Ahead, LT, LE, GT, GE, Mod256Cmp, Distance

\* Two numbers of one window are compared alike from both sides, and the
\* successor is where the window ends: rule 24 takes exactly the message
\* rule 23 does not ask for again.
THEOREM WindowOrder ==
  ASSUME NEW n \in Number, NEW a \in Number, NEW b \in Number,
         Ahead(n, a) <= Pool, Ahead(n, b) <= Pool
  PROVE  /\ LE(a, b) <=> Ahead(n, a) <= Ahead(n, b)
         /\ LT(a, b) <=> Ahead(n, a) < Ahead(n, b)
         /\ GT(a, b) <=> Ahead(n, a) > Ahead(n, b)
         /\ GE(a, b) <=> Ahead(n, a) >= Ahead(n, b)
<1>1. /\ LE(a, b) <=> Ahead(n, a) <= Ahead(n, b)
      /\ LT(a, b) <=> Ahead(n, a) < Ahead(n, b)
  BY Sizes DEF Number, Ahead, LT, LE, Mod256Cmp, Distance
<1>2. /\ GT(a, b) <=> Ahead(n, a) > Ahead(n, b)
      /\ GE(a, b) <=> Ahead(n, a) >= Ahead(n, b)
  BY Sizes DEF Number, Ahead, GT, GE, Mod256Cmp, Distance
<1> QED  BY <1>1, <1>2

-----------------------------------------------------------------------------
(* The window: the messages a station holds and their numbers *)

\* A buffer on the transmit or the ack wait queue.
Packet == [k : Kinds \cup {"raw"}, num : Number, id : Nat]

\* Position i of q has the message numbered n.
Has(q, i, n) == q[i].k = "data" /\ q[i].num = n

\* Every number after A up to N is that of a message of q.
Covered(q, A, N) ==
  \A n \in Number : Ahead(A, n) > 0 /\ Ahead(A, n) <= Ahead(A, N)
    => \E i \in 1 .. Len(q) : Has(q, i, n)

\* What is on the transmit queue is not far behind the last message.
Recent(q, a, N) ==
  \A i \in a + 1 .. Len(q) :
    q[i].k = "data" => Ahead(q[i].num, N) + (i - a) <= 2 * MaxXmt - 1

\* What stays on the ack wait queue has the messages after it behind it.
Followed(q, a, N) ==
  \A i \in 1 .. a : \A n \in Number :
    Ahead(n, N) + 2 * MaxXmt - 1 <= Ahead(q[i].num, N)
      => \E j \in i + 1 .. Len(q) : Has(q, j, n)

\* No two messages of q have the same number.
Distinct(q) ==
  \A i, j \in 1 .. Len(q) :
    q[i].k = "data" /\ q[j].k = "data" /\ i # j => q[i].num # q[j].num

\* q is the ack wait queue, a messages long, and the transmit queue of a
\* controller with the numbers A, N and T.
Window(q, a, A, N, T) ==
  /\ Covered(q, A, N)
  /\ Ahead(Succ(A), T) <= Ahead(A, N)
  /\ Recent(q, a, N)
  /\ Followed(q, a, N)
  /\ Distinct(q)

\* The first a packets of q have been sent.
Held(q, a) ==
  /\ q \in Seq(Packet) /\ a \in 0 .. Len(q) /\ Len(q) <= MaxXmt
  /\ \A i \in 1 .. a : q[i].k = "data"

LEMMA First ==
  ASSUME NEW S \in SUBSET Nat, S # {}
  PROVE  \E i \in S : \A j \in S : i <= j
  <1>1. PICK i \in S : \A j \in S : ~(<<j, i>> \in OpToRel(<, Nat))
    BY WFMin, NatLessThanWellFounded, Zenon
  <1>2. \A j \in S : ~(j < i)
    BY <1>1 DEF OpToRel
  <1> QED  BY <1>2

LEMMA BeforeIs ==
  ASSUME NEW q, Len(q) \in Nat, NEW S \in SUBSET (1 .. Len(q))
  PROVE  /\ Before(q, S) \in 0 .. Len(q)
         /\ \A i \in 1 .. Before(q, S) : i \notin S
         /\ Before(q, S) < Len(q) => Before(q, S) + 1 \in S
<1>1. CASE S = {}
  BY <1>1 DEF Before
<1>2. CASE S # {}
  <2> DEFINE i == CHOOSE i \in S : \A j \in S : i <= j
  <2>1. \E k \in S : \A j \in S : k <= j
    BY <1>2, First
  <2>2. i \in S /\ \A j \in S : i <= j
    BY <2>1
  <2>3. Before(q, S) = i - 1
    BY <1>2 DEF Before
  <2> HIDE DEF i
  <2> QED  BY <2>2, <2>3
<1> QED  BY <1>1, <1>2

\* k different things have k places.
LEMMA Enough ==
  ASSUME NEW k \in Nat, NEW l \in Nat, NEW P \in SUBSET (1 .. l), NEW f \in [1 .. k -> P],
         \A x, y \in 1 .. k : f[x] = f[y] => x = y
  PROVE  /\ k <= l
         /\ (\E r \in 1 .. l : r \notin P) => k <= l - 1
<1>1. /\ IsFiniteSet(1 .. l) /\ Cardinality(1 .. l) = l
      /\ IsFiniteSet(1 .. k) /\ Cardinality(1 .. k) = k
  <2>1. Cardinality(1 .. l) = IF 1 > l THEN 0 ELSE l - 1 + 1
    BY FS_Interval
  <2>2. Cardinality(1 .. k) = IF 1 > k THEN 0 ELSE k - 1 + 1
    BY FS_Interval
  <2> QED  BY <2>1, <2>2, FS_Interval
<1>2. IsFiniteSet(P) /\ Cardinality(P) <= l /\ Cardinality(P) \in Nat
  <2> DEFINE S == 1 .. l
  <2>1. IsFiniteSet(S) /\ P \in SUBSET S
    BY <1>1
  <2> HIDE DEF S
  <2>2. IsFiniteSet(P) /\ Cardinality(P) <= Cardinality(S)
    BY <2>1, FS_Subset
  <2>3. Cardinality(P) \in Nat
    BY <2>2, FS_CardinalityType
  <2> QED  BY <1>1, <2>2, <2>3 DEF S
<1>3. k <= Cardinality(P)
  <2>1. CASE Cardinality(P) < k
    <3>1. \E x, y \in 1 .. k : x # y /\ f[x] = f[y]
      BY <1>1, <1>2, <2>1, FS_PigeonHole
    <3> QED  BY <3>1
  <2> QED  BY <1>2, <2>1
<1>4. ASSUME NEW r \in 1 .. l, r \notin P
      PROVE  k <= l - 1
  <2>1. /\ IsFiniteSet((1 .. l) \ {r})
        /\ Cardinality((1 .. l) \ {r}) = l - 1
    BY <1>1, FS_RemoveElement
  <2>2. P \in SUBSET ((1 .. l) \ {r})
    BY <1>4
  <2> DEFINE S == (1 .. l) \ {r}
  <2>3. Cardinality(P) <= l - 1
    <3> HIDE DEF S
    <3>1. IsFiniteSet(S) /\ P \in SUBSET S /\ Cardinality(S) = l - 1
      BY <2>1, <2>2 DEF S
    <3>2. Cardinality(P) <= Cardinality(S)
      BY <3>1, FS_Subset
    <3> QED  BY <3>1, <3>2
  <2> QED  BY <1>2, <1>3, <2>3
<1> QED  BY <1>2, <1>3, <1>4

\* The window is no larger than what the station holds.
LEMMA WindowSize ==
  ASSUME NEW q, NEW a, NEW A \in Number, NEW N \in Number, Held(q, a), Covered(q, A, N)
  PROVE  /\ Ahead(A, N) <= Len(q)
         /\ (\E r \in 1 .. Len(q) : q[r].k = "raw") => Ahead(A, N) <= Len(q) - 1
<1> DEFINE w == Ahead(A, N)
           P == {i \in 1 .. Len(q) : q[i].k = "data"}
           at(d) == CHOOSE i \in 1 .. Len(q) : Has(q, i, After(A, d))
           f == [d \in 1 .. w |-> at(d)]
<1>1. w \in Nat /\ w < Modulus /\ Len(q) \in Nat
  BY AheadIs DEF Held
<1>2. ASSUME NEW d \in 1 .. w
      PROVE  at(d) \in 1 .. Len(q) /\ Has(q, at(d), After(A, d))
  <2>1. After(A, d) \in Number /\ Ahead(A, After(A, d)) = d
    BY <1>1, AfterIs, Sizes
  <2>2. \E i \in 1 .. Len(q) : Has(q, i, After(A, d))
    BY <1>1, <2>1 DEF Covered
  <2> QED  BY <2>2
<1>3. f \in [1 .. w -> P]
  BY <1>2 DEF Has
<1>4. \A x, y \in 1 .. w : f[x] = f[y] => x = y
  <2> SUFFICES ASSUME NEW x \in 1 .. w, NEW y \in 1 .. w, f[x] = f[y] PROVE x = y
    OBVIOUS
  <2>1. at(x) = at(y)
    OBVIOUS
  <2>2. After(A, x) = After(A, y)
    BY <1>2, <2>1 DEF Has
  <2>3. Ahead(A, After(A, x)) = x /\ Ahead(A, After(A, y)) = y
    BY <1>1, AfterIs, Sizes
  <2> QED  BY <2>2, <2>3
<1> HIDE DEF f
<1>5. w <= Len(q) /\ ((\E r \in 1 .. Len(q) : r \notin P) => w <= Len(q) - 1)
  BY <1>1, <1>3, <1>4, Enough
<1> QED  BY <1>5

\* No message is held for long.
LEMMA WindowAge ==
  ASSUME NEW q, NEW a, NEW N \in Number, Held(q, a), Recent(q, a, N), Followed(q, a, N),
         NEW i \in 1 .. Len(q), q[i].k = "data"
  PROVE  /\ Ahead(q[i].num, N) <= 3 * MaxXmt - 3
         /\ Ahead(q[i].num, N) + 1 < Modulus
         /\ q[i].num \in Number
<1>1. q[i].num \in Number /\ Len(q) \in Nat /\ a \in Nat /\ 1 <= MaxXmt
  <2>1. q[i] \in Packet /\ Len(q) \in Nat /\ a \in Nat
    BY DEF Held
  <2>2. q[i].num \in Number
    BY <2>1 DEF Packet
  <2> QED  BY <2>1, <2>2, Sizes DEF Held
<1>2. CASE i > a
  <2>1. Ahead(q[i].num, N) + (i - a) <= 2 * MaxXmt - 1
    BY <1>1, <1>2 DEF Recent
  <2>2. Ahead(q[i].num, N) \in Nat
    BY <1>1, AheadIs
  <2> QED  BY <1>1, <1>2, <2>1, <2>2, Sizes
<1>3. CASE i <= a /\ Ahead(q[i].num, N) > 3 * MaxXmt - 3
  <2> DEFINE at(k) == CHOOSE j \in i + 1 .. Len(q) : Has(q, j, Back(N, k - 1))
             P == i + 1 .. Len(q)
             f == [k \in 1 .. MaxXmt |-> at(k)]
  <2>1. ASSUME NEW k \in 1 .. MaxXmt
        PROVE  at(k) \in P /\ Has(q, at(k), Back(N, k - 1))
    <3>1. k - 1 \in Nat /\ k - 1 < Modulus
      BY Sizes
    <3>2. Back(N, k - 1) \in Number /\ Ahead(Back(N, k - 1), N) = k - 1
      BY <3>1, AfterIs
    <3>3. Ahead(Back(N, k - 1), N) + 2 * MaxXmt - 1 <= Ahead(q[i].num, N)
      BY <1>1, <1>3, <3>2, AheadIs, Sizes
    <3>4. \E j \in P : Has(q, j, Back(N, k - 1))
      BY <1>1, <1>3, <3>2, <3>3 DEF Followed
    <3> QED  BY <3>4
  <2>2. f \in [1 .. MaxXmt -> P]
    BY <2>1
  <2>3. \A x, y \in 1 .. MaxXmt : f[x] = f[y] => x = y
    <3> SUFFICES ASSUME NEW x \in 1 .. MaxXmt, NEW y \in 1 .. MaxXmt, f[x] = f[y] PROVE x = y
      OBVIOUS
    <3>1. at(x) = at(y)
      OBVIOUS
    <3>2. Back(N, x - 1) = Back(N, y - 1)
      BY <2>1, <3>1 DEF Has
    <3>3. Ahead(Back(N, x - 1), N) = x - 1 /\ Ahead(Back(N, y - 1), N) = y - 1
      BY AfterIs, Sizes
    <3> QED  BY <3>2, <3>3
  <2> HIDE DEF f
  <2>4. P \in SUBSET (1 .. Len(q)) /\ i \in 1 .. Len(q) /\ i \notin P
    BY <1>1
  <2>5. MaxXmt <= Len(q) - 1
    BY <1>1, <2>2, <2>3, <2>4, Enough, Sizes
  <2> QED  BY <1>1, <2>5, Sizes DEF Held
<1> QED  BY <1>1, <1>2, <1>3, AheadIs, Sizes

LEMMA Typed ==
  ASSUME NEW q, NEW a, Held(q, a), NEW i \in 1 .. Len(q)
  PROVE  /\ q[i] \in Packet /\ q[i].num \in Number /\ q[i].id \in Nat
         /\ q[i].k \in Kinds \cup {"raw"} /\ Len(q) \in Nat /\ a \in Nat
<1>1. q[i] \in Packet /\ Len(q) \in Nat /\ a \in Nat
  BY DEF Held
<1> QED  BY <1>1 DEF Packet

\* A queue on which nothing has a number, as ddcmp_ResetVariables leaves it.
LEMMA WindowEmpty ==
  ASSUME NEW q, \A i \in 1 .. Len(q) : q[i].k = "raw"
  PROVE  Window(q, 0, 0, 0, 1)
<1>1. 0 \in Number /\ Succ(0) = IF 1 = Modulus THEN 0 ELSE 1
  BY Sizes, SuccIs, Numbers
<1>2. Ahead(0, 0) = 0 /\ Ahead(Succ(0), 1) = 0
  BY <1>1, Sizes DEF Ahead
<1> QED  BY <1>1, <1>2, AheadIs, Sizes DEF Window, Covered, Recent, Followed, Distinct, Has

\* One more buffer waits for its number.
LEMMA WindowRaw ==
  ASSUME NEW q, NEW a, NEW A \in Number, NEW N \in Number, NEW T, Held(q, a),
         Window(q, a, A, N, T), NEW p \in Packet, p.k = "raw"
  PROVE  Window(Append(q, p), a, A, N, T)
<1> DEFINE r == Append(q, p)
<1>1. /\ Len(q) \in Nat /\ a \in Nat /\ a <= Len(q) /\ Len(r) = Len(q) + 1
      /\ \A i \in 1 .. Len(q) : r[i] = q[i]
      /\ r[Len(q) + 1] = p
  BY DEF Held
<1> HIDE DEF r
<1>2. Covered(r, A, N)
  BY <1>1 DEF Window, Covered, Has
<1>3. Recent(r, a, N)
  BY <1>1 DEF Window, Recent
<1>4. Followed(r, a, N)
  <2> SUFFICES ASSUME NEW i \in 1 .. a, NEW n \in Number,
                      Ahead(n, N) + 2 * MaxXmt - 1 <= Ahead(r[i].num, N)
               PROVE  \E j \in i + 1 .. Len(r) : Has(r, j, n)
    BY DEF Followed
  <2>1. r[i] = q[i]
    BY <1>1
  <2>2. PICK j \in i + 1 .. Len(q) : Has(q, j, n)
    BY <2>1 DEF Window, Followed
  <2>3. j \in i + 1 .. Len(r) /\ r[j] = q[j]
    BY <1>1, <2>2
  <2> QED  BY <2>2, <2>3 DEF Has
<1>5. Distinct(r)
  BY <1>1 DEF Window, Distinct
<1> QED  BY <1>2, <1>3, <1>4, <1>5 DEF Window, r

\* More of the queue is sent.
LEMMA WindowMore ==
  ASSUME NEW q, NEW a, NEW A \in Number, NEW N \in Number, NEW T, Held(q, a),
         Window(q, a, A, N, T), NEW b \in a .. Len(q), \A i \in 1 .. b : q[i].k = "data"
  PROVE  Window(q, b, A, N, T) /\ Held(q, b)
<1>1. Len(q) \in Nat /\ a \in Nat /\ b \in Nat /\ a <= b /\ b <= Len(q)
  BY DEF Held
<1>2. Recent(q, b, N)
  <2> SUFFICES ASSUME NEW i \in b + 1 .. Len(q), q[i].k = "data"
               PROVE  Ahead(q[i].num, N) + (i - b) <= 2 * MaxXmt - 1
    BY DEF Recent
  <2>1. Ahead(q[i].num, N) + (i - a) <= 2 * MaxXmt - 1
    BY <1>1 DEF Window, Recent
  <2>2. Ahead(q[i].num, N) \in Nat
    BY <1>1, Typed, AheadIs
  <2> QED  BY <1>1, <2>1, <2>2, Sizes
<1>3. Followed(q, b, N)
  <2> SUFFICES ASSUME NEW i \in 1 .. b, NEW n \in Number,
                      Ahead(n, N) + 2 * MaxXmt - 1 <= Ahead(q[i].num, N)
               PROVE  \E j \in i + 1 .. Len(q) : Has(q, j, n)
    BY DEF Followed
  <2>1. CASE i <= a
    BY <1>1, <2>1 DEF Window, Followed
  <2>2. CASE i > a
    <3>1. Ahead(q[i].num, N) + (i - a) <= 2 * MaxXmt - 1
      BY <1>1, <2>2 DEF Window, Recent
    <3>2. Ahead(q[i].num, N) \in Nat /\ Ahead(n, N) \in Nat
      BY <1>1, Typed, AheadIs
    <3> QED  BY <1>1, <2>2, <3>1, <3>2, Sizes
  <2> QED  BY <1>1, <2>1, <2>2
<1>4. Held(q, b)
  BY <1>1 DEF Held
<1> QED  BY <1>2, <1>3, <1>4 DEF Window

\* r is q, but that the member i has become the message n.
Numbering(q, i, n, r) ==
  /\ r \in Seq(Packet) /\ Len(r) = Len(q)
  /\ \A j \in 1 .. Len(q) : j # i => r[j] = q[j]
  /\ r[i].k = "data" /\ r[i].num = n /\ r[i].id = q[i].id

\* ddcmp_SendDataMessage: the first buffer that waits gets the next number.
LEMMA WindowSend ==
  ASSUME NEW q, NEW a, NEW A \in Number, NEW N \in Number, NEW T, Held(q, a),
         Window(q, a, A, N, T), a < Len(q), q[a + 1].k = "raw",
         NEW r, Numbering(q, a + 1, Succ(N), r)
  PROVE  /\ Window(r, a + 1, A, Succ(N), Succ(Succ(N))) /\ Held(r, a + 1)
         /\ Ahead(A, Succ(N)) = Ahead(A, N) + 1
         /\ \A i \in 1 .. Len(q) : r[i].id = q[i].id
         /\ Len(r) = Len(q) /\ Len(q) \in Nat /\ a \in Nat
         /\ \A i \in 1 .. Len(q) : i # a + 1 => r[i] = q[i]
         /\ r[a + 1].k = "data" /\ r[a + 1].num = Succ(N)
<1> DEFINE M == Succ(N)
<1>1. /\ Len(q) \in Nat /\ a \in Nat /\ M \in Number /\ a + 1 \in 1 .. Len(q)
      /\ Len(q) <= MaxXmt
  BY SuccIs DEF Held
<1>3. /\ r \in Seq(Packet) /\ Len(r) = Len(q)
      /\ \A i \in 1 .. Len(q) : i # a + 1 => r[i] = q[i]
      /\ r[a + 1].k = "data" /\ r[a + 1].num = M /\ r[a + 1].id = q[a + 1].id
  BY DEF Numbering
<1>4. Held(r, a + 1)
  BY <1>1, <1>3 DEF Held
<1>5. /\ Ahead(A, N) <= Len(q) - 1 /\ Ahead(A, N) \in Nat
      /\ Ahead(A, N) + 1 < Modulus
  <2>1. Ahead(A, N) <= Len(q) - 1
    BY <1>1, WindowSize DEF Window
  <2>2. Ahead(A, N) \in Nat
    BY AheadIs
  <2> QED  BY <1>1, <2>1, <2>2, Sizes
<1>6. Ahead(A, M) = Ahead(A, N) + 1
  BY <1>5, AheadSucc
<1>7. ASSUME NEW i \in 1 .. Len(q), q[i].k = "data"
      PROVE  /\ q[i].num \in Number /\ i # a + 1
             /\ Ahead(q[i].num, M) = Ahead(q[i].num, N) + 1
             /\ q[i].num # M
  <2>1. q[i].num \in Number /\ Ahead(q[i].num, N) + 1 < Modulus
    BY <1>7, WindowAge DEF Window
  <2>2. Ahead(q[i].num, M) = Ahead(q[i].num, N) + 1
    BY <2>1, AheadSucc
  <2>3. Ahead(q[i].num, N) \in Nat
    BY <2>1, AheadIs
  <2>4. q[i].num # M
    BY <1>1, <2>1, <2>2, <2>3, AheadIs
  <2> QED  BY <1>7, <2>1, <2>2, <2>4
<1>8. Covered(r, A, M)
  <2> SUFFICES ASSUME NEW n \in Number, Ahead(A, n) > 0, Ahead(A, n) <= Ahead(A, M)
               PROVE  \E i \in 1 .. Len(r) : Has(r, i, n)
    BY DEF Covered
  <2>1. CASE n = M
    BY <1>1, <1>3, <2>1 DEF Has
  <2>2. CASE n # M
    <3>1. Ahead(A, n) # Ahead(A, M)
      BY <1>1, <2>2, AheadOnce
    <3>2. Ahead(A, n) <= Ahead(A, N)
      BY <1>5, <1>6, <3>1, AheadIs
    <3>3. PICK i \in 1 .. Len(q) : Has(q, i, n)
      BY <3>2 DEF Window, Covered
    <3>4. r[i] = q[i]
      BY <1>3, <1>7, <3>3 DEF Has
    <3> QED  BY <1>3, <3>3, <3>4 DEF Has
  <2> QED  BY <2>1, <2>2
<1>9. Ahead(Succ(A), Succ(M)) <= Ahead(A, M)
  <2>1. Ahead(Succ(A), Succ(M)) = Ahead(A, M)
    BY <1>1, AheadSucc
  <2> QED  BY <1>1, <2>1, AheadIs
<1>10. Recent(r, a + 1, M)
  <2> SUFFICES ASSUME NEW i \in a + 1 + 1 .. Len(r), r[i].k = "data"
               PROVE  Ahead(r[i].num, M) + (i - (a + 1)) <= 2 * MaxXmt - 1
    BY DEF Recent
  <2>1. r[i] = q[i] /\ i \in 1 .. Len(q) /\ i \in a + 1 .. Len(q)
    BY <1>1, <1>3
  <2>2. Ahead(q[i].num, N) + (i - a) <= 2 * MaxXmt - 1
    BY <2>1 DEF Window, Recent
  <2>3. Ahead(q[i].num, M) = Ahead(q[i].num, N) + 1 /\ Ahead(q[i].num, N) \in Nat
    BY <1>7, <2>1, AheadIs
  <2>4. i \in Int /\ a \in Int /\ MaxXmt \in Int
    BY <1>1, Sizes
  <2>5. Ahead(r[i].num, M) = Ahead(q[i].num, N) + 1
    BY <2>1, <2>3
  <2> QED  BY <2>2, <2>3, <2>4, <2>5
<1>11. Followed(r, a + 1, M)
  <2> SUFFICES ASSUME NEW i \in 1 .. a + 1, NEW n \in Number,
                      Ahead(n, M) + 2 * MaxXmt - 1 <= Ahead(r[i].num, M)
               PROVE  \E j \in i + 1 .. Len(r) : Has(r, j, n)
    BY DEF Followed
  <2>0. Ahead(n, M) \in Nat /\ Ahead(M, M) = 0 /\ MaxXmt >= 1
    BY <1>1, AheadIs, Sizes
  <2>1. i # a + 1
    BY <1>1, <1>3, <2>0, Sizes
  <2>2. i \in 1 .. a /\ i \in 1 .. Len(q) /\ r[i] = q[i] /\ q[i].k = "data"
    BY <1>1, <1>3, <2>1 DEF Held
  <2>3. Ahead(q[i].num, M) = Ahead(q[i].num, N) + 1
    BY <1>7, <2>2
  <2>4. CASE n = M
    <3>1. a + 1 \in i + 1 .. Len(r)
      BY <1>1, <1>3, <2>2
    <3> QED  BY <1>3, <2>4, <3>1 DEF Has
  <2>5. CASE n # M
    <3>1. Ahead(n, N) + 1 < Modulus
      <4>1. Ahead(n, N) + 1 >= Modulus => Ahead(n, M) = 0
        BY AheadSucc
      <4>2. Ahead(n, M) # 0
        BY <1>1, <2>5, AheadIs
      <4>3. Ahead(n, N) \in Nat /\ Modulus \in Nat
        BY AheadIs, Sizes
      <4> QED  BY <4>1, <4>2, <4>3
    <3>2. Ahead(n, M) = Ahead(n, N) + 1
      BY <3>1, AheadSucc
    <3>3. Ahead(n, N) + 2 * MaxXmt - 1 <= Ahead(q[i].num, N)
      <4>1. Ahead(n, N) \in Nat /\ Ahead(q[i].num, N) \in Nat
        BY <1>7, <2>2, AheadIs
      <4> QED  BY <2>2, <2>3, <3>2, <4>1, Sizes
    <3>4. PICK j \in i + 1 .. Len(q) : Has(q, j, n)
      BY <2>2, <3>3 DEF Window, Followed
    <3>5. j \in i + 1 .. Len(r) /\ r[j] = q[j]
      BY <1>1, <1>3, <1>7, <2>2, <3>4 DEF Has
    <3> QED  BY <3>4, <3>5 DEF Has
  <2> QED  BY <2>4, <2>5
<1>12. Distinct(r)
  <2> SUFFICES ASSUME NEW i \in 1 .. Len(q), NEW j \in 1 .. Len(q),
                      r[i].k = "data", r[j].k = "data", i # j
               PROVE  r[i].num # r[j].num
    BY <1>3 DEF Distinct
  <2>1. CASE i = a + 1
    BY <1>3, <1>7, <2>1
  <2>2. CASE j = a + 1
    BY <1>3, <1>7, <2>2
  <2>3. CASE i # a + 1 /\ j # a + 1
    BY <1>3, <2>3 DEF Window, Distinct
  <2> QED  BY <2>1, <2>2, <2>3
<1>13. \A i \in 1 .. Len(q) : r[i].id = q[i].id
  BY <1>3
<1> QED
  BY <1>1, <1>3, <1>4, <1>6, <1>8, <1>9, <1>10, <1>11, <1>12, <1>13 DEF Window

LEMMA SuffixIs ==
  ASSUME NEW S, NEW q \in Seq(S), NEW n \in 0 .. Len(q)
  PROVE  /\ SubSeq(q, n + 1, Len(q)) \in Seq(S)
         /\ Len(SubSeq(q, n + 1, Len(q))) = Len(q) - n
         /\ \A i \in 1 .. Len(q) - n : SubSeq(q, n + 1, Len(q))[i] = q[i + n]
         /\ \A j \in n + 1 .. Len(q) : SubSeq(q, n + 1, Len(q))[j - n] = q[j]
<1> DEFINE r == SubSeq(q, n + 1, Len(q))
<1>1. Len(q) \in Nat /\ n \in Nat /\ n <= Len(q) /\ \A i \in n + 1 .. Len(q) : q[i] \in S
  BY LenProperties, ElementOfSeq
<1>2. /\ r \in Seq(S) /\ Len(r) = IF n + 1 <= Len(q) THEN Len(q) - (n + 1) + 1 ELSE 0
      /\ \A i \in 1 .. Len(q) - (n + 1) + 1 : r[i] = q[n + 1 + i - 1]
  BY <1>1, SubSeqProperties
<1> HIDE DEF r
<1>3. \A i \in 1 .. Len(q) - n : r[i] = q[i + n]
  <2> TAKE i \in 1 .. Len(q) - n
  <2>1. i \in 1 .. Len(q) - (n + 1) + 1 /\ n + 1 + i - 1 = i + n
    BY <1>1
  <2> QED  BY <1>2, <2>1
<1>4. \A j \in n + 1 .. Len(q) : r[j - n] = q[j]
  <2> TAKE j \in n + 1 .. Len(q)
  <2>1. j - n \in 1 .. Len(q) - n /\ (j - n) + n = j
    BY <1>1
  <2> QED  BY <1>3, <2>1
<1> QED  BY <1>1, <1>2, <1>3, <1>4 DEF r

\* ddcmp_CompleteAckedTransmits with SetA=RESP and, in rule 29 or rule 32,
\* what is done to T.
LEMMA WindowDrop ==
  ASSUME NEW q, NEW a, NEW A \in Number, NEW N \in Number, NEW T \in Number, Held(q, a),
         Window(q, a, A, N, T), NEW n \in 0 .. a,
         NEW r \in Number, Ahead(A, r) <= Ahead(A, N),
         \A i \in 1 .. n : ~GT(q[i].num, r),
         NEW U, U = Succ(r) \/ U = IF LE(T, r) THEN Succ(r) ELSE T
  PROVE  LET p == SubSeq(q, n + 1, Len(q))
         IN  Window(p, a - n, r, N, U) /\ Held(p, a - n)
<1> DEFINE p == SubSeq(q, n + 1, Len(q))
<1>1. /\ Len(q) \in Nat /\ a \in Nat /\ n \in Nat /\ n <= a /\ a <= Len(q) /\ Len(q) <= MaxXmt
      /\ q \in Seq(Packet) /\ n \in 0 .. Len(q)
  BY DEF Held
<1>2. /\ p \in Seq(Packet) /\ Len(p) = Len(q) - n
      /\ \A i \in 1 .. Len(q) - n : p[i] = q[i + n]
      /\ \A j \in n + 1 .. Len(q) : p[j - n] = q[j]
  BY <1>1, SuffixIs
<1> HIDE DEF p
<1>3. Held(p, a - n)
  <2>1. ASSUME NEW i \in 1 .. a - n PROVE p[i].k = "data"
    <3>1. i \in 1 .. Len(q) - n /\ i + n \in 1 .. a
      BY <1>1
    <3> QED  BY <1>2, <3>1 DEF Held
  <2>2. a - n \in 0 .. Len(p) /\ Len(p) <= MaxXmt
    BY <1>1, <1>2, Sizes
  <2> QED  BY <1>2, <2>1, <2>2 DEF Held
<1>4. /\ Ahead(A, N) <= Len(q) /\ Ahead(A, N) \in Nat /\ Ahead(A, r) \in Nat
      /\ Ahead(A, N) < Pool
  <2>1. Ahead(A, N) <= Len(q)
    BY <1>1, WindowSize DEF Window
  <2>2. Ahead(A, N) \in Nat /\ Ahead(A, r) \in Nat
    BY AheadIs
  <2> QED  BY <1>1, <2>1, <2>2, Sizes
<1>5. Ahead(A, N) = Ahead(A, r) + Ahead(r, N)
  BY AheadSplit
<1>6. Covered(p, r, N)
  <2> SUFFICES ASSUME NEW m \in Number, Ahead(r, m) > 0, Ahead(r, m) <= Ahead(r, N)
               PROVE  \E i \in 1 .. Len(p) : Has(p, i, m)
    BY DEF Covered
  <2>1. Ahead(A, m) = Ahead(A, r) + Ahead(r, m)
    BY <1>4, <1>5, Sizes DEF Ahead, Number
  <2>2. Ahead(A, m) > 0 /\ Ahead(A, m) <= Ahead(A, N) /\ Ahead(A, m) > Ahead(A, r)
    <3>1. Ahead(r, m) \in Nat /\ Ahead(r, N) \in Nat
      BY AheadIs
    <3> QED  BY <1>4, <1>5, <2>1, <3>1
  <2>3. PICK i \in 1 .. Len(q) : Has(q, i, m)
    BY <2>2 DEF Window, Covered
  <2>4. GT(m, r)
    <3>1. Ahead(A, m) <= Pool /\ Ahead(A, r) <= Pool
      <4>1. Ahead(A, m) \in Nat /\ Pool \in Nat
        BY AheadIs, Sizes
      <4> QED  BY <1>4, <2>2, <4>1
    <3> QED  BY <2>2, <3>1, WindowOrder
  <2>5. i > n
    BY <1>1, <2>3, <2>4 DEF Has
  <2>6. i - n \in 1 .. Len(p) /\ p[i - n] = q[i]
    BY <1>1, <1>2, <2>5
  <2> QED  BY <2>3, <2>6 DEF Has
<1>7. Ahead(Succ(r), U) <= Ahead(r, N)
  <2>1. Succ(r) \in Number /\ Ahead(Succ(r), Succ(r)) = 0 /\ Ahead(r, N) \in Nat
    BY SuccIs, AheadIs
  <2>2. CASE U = Succ(r)
    BY <2>1, <2>2
  <2>3. CASE U = T /\ ~LE(T, r)
    <3>1. Ahead(Succ(A), T) <= Ahead(A, N)
      BY DEF Window
    <3>2. Ahead(Succ(A), T) \in Nat /\ Ahead(Succ(A), T) + 1 < Modulus
      <4>1. Ahead(Succ(A), T) \in Nat
        BY SuccIs, AheadIs
      <4> QED  BY <1>4, <3>1, <4>1, Sizes
    <3>3. Ahead(A, T) = Ahead(Succ(A), T) + 1
      BY <3>2, SuccIs, Sizes DEF Ahead, Number
    <3>4. Ahead(A, T) <= Pool /\ Ahead(A, r) <= Pool
      BY <1>4, <3>1, <3>2, <3>3, Sizes
    <3>5. Ahead(A, T) > Ahead(A, r)
      <4>1. ~(Ahead(A, T) <= Ahead(A, r))
        BY <2>3, <3>4, WindowOrder
      <4> QED  BY <1>4, <3>2, <3>3, <4>1
    <3>6. Ahead(Succ(r), T) = Ahead(A, T) - Ahead(A, r) - 1
      <4>1. Ahead(A, T) = Ahead(A, r) + Ahead(r, T)
        BY <1>4, <3>5, AheadSplit, <3>2, <3>3
      <4>2. r # T
        BY <3>5, <3>2, <3>3, <1>4
      <4>3. Ahead(Succ(r), T) = Ahead(r, T) - 1
        BY <4>2, AheadSucc
      <4>4. Ahead(r, T) \in Nat
        BY AheadIs
      <4> QED  BY <1>4, <3>2, <3>3, <4>1, <4>3, <4>4
    <3> QED  BY <1>4, <1>5, <2>1, <2>3, <3>1, <3>2, <3>3, <3>6
  <2> QED  BY <2>2, <2>3
<1>8. Recent(p, a - n, N)
  <2> SUFFICES ASSUME NEW i \in a - n + 1 .. Len(p), p[i].k = "data"
               PROVE  Ahead(p[i].num, N) + (i - (a - n)) <= 2 * MaxXmt - 1
    BY DEF Recent
  <2>1. p[i] = q[i + n] /\ i + n \in a + 1 .. Len(q) /\ i + n \in 1 .. Len(q)
    BY <1>1, <1>2
  <2>2. Ahead(q[i + n].num, N) + ((i + n) - a) <= 2 * MaxXmt - 1
    BY <2>1 DEF Window, Recent
  <2>3. (i + n) - a = i - (a - n)
    BY <1>1
  <2> QED  BY <2>1, <2>2, <2>3
<1>9. Followed(p, a - n, N)
  <2> SUFFICES ASSUME NEW i \in 1 .. a - n, NEW m \in Number,
                      Ahead(m, N) + 2 * MaxXmt - 1 <= Ahead(p[i].num, N)
               PROVE  \E j \in i + 1 .. Len(p) : Has(p, j, m)
    BY DEF Followed
  <2>1. p[i] = q[i + n] /\ i + n \in 1 .. a
    BY <1>1, <1>2
  <2>2. PICK j \in i + n + 1 .. Len(q) : Has(q, j, m)
    BY <2>1 DEF Window, Followed
  <2>3. j - n \in i + 1 .. Len(p) /\ p[j - n] = q[j]
    BY <1>1, <1>2, <2>2
  <2> QED  BY <2>2, <2>3 DEF Has
<1>10. Distinct(p)
  <2> SUFFICES ASSUME NEW i \in 1 .. Len(p), NEW j \in 1 .. Len(p),
                      p[i].k = "data", p[j].k = "data", i # j
               PROVE  p[i].num # p[j].num
    BY DEF Distinct
  <2>1. /\ p[i] = q[i + n] /\ p[j] = q[j + n]
        /\ i + n \in 1 .. Len(q) /\ j + n \in 1 .. Len(q) /\ i + n # j + n
    BY <1>1, <1>2
  <2> QED  BY <2>1 DEF Window, Distinct
<1>11. Window(p, a - n, r, N, U)
  BY <1>6, <1>7, <1>8, <1>9, <1>10 DEF Window
<1> QED  BY <1>3, <1>11 DEF p

\* T moves on past a message that is not on the ack wait queue.
LEMMA WindowSkip ==
  ASSUME NEW q, NEW a, NEW A \in Number, NEW N \in Number, NEW T \in Number, Held(q, a),
         Window(q, a, A, N, T), LT(T, Succ(N))
  PROVE  /\ Window(q, a, A, N, Succ(T))
         /\ Ahead(Succ(A), T) < Ahead(A, N)
         /\ Ahead(T, N) + 1 <= Ahead(A, N)
<1>1. /\ Ahead(A, N) <= Len(q) /\ Ahead(A, N) \in Nat /\ Ahead(A, N) < Pool
  <2>1. Ahead(A, N) <= Len(q) /\ Len(q) <= MaxXmt /\ Len(q) \in Nat
    BY WindowSize DEF Window, Held
  <2>2. Ahead(A, N) \in Nat
    BY AheadIs
  <2> QED  BY <2>1, <2>2, Sizes
<1>2. /\ Succ(A) \in Number /\ Succ(N) \in Number /\ Ahead(Succ(A), Succ(N)) = Ahead(A, N)
      /\ Ahead(Succ(A), T) \in Nat
  BY SuccIs, AheadSucc, AheadIs
<1>3. Ahead(Succ(A), T) <= Ahead(A, N)
  BY DEF Window
<1>4. Ahead(Succ(A), T) < Ahead(A, N)
  <2>1. Ahead(Succ(A), T) <= Pool /\ Ahead(Succ(A), Succ(N)) <= Pool
    BY <1>1, <1>2, <1>3, Sizes
  <2>2. Ahead(Succ(A), T) < Ahead(Succ(A), Succ(N))
    BY <1>2, <2>1, WindowOrder
  <2> QED  BY <1>2, <2>2
<1>5. Ahead(Succ(A), Succ(T)) = Ahead(Succ(A), T) + 1
  BY <1>1, <1>2, <1>4, AheadSucc, Sizes
<1>6. Ahead(T, N) + 1 <= Ahead(A, N)
  <2>1. Ahead(T, Succ(N)) = Ahead(A, N) - Ahead(Succ(A), T)
    <3>1. Ahead(Succ(A), T) <= Ahead(Succ(A), Succ(N))
      BY <1>1, <1>2, <1>4
    <3>2. Ahead(Succ(A), Succ(N)) = Ahead(Succ(A), T) + Ahead(T, Succ(N))
      BY <1>2, <3>1, AheadSplit
    <3>3. Ahead(T, Succ(N)) \in Nat
      BY <1>2, AheadIs
    <3> QED  BY <1>1, <1>2, <3>2, <3>3
  <2>2. Ahead(T, Succ(N)) > 0 /\ Ahead(T, Succ(N)) <= Ahead(A, N)
    BY <1>1, <1>2, <1>4, <2>1
  <2>3. Ahead(T, N) \in Nat /\ Ahead(T, N) < Modulus
    BY AheadIs
  <2>4. Ahead(T, Succ(N)) = Ahead(T, N) + 1
    BY <2>2, <2>3, AheadSucc, Sizes
  <2> QED  BY <2>2, <2>4
<1> QED  BY <1>1, <1>2, <1>4, <1>5, <1>6 DEF Window

\* ddcmp_ReTransmitMessageT and IncrementT: message T goes from place i of the
\* ack wait queue to the end.
LEMMA WindowMove ==
  ASSUME NEW q, NEW a, NEW A \in Number, NEW N \in Number, NEW T \in Number, Held(q, a),
         Window(q, a, A, N, T), LT(T, Succ(N)), NEW i \in 1 .. a, q[i].num = T,
         NEW r \in Seq(Packet), Len(r) = Len(q),
         \A j \in 1 .. i - 1 : r[j] = q[j],
         \A j \in i .. Len(q) - 1 : r[j] = q[j + 1],
         r[Len(q)] = q[i]
  PROVE  Window(r, a - 1, A, N, Succ(T)) /\ Held(r, a - 1)
<1> DEFINE g(j) == IF j < i THEN j ELSE IF j < Len(q) THEN j + 1 ELSE i
           to(l) == IF l < i THEN l ELSE IF l = i THEN Len(q) ELSE l - 1
<1>1. /\ Len(q) \in Nat /\ a \in Nat /\ i \in Nat /\ 1 <= i /\ i <= a /\ a <= Len(q)
      /\ Len(q) <= MaxXmt
  BY DEF Held
<1>2. \A j \in 1 .. Len(q) : g(j) \in 1 .. Len(q) /\ r[j] = q[g(j)]
  BY <1>1
<1>3. \A l \in 1 .. Len(q) : to(l) \in 1 .. Len(q) /\ r[to(l)] = q[l]
  BY <1>1
<1>4. \A j, l \in 1 .. Len(q) : j # l => g(j) # g(l)
  BY <1>1
<1>5. \A j \in 1 .. a - 1 : g(j) \in 1 .. a
  BY <1>1
<1>6. \A j \in 1 .. a - 1 : \A l \in g(j) + 1 .. Len(q) : to(l) \in j + 1 .. Len(q)
  BY <1>1
<1>7. \A j \in a .. Len(q) - 1 : g(j) = j + 1
  BY <1>1
<1>8. g(Len(q)) = i
  BY <1>1
<1> HIDE DEF g, to
<1>9. Held(r, a - 1)
  <2>1. ASSUME NEW j \in 1 .. a - 1 PROVE r[j].k = "data"
    <3>1. j \in 1 .. Len(q) /\ g(j) \in 1 .. a
      BY <1>1, <1>5
    <3>2. r[j] = q[g(j)]
      BY <1>2, <3>1
    <3> QED  BY <3>1, <3>2 DEF Held
  <2>2. a - 1 \in 0 .. Len(r) /\ Len(r) <= MaxXmt
    BY <1>1
  <2> QED  BY <2>1, <2>2 DEF Held
<1>10. /\ Ahead(Succ(A), Succ(T)) <= Ahead(A, N)
       /\ Ahead(T, N) + 1 <= Len(q) /\ Ahead(T, N) \in Nat
  <2>1. Window(q, a, A, N, Succ(T)) /\ Ahead(T, N) + 1 <= Ahead(A, N)
    BY WindowSkip
  <2>2. Ahead(A, N) <= Len(q)
    BY WindowSize DEF Window
  <2>3. Ahead(A, N) \in Nat /\ Ahead(T, N) \in Nat
    BY AheadIs
  <2> QED  BY <1>1, <2>1, <2>2, <2>3 DEF Window
<1>11. Covered(r, A, N)
  <2> SUFFICES ASSUME NEW n \in Number, Ahead(A, n) > 0, Ahead(A, n) <= Ahead(A, N)
               PROVE  \E j \in 1 .. Len(r) : Has(r, j, n)
    BY DEF Covered
  <2>1. PICK l \in 1 .. Len(q) : Has(q, l, n)
    BY DEF Window, Covered
  <2> QED  BY <1>3, <2>1 DEF Has
<1>12. Recent(r, a - 1, N)
  <2> SUFFICES ASSUME NEW j \in a .. Len(q), r[j].k = "data"
               PROVE  Ahead(r[j].num, N) + (j - (a - 1)) <= 2 * MaxXmt - 1
    BY <1>1 DEF Recent
  <2>1. CASE j = Len(q)
    <3>1. r[j] = q[i]
      BY <1>1, <1>2, <1>8, <2>1
    <3> QED  BY <1>1, <1>10, <2>1, <3>1, Sizes
  <2>2. CASE j # Len(q)
    <3>0. j \in a .. Len(q) - 1 /\ j \in 1 .. Len(q) /\ j + 1 \in a + 1 .. Len(q)
      BY <1>1, <2>2
    <3>1. r[j] = q[j + 1] /\ j + 1 \in a + 1 .. Len(q)
      BY <1>2, <1>7, <3>0
    <3>2. Ahead(q[j + 1].num, N) + ((j + 1) - a) <= 2 * MaxXmt - 1
      BY <3>1 DEF Window, Recent
    <3>3. (j + 1) - a = j - (a - 1)
      BY <1>1
    <3> QED  BY <3>1, <3>2, <3>3
  <2> QED  BY <2>1, <2>2
<1>13. Followed(r, a - 1, N)
  <2> SUFFICES ASSUME NEW j \in 1 .. a - 1, NEW n \in Number,
                      Ahead(n, N) + 2 * MaxXmt - 1 <= Ahead(r[j].num, N)
               PROVE  \E l \in j + 1 .. Len(r) : Has(r, l, n)
    BY DEF Followed
  <2>0. j \in 1 .. Len(q) /\ g(j) \in 1 .. a
    BY <1>1, <1>5
  <2>1. j \in 1 .. Len(q) /\ r[j] = q[g(j)] /\ g(j) \in 1 .. a
    BY <1>2, <2>0
  <2>2. PICK l \in g(j) + 1 .. Len(q) : Has(q, l, n)
    BY <2>1 DEF Window, Followed
  <2>3. to(l) \in j + 1 .. Len(q) /\ l \in 1 .. Len(q)
    BY <1>1, <1>6, <2>1, <2>2
  <2> QED  BY <1>3, <2>2, <2>3 DEF Has
<1>14. Distinct(r)
  <2> SUFFICES ASSUME NEW j \in 1 .. Len(q), NEW l \in 1 .. Len(q),
                      r[j].k = "data", r[l].k = "data", j # l
               PROVE  r[j].num # r[l].num
    BY DEF Distinct
  <2>1. r[j] = q[g(j)] /\ r[l] = q[g(l)] /\ g(j) # g(l)
    BY <1>2, <1>4
  <2>2. g(j) \in 1 .. Len(q) /\ g(l) \in 1 .. Len(q)
    BY <1>2
  <2> QED  BY <2>1, <2>2 DEF Window, Distinct
<1> QED  BY <1>9, <1>10, <1>11, <1>12, <1>13, <1>14 DEF Window

-----------------------------------------------------------------------------
(* Completions *)

Completion == [t : {"rcv", "xmt"}, id : Nat]

\* How many members of q are of a type.
Places(q, type) == {i \in 1 .. Len(q) : q[i].t = type}
Tally(q, type) == Cardinality(Places(q, type))

LEMMA TallySum ==
  ASSUME NEW q \in Seq(Completion)
  PROVE  /\ IsFiniteSet(Places(q, "rcv")) /\ IsFiniteSet(Places(q, "xmt"))
         /\ Tally(q, "rcv") \in Nat /\ Tally(q, "xmt") \in Nat
         /\ Tally(q, "rcv") + Tally(q, "xmt") = Len(q)
<1> DEFINE P == Places(q, "rcv")
           Q == Places(q, "xmt")
           S == 1 .. Len(q)
<1>1. Len(q) \in Nat /\ \A i \in 1 .. Len(q) : q[i] \in Completion
  BY LenProperties, ElementOfSeq
<1>2. P \cup Q = S /\ P \cap Q = {}
  BY <1>1 DEF Places, Completion
<1>3. IsFiniteSet(S) /\ Cardinality(S) = Len(q)
  <2>1. IsFiniteSet(1 .. Len(q)) /\ Cardinality(1 .. Len(q)) = IF 1 > Len(q) THEN 0 ELSE Len(q) - 1 + 1
    BY <1>1, FS_Interval
  <2> QED  BY <1>1, <2>1
<1> HIDE DEF P, Q, S
<1>4. IsFiniteSet(P) /\ IsFiniteSet(Q)
  <2>1. P \in SUBSET S /\ Q \in SUBSET S
    BY <1>2
  <2> QED  BY <1>3, <2>1, FS_Subset
<1>5. Cardinality(P) \in Nat /\ Cardinality(Q) \in Nat /\ Cardinality(P \cap Q) = 0
  BY <1>2, <1>4, FS_CardinalityType, FS_EmptySet
<1>6. Cardinality(P \cup Q) = Cardinality(P) + Cardinality(Q) - Cardinality(P \cap Q)
  BY <1>4, FS_Union
<1>7. Cardinality(P) + Cardinality(Q) = Len(q)
  <2>1. Cardinality(P \cup Q) = Len(q)
    BY <1>2, <1>3
  <2>2. Cardinality(P) + Cardinality(Q) = Cardinality(P \cup Q)
    BY <1>5, <1>6
  <2> QED  BY <2>1, <2>2
<1> QED  BY <1>4, <1>5, <1>7 DEF P, Q, Tally

\* Completions of one type after the others.
LEMMA TallyMore ==
  ASSUME NEW q \in Seq(Completion), NEW p \in Seq(Completion),
         Len(q) <= Len(p), \A i \in 1 .. Len(q) : p[i] = q[i],
         NEW type \in {"rcv", "xmt"}, \A i \in Len(q) + 1 .. Len(p) : p[i].t = type
  PROVE  /\ Tally(p, type) = Tally(q, type) + (Len(p) - Len(q))
         /\ \A other \in {"rcv", "xmt"} : other # type => Tally(p, other) = Tally(q, other)
<1>1. Len(q) \in Nat /\ Len(p) \in Nat
  BY LenProperties
<1>2. ASSUME NEW other \in {"rcv", "xmt"}, other # type
      PROVE  Tally(p, other) = Tally(q, other)
  <2>1. Places(p, other) = Places(q, other)
    BY <1>1, <1>2 DEF Places
  <2> QED  BY <2>1 DEF Tally
<1>3. Tally(p, type) = Tally(q, type) + (Len(p) - Len(q))
  <2> DEFINE qr == Tally(q, "rcv")
             qx == Tally(q, "xmt")
             pr == Tally(p, "rcv")
             px == Tally(p, "xmt")
  <2>1. /\ qr \in Nat /\ qx \in Nat /\ qr + qx = Len(q)
        /\ pr \in Nat /\ px \in Nat /\ pr + px = Len(p)
    BY TallySum
  <2>2. CASE type = "rcv"
    <3>1. px = qx
      BY <1>2, <2>2
    <3>2. pr = qr + (Len(p) - Len(q))
      <4> HIDE DEF pr, qr, px, qx
      <4> QED  BY <1>1, <2>1, <3>1
    <3> QED  BY <2>2, <3>2
  <2>3. CASE type = "xmt"
    <3>1. pr = qr
      BY <1>2, <2>3
    <3>2. px = qx + (Len(p) - Len(q))
      <4> HIDE DEF pr, qr, px, qx
      <4> QED  BY <1>1, <2>1, <3>1
    <3> QED  BY <2>3, <3>2
  <2> QED  BY <2>2, <2>3
<1> QED  BY <1>2, <1>3

LEMMA TallyTail ==
  ASSUME NEW q \in Seq(Completion), q # <<>>, NEW type
  PROVE  /\ Tail(q) \in Seq(Completion)
         /\ type \in {"rcv", "xmt"} => Tally(Tail(q), type) <= Tally(q, type)
<1> DEFINE P == Places(Tail(q), type)
           Q == Places(q, type)
           f == [i \in P |-> i + 1]
<1>1. /\ Len(q) \in Nat /\ Tail(q) \in Seq(Completion) /\ Len(Tail(q)) = Len(q) - 1
      /\ \A j \in 1 .. Len(q) - 1 : Tail(q)[j] = q[j + 1]
  BY TailIndex, LenProperties
<1>2. f \in [P -> Q]
  <2> SUFFICES ASSUME NEW i \in P PROVE i + 1 \in Q
    OBVIOUS
  <2>1. i \in 1 .. Len(q) - 1 /\ Tail(q)[i].t = type
    BY <1>1 DEF Places
  <2>2. i + 1 \in 1 .. Len(q) /\ Tail(q)[i] = q[i + 1]
    BY <1>1, <2>1
  <2> QED  BY <2>1, <2>2 DEF Places
<1>3. \A a, b \in P : f[a] = f[b] => a = b
  <2>1. \A a \in P : a \in Int
    BY <1>1 DEF Places
  <2> QED  BY <2>1
<1>4. ASSUME type \in {"rcv", "xmt"} PROVE Tally(Tail(q), type) <= Tally(q, type)
  <2>1. IsFiniteSet(Q) /\ IsFiniteSet(P)
    BY <1>1, <1>4, TallySum
  <2> HIDE DEF f, P, Q
  <2>2. Cardinality(P) \in Nat /\ Cardinality(Q) \in Nat
    BY <2>1, FS_CardinalityType
  <2>3. ~(Cardinality(Q) < Cardinality(P))
    BY <1>2, <1>3, <2>1, FS_PigeonHole
  <2>4. Cardinality(P) <= Cardinality(Q)
    BY <2>2, <2>3
  <2> QED  BY <2>4 DEF P, Q, Tally
<1> QED  BY <1>1, <1>4

\* A queue of nothing but messages.
LEMMA DataOfAll ==
  ASSUME NEW q, Len(q) \in Nat, \A i \in 1 .. Len(q) : q[i].id # 0
  PROVE  DataOf(q) = Len(q)
<1>1. {i \in 1 .. Len(q) : IsData(q[i])} = 1 .. Len(q)
  BY DEF IsData
<1>2. Cardinality(1 .. Len(q)) = IF 1 > Len(q) THEN 0 ELSE Len(q) - 1 + 1
  BY FS_Interval
<1>3. Cardinality(1 .. Len(q)) = Len(q)
  BY <1>2
<1> QED  BY <1>1, <1>3, Zenon DEF DataOf

-----------------------------------------------------------------------------
(* Recursive functions *)

\* A set of numbers that has 0, and with n < k also n + 1, goes up to k.
LEMMA UpTo ==
  ASSUME NEW k \in Nat, NEW S, 0 \in S, \A n \in 0 .. k - 1 : n \in S => n + 1 \in S
  PROVE  0 .. k \subseteq S
<1> SUFFICES ASSUME 0 .. k \ S # {} PROVE FALSE
  OBVIOUS
<1>1. PICK n \in 0 .. k \ S : \A j \in 0 .. k \ S : n <= j
  <2>1. (0 .. k) \ S \in SUBSET Nat
    OBVIOUS
  <2> QED  BY <2>1, First
<1>2. n - 1 \in 0 .. k - 1 /\ (n - 1) + 1 = n /\ n - 1 \in S
  BY <1>1
<1> QED  BY <1>1, <1>2

\* The messages of a burst: all of it, but for a control packet at its head.
LEMMA MessagesIs ==
  ASSUME NEW S, NEW q \in Seq(S), NEW j \in {0, 1}, j <= Len(q),
         \A i \in 1 .. Len(q) : IsData(q[i]) <=> i > j
  PROVE  Messages(q) = SubSeq(q, j + 1, Len(q))
<1> DEFINE L == Len(q)
           F(g) == [n \in 0 .. L |-> IF n = 0 THEN <<>>
                                     ELSE IF IsData(q[n]) THEN Append(g[n - 1], q[n])
                                     ELSE g[n - 1]]
           c == CHOOSE g : g = F(g)
           s == [n \in 0 .. L |-> IF n <= j THEN <<>> ELSE SubSeq(q, j + 1, n)]
           T == {n \in 0 .. L : c[n] = s[n]}
<1>0. L \in Nat
  BY LenProperties
<1> HIDE DEF L
<1>1. ASSUME NEW n \in 0 .. L - 1
      PROVE  s[n + 1] = IF IsData(q[n + 1]) THEN Append(s[n], q[n + 1]) ELSE s[n]
  <2>1. n + 1 \in 1 .. L /\ n \in 0 .. L /\ n + 1 \in 0 .. L
    BY <1>0
  <2>2. IsData(q[n + 1]) <=> n + 1 > j
    BY <2>1 DEF L
  <2>3. CASE n + 1 <= j
    <3>1. s[n + 1] = <<>> /\ s[n] = <<>>
      BY <2>1, <2>3
    <3> QED  BY <2>1, <2>2, <2>3, <3>1
  <2>4. CASE n + 1 > j
    <3>1. s[n + 1] = SubSeq(q, j + 1, n + 1)
      BY <2>1, <2>4
    <3>2. s[n] = SubSeq(q, j + 1, n)
      <4>1. CASE n <= j
        <5>1. n = j /\ n < j + 1
          BY <2>1, <2>4, <4>1
        <5>2. SubSeq(q, j + 1, n) = <<>>
          BY <2>1, <5>1, SubSeqEmpty
        <5> QED  BY <2>1, <4>1, <5>2
      <4>2. CASE ~(n <= j)
        BY <2>1, <4>2
      <4> QED  BY <4>1, <4>2
    <3>3. SubSeq(q, j + 1, n + 1) = SubSeq(q, j + 1, n) \o <<q[n + 1]>>
      <4> DEFINE k == n + 1
      <4>1. j + 1 \in 1 .. Len(q) /\ k \in j + 1 .. Len(q) /\ k - 1 = n
        BY <1>0, <2>1, <2>4 DEF L
      <4> HIDE DEF s, k
      <4>2. SubSeq(q, j + 1, k) = SubSeq(q, j + 1, k - 1) \o <<q[k]>>
        BY <4>1, SubSeqRecursiveSecond, Zenon
      <4>3. SubSeq(q, j + 1, k) = SubSeq(q, j + 1, n) \o <<q[k]>>
        BY <4>1, <4>2, Zenon
      <4> QED  BY <4>3 DEF k
    <3>4. SubSeq(q, j + 1, n) \in Seq(S)
      <4>1. \A i \in j + 1 .. n : q[i] \in S
        BY <1>0, <2>1, ElementOfSeq DEF L
      <4>2. j + 1 \in Int /\ n \in Int
        BY <2>1
      <4> HIDE DEF s
      <4> QED  BY <4>1, <4>2, SubSeqProperties
    <3>5. q[n + 1] \in S
      BY <2>1, ElementOfSeq DEF L
    <3>6. SubSeq(q, j + 1, n) \o <<q[n + 1]>> = Append(SubSeq(q, j + 1, n), q[n + 1])
      BY <3>4, <3>5
    <3> HIDE DEF s
    <3> QED  BY <2>2, <2>4, <3>1, <3>2, <3>3, <3>6
  <2> QED  BY <2>1, <2>3, <2>4
<1>2. s = F(s)
  <2>1. ASSUME NEW n \in 0 .. L
        PROVE  s[n] = IF n = 0 THEN <<>>
                      ELSE IF IsData(q[n]) THEN Append(s[n - 1], q[n]) ELSE s[n - 1]
    <3>1. CASE n = 0
      BY <1>0, <3>1
    <3>2. CASE n # 0
      <4>1. n - 1 \in 0 .. L - 1 /\ (n - 1) + 1 = n
        BY <1>0, <3>2
      <4> HIDE DEF s
      <4> QED  BY <1>1, <3>2, <4>1
    <3> QED  BY <3>1, <3>2
  <2>2. s = [n \in 0 .. L |-> s[n]]
    OBVIOUS
  <2> HIDE DEF s
  <2> QED  BY <2>1, <2>2
<1>3. c = F(c)
  <2> HIDE DEF F, s
  <2> QED  BY <1>2
<1>4. Messages(q) = c[L]
  BY DEF Messages, L
<1> HIDE DEF c, s
<1>5. 0 \in T /\ \A n \in 0 .. L - 1 : n \in T => n + 1 \in T
  <2>1. c[0] = <<>> /\ s[0] = <<>>
    BY <1>0, <1>2, <1>3
  <2>2. ASSUME NEW n \in 0 .. L - 1, c[n] = s[n] PROVE c[n + 1] = s[n + 1]
    <3>1. n + 1 \in 0 .. L /\ n + 1 # 0 /\ (n + 1) - 1 = n
      BY <1>0
    <3>2. F(c)[n + 1] = IF IsData(q[n + 1]) THEN Append(c[n], q[n + 1]) ELSE c[n]
      BY <3>1
    <3>3. c[n + 1] = F(c)[n + 1]
      <4> HIDE DEF F
      <4> QED  BY <1>3
    <3> HIDE DEF F
    <3> QED  BY <1>1, <2>2, <3>2, <3>3
  <2> QED  BY <1>0, <2>1, <2>2
<1>6. 0 .. L \subseteq T
  <2> HIDE DEF T
  <2> QED  BY <1>0, <1>5, UpTo
<1>7. c[L] = s[L]
  BY <1>0, <1>6
<1>8. s[L] = SubSeq(q, j + 1, L)
  <2>1. CASE L <= j
    <3>1. L = j /\ L < j + 1 /\ j + 1 \in Int
      BY <1>0, <2>1 DEF L
    <3>2. SubSeq(q, j + 1, L) = <<>>
      BY <1>0, <3>1, SubSeqEmpty
    <3> QED  BY <1>0, <2>1, <3>2 DEF s
  <2>2. CASE ~(L <= j)
    BY <1>0, <2>2 DEF s
  <2> QED  BY <2>1, <2>2
<1> QED  BY <1>4, <1>7, <1>8 DEF L

-----------------------------------------------------------------------------
(* The two ends and what is in flight between them *)

LinePacket == [k : Kinds, num : Number, resp : Number, id : Nat, bad : BOOLEAN]

\* What the other end and the line have to do with: the link state and the
\* numbers of a controller.
View == [link : {"Halt", "IStart", "AStart", "Run"}, R : Number, A : Number, N : Number]

\* The packets of a connection come in the order START, STACK, all others.
Rank(kind) == IF kind = "start" THEN 0 ELSE IF kind = "stack" THEN 1 ELSE 2
LinkRank(link) == IF link = "IStart" THEN 0 ELSE IF link = "AStart" THEN 1 ELSE 2

\* How far behind N a data message that is sent may be.
Reach == 2 * MaxXmt - 2

\* START comes before STACK, and STACK before everything else.
Phased(W) == \A i, j \in 1 .. Len(W) : i < j => Rank(W[i].k) <= Rank(W[j].k)

\* A station that has not joined the connection has been sent STARTs at most.
Silent(W, y, Wy) ==
  /\ \A i \in 1 .. Len(W) : W[i].k = "start" /\ W[i].resp = 0
  /\ y.link \in {"Halt", "IStart"} /\ Wy = <<>>
  /\ y.link = "Halt" => W = <<>>

\* The acknowledgements on their way to x are in order and in its window.
Answers(x, W) ==
  /\ \A i \in 1 .. Len(W) : Ahead(x.A, W[i].resp) <= Ahead(x.A, x.N)
  /\ \A i, j \in 1 .. Len(W) :
       i < j => Ahead(x.A, W[i].resp) <= Ahead(x.A, W[j].resp)

\* What is on its way to a station that runs is of the same connection.
Opened(x, W) == x.link = "Run" => \A i \in 1 .. Len(W) : W[i].k # "start"

\* What y has received: no less than x will hear of, no more than x has sent.
Known(x, W, y) ==
  /\ \A i \in 1 .. Len(W) : Ahead(x.A, W[i].resp) <= Ahead(x.A, y.R)
  /\ Ahead(x.A, y.R) <= Ahead(x.A, x.N)

\* The other end is no more than one state behind, and has sent nothing ahead
\* of its state.
InStep(x, W, y) ==
  /\ x.link = "Run" => y.link # "IStart"
  /\ \A i \in 1 .. Len(W) : Rank(W[i].k) <= LinkRank(y.link)

\* How old the messages on their way from x to y are.
Behind(x, y, Wy) ==
  /\ \A i \in 1 .. Len(Wy) :
       Wy[i].k = "data" => Ahead(Wy[i].num, x.N) <= Reach + Ahead(y.R, x.N)
  /\ \A i, j \in 1 .. Len(Wy) :
       Wy[i].k = "data" /\ Wy[j].k = "data" /\ i < j
         => Ahead(Wy[j].num, x.N) <= Ahead(Wy[i].num, x.N) + Reach

\* The station x, to which W is on its way, and the station y, to which Wy is.
Half(x, W, y, Wy, up) ==
  /\ Phased(W)
  /\ x.link = "Halt" /\ up => Silent(W, y, Wy)
  /\ x.link # "Halt" => Answers(x, W) /\ Opened(x, W)
  /\ x.link # "Halt" /\ y.link # "Halt"
       => Known(x, W, y) /\ InStep(x, W, y) /\ Behind(x, y, Wy)

\* The two directions of a link.
Pair(x, W, y, Wy, up) == Half(x, W, y, Wy, up) /\ Half(y, Wy, x, W, up)

LEMMA OnLine ==
  ASSUME NEW W \in Seq(LinePacket), NEW i \in 1 .. Len(W)
  PROVE  /\ W[i].k \in Kinds /\ W[i].num \in Number /\ W[i].resp \in Number
         /\ W[i].id \in Nat /\ W[i].bad \in BOOLEAN /\ Len(W) \in Nat
<1>1. W[i] \in LinePacket /\ Len(W) \in Nat
  BY ElementOfSeq, LenProperties
<1> QED  BY <1>1 DEF LinePacket

LEMMA Ranks ==
  /\ \A kind : Rank(kind) \in 0 .. 2 /\ (Rank(kind) = 0 <=> kind = "start")
  /\ \A link : LinkRank(link) \in 0 .. 2 /\ (LinkRank(link) = 0 <=> link = "IStart")
BY DEF Rank, LinkRank

LEMMA PairTurned == \A x, W, y, Wy, up : Pair(x, W, y, Wy, up) => Pair(y, Wy, x, W, up)
BY DEF Pair

\* P is what stays of W when packets of it are taken, eaten or bitten.
Embeds(P, W, g) ==
  /\ \A i \in 1 .. Len(P) :
       /\ g[i] \in 1 .. Len(W)
       /\ P[i].k = W[g[i]].k /\ P[i].num = W[g[i]].num /\ P[i].resp = W[g[i]].resp
  /\ \A i, j \in 1 .. Len(P) : i < j => g[i] < g[j]

\* P is W without some of its packets.
Thin(P, W) ==
  /\ Len(P) \in Nat /\ Len(W) \in Nat /\ (W = <<>> => P = <<>>)
  /\ \E g : Embeds(P, W, g)

LEMMA PairThin ==
  ASSUME NEW x \in View, NEW y \in View, NEW W, NEW Wy, NEW up \in BOOLEAN,
         Pair(x, W, y, Wy, up), NEW P, Thin(P, W)
  PROVE  Pair(x, P, y, Wy, up)
<1>0. PICK g : /\ Len(W) \in Nat /\ Len(P) \in Nat /\ (W = <<>> => P = <<>>)
               /\ \A i \in 1 .. Len(P) :
                    /\ g[i] \in 1 .. Len(W)
                    /\ P[i].k = W[g[i]].k /\ P[i].num = W[g[i]].num /\ P[i].resp = W[g[i]].resp
               /\ \A i, j \in 1 .. Len(P) : i < j => g[i] < g[j]
  BY DEF Thin, Embeds
<1>1. Phased(P)
  BY <1>0 DEF Pair, Half, Phased
<1>2. ASSUME x.link = "Halt", up PROVE Silent(P, y, Wy)
  BY <1>0, <1>2 DEF Pair, Half, Silent
<1>3. ASSUME x.link # "Halt" PROVE Answers(x, P) /\ Opened(x, P)
  BY <1>0, <1>3 DEF Pair, Half, Answers, Opened
<1>4. ASSUME x.link # "Halt", y.link # "Halt"
      PROVE  Known(x, P, y) /\ InStep(x, P, y) /\ Behind(x, y, Wy)
  BY <1>0, <1>4 DEF Pair, Half, Known, InStep
<1>5. ASSUME y.link = "Halt", up PROVE Silent(Wy, x, P)
  BY <1>0, <1>5 DEF Pair, Half, Silent
<1>6. ASSUME x.link # "Halt", y.link # "Halt"
      PROVE  Known(y, Wy, x) /\ InStep(y, Wy, x) /\ Behind(y, x, P)
  <2>1. Known(y, Wy, x) /\ InStep(y, Wy, x) /\ Behind(y, x, W)
    BY <1>6 DEF Pair, Half
  <2>2. \A i \in 1 .. Len(P) :
          P[i].k = "data" => Ahead(P[i].num, y.N) <= Reach + Ahead(x.R, y.N)
    BY <1>0, <2>1 DEF Behind
  <2>3. ASSUME NEW i \in 1 .. Len(P), NEW j \in 1 .. Len(P),
               P[i].k = "data", P[j].k = "data", i < j
        PROVE  Ahead(P[j].num, y.N) <= Ahead(P[i].num, y.N) + Reach
    <3>1. g[i] \in 1 .. Len(W) /\ g[j] \in 1 .. Len(W) /\ g[i] < g[j]
      BY <1>0, <2>3
    <3>2. W[g[i]].k = "data" /\ W[g[j]].k = "data"
      BY <1>0, <2>3
    <3>3. Ahead(W[g[j]].num, y.N) <= Ahead(W[g[i]].num, y.N) + Reach
      BY <2>1, <3>1, <3>2 DEF Behind
    <3> QED  BY <1>0, <3>1, <3>3
  <2> QED  BY <2>1, <2>2, <2>3 DEF Behind
<1>7. Half(x, P, y, Wy, up)
  BY <1>1, <1>2, <1>3, <1>4 DEF Half
<1>8. Half(y, Wy, x, P, up)
  BY <1>5, <1>6 DEF Pair, Half
<1> QED  BY <1>7, <1>8 DEF Pair

LEMMA PairTaken ==
  ASSUME NEW x \in View, NEW y \in View, NEW W \in Seq(LinePacket), W # <<>>,
         NEW Wy, NEW up \in BOOLEAN, Pair(x, W, y, Wy, up)
  PROVE  Pair(x, Tail(W), y, Wy, up) /\ Tail(W) \in Seq(LinePacket)
<1> DEFINE P == Tail(W)
           g == [i \in 1 .. Len(P) |-> i + 1]
<1>1. /\ Len(W) \in Nat /\ P \in Seq(LinePacket) /\ Len(P) = Len(W) - 1 /\ Len(P) \in Nat
      /\ \A j \in 1 .. Len(P) : P[j] = W[j + 1]
  BY TailIndex, LenProperties
<1>2. \A i \in 1 .. Len(P) : g[i] \in 1 .. Len(W) /\ P[i] = W[g[i]]
  BY <1>1
<1>3. \A i, j \in 1 .. Len(P) : i < j => g[i] < g[j]
  BY <1>1
<1> HIDE DEF P, g
<1>4. Embeds(P, W, g)
  BY <1>2, <1>3 DEF Embeds
<1>5. Thin(P, W)
  <2> HIDE DEF P
  <2> QED  BY <1>1, <1>4 DEF Thin
<1>6. Pair(x, P, y, Wy, up)
  BY <1>5, PairThin
<1> QED  BY <1>1, <1>6 DEF P

\* Packets of y's window and phase are put on the line.
LEMMA PairSend ==
  ASSUME NEW x \in View, NEW y \in View, NEW W \in Seq(LinePacket), NEW Wy \in Seq(LinePacket),
         Pair(x, W, y, Wy, TRUE), x.link # "Halt", x.link = "IStart" => x.R = 0,
         NEW S \in Seq(LinePacket),
         \A i \in 1 .. Len(S) : S[i].resp = x.R /\ Rank(S[i].k) = LinkRank(x.link),
         \A i \in 1 .. Len(S) : S[i].k = "data" => Ahead(S[i].num, x.N) <= Reach
  PROVE  Pair(x, W, y, Wy \o S, TRUE) /\ Wy \o S \in Seq(LinePacket)
<1> DEFINE P == Wy \o S
<1>1. /\ Len(Wy) \in Nat /\ Len(S) \in Nat /\ P \in Seq(LinePacket)
      /\ Len(P) = Len(Wy) + Len(S)
      /\ \A i \in 1 .. Len(Wy) : P[i] = Wy[i]
      /\ \A i \in Len(Wy) + 1 .. Len(P) : i - Len(Wy) \in 1 .. Len(S) /\ P[i] = S[i - Len(Wy)]
  BY ConcatProperties, LenProperties
<1> HIDE DEF P
<1>2. \A i \in Len(Wy) + 1 .. Len(P) :
        /\ P[i].resp = x.R /\ Rank(P[i].k) = LinkRank(x.link)
        /\ P[i].k = "data" => Ahead(P[i].num, x.N) <= Reach
  BY <1>1
<1>3. \A i \in 1 .. Len(P) : i \notin 1 .. Len(Wy) => i \in Len(Wy) + 1 .. Len(P)
  BY <1>1
<1>4. y.link = "Halt" => x.link = "IStart"
  BY DEF Pair, Half, Silent
<1>5. Phased(P)
  <2> SUFFICES ASSUME NEW i \in 1 .. Len(P), NEW j \in 1 .. Len(P), i < j
               PROVE  Rank(P[i].k) <= Rank(P[j].k)
    BY DEF Phased
  <2>1. CASE j \in 1 .. Len(Wy)
    <3>1. i \in 1 .. Len(Wy)
      BY <1>1, <2>1
    <3> QED  BY <1>1, <2>1, <3>1 DEF Pair, Half, Phased
  <2>2. CASE j \notin 1 .. Len(Wy)
    <3>1. Rank(P[j].k) = LinkRank(x.link)
      BY <1>2, <1>3, <2>2
    <3>2. Rank(P[i].k) <= LinkRank(x.link)
      <4>1. CASE i \in 1 .. Len(Wy)
        <5>1. CASE y.link = "Halt"
          <6>1. P[i].k = "start"
            BY <1>1, <4>1, <5>1 DEF Pair, Half, Silent
          <6> QED  BY <6>1, Ranks
        <5>2. CASE y.link # "Halt"
          BY <1>1, <4>1, <5>2 DEF Pair, Half, InStep
        <5> QED  BY <5>1, <5>2
      <4>2. CASE i \notin 1 .. Len(Wy)
        BY <1>2, <1>3, <4>2, Ranks
      <4> QED  BY <4>1, <4>2
    <3> QED  BY <3>1, <3>2
  <2> QED  BY <2>1, <2>2
<1>6. ASSUME y.link = "Halt" PROVE Silent(P, x, W)
  <2>1. \A i \in 1 .. Len(P) : P[i].k = "start" /\ P[i].resp = 0
    <3> TAKE i \in 1 .. Len(P)
    <3>1. CASE i \in 1 .. Len(Wy)
      BY <1>1, <1>6, <3>1 DEF Pair, Half, Silent
    <3>2. CASE i \notin 1 .. Len(Wy)
      BY <1>2, <1>3, <1>4, <1>6, <3>2, Ranks
    <3> QED  BY <3>1, <3>2
  <2>2. Silent(Wy, x, W)
    BY <1>6 DEF Pair, Half
  <2> QED  BY <1>4, <1>6, <2>1, <2>2 DEF Silent
<1>7. ASSUME y.link # "Halt"
      PROVE  /\ Answers(y, P) /\ Opened(y, P)
             /\ Known(y, P, x) /\ InStep(y, P, x) /\ Behind(y, x, W)
             /\ Known(x, W, y) /\ InStep(x, W, y) /\ Behind(x, y, P)
  <2>1. /\ Answers(y, Wy) /\ Opened(y, Wy)
        /\ Known(y, Wy, x) /\ InStep(y, Wy, x) /\ Behind(y, x, W)
        /\ Known(x, W, y) /\ InStep(x, W, y) /\ Behind(x, y, Wy)
    BY <1>7 DEF Pair, Half
  <2>2. Known(y, P, x)
    <3> SUFFICES ASSUME NEW i \in 1 .. Len(P) PROVE Ahead(y.A, P[i].resp) <= Ahead(y.A, x.R)
      BY <2>1 DEF Known
    <3>1. CASE i \in 1 .. Len(Wy)
      BY <1>1, <2>1, <3>1 DEF Known
    <3>2. CASE i \notin 1 .. Len(Wy)
      <4>1. P[i].resp = x.R
        BY <1>2, <1>3, <3>2
      <4>2. Ahead(y.A, x.R) \in Nat
        BY AheadIs DEF View
      <4> QED  BY <4>1, <4>2
    <3> QED  BY <3>1, <3>2
  <2>3. Answers(y, P)
    <3>1. ASSUME NEW i \in 1 .. Len(P) PROVE Ahead(y.A, P[i].resp) <= Ahead(y.A, y.N)
      <4>1. P[i].resp \in Number
        BY <1>1, OnLine
      <4>2. Ahead(y.A, P[i].resp) \in Nat /\ Ahead(y.A, x.R) \in Nat /\ Ahead(y.A, y.N) \in Nat
        BY <4>1, AheadIs DEF View
      <4> QED  BY <2>1, <2>2, <4>2 DEF Known
    <3>2. ASSUME NEW i \in 1 .. Len(P), NEW j \in 1 .. Len(P), i < j
          PROVE  Ahead(y.A, P[i].resp) <= Ahead(y.A, P[j].resp)
      <4>1. CASE j \in 1 .. Len(Wy)
        <5>1. i \in 1 .. Len(Wy)
          BY <1>1, <3>2, <4>1
        <5> QED  BY <1>1, <2>1, <3>2, <4>1, <5>1 DEF Answers
      <4>2. CASE j \notin 1 .. Len(Wy)
        <5>1. P[j].resp = x.R
          BY <1>2, <1>3, <4>2
        <5> QED  BY <2>2, <5>1 DEF Known
      <4> QED  BY <4>1, <4>2
    <3> QED  BY <3>1, <3>2 DEF Answers
  <2>4. Opened(y, P) /\ InStep(y, P, x)
    <3>1. ASSUME NEW i \in 1 .. Len(P) PROVE Rank(P[i].k) <= LinkRank(x.link)
      <4>1. CASE i \in 1 .. Len(Wy)
        BY <1>1, <2>1, <4>1 DEF InStep
      <4>2. CASE i \notin 1 .. Len(Wy)
        BY <1>2, <1>3, <4>2, Ranks
      <4> QED  BY <4>1, <4>2
    <3>2. ASSUME y.link = "Run", NEW i \in 1 .. Len(P) PROVE P[i].k # "start"
      <4>1. CASE i \in 1 .. Len(Wy)
        BY <1>1, <2>1, <3>2, <4>1 DEF Opened
      <4>2. CASE i \notin 1 .. Len(Wy)
        <5>1. Rank(P[i].k) = LinkRank(x.link) /\ x.link # "IStart"
          BY <1>2, <1>3, <2>1, <3>2, <4>2 DEF InStep
        <5> QED  BY <5>1, Ranks
      <4> QED  BY <4>1, <4>2
    <3> QED  BY <2>1, <3>1, <3>2 DEF Opened, InStep
  <2>5. Behind(x, y, P)
    <3>1. ASSUME NEW i \in 1 .. Len(P), P[i].k = "data"
          PROVE  Ahead(P[i].num, x.N) <= Reach + Ahead(y.R, x.N)
      <4>1. CASE i \in 1 .. Len(Wy)
        BY <1>1, <2>1, <3>1, <4>1 DEF Behind
      <4>2. CASE i \notin 1 .. Len(Wy)
        <5>1. P[i].num \in Number
          BY <1>1, OnLine
        <5>2. Ahead(P[i].num, x.N) <= Reach
          BY <1>2, <1>3, <3>1, <4>2
        <5>3. Ahead(P[i].num, x.N) \in Nat /\ Ahead(y.R, x.N) \in Nat
          BY <5>1, AheadIs DEF View
        <5> QED  BY <5>2, <5>3, Sizes DEF Reach
      <4> QED  BY <4>1, <4>2
    <3>2. ASSUME NEW i \in 1 .. Len(P), NEW j \in 1 .. Len(P), i < j,
                 P[i].k = "data", P[j].k = "data"
          PROVE  Ahead(P[j].num, x.N) <= Ahead(P[i].num, x.N) + Reach
      <4>1. CASE j \in 1 .. Len(Wy)
        <5>1. i \in 1 .. Len(Wy)
          BY <1>1, <3>2, <4>1
        <5> QED  BY <1>1, <2>1, <3>2, <4>1, <5>1 DEF Behind
      <4>2. CASE j \notin 1 .. Len(Wy)
        <5>1. P[i].num \in Number /\ P[j].num \in Number
          BY <1>1, OnLine
        <5>2. Ahead(P[j].num, x.N) <= Reach
          BY <1>2, <1>3, <3>2, <4>2
        <5>3. Ahead(P[i].num, x.N) \in Nat /\ Ahead(P[j].num, x.N) \in Nat
          BY <5>1, AheadIs DEF View
        <5> QED  BY <5>2, <5>3, Sizes DEF Reach
      <4> QED  BY <4>1, <4>2
    <3> QED  BY <3>1, <3>2 DEF Behind
  <2> QED  BY <2>1, <2>2, <2>3, <2>4, <2>5
<1>8. Half(x, W, y, P, TRUE)
  BY <1>7 DEF Pair, Half
<1>9. Half(y, P, x, W, TRUE)
  BY <1>5, <1>6, <1>7 DEF Half
<1> QED  BY <1>1, <1>8, <1>9 DEF Pair, P

\* Another message has a number.
LEMMA PairNumber ==
  ASSUME NEW x \in View, NEW y \in View, NEW W \in Seq(LinePacket), NEW Wy \in Seq(LinePacket),
         NEW up \in BOOLEAN, Pair(x, W, y, Wy, up), x.link # "Halt",
         NEW z \in View, z.link = x.link, z.R = x.R, z.A = x.A, z.N = Succ(x.N),
         Ahead(x.A, z.N) = Ahead(x.A, x.N) + 1, Ahead(x.A, z.N) <= MaxXmt
  PROVE  Pair(z, W, y, Wy, up)
<1>1. /\ x.A \in Number /\ x.N \in Number /\ y.R \in Number
      /\ Ahead(x.A, x.N) \in Nat
  BY AheadIs DEF View
<1>2. Answers(x, W) => Answers(z, W)
  <2> SUFFICES ASSUME Answers(x, W), NEW i \in 1 .. Len(W)
               PROVE  Ahead(x.A, W[i].resp) <= Ahead(x.A, z.N)
    BY DEF Answers
  <2>1. Ahead(x.A, W[i].resp) <= Ahead(x.A, x.N)
    BY DEF Answers
  <2>2. Ahead(x.A, W[i].resp) \in Nat
    BY <1>1, OnLine, AheadIs
  <2> QED  BY <1>1, <2>1, <2>2
<1>3. ASSUME Known(x, W, y), Behind(x, y, Wy)
      PROVE  Known(z, W, y) /\ Behind(z, y, Wy)
  <2>1. Ahead(x.A, y.R) <= Ahead(x.A, x.N) /\ Ahead(x.A, y.R) \in Nat
    BY <1>1, <1>3, AheadIs DEF Known
  <2>2. Known(z, W, y)
    BY <1>1, <1>3, <2>1 DEF Known
  <2>3. Ahead(y.R, x.N) <= MaxXmt - 1 /\ Ahead(y.R, x.N) \in Nat
    <3>1. Ahead(x.A, x.N) = Ahead(x.A, y.R) + Ahead(y.R, x.N)
      BY <1>1, <2>1, AheadSplit
    <3>2. Ahead(y.R, x.N) \in Nat
      BY <1>1, AheadIs
    <3> QED  BY <1>1, <2>1, <3>1, <3>2, Sizes
  <2>4. Ahead(y.R, z.N) = Ahead(y.R, x.N) + 1
    <3>1. Ahead(y.R, x.N) + 1 < Modulus
      BY <2>3, Sizes
    <3> QED  BY <1>1, <3>1, AheadSucc
  <2>5. ASSUME NEW i \in 1 .. Len(Wy), Wy[i].k = "data"
        PROVE  /\ Ahead(Wy[i].num, z.N) = Ahead(Wy[i].num, x.N) + 1
               /\ Ahead(Wy[i].num, x.N) \in Nat
    <3>1. Wy[i].num \in Number
      BY OnLine
    <3>2. Ahead(Wy[i].num, x.N) \in Nat
      BY <1>1, <3>1, AheadIs
    <3>3. Ahead(Wy[i].num, x.N) <= Reach + Ahead(y.R, x.N)
      BY <1>3, <2>5 DEF Behind
    <3>4. Ahead(Wy[i].num, x.N) + 1 < Modulus
      BY <2>3, <3>2, <3>3, Sizes DEF Reach
    <3> QED  BY <1>1, <3>1, <3>2, <3>4, AheadSucc
  <2>6. Behind(z, y, Wy)
    <3>1. ASSUME NEW i \in 1 .. Len(Wy), Wy[i].k = "data"
          PROVE  Ahead(Wy[i].num, z.N) <= Reach + Ahead(y.R, z.N)
      <4>1. Ahead(Wy[i].num, x.N) <= Reach + Ahead(y.R, x.N)
        BY <1>3, <3>1 DEF Behind
      <4> QED  BY <2>3, <2>4, <2>5, <3>1, <4>1, Sizes DEF Reach
    <3>2. ASSUME NEW i \in 1 .. Len(Wy), NEW j \in 1 .. Len(Wy),
                 Wy[i].k = "data", Wy[j].k = "data", i < j
          PROVE  Ahead(Wy[j].num, z.N) <= Ahead(Wy[i].num, z.N) + Reach
      <4>1. Ahead(Wy[j].num, x.N) <= Ahead(Wy[i].num, x.N) + Reach
        BY <1>3, <3>2 DEF Behind
      <4> QED  BY <2>5, <3>2, <4>1, Sizes DEF Reach
    <3> QED  BY <3>1, <3>2 DEF Behind
  <2> QED  BY <2>2, <2>6
<1>4. Half(z, W, y, Wy, up)
  BY <1>2, <1>3 DEF Pair, Half, Opened, InStep
<1>5. Half(y, Wy, z, W, up)
  BY DEF Pair, Half, Silent, Known, InStep, Behind
<1> QED  BY <1>4, <1>5 DEF Pair

LEMMA AheadFull == ASSUME NEW n \in Number PROVE Ahead(Succ(n), n) = Modulus - 1
BY SuccIs, Sizes DEF Ahead, Number

\* x has received the message it was waiting for.
LEMMA PairGive ==
  ASSUME 1 <= MaxXmt, NEW x \in View, NEW y \in View, NEW W \in Seq(LinePacket),
         NEW Wy \in Seq(LinePacket), NEW up \in BOOLEAN,
         Pair(x, W, y, Wy, up), x.link = "Run",
         W # <<>>, W[1].k = "data", W[1].num = Succ(x.R),
         NEW z \in View, z.link = x.link, z.A = x.A, z.N = x.N, z.R = Succ(x.R)
  PROVE  Pair(z, W, y, Wy, up)
<1>1. /\ x.R \in Number /\ y.A \in Number /\ y.N \in Number /\ 1 \in 1 .. Len(W)
      /\ W[1].num \in Number
  <2>1. 1 \in 1 .. Len(W)
    BY LenProperties, EmptySeq
  <2> QED  BY <2>1, OnLine DEF View
<1>2. ASSUME y.link # "Halt"
      PROVE  Known(y, Wy, z) /\ InStep(y, Wy, z) /\ Behind(y, z, W)
  <2>1. Known(y, Wy, x) /\ InStep(y, Wy, x) /\ Behind(y, x, W)
    BY <1>2 DEF Pair, Half
  <2>2. Ahead(x.R, y.N) >= 1
    <3>1. Ahead(Succ(x.R), y.N) <= Reach + Ahead(x.R, y.N)
      BY <1>1, <2>1 DEF Behind
    <3>2. Ahead(x.R, y.N) \in Nat
      BY <1>1, AheadIs
    <3>3. x.R = y.N => Ahead(Succ(x.R), y.N) = Modulus - 1
      BY <1>1, AheadFull
    <3>4. x.R # y.N
      <4>1. Ahead(y.N, y.N) = 0
        BY <1>1, AheadIs
      <4> QED  BY <3>1, <3>3, <4>1, Sizes DEF Reach
    <3> QED  BY <1>1, <3>2, <3>4, AheadIs
  <2>3. Ahead(Succ(x.R), y.N) = Ahead(x.R, y.N) - 1
    <3>1. x.R # y.N
      BY <1>1, <2>2, AheadIs
    <3> QED  BY <1>1, <3>1, AheadSucc
  <2>4. /\ Ahead(y.A, x.R) <= Ahead(y.A, y.N)
        /\ Ahead(y.A, x.R) \in Nat /\ Ahead(x.R, y.N) \in Nat
        /\ Ahead(y.A, y.N) \in Nat /\ Ahead(y.A, y.N) < Modulus
        /\ Ahead(y.A, y.N) = Ahead(y.A, x.R) + Ahead(x.R, y.N)
    <3>1. Ahead(y.A, x.R) <= Ahead(y.A, y.N)
      BY <2>1 DEF Known
    <3>2. /\ Ahead(y.A, x.R) \in Nat /\ Ahead(x.R, y.N) \in Nat
          /\ Ahead(y.A, y.N) \in Nat /\ Ahead(y.A, y.N) < Modulus
      BY <1>1, AheadIs
    <3>3. Ahead(y.A, y.N) = Ahead(y.A, x.R) + Ahead(x.R, y.N)
      BY <1>1, <3>1, AheadSplit
    <3> QED  BY <3>1, <3>2, <3>3
  <2>5. Ahead(y.A, Succ(x.R)) = Ahead(y.A, x.R) + 1
    <3>1. Ahead(y.A, x.R) + 1 < Modulus
      BY <2>2, <2>4, Sizes
    <3> QED  BY <1>1, <3>1, AheadSucc
  <2>6. Known(y, Wy, z)
    <3>1. Ahead(y.A, z.R) <= Ahead(y.A, y.N)
      BY <2>2, <2>4, <2>5
    <3>2. ASSUME NEW i \in 1 .. Len(Wy) PROVE Ahead(y.A, Wy[i].resp) <= Ahead(y.A, z.R)
      <4>1. Ahead(y.A, Wy[i].resp) <= Ahead(y.A, x.R)
        BY <2>1 DEF Known
      <4>2. Ahead(y.A, Wy[i].resp) \in Nat
        BY <1>1, OnLine, AheadIs
      <4> QED  BY <2>4, <2>5, <4>1, <4>2
    <3> QED  BY <3>1, <3>2 DEF Known
  <2>7. Behind(y, z, W)
    <3> SUFFICES ASSUME NEW i \in 1 .. Len(W), W[i].k = "data"
                 PROVE  Ahead(W[i].num, y.N) <= Reach + Ahead(z.R, y.N)
      BY <2>1 DEF Behind
    <3>0. Ahead(z.R, y.N) = Ahead(W[1].num, y.N) /\ Ahead(z.R, y.N) \in Nat
      BY <1>1, SuccIs, AheadIs
    <3>1. CASE i = 1
      BY <3>0, <3>1, Sizes DEF Reach
    <3>2. CASE i # 1
      <4>1. Ahead(W[i].num, y.N) <= Ahead(W[1].num, y.N) + Reach
        BY <1>1, <2>1, <3>2 DEF Behind
      <4>2. Ahead(W[i].num, y.N) \in Nat
        BY <1>1, OnLine, AheadIs
      <4> QED  BY <3>0, <4>1, <4>2, Sizes DEF Reach
    <3> QED  BY <3>1, <3>2
  <2> QED  BY <2>1, <2>6, <2>7 DEF InStep
<1>3. Half(z, W, y, Wy, up)
  BY DEF Pair, Half, Answers, Opened, Known, InStep, Behind
<1>4. Half(y, Wy, z, W, up)
  BY <1>2 DEF Pair, Half, Silent
<1> QED  BY <1>3, <1>4 DEF Pair

\* x has seen the acknowledgement of the packet it reads.
LEMMA PairAck ==
  ASSUME NEW x \in View, NEW y \in View, NEW W \in Seq(LinePacket), NEW Wy,
         NEW up \in BOOLEAN, Pair(x, W, y, Wy, up), x.link # "Halt", W # <<>>,
         NEW z \in View, z.link = x.link, z.R = x.R, z.N = x.N, z.A = W[1].resp
  PROVE  Pair(z, W, y, Wy, up) /\ Ahead(x.A, W[1].resp) <= Ahead(x.A, x.N)
<1>1. /\ x.A \in Number /\ x.N \in Number /\ y.R \in Number /\ 1 \in 1 .. Len(W)
      /\ W[1].resp \in Number /\ Ahead(x.A, x.N) \in Nat /\ z.A \in Number
  <2>1. 1 \in 1 .. Len(W)
    BY LenProperties, EmptySeq
  <2>2. x.A \in Number /\ x.N \in Number /\ y.R \in Number /\ W[1].resp \in Number
    BY <2>1, OnLine DEF View
  <2> QED  BY <2>1, <2>2, AheadIs
<1>2. Answers(x, W)
  BY DEF Pair, Half
<1>3. ASSUME NEW n \in Number, Ahead(x.A, z.A) <= Ahead(x.A, n)
      PROVE  Ahead(z.A, n) = Ahead(x.A, n) - Ahead(x.A, z.A)
  <2>1. Ahead(x.A, n) = Ahead(x.A, z.A) + Ahead(z.A, n)
    BY <1>1, <1>3, AheadSplit
  <2>2. Ahead(x.A, z.A) \in Nat /\ Ahead(z.A, n) \in Nat
    BY <1>1, AheadIs
  <2> QED  BY <2>1, <2>2
<1>4. \A i \in 1 .. Len(W) :
        W[i].resp \in Number /\ Ahead(x.A, z.A) <= Ahead(x.A, W[i].resp)
  <2> TAKE i \in 1 .. Len(W)
  <2>1. W[i].resp \in Number
    BY OnLine
  <2>2. CASE i = 1
    <3>1. Ahead(x.A, W[1].resp) \in Nat
      BY <1>1, AheadIs
    <3> QED  BY <2>1, <2>2, <3>1
  <2>3. CASE i # 1
    BY <1>1, <1>2, <2>1, <2>3 DEF Answers
  <2> QED  BY <2>2, <2>3
<1>5. Ahead(x.A, z.A) <= Ahead(x.A, x.N) /\ Ahead(x.A, z.A) \in Nat
  BY <1>1, <1>2, AheadIs DEF Answers
<1>6. Ahead(z.A, z.N) = Ahead(x.A, x.N) - Ahead(x.A, z.A)
  BY <1>1, <1>3, <1>5
<1>7. \A i \in 1 .. Len(W) :
        /\ Ahead(z.A, W[i].resp) = Ahead(x.A, W[i].resp) - Ahead(x.A, z.A)
        /\ Ahead(x.A, W[i].resp) \in Nat
  BY <1>1, <1>3, <1>4, AheadIs
<1>8. Answers(z, W)
  BY <1>1, <1>2, <1>5, <1>6, <1>7 DEF Answers
<1>9. Known(x, W, y) => Known(z, W, y)
  <2> SUFFICES ASSUME Known(x, W, y) PROVE Known(z, W, y)
    OBVIOUS
  <2>1. Ahead(x.A, z.A) <= Ahead(x.A, y.R) /\ Ahead(x.A, y.R) \in Nat
    BY <1>1, AheadIs DEF Known
  <2>2. Ahead(z.A, y.R) = Ahead(x.A, y.R) - Ahead(x.A, z.A)
    BY <1>1, <1>3, <2>1
  <2> QED  BY <1>1, <1>5, <1>6, <1>7, <2>1, <2>2 DEF Known
<1>10. Half(z, W, y, Wy, up)
  BY <1>8, <1>9 DEF Pair, Half, Opened, InStep, Behind
<1>11. Half(y, Wy, z, W, up)
  BY DEF Pair, Half, Silent, Known, InStep, Behind
<1> QED  BY <1>5, <1>10, <1>11 DEF Pair

\* A packet takes the link one state further.
LEMMA PairLink ==
  ASSUME NEW x \in View, NEW y \in View, NEW W \in Seq(LinePacket), NEW Wy,
         NEW up \in BOOLEAN, Pair(x, W, y, Wy, up), x.link \in {"IStart", "AStart"}, W # <<>>,
         NEW z \in View, z.R = x.R, z.A = x.A, z.N = x.N,
         \/ z.link = "AStart"
         \/ z.link = "Run" /\ W[1].k # "start"
  PROVE  Pair(z, W, y, Wy, up)
<1>1. 1 \in 1 .. Len(W) /\ Len(W) \in Nat
  BY LenProperties, EmptySeq
<1>2. ~(up /\ y.link = "Halt")
  BY DEF Pair, Half, Silent
<1>3. Rank(W[1].k) > 0 => \A i \in 1 .. Len(W) : Rank(W[i].k) > 0
  <2> SUFFICES ASSUME Rank(W[1].k) > 0, NEW i \in 1 .. Len(W) PROVE Rank(W[i].k) > 0
    OBVIOUS
  <2>1. CASE i = 1
    BY <2>1
  <2>2. CASE i # 1
    <3>1. Rank(W[1].k) <= Rank(W[i].k)
      BY <1>1, <2>2 DEF Pair, Half, Phased
    <3> QED  BY <3>1, Ranks
  <2> QED  BY <2>1, <2>2
<1>4. Opened(z, W)
  BY <1>3, Ranks DEF Opened
<1>5. ASSUME y.link # "Halt", InStep(x, W, y)
      PROVE  InStep(z, W, y)
  <2>1. ASSUME z.link = "Run" PROVE y.link # "IStart"
    <3>1. Rank(W[1].k) <= LinkRank(y.link)
      BY <1>1, <1>5 DEF InStep
    <3>2. Rank(W[1].k) > 0
      BY <2>1, Ranks
    <3> QED  BY <3>1, <3>2, Ranks
  <2> QED  BY <1>5, <2>1 DEF InStep
<1>6. Half(z, W, y, Wy, up)
  BY <1>4, <1>5 DEF Pair, Half, Answers, Known, Behind
<1>7. ASSUME y.link # "Halt", InStep(y, Wy, x)
      PROVE  InStep(y, Wy, z)
  <2>1. LinkRank(x.link) <= LinkRank(z.link)
    BY DEF LinkRank
  <2>2. ASSUME NEW i \in 1 .. Len(Wy) PROVE Rank(Wy[i].k) <= LinkRank(z.link)
    <3>1. Rank(Wy[i].k) <= LinkRank(x.link)
      BY <1>7 DEF InStep
    <3> QED  BY <2>1, <3>1, Ranks
  <2> QED  BY <1>7, <2>2 DEF InStep
<1>8. Half(y, Wy, z, W, up)
  BY <1>2, <1>7 DEF Pair, Half, Known, Behind
<1> QED  BY <1>6, <1>8 DEF Pair

\* Rule 1: x joins a new connection.
LEMMA PairJoin ==
  ASSUME NEW x \in View, NEW y \in View, NEW W \in Seq(LinePacket), NEW Wy,
         Pair(x, W, y, Wy, TRUE), x.link = "Halt",
         y.link = "IStart" => y.R = 0 /\ y.A = 0 /\ y.N = 0,
         NEW z \in View, z.link = "IStart", z.R = 0, z.A = 0, z.N = 0
  PROVE  Pair(z, W, y, Wy, TRUE)
<1>1. Silent(W, y, Wy) /\ Phased(W) /\ Phased(Wy)
  BY DEF Pair, Half
<1>2. Len(Wy) = 0 /\ Ahead(0, 0) = 0
  BY <1>1, Sizes DEF Silent, Ahead
<1>3. Answers(z, W) /\ Opened(z, W)
  BY <1>1, <1>2 DEF Silent, Answers, Opened
<1>4. ASSUME y.link # "Halt"
      PROVE  Known(z, W, y) /\ InStep(z, W, y) /\ Behind(z, y, Wy)
  <2>1. y.link = "IStart" /\ y.R = 0
    BY <1>1, <1>4 DEF Silent
  <2>2. Known(z, W, y)
    BY <1>1, <1>2, <2>1 DEF Silent, Known
  <2>3. InStep(z, W, y)
    BY <1>1, <2>1, Ranks DEF Silent, InStep
  <2>4. Behind(z, y, Wy)
    BY <1>2 DEF Behind
  <2> QED  BY <2>2, <2>3, <2>4
<1>5. ASSUME y.link # "Halt"
      PROVE  /\ Answers(y, Wy) /\ Opened(y, Wy)
             /\ Known(y, Wy, z) /\ InStep(y, Wy, z) /\ Behind(y, z, W)
  <2>1. y.link = "IStart" /\ y.R = 0 /\ y.A = 0 /\ y.N = 0
    BY <1>1, <1>5 DEF Silent
  <2>2. Answers(y, Wy) /\ Opened(y, Wy) /\ InStep(y, Wy, z)
    BY <1>2, <2>1 DEF Answers, Opened, InStep
  <2>3. Known(y, Wy, z)
    BY <1>2, <2>1 DEF Known
  <2>4. Behind(y, z, W)
    BY <1>1 DEF Silent, Behind
  <2> QED  BY <2>2, <2>3, <2>4
<1>6. y.link = "Halt" => Silent(Wy, z, W)
  BY <1>1, <1>2 DEF Silent
<1>7. Half(z, W, y, Wy, TRUE)
  BY <1>1, <1>3, <1>4 DEF Half
<1>8. Half(y, Wy, z, W, TRUE)
  BY <1>1, <1>5, <1>6 DEF Half
<1> QED  BY <1>7, <1>8 DEF Pair

\* Without a socket, x leaves the connection and what it had not read is lost.
LEMMA PairLost ==
  ASSUME NEW x \in View, NEW y \in View, NEW W, NEW Wy,
         NEW up \in BOOLEAN, Pair(x, W, y, Wy, up),
         NEW z \in View, z.link = "Halt", NEW off \in BOOLEAN, ~off
  PROVE  Pair(z, <<>>, y, Wy, off)
<1>1. Len(<<>>) = 0
  OBVIOUS
<1>2. Half(z, <<>>, y, Wy, off)
  BY <1>1 DEF Half, Phased
<1>3. Half(y, Wy, z, <<>>, off)
  BY DEF Pair, Half
<1> QED  BY <1>2, <1>3 DEF Pair

\* Nothing is in flight and no one has joined a connection.
LEMMA PairNone ==
  ASSUME NEW x \in View, NEW y \in View, NEW up \in BOOLEAN,
         x.link = "Halt" /\ y.link = "Halt"
  PROVE  Pair(x, <<>>, y, <<>>, up)
<1>1. Len(<<>>) = 0
  OBVIOUS
<1> QED  BY <1>1 DEF Pair, Half, Phased, Silent, Answers, Opened

\* The socket is gone.
LEMMA PairDown ==
  ASSUME NEW x, NEW y, NEW W, NEW Wy, NEW up \in BOOLEAN, Pair(x, W, y, Wy, up),
         NEW off \in BOOLEAN, ~off
  PROVE  Pair(x, W, y, Wy, off)
BY DEF Pair, Half

-----------------------------------------------------------------------------
(* A controller *)

Fields ==
  {"link", "running", "dtr", "conn", "car", "fail", "R", "N", "A", "T", "X", "NAKed",
   "SACK", "SNAK", "SREP", "timer", "rcv", "comp", "xmtq", "ackw", "busy", "ev", "pkt",
   "done", "again", "out", "unread", "todo", "fatal", "sup", "taken", "floor",
   "room", "here"}

Typing(c) ==
  /\ Fields \subseteq DOMAIN c
  /\ c.timer \in {"off", "on", "spent"} /\ c.again \in BOOLEAN
  /\ c.R \in Number /\ c.N \in Number /\ c.A \in Number /\ c.T \in Number
  /\ c.X \in Number /\ c.NAKed \in Number
  /\ c.rcv \in Nat /\ c.comp \in Seq(Completion)
  /\ c.xmtq \in Seq(Packet) /\ c.ackw \in Seq(Packet)
  /\ c.sup \in Nat /\ c.floor \in Nat

\* Nothing is being sent, no write has failed or stalled.
Still(c) ==
  /\ c.busy = 0 /\ c.fail = FALSE /\ c.room = Pool /\ c.fatal = FALSE /\ c.done = NoPacket

\* What waits for an acknowledgement has a number, and no buffer on a queue
\* is a control packet.
Shaped(c) ==
  /\ \A i \in 1 .. Len(c.ackw) : c.ackw[i].k = "data" /\ c.ackw[i].id # 0
  /\ \A i \in 1 .. Len(c.xmtq) : c.xmtq[i].k \in {"raw", "data"} /\ c.xmtq[i].id # 0

\* A driver has no more outstanding than it may.
Room(c) ==
  /\ c.rcv + Tally(c.comp, "rcv") <= MaxRcv
  /\ Len(c.xmtq) + Len(c.ackw) + Tally(c.comp, "xmt") <= MaxXmt

\* Every message is reported to the driver or on a queue.
Kept(c) ==
  \A m \in c.floor + 1 .. c.sup :
    m \in c.taken \/ \E i \in 1 .. Len(Buffers(c)) : Buffers(c)[i].id = m

\* What holds of a controller throughout an action.
Sound(c) == Typing(c) /\ Still(c) /\ Shaped(c) /\ Room(c) /\ Kept(c)

\* A controller whose link is in the state l.
Linked(c, l) ==
  /\ l # "Halt" => Window(Buffers(c), Len(c.ackw), c.A, c.N, c.T)
  /\ l \in {"IStart", "AStart"} =>
       /\ c.R = 0 /\ c.N = 0 /\ c.A = 0 /\ Len(c.ackw) = 0
       /\ \A i \in 1 .. Len(c.xmtq) : c.xmtq[i].k = "raw"

Seen(c, l) == [link |-> l, R |-> c.R, A |-> c.A, N |-> c.N]

\* What does not change while c works: what is on its line, the other end,
\* what was in flight to it, the socket, the event, and what is still to be
\* read and to be done.
Scene(e) ==
  /\ e.in \in Seq(LinePacket) /\ e.peer \in View /\ e.wire \in Seq(LinePacket)
  /\ e.up \in BOOLEAN
  /\ e.peer.link = "IStart" => e.peer.R = 0 /\ e.peer.A = 0 /\ e.peer.N = 0

Line(c, e) == IF e.up THEN e.wire \o c.out ELSE e.wire

Connected(c) == c.conn = TRUE /\ c.car = TRUE /\ c.dtr = TRUE

Hears(c, e) ==
  /\ c.ev = e.ev /\ c.unread = e.unread /\ c.todo = e.todo
  /\ c.ev = "rcvd" => e.in # <<>> /\ c.pkt = e.in[1]

\* c works for its connection in the scene e, its link being in the state l.
On(c, l, e) ==
  /\ Sound(c) /\ Linked(c, l) /\ Connected(c) /\ Hears(c, e)
  /\ l \in {"IStart", "AStart", "Run"} /\ c.out \in Seq(LinePacket)
  /\ Pair(Seen(c, l), e.in, e.peer, Line(c, e), e.up)

LEMMA FunSeq ==
  ASSUME NEW X, NEW n \in Nat, NEW f \in [1 .. n -> X]
  PROVE  f \in Seq(X) /\ Len(f) = n
OBVIOUS

LEMMA SeenIs ==
  ASSUME NEW c, Typing(c), NEW l \in {"Halt", "IStart", "AStart", "Run"}
  PROVE  /\ Seen(c, l) \in View /\ Seen(c, l).link = l
         /\ Seen(c, l).R = c.R /\ Seen(c, l).A = c.A /\ Seen(c, l).N = c.N
BY DEF Typing, Seen, View

\* The two queues as one.
LEMMA BuffersAre ==
  ASSUME NEW c, Typing(c)
  PROVE  /\ Buffers(c) \in Seq(Packet)
         /\ Len(c.ackw) \in Nat /\ Len(c.xmtq) \in Nat
         /\ Len(Buffers(c)) = Len(c.ackw) + Len(c.xmtq)
         /\ \A i \in 1 .. Len(c.ackw) : Buffers(c)[i] = c.ackw[i]
         /\ \A i \in 1 .. Len(c.xmtq) : Buffers(c)[Len(c.ackw) + i] = c.xmtq[i]
<1> DEFINE a == c.ackw
           x == c.xmtq
<1>1. a \in Seq(Packet) /\ x \in Seq(Packet)
  BY DEF Typing
<1> HIDE DEF a, x
<1>2. Len(a) \in Nat /\ Len(x) \in Nat
  BY <1>1, LenProperties
<1>3. /\ a \o x \in Seq(Packet) /\ Len(a \o x) = Len(a) + Len(x)
      /\ \A i \in 1 .. Len(a) + Len(x) : (a \o x)[i] = IF i <= Len(a) THEN a[i] ELSE x[i - Len(a)]
  BY <1>1, ConcatProperties
<1>4. \A i \in 1 .. Len(a) : (a \o x)[i] = a[i]
  BY <1>2, <1>3
<1>5. \A i \in 1 .. Len(x) : (a \o x)[Len(a) + i] = x[i]
  <2> TAKE i \in 1 .. Len(x)
  <2>1. Len(a) + i \in 1 .. Len(a) + Len(x) /\ ~(Len(a) + i <= Len(a)) /\ (Len(a) + i) - Len(a) = i
    BY <1>2
  <2> QED  BY <1>3, <2>1
<1> QED  BY <1>2, <1>3, <1>4, <1>5 DEF Buffers, a, x

\* The pool has a buffer for a control packet.
LEMMA Roomy ==
  ASSUME NEW c, Sound(c)
  PROVE  /\ Free(c) \in 1 .. Pool
         /\ Held(Buffers(c), Len(c.ackw)) /\ Len(c.xmtq) <= MaxXmt
<1> DEFINE r == Tally(c.comp, "rcv")
           x == Tally(c.comp, "xmt")
           w == Len(c.ackw)
           q == Len(c.xmtq)
<1>1. r \in Nat /\ x \in Nat /\ r + x = Len(c.comp)
  BY TallySum DEF Sound, Typing
<1>2. /\ w \in Nat /\ q \in Nat /\ Buffers(c) \in Seq(Packet)
      /\ Len(Buffers(c)) = w + q
      /\ \A i \in 1 .. w : Buffers(c)[i] = c.ackw[i]
  BY BuffersAre DEF Sound
<1>3. c.rcv + r <= MaxRcv /\ c.rcv \in Nat /\ q + w + x <= MaxXmt
  BY DEF Sound, Room, Typing
<1>4. Free(c) = Pool - (c.rcv + Len(c.comp) + q + w)
  BY DEF Free
<1>5. \A i \in 1 .. w : Buffers(c)[i].k = "data"
  BY <1>2 DEF Sound, Shaped
<1> HIDE DEF r, x, w, q
<1>6. Free(c) \in 1 .. Pool
  <2>1. w \in Nat /\ q \in Nat
    BY <1>2
  <2>2. /\ c.rcv + Len(c.comp) + q + w <= MaxRcv + MaxXmt
        /\ c.rcv + Len(c.comp) + q + w \in Nat
    BY <1>1, <1>3, <2>1, Sizes
  <2> QED  BY <1>4, <2>2, Sizes
<1>7. Len(Buffers(c)) <= MaxXmt /\ w \in 0 .. Len(Buffers(c)) /\ q <= MaxXmt
  BY <1>1, <1>2, <1>3, Sizes
<1>8. Held(Buffers(c), w)
  BY <1>2, <1>5, <1>7 DEF Held
<1> QED  BY <1>6, <1>7, <1>8 DEF w, q

\* Only flags, timer and the like are another.
Same(c, d) ==
  /\ Fields \subseteq DOMAIN d /\ d.timer \in {"off", "on", "spent"} /\ d.again \in BOOLEAN
  /\ d.X \in Number /\ d.NAKed \in Number
  /\ d.dtr = c.dtr /\ d.conn = c.conn /\ d.car = c.car /\ d.fail = c.fail /\ d.room = c.room
  /\ d.R = c.R /\ d.N = c.N /\ d.A = c.A /\ d.T = c.T
  /\ d.rcv = c.rcv /\ d.comp = c.comp /\ d.xmtq = c.xmtq /\ d.ackw = c.ackw /\ d.busy = c.busy
  /\ d.ev = c.ev /\ d.pkt = c.pkt /\ d.unread = c.unread /\ d.todo = c.todo
  /\ d.done = c.done /\ d.out = c.out /\ d.fatal = c.fatal
  /\ d.sup = c.sup /\ d.taken = c.taken /\ d.floor = c.floor

LEMMA SameOn ==
  ASSUME NEW c, NEW d, NEW l, NEW e, On(c, l, e), Same(c, d)
  PROVE  On(d, l, e)
<1>1. Buffers(d) = Buffers(c) /\ Seen(d, l) = Seen(c, l) /\ Line(d, e) = Line(c, e)
  BY DEF Same, Buffers, Seen, Line
<1>2. Sound(d)
  <2>1. Typing(d) /\ Still(d)
    BY DEF Same, On, Sound, Typing, Still
  <2>2. Shaped(d) /\ Room(d)
    BY DEF Same, On, Sound, Shaped, Room
  <2>3. Kept(d)
    BY <1>1 DEF Same, On, Sound, Kept
  <2> QED  BY <2>1, <2>2, <2>3 DEF Sound
<1>3. Linked(d, l)
  BY <1>1 DEF Same, On, Linked
<1>4. Connected(d) /\ Hears(d, e)
  BY DEF Same, On, Connected, Hears
<1> QED  BY <1>1, <1>2, <1>3, <1>4 DEF Same, On

LEMMA FlagsOn ==
  ASSUME NEW c, NEW l, NEW e, On(c, l, e), NEW link
  PROVE  /\ On(StartTimer(c), l, e) /\ On(StopTimer(c), l, e)
         /\ On(SetSACK(c), l, e) /\ On(ClearSACK(c), l, e)
         /\ On(SetSNAK(c), l, e) /\ On(ClearSNAK(c), l, e)
         /\ On(SetSREP(c), l, e) /\ On(ClearSREP(c), l, e)
         /\ On([c EXCEPT !.link = link], l, e) /\ [c EXCEPT !.link = link].link = link
         /\ On([c EXCEPT !.NAKed = c.R], l, e)
<1>1. Typing(c)
  BY DEF On, Sound
<1>2. Same(c, StartTimer(c)) /\ Same(c, StopTimer(c))
  BY <1>1 DEF Same, Typing, Fields, StartTimer, StopTimer
<1>3. Same(c, SetSACK(c)) /\ Same(c, ClearSACK(c))
  BY <1>1 DEF Same, Typing, Fields, SetSACK, ClearSACK
<1>4. Same(c, SetSNAK(c)) /\ Same(c, ClearSNAK(c))
  BY <1>1 DEF Same, Typing, Fields, SetSNAK, ClearSNAK
<1>5. Same(c, SetSREP(c)) /\ Same(c, ClearSREP(c))
  BY <1>1 DEF Same, Typing, Fields, SetSREP, ClearSREP
<1>6. /\ Same(c, [c EXCEPT !.link = link]) /\ [c EXCEPT !.link = link].link = link
      /\ Same(c, [c EXCEPT !.NAKed = c.R])
  BY <1>1 DEF Same, Typing, Fields
<1> QED  BY <1>2, <1>3, <1>4, <1>5, <1>6, SameOn

-----------------------------------------------------------------------------
(* The transmitter *)

\* d is c after the first m of its transmit queue, and perhaps packets of a
\* kind, have gone on the line as S.
Bursts(c, d, kind, m, S) ==
  /\ m \in 0 .. Len(c.xmtq) /\ \A i \in 1 .. m : c.xmtq[i].k = "data"
  /\ d.xmtq = SubSeq(c.xmtq, m + 1, Len(c.xmtq))
  /\ d.ackw = c.ackw \o SubSeq(c.xmtq, 1, m)
  /\ S \in Seq(LinePacket) /\ d.out = c.out \o S
  /\ \A i \in 1 .. Len(S) :
       /\ S[i].resp = c.R
       /\ \/ S[i].k = kind
          \/ S[i].k = "data" /\ \E j \in 1 .. m : S[i].num = c.xmtq[j].num
  /\ Fields \subseteq DOMAIN d /\ d.again \in BOOLEAN
  /\ d.timer = c.timer /\ d.X = c.X /\ d.NAKed = c.NAKed
  /\ d.dtr = c.dtr /\ d.conn = c.conn /\ d.car = c.car /\ d.fail = c.fail /\ d.room = c.room
  /\ d.R = c.R /\ d.N = c.N /\ d.A = c.A /\ d.T = c.T
  /\ d.rcv = c.rcv /\ d.comp = c.comp /\ d.busy = c.busy
  /\ d.ev = c.ev /\ d.pkt = c.pkt /\ d.unread = c.unread /\ d.todo = c.todo
  /\ d.done = c.done /\ d.fatal = c.fatal
  /\ d.sup = c.sup /\ d.taken = c.taken /\ d.floor = c.floor

LEMMA Assoc ==
  ASSUME NEW X, NEW s \in Seq(X), NEW t \in Seq(X), NEW u \in Seq(X)
  PROVE  (s \o t) \o u = s \o (t \o u)
BY ConcatAssociative

LEMMA Halves ==
  ASSUME NEW X, NEW q \in Seq(X), NEW m \in 0 .. Len(q)
  PROVE  /\ SubSeq(q, 1, m) \in Seq(X) /\ Len(SubSeq(q, 1, m)) = m
         /\ \A i \in 1 .. m : SubSeq(q, 1, m)[i] = q[i]
         /\ SubSeq(q, m + 1, Len(q)) \in Seq(X)
         /\ Len(SubSeq(q, m + 1, Len(q))) = Len(q) - m
         /\ \A i \in 1 .. Len(q) - m : SubSeq(q, m + 1, Len(q))[i] = q[i + m]
         /\ SubSeq(q, 1, m) \o SubSeq(q, m + 1, Len(q)) = q
<1>1. Len(q) \in Nat /\ m \in Nat /\ m <= Len(q) /\ \A i \in 1 .. m : q[i] \in X
  BY LenProperties, ElementOfSeq
<1>2. /\ SubSeq(q, 1, m) \in Seq(X) /\ Len(SubSeq(q, 1, m)) = m
      /\ \A i \in 1 .. m : SubSeq(q, 1, m)[i] = q[i]
  <2> DEFINE p == SubSeq(q, 1, m)
  <2>1. /\ p \in Seq(X) /\ Len(p) = IF 1 <= m THEN m - 1 + 1 ELSE 0
        /\ \A i \in 1 .. m - 1 + 1 : p[i] = q[1 + i - 1]
    BY <1>1, SubSeqProperties
  <2> HIDE DEF p
  <2>2. Len(p) = m
    BY <1>1, <2>1
  <2>3. \A i \in 1 .. m : p[i] = q[i]
    <3> TAKE i \in 1 .. m
    <3>1. i \in 1 .. m - 1 + 1 /\ 1 + i - 1 = i
      BY <1>1
    <3> QED  BY <2>1, <3>1
  <2> QED  BY <2>1, <2>2, <2>3 DEF p
<1>3. SubSeq(q, 1, m) \o SubSeq(q, m + 1, Len(q)) = SubSeq(q, 1, Len(q))
  <2>1. 1 \in 1 .. Len(q) + 1 /\ m \in 1 - 1 .. Len(q) /\ Len(q) \in m .. Len(q)
    BY <1>1
  <2> QED  BY <2>1, ConcatAdjacentSubSeq
<1>4. SubSeq(q, 1, Len(q)) = q
  BY SubSeqFull
<1> QED  BY <1>2, <1>3, <1>4, SuffixIs

LEMMA BurstOn ==
  ASSUME NEW c, NEW l, NEW e, On(c, l, e), Scene(e), NEW d, NEW kind, kind # "data",
         Rank(kind) = LinkRank(l), NEW m, NEW S, Bursts(c, d, kind, m, S)
  PROVE  On(d, l, e)
<1> DEFINE q == c.xmtq
           a == c.ackw
           s == SubSeq(q, 1, m)
           t == SubSeq(q, m + 1, Len(q))
<1>1. /\ q \in Seq(Packet) /\ a \in Seq(Packet) /\ m \in 0 .. Len(q)
      /\ d.xmtq = t /\ d.ackw = a \o s /\ Len(q) \in Nat /\ Len(a) \in Nat /\ m \in Nat
      /\ \A i \in 1 .. m : q[i].k = "data"
  BY LenProperties DEF Bursts, On, Sound, Typing
<1>2. /\ s \in Seq(Packet) /\ Len(s) = m /\ \A i \in 1 .. m : s[i] = q[i]
      /\ t \in Seq(Packet) /\ Len(t) = Len(q) - m
      /\ \A i \in 1 .. Len(q) - m : t[i] = q[i + m]
      /\ s \o t = q
  <2> HIDE DEF q
  <2> QED  BY <1>1, Halves, Zenon
<1>3. \A i \in 1 .. Len(q) : q[i].k \in {"raw", "data"} /\ q[i].id # 0
  BY DEF On, Sound, Shaped
<1>4. \A i \in 1 .. Len(a) : a[i].k = "data" /\ a[i].id # 0
  BY DEF On, Sound, Shaped
<1> HIDE DEF s, t, q, a
<1>5. /\ a \o s \in Seq(Packet) /\ Len(a \o s) = Len(a) + m
      /\ \A i \in 1 .. Len(a) + m : (a \o s)[i] = IF i <= Len(a) THEN a[i] ELSE s[i - Len(a)]
  <2>1. a \in Seq(Packet) /\ s \in Seq(Packet)
    BY <1>1, <1>2
  <2>2. /\ a \o s \in Seq(Packet) /\ Len(a \o s) = Len(a) + Len(s)
        /\ \A i \in 1 .. Len(a) + Len(s) : (a \o s)[i] = IF i <= Len(a) THEN a[i] ELSE s[i - Len(a)]
    BY <2>1, ConcatProperties
  <2>3. Len(s) = m
    BY <1>2
  <2> QED  BY <2>2, <2>3
<1>6. Buffers(d) = Buffers(c)
  <2>1. (a \o s) \o t = a \o (s \o t)
    <3>1. a \in Seq(Packet) /\ s \in Seq(Packet) /\ t \in Seq(Packet)
      BY <1>1, <1>2
    <3> QED  BY <3>1, ConcatAssociative
  <2> QED  BY <1>1, <1>2, <2>1 DEF Buffers, q, a
<1>7. Typing(d) /\ Still(d)
  BY <1>1, <1>2, <1>5 DEF Bursts, On, Sound, Typing, Still
<1>8. Shaped(d)
  <2>1. ASSUME NEW i \in 1 .. Len(d.ackw) PROVE d.ackw[i].k = "data" /\ d.ackw[i].id # 0
    <3>1. CASE i <= Len(a)
      BY <1>1, <1>4, <1>5, <2>1, <3>1
    <3>2. CASE ~(i <= Len(a))
      <4>1. i - Len(a) \in 1 .. m /\ i \in 1 .. Len(a) + m
        BY <1>1, <1>5, <2>1, <3>2
      <4>2. d.ackw[i] = q[i - Len(a)] /\ i - Len(a) \in 1 .. Len(q)
        BY <1>1, <1>2, <1>5, <3>2, <4>1
      <4> QED  BY <1>1, <1>3, <4>1, <4>2
    <3> QED  BY <3>1, <3>2
  <2>2. ASSUME NEW i \in 1 .. Len(d.xmtq) PROVE d.xmtq[i].k \in {"raw", "data"} /\ d.xmtq[i].id # 0
    <3>1. i \in 1 .. Len(q) - m /\ i + m \in 1 .. Len(q)
      BY <1>1, <1>2, <2>2
    <3>2. d.xmtq[i] = q[i + m]
      BY <1>1, <1>2, <3>1
    <3> QED  BY <1>3, <3>1, <3>2
  <2> QED  BY <2>1, <2>2 DEF Shaped
<1>9. Room(d)
  <2>1. Len(d.xmtq) + Len(d.ackw) = Len(q) + Len(a)
    BY <1>1, <1>2, <1>5
  <2>2. d.rcv = c.rcv /\ d.comp = c.comp
    BY DEF Bursts
  <2> QED  BY <2>1, <2>2 DEF On, Sound, Room, q, a
<1>10. Kept(d)
  <2>1. d.floor = c.floor /\ d.sup = c.sup /\ d.taken = c.taken
    BY DEF Bursts
  <2> QED  BY <1>6, <2>1 DEF On, Sound, Kept
<1>11. Held(Buffers(c), Len(a)) /\ Len(q) <= MaxXmt
  BY Roomy DEF On, q, a
<1>12. Window(Buffers(c), Len(a), c.A, c.N, c.T)
  BY DEF On, Linked, a
<1>13. \A i \in 1 .. Len(a) + m : Buffers(c)[i].k = "data"
  <2>1. /\ \A i \in 1 .. Len(a) : Buffers(c)[i] = a[i]
        /\ \A i \in 1 .. Len(q) : Buffers(c)[Len(a) + i] = q[i]
    BY BuffersAre DEF On, Sound, q, a
  <2> TAKE i \in 1 .. Len(a) + m
  <2>2. CASE i <= Len(a)
    BY <1>1, <1>4, <2>1, <2>2
  <2>3. CASE ~(i <= Len(a))
    <3>1. i - Len(a) \in 1 .. m /\ i - Len(a) \in 1 .. Len(q) /\ Len(a) + (i - Len(a)) = i
      BY <1>1, <2>3
    <3> QED  BY <1>1, <2>1, <3>1
  <2> QED  BY <2>2, <2>3
<1>14. Len(Buffers(c)) = Len(a) + Len(q) /\ c.A \in Number /\ c.N \in Number
  BY BuffersAre DEF On, Sound, Typing, q, a
<1>15. Window(Buffers(c), Len(a) + m, c.A, c.N, c.T)
  <2>1. Len(a) + m \in Len(a) .. Len(Buffers(c))
    BY <1>1, <1>14
  <2> QED  BY <1>11, <1>12, <1>13, <1>14, <2>1, WindowMore
<1>16. l \in {"IStart", "AStart"} => m = 0
  <2> SUFFICES ASSUME l \in {"IStart", "AStart"}, m # 0 PROVE FALSE
    OBVIOUS
  <2>1. 1 \in 1 .. m /\ 1 \in 1 .. Len(q)
    BY <1>1
  <2>2. q[1].k = "raw"
    BY <2>1 DEF On, Linked, q
  <2> QED  BY <1>1, <2>1, <2>2
<1>17. Linked(d, l)
  <2>1. Window(Buffers(d), Len(d.ackw), d.A, d.N, d.T)
    BY <1>1, <1>5, <1>6, <1>15 DEF Bursts
  <2>2. ASSUME l \in {"IStart", "AStart"}
        PROVE  /\ d.R = 0 /\ d.N = 0 /\ d.A = 0 /\ Len(d.ackw) = 0
               /\ \A i \in 1 .. Len(d.xmtq) : d.xmtq[i].k = "raw"
    <3>1. /\ c.R = 0 /\ c.N = 0 /\ c.A = 0 /\ Len(a) = 0
          /\ \A i \in 1 .. Len(q) : q[i].k = "raw"
      BY <2>2 DEF On, Linked, q, a
    <3>2. m = 0
      BY <1>16, <2>2
    <3>3. \A i \in 1 .. Len(t) : t[i] = q[i] /\ i \in 1 .. Len(q)
      BY <1>1, <1>2, <3>2
    <3>4. Len(d.ackw) = 0
      BY <1>1, <1>5, <3>1, <3>2
    <3>5. \A i \in 1 .. Len(d.xmtq) : d.xmtq[i].k = "raw"
      BY <1>1, <3>1, <3>3
    <3>6. d.R = 0 /\ d.N = 0 /\ d.A = 0
      BY <3>1 DEF Bursts
    <3> QED  BY <3>4, <3>5, <3>6
  <2> QED  BY <2>1, <2>2 DEF Linked
<1>18. S \in Seq(LinePacket) /\ d.out = c.out \o S /\ c.out \in Seq(LinePacket)
  BY DEF Bursts, On
<1>19. Seen(d, l) = Seen(c, l)
  BY DEF Bursts, Seen
<1>20. Pair(Seen(d, l), e.in, e.peer, Line(d, e), e.up)
  <2>1. CASE ~e.up
    BY <1>19, <2>1 DEF On, Line
  <2>2. CASE e.up
    <3> DEFINE v == Seen(c, l)
               Wy == e.wire \o c.out
    <3>1. v \in View /\ v.link = l /\ v.R = c.R /\ v.N = c.N
      BY SeenIs DEF On, Sound
    <3>2. Pair(v, e.in, e.peer, Wy, TRUE)
      BY <2>2 DEF On, Line
    <3>3. Wy \in Seq(LinePacket)
      BY <1>18, ConcatProperties DEF Scene
    <3>4. v.link # "Halt" /\ (v.link = "IStart" => v.R = 0)
      BY <3>1 DEF On, Linked
    <3> HIDE DEF v, Wy
    <3>5. ASSUME NEW i \in 1 .. Len(S)
          PROVE  /\ S[i].resp = v.R /\ Rank(S[i].k) = LinkRank(l)
                 /\ S[i].k = "data" => Ahead(S[i].num, v.N) <= Reach
      <4>1. CASE S[i].k = kind
        BY <3>1, <4>1 DEF Bursts
      <4>2. CASE S[i].k # kind
        <5>1. PICK j \in 1 .. m : S[i].k = "data" /\ S[i].num = q[j].num
          BY <4>2 DEF Bursts, q
        <5>2. l = "Run"
          BY <1>16, <5>1 DEF On
        <5>3. Rank(S[i].k) = LinkRank(l)
          BY <5>1, <5>2 DEF Rank, LinkRank
        <5>4. Ahead(q[j].num, c.N) + j <= 2 * MaxXmt - 1
          <6>1. /\ Buffers(c)[Len(a) + j] = q[j] /\ q[j].k = "data"
                /\ Len(a) + j \in Len(a) + 1 .. Len(Buffers(c))
            <7>1. j \in 1 .. Len(q)
              BY <1>1
            <7>2. Buffers(c)[Len(a) + j] = q[j]
              BY <7>1, BuffersAre DEF On, Sound, q, a
            <7>3. Len(a) + j \in Len(a) + 1 .. Len(Buffers(c))
              BY <1>1, <1>14, <7>1
            <7> QED  BY <1>1, <7>2, <7>3
          <6>2. Ahead(q[j].num, c.N) + ((Len(a) + j) - Len(a)) <= 2 * MaxXmt - 1
            BY <1>12, <6>1 DEF Window, Recent
          <6>3. (Len(a) + j) - Len(a) = j
            BY <1>1
          <6> QED  BY <6>2, <6>3
        <5>5. Ahead(q[j].num, c.N) \in Nat
          <6>1. j \in 1 .. Len(q)
            BY <1>1
          <6>2. q[j] \in Packet
            BY <1>1, <6>1, ElementOfSeq
          <6> QED  BY <1>14, <6>2, AheadIs DEF Packet
        <5>6. Ahead(S[i].num, v.N) <= Reach
          BY <1>1, <3>1, <5>1, <5>4, <5>5, Sizes DEF Reach
        <5>7. S[i].resp = v.R
          BY <3>1 DEF Bursts
        <5> QED  BY <5>3, <5>6, <5>7
      <4> QED  BY <4>1, <4>2
    <3>6. Pair(v, e.in, e.peer, Wy \o S, TRUE)
      BY <1>18, <3>1, <3>2, <3>3, <3>4, <3>5, PairSend DEF Scene
    <3>7. (e.wire \o c.out) \o S = e.wire \o (c.out \o S)
      <4> DEFINE w == e.wire
                 o == c.out
                 u == S
      <4>1. w \in Seq(LinePacket) /\ o \in Seq(LinePacket) /\ u \in Seq(LinePacket)
        BY <1>18 DEF Scene
      <4> HIDE DEF w, o, u
      <4>2. (w \o o) \o u = w \o (o \o u)
        BY <4>1, Assoc
      <4> QED  BY <4>2 DEF w, o, u
    <3>8. Line(d, e) = Wy \o S
      BY <1>18, <2>2, <3>7 DEF Line, Wy
    <3> QED  BY <1>19, <2>2, <3>6, <3>8 DEF v
  <2> QED  BY <2>1, <2>2 DEF Scene
<1>21. Connected(d) /\ Hears(d, e)
  BY DEF Bursts, On, Connected, Hears
<1>22. d.out \in Seq(LinePacket)
  BY <1>18, ConcatProperties
<1>23. Sound(d)
  BY <1>7, <1>8, <1>9, <1>10 DEF Sound
<1> QED  BY <1>17, <1>20, <1>21, <1>22, <1>23 DEF On

LEMMA OfOne == ASSUME NEW x PROVE (CHOOSE d \in {x} : TRUE) = x
OBVIOUS

\* The head of a queue, and the queue with a packet put before it.
LEMMA PushedIs ==
  ASSUME NEW X, NEW q \in Seq(X), NEW p \in X, NEW n \in 1 .. Len(q) + 1,
         NEW r, r = <<p>> \o q
  PROVE  /\ r \in Seq(X) /\ Len(r) = Len(q) + 1 /\ r[1] = p
         /\ \A i \in 1 .. Len(q) : r[i + 1] = q[i]
         /\ SubSeq(r, n + 1, Len(r)) = SubSeq(q, (n - 1) + 1, Len(q))
         /\ SubSeq(SubSeq(r, 1, n), 2, n) = SubSeq(q, 1, n - 1)
<1> DEFINE m == n - 1
<1>1. Len(q) \in Nat /\ n \in Nat /\ m \in 0 .. Len(q) /\ m + 1 = n /\ m \in Nat
  BY LenProperties
<1>2. <<p>> \in Seq(X) /\ Len(<<p>>) = 1 /\ <<p>>[1] = p
  OBVIOUS
<1>3. /\ r \in Seq(X) /\ Len(r) = 1 + Len(q)
      /\ \A i \in 1 .. 1 + Len(q) : r[i] = IF i <= 1 THEN <<p>>[i] ELSE q[i - 1]
  <2> DEFINE s == <<p>>
  <2>1. s \in Seq(X) /\ Len(s) = 1
    BY <1>2
  <2> HIDE DEF s
  <2>2. /\ s \o q \in Seq(X) /\ Len(s \o q) = Len(s) + Len(q)
        /\ \A i \in 1 .. Len(s) + Len(q) : (s \o q)[i] = IF i <= Len(s) THEN s[i] ELSE q[i - Len(s)]
    BY <2>1, ConcatProperties
  <2>3. r = s \o q
    BY DEF s
  <2>4. /\ r \in Seq(X) /\ Len(r) = 1 + Len(q)
        /\ \A i \in 1 .. 1 + Len(q) : r[i] = IF i <= 1 THEN s[i] ELSE q[i - 1]
    BY <2>1, <2>2, <2>3
  <2> QED  BY <2>4 DEF s
<1>4. r[1] = p /\ \A i \in 1 .. Len(q) : r[i + 1] = q[i]
  <2>1. r[1] = p
    BY <1>1, <1>2, <1>3
  <2>2. ASSUME NEW i \in 1 .. Len(q) PROVE r[i + 1] = q[i]
    <3>1. i + 1 \in 1 .. 1 + Len(q) /\ ~(i + 1 <= 1) /\ (i + 1) - 1 = i
      BY <1>1
    <3> QED  BY <1>3, <3>1
  <2> QED  BY <2>1, <2>2
<1> HIDE DEF m
<1>5. SubSeq(r, n + 1, Len(r)) = SubSeq(q, m + 1, Len(q))
  <2> DEFINE s == SubSeq(r, n + 1, Len(r))
             t == SubSeq(q, m + 1, Len(q))
  <2>1. /\ s \in Seq(X) /\ Len(s) = Len(r) - n
        /\ \A i \in 1 .. Len(r) - n : s[i] = r[i + n]
    <3>1. n \in 0 .. Len(r)
      BY <1>1, <1>3
    <3> QED  BY <1>3, <3>1, SuffixIs
  <2>2. /\ t \in Seq(X) /\ Len(t) = Len(q) - m
        /\ \A i \in 1 .. Len(q) - m : t[i] = q[i + m]
    BY <1>1, SuffixIs
  <2> HIDE DEF s, t
  <2>3. Len(s) = Len(t) /\ Len(r) - n = Len(q) - m
    <3>1. Len(q) \in Nat /\ m \in Nat /\ n = m + 1 /\ Len(r) = 1 + Len(q)
      BY <1>1, <1>3
    <3>2. Len(r) - n = Len(q) - m
      BY <3>1
    <3> QED  BY <2>1, <2>2, <3>2
  <2>4. \A i \in 1 .. Len(s) : s[i] = t[i]
    <3> TAKE i \in 1 .. Len(s)
    <3>1. i \in 1 .. Len(q) - m /\ i + m \in 1 .. Len(q) /\ (i + m) + 1 = i + n
      BY <1>1, <2>1, <2>3
    <3> QED  BY <1>4, <2>1, <2>2, <2>3, <3>1
  <2>5. s = t
    BY <2>1, <2>2, <2>3, <2>4, SeqEqual
  <2> QED  BY <2>5 DEF s, t
<1>6. SubSeq(SubSeq(r, 1, n), 2, n) = SubSeq(q, 1, m)
  <2> DEFINE g == SubSeq(r, 1, n)
             s == SubSeq(g, 2, n)
             t == SubSeq(q, 1, m)
  <2>1. /\ g \in Seq(X) /\ Len(g) = n /\ \A i \in 1 .. n : g[i] = r[i]
    <3>1. n \in 0 .. Len(r)
      BY <1>1, <1>3
    <3> QED  BY <1>3, <3>1, Halves
  <2>2. t \in Seq(X) /\ Len(t) = m /\ \A i \in 1 .. m : t[i] = q[i]
    BY <1>1, Halves
  <2> HIDE DEF g
  <2>3. s \in Seq(X) /\ Len(s) = m /\ \A i \in 1 .. m : s[i] = g[i + 1]
    <3>1. 1 \in 0 .. Len(g) /\ Len(g) - 1 = m /\ 1 + 1 = 2
      BY <1>1, <2>1
    <3>2. /\ SubSeq(g, 1 + 1, Len(g)) \in Seq(X) /\ Len(SubSeq(g, 1 + 1, Len(g))) = Len(g) - 1
          /\ \A i \in 1 .. Len(g) - 1 : SubSeq(g, 1 + 1, Len(g))[i] = g[i + 1]
      BY <2>1, <3>1, SuffixIs
    <3> QED  BY <2>1, <3>1, <3>2
  <2> HIDE DEF s, t
  <2>4. \A i \in 1 .. Len(s) : s[i] = t[i]
    <3> TAKE i \in 1 .. Len(s)
    <3>1. i \in 1 .. m /\ i + 1 \in 1 .. n /\ i \in 1 .. Len(q)
      BY <1>1, <2>3
    <3> QED  BY <1>4, <2>1, <2>2, <2>3, <3>1
  <2>5. s = t
    BY <2>2, <2>3, <2>4, SeqEqual
  <2> QED  BY <2>5 DEF s, t, g
<1> QED  BY <1>3, <1>4, <1>5, <1>6, <1>1 DEF m

\* What is on the line of a burst.
LEMMA SentIs ==
  ASSUME NEW c, c.R \in Number, NEW q \in Seq(Packet),
         \A i \in 1 .. Len(q) : q[i].k # "raw"
  PROVE  /\ Sent(c, q) \in Seq(LinePacket) /\ Len(Sent(c, q)) = Len(q)
         /\ \A i \in 1 .. Len(q) :
              /\ Sent(c, q)[i].k = q[i].k /\ Sent(c, q)[i].num = q[i].num
              /\ Sent(c, q)[i].resp = c.R
<1>1. Len(q) \in Nat /\ \A i \in 1 .. Len(q) : q[i] \in Packet
  BY LenProperties, ElementOfSeq
<1>2. ASSUME NEW i \in 1 .. Len(q)
      PROVE  [k |-> q[i].k, num |-> q[i].num, resp |-> c.R, id |-> q[i].id, bad |-> FALSE]
               \in LinePacket
  <2>1. q[i] \in Packet /\ q[i].k # "raw"
    BY <1>1
  <2> QED  BY <2>1 DEF Packet, LinePacket
<1>3. Sent(c, q) \in [1 .. Len(q) -> LinePacket]
  BY <1>2 DEF Sent
<1>4. Sent(c, q) \in Seq(LinePacket) /\ Len(Sent(c, q)) = Len(q)
  BY <1>1, <1>3, FunSeq
<1>5. \A i \in 1 .. Len(q) :
        /\ Sent(c, q)[i].k = q[i].k /\ Sent(c, q)[i].num = q[i].num
        /\ Sent(c, q)[i].resp = c.R
  BY DEF Sent
<1> QED  BY <1>4, <1>5

LEMMA PrefixIs ==
  ASSUME NEW q, Len(q) \in Nat
  PROVE  /\ BuiltPrefix(q) \in 0 .. Len(q)
         /\ \A i \in 1 .. BuiltPrefix(q) : q[i].k # "raw"
         /\ BuiltPrefix(q) < Len(q) => q[BuiltPrefix(q) + 1].k = "raw"
<1> DEFINE S == {i \in 1 .. Len(q) : ~Built(q[i])}
<1>1. S \in SUBSET (1 .. Len(q)) /\ BuiltPrefix(q) = Before(q, S)
  BY DEF BuiltPrefix
<1>2. \A i \in 1 .. Len(q) : i \in S <=> q[i].k = "raw"
  BY DEF Built
<1> HIDE DEF S
<1>3. /\ Before(q, S) \in 0 .. Len(q)
      /\ \A i \in 1 .. Before(q, S) : i \notin S
      /\ Before(q, S) < Len(q) => Before(q, S) + 1 \in S
  BY <1>1, BeforeIs
<1> QED  BY <1>1, <1>2, <1>3

\* The line takes all that is built.
LEMMA TakenIs ==
  ASSUME NEW c, c.room = Pool, BuiltPrefix(c.xmtq) \in Nat, BuiltPrefix(c.xmtq) <= Pool
  PROVE  Taken(c) = BuiltPrefix(c.xmtq)
BY Sizes DEF Taken

\* dmc_ddcmp_start_transmitter, when there is nothing but messages to send.
LEMMA StartBursts ==
  ASSUME left.speed = "full", NEW c, NEW l, NEW e, On(c, l, e), NEW kind
  PROVE  \E m, S : Bursts(c, StartTransmitter(c), kind, m, S)
<1> DEFINE q == c.xmtq
           n == BuiltPrefix(q)
           go == SubSeq(q, 1, n)
           S == Sent(c, go)
           d == StartTransmitter(c)
<1>1. /\ q \in Seq(Packet) /\ Len(q) \in Nat /\ c.ackw \in Seq(Packet) /\ c.out \in Seq(LinePacket)
      /\ c.R \in Number /\ Fields \subseteq DOMAIN c /\ c.again \in BOOLEAN
  BY LenProperties DEF On, Sound, Typing
<1>2. /\ c.busy = 0 /\ c.fail = FALSE /\ c.conn = TRUE /\ c.room = Pool
  BY DEF On, Sound, Still, Connected
<1>3. /\ n \in 0 .. Len(q) /\ n \in Nat /\ \A i \in 1 .. n : q[i].k # "raw"
  BY <1>1, PrefixIs
<1>4. \A i \in 1 .. Len(q) : q[i].k \in {"raw", "data"} /\ q[i].id # 0
  BY DEF On, Sound, Shaped
<1>0. n <= Pool
  <2>1. Len(q) <= MaxXmt
    BY Roomy DEF On
  <2> QED  BY <1>1, <1>3, <2>1, Sizes
<1>7. Taken(c) = n
  BY <1>0, <1>2, <1>3, TakenIs
<1> HIDE DEF q, n
<1>5. CASE n = 0
  <2>1. d = c
    BY <1>5 DEF StartTransmitter, n, q
  <2>2. SubSeq(q, 0 + 1, Len(q)) = q /\ SubSeq(q, 1, 0) = <<>>
    BY <1>1, SubSeqFull, SubSeqEmpty
  <2>3. /\ c.ackw \o <<>> = c.ackw /\ c.out \o <<>> = c.out
        /\ <<>> \in Seq(LinePacket) /\ Len(<<>>) = 0
    BY <1>1, ConcatEmptySeq
  <2>4. Bursts(c, c, kind, 0, <<>>)
    BY <1>1, <2>2, <2>3 DEF Bursts, q
  <2> QED  BY <2>1, <2>4
<1>6. CASE n # 0
  <2>1. go \in Seq(Packet) /\ Len(go) = n /\ \A i \in 1 .. n : go[i] = q[i]
    BY <1>1, <1>3, Halves
  <2>2. \A i \in 1 .. n : go[i].k = "data" /\ IsData(go[i])
    BY <1>1, <1>3, <1>4, <2>1 DEF IsData
  <2>3. Messages(go) = go
    <3>0. \A i \in 1 .. Len(go) : IsData(go[i]) <=> i > 0
      BY <1>3, <2>1, <2>2
    <3> HIDE DEF go
    <3>1. Messages(go) = SubSeq(go, 0 + 1, Len(go))
      BY <1>3, <2>1, <3>0, MessagesIs
    <3> QED  BY <2>1, <3>1, SubSeqFull
  <2>4. d = [[c EXCEPT !.out = @ \o S, !.room = IF @ = Pool THEN @ ELSE @ - n]
               EXCEPT !.xmtq = SubSeq(@, n + 1, Len(@)), !.ackw = @ \o Messages(go),
                      !.again = TRUE]
    BY <1>2, <1>6, <1>7 DEF StartTransmitter, n, q
  <2>5. /\ S \in Seq(LinePacket) /\ Len(S) = n
        /\ \A i \in 1 .. n : S[i].k = go[i].k /\ S[i].num = go[i].num /\ S[i].resp = c.R
    <3>1. \A i \in 1 .. Len(go) : go[i].k # "raw"
      BY <2>1, <2>2
    <3> QED  BY <1>1, <2>1, <3>1, SentIs
  <2> HIDE DEF S, go, d
  <2>6. /\ d.xmtq = SubSeq(q, n + 1, Len(q)) /\ d.ackw = c.ackw \o SubSeq(q, 1, n)
        /\ d.out = c.out \o S
        /\ Fields \subseteq DOMAIN d /\ d.again \in BOOLEAN
    BY <1>1, <2>3, <2>4 DEF Fields, q, go
  <2>7. /\ d.timer = c.timer /\ d.X = c.X /\ d.NAKed = c.NAKed
        /\ d.dtr = c.dtr /\ d.conn = c.conn /\ d.car = c.car /\ d.fail = c.fail /\ d.room = c.room
        /\ d.R = c.R /\ d.N = c.N /\ d.A = c.A /\ d.T = c.T
        /\ d.rcv = c.rcv /\ d.comp = c.comp /\ d.busy = c.busy
        /\ d.ev = c.ev /\ d.pkt = c.pkt /\ d.unread = c.unread /\ d.todo = c.todo
        /\ d.done = c.done /\ d.fatal = c.fatal
        /\ d.sup = c.sup /\ d.taken = c.taken /\ d.floor = c.floor
    BY <1>1, <1>2, <2>4 DEF Fields
  <2>8. \A i \in 1 .. n : q[i].k = "data"
    BY <2>1, <2>2
  <2>9. \A i \in 1 .. Len(S) :
          /\ S[i].resp = c.R
          /\ \/ S[i].k = kind
             \/ S[i].k = "data" /\ \E j \in 1 .. n : S[i].num = q[j].num
    BY <2>1, <2>2, <2>5
  <2>10. Bursts(c, d, kind, n, S)
    BY <1>3, <2>5, <2>6, <2>7, <2>8, <2>9 DEF Bursts, q
  <2> QED  BY <2>10 DEF d
<1> QED  BY <1>5, <1>6

\* dmc_ddcmp_start_transmitter.
LEMMA StartOn ==
  ASSUME left.speed = "full", NEW c, NEW l, NEW e, On(c, l, e), Scene(e)
  PROVE  On(StartTransmitter(c), l, e)
<1>1. PICK kind \in {"start", "stack", "ack"} : Rank(kind) = LinkRank(l)
  BY DEF Rank, LinkRank
<1>2. PICK m, S : Bursts(c, StartTransmitter(c), kind, m, S)
  BY StartBursts
<1> DEFINE d == StartTransmitter(c)
<1>3. kind # "data" /\ Bursts(c, d, kind, m, S)
  BY <1>2
<1> HIDE DEF d
<1>4. On(d, l, e)
  BY <1>1, <1>3, BurstOn
<1> QED  BY <1>4 DEF d

\* A control packet goes on the line, and the messages that follow it.
LEMMA ControlBursts ==
  ASSUME left.speed = "full", NEW c, NEW l, NEW e, On(c, l, e),
         NEW kind \in Kinds, kind # "data", NEW num \in Number
  PROVE  \E m, S : Bursts(c, SendControl(c, kind, num), kind, m, S)
<1> DEFINE q == c.xmtq
           p == [k |-> kind, num |-> num, id |-> 0]
           r == <<p>> \o q
           b == CASE c.busy = 0 -> 0 [] c.busy = Freed -> 1 [] OTHER -> c.busy + 1
           c1 == [c EXCEPT !.xmtq = r, !.busy = b]
           n == BuiltPrefix(r)
           go == SubSeq(r, 1, n)
           S == Sent(c1, go)
           d == StartTransmitter(c1)
           m == n - 1
<1>1. /\ q \in Seq(Packet) /\ Len(q) \in Nat /\ c.ackw \in Seq(Packet) /\ c.out \in Seq(LinePacket)
      /\ c.R \in Number /\ Fields \subseteq DOMAIN c
      /\ c.busy = 0 /\ c.fail = FALSE /\ c.conn = TRUE /\ c.room = Pool
  BY LenProperties DEF On, Sound, Typing, Still, Connected
<1>2. SendControl(c, kind, num) = d
  <2>1. Free(c) # 0
    BY Roomy DEF On
  <2> QED  BY <2>1, OfOne DEF SendControl, Then
<1>3. p \in Packet /\ p.k = kind /\ p.id = 0 /\ kind # "raw"
  BY <1>1, Numbers DEF Packet, Kinds
<1>4. \A i \in 1 .. Len(q) : q[i].k \in {"raw", "data"} /\ q[i].id # 0
  BY DEF On, Sound, Shaped
<1>b. b = 0
  BY <1>1 DEF Freed
<1> HIDE DEF b, r
<1>5. /\ c1.xmtq = r /\ c1.ackw = c.ackw /\ c1.out = c.out /\ c1.R = c.R
      /\ c1.busy = 0 /\ c1.fail = FALSE /\ c1.conn = TRUE /\ c1.room = Pool
      /\ Fields \subseteq DOMAIN c1
  <2>1. {"xmtq", "busy", "ackw", "out", "R", "fail", "conn", "room"} \subseteq DOMAIN c
    BY <1>1 DEF Fields
  <2>2. c1.xmtq = r /\ c1.busy = b
    BY <2>1
  <2>3. /\ c1.ackw = c.ackw /\ c1.out = c.out /\ c1.R = c.R
        /\ c1.fail = c.fail /\ c1.conn = c.conn /\ c1.room = c.room
    BY <2>1
  <2>4. DOMAIN c1 = DOMAIN c
    OBVIOUS
  <2> HIDE DEF c1
  <2> QED  BY <1>1, <1>b, <2>2, <2>3, <2>4
<1>6. /\ c1.timer = c.timer /\ c1.X = c.X /\ c1.NAKed = c.NAKed
      /\ c1.dtr = c.dtr /\ c1.car = c.car
      /\ c1.N = c.N /\ c1.A = c.A /\ c1.T = c.T
      /\ c1.rcv = c.rcv /\ c1.comp = c.comp
      /\ c1.ev = c.ev /\ c1.pkt = c.pkt /\ c1.unread = c.unread /\ c1.todo = c.todo
      /\ c1.done = c.done /\ c1.fatal = c.fatal
      /\ c1.sup = c.sup /\ c1.taken = c.taken /\ c1.floor = c.floor
  BY <1>1 DEF Fields
<1> HIDE DEF q, p, r, c1, n
<1>7. /\ r \in Seq(Packet) /\ Len(r) = Len(q) + 1 /\ r[1] = p
      /\ \A i \in 1 .. Len(q) : r[i + 1] = q[i]
  <2>1. 1 \in 1 .. Len(q) + 1 /\ p \in Packet /\ r = <<p>> \o q
    BY <1>1, <1>3 DEF r
  <2> QED  BY <1>1, <2>1, PushedIs
<1>8. /\ n \in 0 .. Len(r) /\ \A i \in 1 .. n : r[i].k # "raw"
      /\ n < Len(r) => r[n + 1].k = "raw"
  <2>1. Len(r) \in Nat
    BY <1>1, <1>7
  <2> QED  BY <2>1, PrefixIs DEF n
<1>9. n \in 1 .. Len(q) + 1 /\ n \in Nat /\ m \in 0 .. Len(q) /\ n = m + 1
  <2>1. n # 0
    <3>1. n = 0 => n < Len(r) /\ n + 1 = 1
      BY <1>1, <1>7
    <3> QED  BY <1>3, <1>7, <1>8, <3>1
  <2> QED  BY <1>1, <1>7, <1>8, <2>1
<1>10. /\ SubSeq(r, n + 1, Len(r)) = SubSeq(q, m + 1, Len(q))
       /\ SubSeq(go, 2, n) = SubSeq(q, 1, m)
  <2>1. p \in Packet /\ r = <<p>> \o q
    BY <1>3 DEF r
  <2> QED  BY <1>1, <1>9, <2>1, PushedIs
<1>11. go \in Seq(Packet) /\ Len(go) = n /\ \A i \in 1 .. n : go[i] = r[i]
  BY <1>7, <1>8, Halves
<1> HIDE DEF go, m
<1>12. \A i \in 1 .. m : q[i].k = "data" /\ i \in 1 .. Len(q) /\ r[i + 1] = q[i] /\ i + 1 \in 1 .. n
  <2> TAKE i \in 1 .. m
  <2>1. i \in 1 .. Len(q) /\ i + 1 \in 1 .. n
    BY <1>1, <1>9
  <2>2. r[i + 1] = q[i] /\ r[i + 1].k # "raw"
    BY <1>7, <1>8, <2>1
  <2> QED  BY <1>4, <2>1, <2>2
<1>13. \A i \in 1 .. n : i = 1 \/ (i - 1 \in 1 .. m /\ (i - 1) + 1 = i)
  BY <1>9
<1>14. /\ go[1] = p
       /\ \A i \in 1 .. n : i # 1 => go[i] = q[i - 1] /\ q[i - 1].k = "data" /\ i - 1 \in 1 .. m
                                     /\ q[i - 1].id # 0
  <2>1. go[1] = p
    BY <1>7, <1>9, <1>11
  <2>2. ASSUME NEW i \in 1 .. n, i # 1
        PROVE  go[i] = q[i - 1] /\ q[i - 1].k = "data" /\ i - 1 \in 1 .. m /\ q[i - 1].id # 0
    <3>1. i - 1 \in 1 .. m /\ (i - 1) + 1 = i
      BY <1>13, <2>2
    <3>2. r[i] = q[i - 1] /\ q[i - 1].k = "data" /\ i - 1 \in 1 .. Len(q)
      BY <1>12, <3>1
    <3> QED  BY <1>4, <1>11, <3>1, <3>2
  <2> QED  BY <2>1, <2>2
<1>15. Messages(go) = SubSeq(q, 1, m)
  <2>1. \A i \in 1 .. Len(go) : IsData(go[i]) <=> i > 1
    <3> TAKE i \in 1 .. Len(go)
    <3>1. CASE i = 1
      BY <1>3, <1>14, <3>1 DEF IsData
    <3>2. CASE i # 1
      BY <1>9, <1>11, <1>14, <3>2 DEF IsData
    <3> QED  BY <3>1, <3>2
  <2>2. 1 <= Len(go)
    BY <1>9, <1>11
  <2>3. Messages(go) = SubSeq(go, 1 + 1, Len(go))
    BY <1>11, <2>1, <2>2, MessagesIs
  <2>4. SubSeq(go, 1 + 1, Len(go)) = SubSeq(go, 2, n)
    <3>1. 1 + 1 = 2 /\ Len(go) = n
      BY <1>11
    <3> QED  BY <3>1, Zenon
  <2> QED  BY <1>10, <2>3, <2>4, Zenon
<1>16. d = [[c1 EXCEPT !.out = @ \o S, !.room = IF @ = Pool THEN @ ELSE @ - n]
              EXCEPT !.xmtq = SubSeq(@, n + 1, Len(@)), !.ackw = @ \o Messages(go),
                     !.again = TRUE]
  <2>1. n <= Pool
    <3>1. Len(q) <= MaxXmt
      BY Roomy DEF On, q
    <3> QED  BY <1>1, <1>9, <3>1, Sizes
  <2>2. BuiltPrefix(c1.xmtq) = n
    BY <1>5 DEF n
  <2>3. Taken(c1) = n
    BY <1>5, <1>9, <2>1, <2>2, TakenIs
  <2> QED  BY <1>5, <1>9, <2>2, <2>3 DEF StartTransmitter, go, d, S
<1>17. /\ S \in Seq(LinePacket) /\ Len(S) = n
       /\ \A i \in 1 .. n : S[i].k = go[i].k /\ S[i].num = go[i].num /\ S[i].resp = c.R
  <2>1. \A i \in 1 .. Len(go) : go[i].k # "raw"
    BY <1>8, <1>11
  <2>2. c1.R \in Number /\ c1.R = c.R
    BY <1>1, <1>5
  <2> QED  BY <1>11, <2>1, <2>2, SentIs
<1> HIDE DEF S, d
<1>18. /\ d.xmtq = SubSeq(q, m + 1, Len(q)) /\ d.ackw = c.ackw \o SubSeq(q, 1, m)
       /\ d.out = c.out \o S
       /\ Fields \subseteq DOMAIN d /\ d.again \in BOOLEAN
  BY <1>5, <1>10, <1>15, <1>16 DEF Fields
<1>19. /\ d.timer = c.timer /\ d.X = c.X /\ d.NAKed = c.NAKed
       /\ d.dtr = c.dtr /\ d.conn = c.conn /\ d.car = c.car /\ d.fail = c.fail /\ d.room = c.room
       /\ d.R = c.R /\ d.N = c.N /\ d.A = c.A /\ d.T = c.T
       /\ d.rcv = c.rcv /\ d.comp = c.comp /\ d.busy = c.busy
       /\ d.ev = c.ev /\ d.pkt = c.pkt /\ d.unread = c.unread /\ d.todo = c.todo
       /\ d.done = c.done /\ d.fatal = c.fatal
       /\ d.sup = c.sup /\ d.taken = c.taken /\ d.floor = c.floor
  BY <1>1, <1>5, <1>6, <1>16 DEF Fields
<1>20. \A i \in 1 .. Len(S) :
         /\ S[i].resp = c.R
         /\ \/ S[i].k = kind
            \/ S[i].k = "data" /\ \E j \in 1 .. m : S[i].num = q[j].num
  BY <1>3, <1>14, <1>17
<1>21. \A i \in 1 .. m : q[i].k = "data"
  BY <1>12
<1>22. Bursts(c, d, kind, m, S)
  BY <1>9, <1>17, <1>18, <1>19, <1>20, <1>21 DEF Bursts, q
<1> QED  BY <1>2, <1>22

LEMMA ControlOn ==
  ASSUME left.speed = "full", NEW c, NEW l, NEW e, On(c, l, e), Scene(e),
         NEW kind \in Kinds, kind # "data", Rank(kind) = LinkRank(l), NEW num \in Number
  PROVE  On(SendControl(c, kind, num), l, e)
<1>1. PICK m, S : Bursts(c, SendControl(c, kind, num), kind, m, S)
  BY ControlBursts
<1> DEFINE d == SendControl(c, kind, num)
<1>2. Bursts(c, d, kind, m, S)
  BY <1>1
<1> HIDE DEF d
<1>3. On(d, l, e)
  BY <1>2, BurstOn
<1> QED  BY <1>3 DEF d

\* The control packets of the state table.
LEMMA SendsOn ==
  ASSUME left.speed = "full", NEW c, NEW l, NEW e, On(c, l, e), Scene(e)
  PROVE  /\ l = "IStart" => On(SendStrt(c), l, e)
         /\ l = "AStart" => On(SendStack(c), l, e)
         /\ l = "Run" => On(SendAck(c), l, e) /\ On(SendNak(c), l, e) /\ On(SendRep(c), l, e)
<1>1. 0 \in Number /\ c.N \in Number
  <2>1. 0 \in Number
    BY Numbers, Sizes
  <2>2. c.N \in Number
    BY DEF On, Sound, Typing
  <2> QED  BY <2>1, <2>2
<1>2. l = "IStart" => On(SendStrt(c), l, e)
  BY <1>1, ControlOn DEF SendStrt, Rank, LinkRank, Kinds
<1>3. l = "AStart" => On(SendStack(c), l, e)
  BY <1>1, ControlOn DEF SendStack, Rank, LinkRank, Kinds
<1>4. l = "Run" => On(SendAck(c), l, e) /\ On(SendNak(c), l, e) /\ On(SendRep(c), l, e)
  BY <1>1, ControlOn DEF SendAck, SendNak, SendRep, Rank, LinkRank, Kinds
<1> QED  BY <1>2, <1>3, <1>4

-----------------------------------------------------------------------------
(* What a packet does *)

LEMMA SomeSent == 1 <= MaxXmt
BY DdcmpAssumption

\* GiveBufferToUser, for the message the controller waits for (rule 24).
LEMMA GiveOn ==
  ASSUME NEW c, NEW e, On(c, "Run", e), Scene(e),
         c.ev = "rcvd", c.pkt.k = "data", c.pkt.num = Succ(c.R)
  PROVE  On(GiveBufferToUser(c), "Run", e)
<1>1. e.in # <<>> /\ c.pkt = e.in[1] /\ e.in \in Seq(LinePacket) /\ e.peer \in View
      /\ e.wire \in Seq(LinePacket) /\ e.up \in BOOLEAN
  BY DEF On, Hears, Scene
<1>2. CASE c.rcv = 0
  BY <1>2, FlagsOn DEF GiveBufferToUser
<1>3. CASE c.rcv # 0
  <2> DEFINE b == [t |-> "rcv", id |-> c.pkt.id]
             p == Append(c.comp, b)
             d == GiveBufferToUser(c)
  <2>1. /\ c.rcv \in Nat /\ c.comp \in Seq(Completion) /\ c.R \in Number /\ Fields \subseteq DOMAIN c
        /\ Typing(c) /\ Still(c) /\ Shaped(c) /\ Room(c) /\ Kept(c)
    BY DEF On, Sound, Typing
  <2>2. b \in Completion /\ b.t = "rcv"
    <3>1. Len(e.in) \in Nat /\ 1 \in 1 .. Len(e.in)
      BY <1>1, LenProperties, EmptySeq
    <3>2. c.pkt.id \in Nat
      BY <1>1, <3>1, OnLine
    <3> QED  BY <3>2 DEF Completion
  <2>3. Succ(c.R) \in Number
    BY <2>1, SuccIs
  <2>4. /\ d.rcv = c.rcv - 1 /\ d.comp = p /\ d.R = Succ(c.R) /\ Fields \subseteq DOMAIN d
        /\ d.timer = c.timer /\ d.X = c.X /\ d.NAKed = c.NAKed /\ d.again = c.again
        /\ d.dtr = c.dtr /\ d.conn = c.conn /\ d.car = c.car /\ d.fail = c.fail /\ d.room = c.room
        /\ d.N = c.N /\ d.A = c.A /\ d.T = c.T /\ d.busy = c.busy
    BY <1>3, <2>1 DEF GiveBufferToUser, SetSACK, Fields
  <2>5. /\ d.xmtq = c.xmtq /\ d.ackw = c.ackw /\ d.out = c.out
        /\ d.ev = c.ev /\ d.pkt = c.pkt /\ d.unread = c.unread /\ d.todo = c.todo
        /\ d.done = c.done /\ d.fatal = c.fatal
        /\ d.sup = c.sup /\ d.taken = c.taken /\ d.floor = c.floor
    BY <1>3, <2>1 DEF GiveBufferToUser, SetSACK, Fields
  <2> HIDE DEF b, d
  <2>6. /\ p \in Seq(Completion) /\ Len(p) = Len(c.comp) + 1
        /\ \A i \in 1 .. Len(c.comp) : p[i] = c.comp[i]
        /\ p[Len(c.comp) + 1] = b /\ Len(c.comp) \in Nat
    BY <2>1, <2>2, AppendProperties, LenProperties
  <2> HIDE DEF p
  <2>7. Tally(p, "rcv") = Tally(c.comp, "rcv") + 1 /\ Tally(p, "xmt") = Tally(c.comp, "xmt")
    <3>1. \A i \in Len(c.comp) + 1 .. Len(p) : p[i].t = "rcv"
      BY <2>2, <2>6
    <3>2. Len(c.comp) <= Len(p) /\ Len(p) - Len(c.comp) = 1
      BY <2>6
    <3>3. /\ Tally(p, "rcv") = Tally(c.comp, "rcv") + (Len(p) - Len(c.comp))
          /\ \A other \in {"rcv", "xmt"} : other # "rcv" => Tally(p, other) = Tally(c.comp, other)
      BY <2>1, <2>6, <3>1, <3>2, TallyMore
    <3> QED  BY <3>2, <3>3
  <2>8. Sound(d)
    <3>1. c.rcv - 1 \in Nat
      BY <1>3, <2>1
    <3>2. Typing(d) /\ Still(d) /\ Shaped(d)
      BY <2>1, <2>3, <2>4, <2>5, <2>6, <3>1 DEF Typing, Still, Shaped
    <3>3. Room(d)
      <4> DEFINE t == Tally(c.comp, "rcv")
                 u == Tally(p, "rcv")
      <4>1. t \in Nat /\ u = t + 1
        BY <2>1, <2>7, TallySum
      <4>2. c.rcv + t <= MaxRcv /\ Len(c.xmtq) + Len(c.ackw) + Tally(c.comp, "xmt") <= MaxXmt
        BY <2>1 DEF Room
      <4> HIDE DEF t, u
      <4>3. (c.rcv - 1) + u <= MaxRcv
        BY <2>1, <4>1, <4>2, Sizes
      <4> QED  BY <2>4, <2>5, <2>7, <4>2, <4>3 DEF Room, u
    <3>4. Kept(d)
      BY <2>1, <2>5 DEF Kept, Buffers
    <3> QED  BY <3>2, <3>3, <3>4 DEF Sound
  <2>9. Linked(d, "Run") /\ Connected(d) /\ Hears(d, e)
    BY <2>4, <2>5 DEF On, Linked, Buffers, Connected, Hears
  <2>10. Pair(Seen(d, "Run"), e.in, e.peer, Line(d, e), e.up) /\ d.out \in Seq(LinePacket)
    <3> DEFINE x == Seen(c, "Run")
               z == Seen(d, "Run")
               y == e.peer
               W == e.in
               V == Line(c, e)
    <3>1. x \in View /\ x.link = "Run" /\ x.R = c.R /\ x.A = c.A /\ x.N = c.N
      BY <2>1, SeenIs
    <3>2. z \in View /\ z.link = "Run" /\ z.R = d.R /\ z.A = d.A /\ z.N = d.N
      BY <2>8, SeenIs DEF Sound
    <3>3. V \in Seq(LinePacket) /\ Line(d, e) = V
      BY <1>1, <2>5, ConcatProperties DEF On, Line
    <3>4. Pair(x, W, y, V, e.up)
      BY DEF On
    <3>5. /\ 1 <= MaxXmt /\ y \in View /\ W \in Seq(LinePacket) /\ W # <<>>
          /\ W[1].k = "data" /\ W[1].num = Succ(x.R) /\ e.up \in BOOLEAN
      BY <1>1, <3>1, SomeSent
    <3> HIDE DEF x, z, y, W, V
    <3>6. Pair(z, W, y, V, e.up)
      BY <2>4, <3>1, <3>2, <3>3, <3>4, <3>5, PairGive
    <3>7. d.out \in Seq(LinePacket)
      BY <2>5 DEF On
    <3> QED  BY <3>3, <3>6, <3>7 DEF z, W, y
  <2>11. On(d, "Run", e)
    BY <2>8, <2>9, <2>10 DEF On
  <2> QED  BY <2>11 DEF d
<1> QED  BY <1>2, <1>3

\* d is c after its driver has been told of the first n messages that waited,
\* with r acknowledged and U the next message to be sent again.
Acks(c, d, n, r, U) ==
  /\ d.ackw = SubSeq(c.ackw, n + 1, Len(c.ackw))
  /\ d.comp = c.comp \o [i \in 1 .. n |-> [t |-> "xmt", id |-> c.ackw[i].id]]
  /\ d.taken = c.taken \cup {c.ackw[i].id : i \in 1 .. n}
  /\ d.A = r /\ d.T = U
  /\ Fields \subseteq DOMAIN d /\ d.timer = c.timer /\ d.again = c.again
  /\ d.X = c.X /\ d.NAKed = c.NAKed
  /\ d.dtr = c.dtr /\ d.conn = c.conn /\ d.car = c.car /\ d.fail = c.fail /\ d.room = c.room
  /\ d.R = c.R /\ d.N = c.N
  /\ d.rcv = c.rcv /\ d.xmtq = c.xmtq /\ d.busy = c.busy
  /\ d.ev = c.ev /\ d.pkt = c.pkt /\ d.unread = c.unread /\ d.todo = c.todo
  /\ d.done = c.done /\ d.out = c.out /\ d.fatal = c.fatal
  /\ d.sup = c.sup /\ d.floor = c.floor

\* The two queues as one, without the first of what waited.
LEMMA DropIs ==
  ASSUME NEW X, NEW a \in Seq(X), NEW x \in Seq(X), NEW n \in 0 .. Len(a)
  PROVE  SubSeq(a, n + 1, Len(a)) \o x = SubSeq(a \o x, n + 1, Len(a \o x))
<1> DEFINE b == SubSeq(a, n + 1, Len(a))
           q == a \o x
           p == SubSeq(q, n + 1, Len(q))
           s == b \o x
<1>1. Len(a) \in Nat /\ Len(x) \in Nat /\ n \in Nat /\ n <= Len(a)
  BY LenProperties
<1>2. b \in Seq(X) /\ Len(b) = Len(a) - n /\ \A i \in 1 .. Len(a) - n : b[i] = a[i + n]
  BY SuffixIs
<1>3. /\ q \in Seq(X) /\ Len(q) = Len(a) + Len(x)
      /\ \A i \in 1 .. Len(a) + Len(x) : q[i] = IF i <= Len(a) THEN a[i] ELSE x[i - Len(a)]
  BY ConcatProperties
<1> HIDE DEF b, q
<1>4. /\ s \in Seq(X) /\ Len(s) = Len(b) + Len(x)
      /\ \A i \in 1 .. Len(b) + Len(x) : s[i] = IF i <= Len(b) THEN b[i] ELSE x[i - Len(b)]
  BY <1>2, ConcatProperties
<1>5. p \in Seq(X) /\ Len(p) = Len(q) - n /\ \A i \in 1 .. Len(q) - n : p[i] = q[i + n]
  <2>1. n \in 0 .. Len(q)
    BY <1>1, <1>3
  <2> QED  BY <1>3, <2>1, SuffixIs
<1> HIDE DEF p, s
<1>6. Len(s) = Len(p) /\ Len(s) = Len(a) - n + Len(x)
  BY <1>1, <1>2, <1>3, <1>4, <1>5
<1>7. \A i \in 1 .. Len(s) : s[i] = p[i]
  <2> TAKE i \in 1 .. Len(s)
  <2>0. /\ i \in 1 .. Len(b) + Len(x) /\ i \in 1 .. Len(q) - n /\ i + n \in 1 .. Len(a) + Len(x)
    BY <1>1, <1>2, <1>3, <1>6
  <2>1. CASE i <= Len(b)
    <3>1. i \in 1 .. Len(a) - n /\ i + n <= Len(a)
      BY <1>1, <1>2, <2>0, <2>1
    <3> QED  BY <1>2, <1>3, <1>4, <1>5, <2>0, <2>1, <3>1
  <2>2. CASE ~(i <= Len(b))
    <3>1. ~(i + n <= Len(a)) /\ i - Len(b) = (i + n) - Len(a)
      BY <1>1, <1>2, <2>0, <2>2
    <3> QED  BY <1>3, <1>4, <1>5, <2>0, <2>2, <3>1
  <2> QED  BY <2>1, <2>2
<1>8. s = p
  BY <1>4, <1>5, <1>6, <1>7, SeqEqual
<1> QED  BY <1>8 DEF s, p, q, b

LEMMA AcksOn ==
  ASSUME NEW c, NEW e, On(c, "Run", e), Scene(e), c.ev = "rcvd",
         NEW n, n = Before(c.ackw, {i \in 1 .. Len(c.ackw) : GT(c.ackw[i].num, c.pkt.resp)}),
         NEW r, r = c.pkt.resp,
         NEW U, U = Succ(r) \/ U = IF LE(c.T, r) THEN Succ(r) ELSE c.T,
         NEW d, Acks(c, d, n, r, U)
  PROVE  On(d, "Run", e)
<1> DEFINE a == c.ackw
           q == Buffers(c)
           x == Seen(c, "Run")
           z == Seen(d, "Run")
           b == [i \in 1 .. n |-> [t |-> "xmt", id |-> a[i].id]]
           p == c.comp \o b
<1>1. e.in # <<>> /\ c.pkt = e.in[1] /\ e.in \in Seq(LinePacket) /\ e.peer \in View
      /\ e.wire \in Seq(LinePacket) /\ e.up \in BOOLEAN
  BY DEF On, Hears, Scene
<1>2. r \in Number /\ r = e.in[1].resp
  <2>1. Len(e.in) \in Nat /\ 1 \in 1 .. Len(e.in)
    BY <1>1, LenProperties, EmptySeq
  <2> QED  BY <1>1, <2>1, OnLine
<1>3. /\ Typing(c) /\ Still(c) /\ Shaped(c) /\ Room(c) /\ Kept(c)
      /\ c.comp \in Seq(Completion) /\ a \in Seq(Packet) /\ c.xmtq \in Seq(Packet)
      /\ c.A \in Number /\ c.N \in Number /\ c.T \in Number /\ c.R \in Number
  BY DEF On, Sound, Typing
<1>4. /\ q \in Seq(Packet) /\ Len(a) \in Nat /\ Len(c.xmtq) \in Nat
      /\ Len(q) = Len(a) + Len(c.xmtq)
      /\ \A i \in 1 .. Len(a) : q[i] = a[i]
  BY <1>3, BuffersAre
<1>5. /\ n \in 0 .. Len(a) /\ n \in Nat
      /\ \A i \in 1 .. n : ~GT(a[i].num, r)
  <2> DEFINE S == {i \in 1 .. Len(a) : GT(a[i].num, r)}
  <2>1. S \in SUBSET (1 .. Len(a)) /\ n = Before(a, S)
    OBVIOUS
  <2>2. \A i \in 1 .. Len(a) : i \in S <=> GT(a[i].num, r)
    OBVIOUS
  <2> HIDE DEF S, a
  <2>3. n \in 0 .. Len(a) /\ \A i \in 1 .. n : i \notin S
    BY <1>4, <2>1, BeforeIs
  <2>4. n \in Nat /\ n <= Len(a)
    BY <1>4, <2>3
  <2>5. \A i \in 1 .. n : i \in 1 .. Len(a)
    BY <1>4, <2>4
  <2> QED  BY <2>2, <2>3, <2>4, <2>5
<1>50. n <= Len(a) /\ n <= Len(q) /\ Len(q) \in Nat
  <2> HIDE DEF a, q
  <2> QED  BY <1>4, <1>5
<1>6. Succ(r) \in Number /\ U \in Number
  BY <1>2, <1>3, SuccIs
<1>7. x \in View /\ x.link = "Run" /\ x.R = c.R /\ x.A = c.A /\ x.N = c.N
  BY <1>3, SeenIs
<1>8. /\ z \in View /\ z.link = "Run" /\ z.R = c.R /\ z.A = r /\ z.N = c.N
  BY <1>2, <1>3 DEF Seen, View, Acks
<1>9. Line(d, e) = Line(c, e)
  BY DEF Acks, Line
<1>10. Pair(z, e.in, e.peer, Line(d, e), e.up) /\ Ahead(c.A, r) <= Ahead(c.A, c.N)
  <2> HIDE DEF x, z
  <2>1. Pair(x, e.in, e.peer, Line(c, e), e.up)
    BY DEF On, x
  <2>2. x.link # "Halt"
    BY <1>7
  <2> QED  BY <1>1, <1>2, <1>7, <1>8, <1>9, <2>1, <2>2, PairAck
<1>11. Held(q, Len(a)) /\ Window(q, Len(a), c.A, c.N, c.T)
  BY Roomy DEF On, Linked
<1>12. Window(SubSeq(q, n + 1, Len(q)), Len(a) - n, r, c.N, U)
  <2> HIDE DEF a, q
  <2>1. \A i \in 1 .. n : ~GT(q[i].num, r)
    <3> TAKE i \in 1 .. n
    <3>1. i \in 1 .. Len(a)
      BY <1>4, <1>50, <1>5
    <3> QED  BY <1>4, <1>5, <3>1
  <2> QED  BY <1>2, <1>3, <1>5, <1>10, <1>11, <2>1, WindowDrop
<1>13. /\ d.ackw \in Seq(Packet) /\ Len(d.ackw) = Len(a) - n
       /\ \A i \in 1 .. Len(a) - n : d.ackw[i] = a[i + n]
  <2>1. d.ackw = SubSeq(a, n + 1, Len(a))
    BY DEF Acks
  <2> DEFINE b1 == d.ackw
  <2>2. b1 = SubSeq(a, n + 1, Len(a))
    BY <2>1
  <2> HIDE DEF a, b1
  <2>3. b1 \in Seq(Packet) /\ Len(b1) = Len(a) - n /\ \A i \in 1 .. Len(a) - n : b1[i] = a[i + n]
    BY <1>3, <1>5, <2>2, SuffixIs
  <2> QED  BY <2>3 DEF b1
<1>14. Buffers(d) = SubSeq(q, n + 1, Len(q))
  <2>1. Buffers(d) = SubSeq(a, n + 1, Len(a)) \o c.xmtq /\ q = a \o c.xmtq
    BY DEF Acks, Buffers
  <2> HIDE DEF a, q
  <2> QED  BY <1>3, <1>5, <2>1, DropIs
<1>15. /\ \A i \in 1 .. Len(q) - n : Buffers(d)[i] = q[i + n]
       /\ Len(Buffers(d)) = Len(q) - n
  <2> DEFINE p1 == Buffers(d)
  <2>0. p1 = SubSeq(q, n + 1, Len(q))
    BY <1>14
  <2> HIDE DEF a, q, p1
  <2>1. n \in 0 .. Len(q)
    BY <1>5, <1>50
  <2>2. Len(p1) = Len(q) - n /\ \A i \in 1 .. Len(q) - n : p1[i] = q[i + n]
    BY <1>4, <2>0, <2>1, SuffixIs
  <2> QED  BY <2>2 DEF p1
<1>16. b \in Seq(Completion) /\ Len(b) = n /\ \A i \in 1 .. n : b[i].t = "xmt"
  <2>1. ASSUME NEW i \in 1 .. n PROVE [t |-> "xmt", id |-> a[i].id] \in Completion
    <3>1. i \in 1 .. Len(a)
      BY <1>4, <1>5
    <3>2. a[i] \in Packet
      BY <1>3, <3>1, ElementOfSeq
    <3> QED  BY <3>2 DEF Packet, Completion
  <2>2. b \in [1 .. n -> Completion]
    BY <2>1
  <2>3. \A i \in 1 .. n : b[i].t = "xmt"
    OBVIOUS
  <2> HIDE DEF b, a
  <2>4. b \in Seq(Completion) /\ Len(b) = n
    BY <1>5, <2>2, FunSeq
  <2> QED  BY <2>3, <2>4
<1>17. d.comp = p
  BY DEF Acks
<1> HIDE DEF b
<1>18. /\ p \in Seq(Completion) /\ Len(p) = Len(c.comp) + n /\ Len(c.comp) \in Nat
       /\ \A i \in 1 .. Len(c.comp) + n :
            p[i] = IF i <= Len(c.comp) THEN c.comp[i] ELSE b[i - Len(c.comp)]
  <2> DEFINE o == c.comp
  <2>1. o \in Seq(Completion) /\ b \in Seq(Completion) /\ Len(b) = n /\ p = o \o b
    BY <1>3, <1>16
  <2> HIDE DEF o, p
  <2>2. /\ p \in Seq(Completion) /\ Len(p) = Len(o) + n
        /\ \A i \in 1 .. Len(o) + n : p[i] = IF i <= Len(o) THEN o[i] ELSE b[i - Len(o)]
    BY <2>1, ConcatProperties
  <2>3. Len(o) \in Nat
    BY <2>1, LenProperties
  <2> QED  BY <2>2, <2>3 DEF o
<1> HIDE DEF p
<1>19. Tally(p, "xmt") = Tally(c.comp, "xmt") + n /\ Tally(p, "rcv") = Tally(c.comp, "rcv")
  <2>1. \A i \in Len(c.comp) + 1 .. Len(p) : p[i].t = "xmt"
    <3> TAKE i \in Len(c.comp) + 1 .. Len(p)
    <3>1. i \in 1 .. Len(c.comp) + n /\ ~(i <= Len(c.comp)) /\ i - Len(c.comp) \in 1 .. n
      BY <1>5, <1>18
    <3> QED  BY <1>16, <1>18, <3>1
  <2>2. Len(c.comp) <= Len(p) /\ Len(p) - Len(c.comp) = n
    BY <1>5, <1>18
  <2>3. \A i \in 1 .. Len(c.comp) : p[i] = c.comp[i]
    BY <1>5, <1>18
  <2>4. /\ Tally(p, "xmt") = Tally(c.comp, "xmt") + (Len(p) - Len(c.comp))
        /\ \A other \in {"rcv", "xmt"} : other # "xmt" => Tally(p, other) = Tally(c.comp, other)
    BY <1>3, <1>18, <2>1, <2>2, <2>3, TallyMore
  <2> QED  BY <2>2, <2>4
<1>20. Typing(d)
  <2>1. /\ Fields \subseteq DOMAIN d /\ d.timer \in {"off", "on", "spent"} /\ d.again \in BOOLEAN
        /\ d.R \in Number /\ d.N \in Number /\ d.X \in Number /\ d.NAKed \in Number
        /\ d.rcv \in Nat /\ d.xmtq \in Seq(Packet) /\ d.sup \in Nat /\ d.floor \in Nat
    BY <1>3 DEF Typing, Acks
  <2>2. d.A \in Number /\ d.T \in Number
    BY <1>2, <1>6 DEF Acks
  <2> QED  BY <1>13, <1>17, <1>18, <2>1, <2>2 DEF Typing
<1>21. Still(d) /\ Connected(d) /\ Hears(d, e)
  BY <1>3 DEF On, Still, Connected, Hears, Acks
<1>22. Shaped(d)
  <2>1. d.xmtq = c.xmtq
    BY DEF Acks
  <2>2. ASSUME NEW i \in 1 .. Len(d.ackw) PROVE d.ackw[i].k = "data" /\ d.ackw[i].id # 0
    <3>1. i \in 1 .. Len(a) - n /\ i + n \in 1 .. Len(a)
      BY <1>4, <1>5, <1>13
    <3>2. d.ackw[i] = a[i + n]
      BY <1>13, <3>1
    <3> QED  BY <1>3, <3>1, <3>2 DEF Shaped
  <2> QED  BY <1>3, <2>1, <2>2 DEF Shaped
<1>23. Room(d)
  <2> DEFINE t == Tally(c.comp, "xmt")
             u == Tally(p, "xmt")
             l == Len(c.xmtq)
             k == Len(a)
             m == Len(d.ackw)
  <2>1. d.rcv = c.rcv /\ d.xmtq = c.xmtq
    BY DEF Acks
  <2>2. c.rcv + Tally(c.comp, "rcv") <= MaxRcv /\ l + k + t <= MaxXmt
    BY <1>3 DEF Room
  <2>3. t \in Nat /\ u = t + n /\ l \in Nat /\ k \in Nat /\ m = k - n
    BY <1>3, <1>4, <1>13, <1>19, TallySum
  <2> HIDE DEF t, u, l, k, m
  <2>4. l + m + u <= MaxXmt
    BY <1>5, <2>2, <2>3, Sizes
  <2> QED  BY <1>17, <1>19, <2>1, <2>2, <2>4 DEF Room, l, m, u
<1>24. Kept(d)
  <2> SUFFICES ASSUME NEW m \in c.floor + 1 .. c.sup
               PROVE  m \in d.taken \/ \E i \in 1 .. Len(Buffers(d)) : Buffers(d)[i].id = m
    BY DEF Kept, Acks
  <2>1. d.taken = c.taken \cup {a[i].id : i \in 1 .. n}
    BY DEF Acks
  <2>2. m \in c.taken \/ \E i \in 1 .. Len(q) : q[i].id = m
    BY <1>3 DEF Kept
  <2>3. ASSUME NEW i \in 1 .. Len(q), q[i].id = m
        PROVE  m \in d.taken \/ \E j \in 1 .. Len(Buffers(d)) : Buffers(d)[j].id = m
    <3>1. CASE i <= n
      <4>1. i \in 1 .. n /\ i \in 1 .. Len(a)
        BY <1>4, <1>5, <3>1
      <4> QED  BY <1>4, <2>1, <2>3, <4>1
    <3>2. CASE ~(i <= n)
      <4>1. i - n \in 1 .. Len(q) - n /\ (i - n) + n = i
        <5> HIDE DEF q, a
        <5> QED  BY <1>50, <1>5, <3>2
      <4>2. Buffers(d)[i - n] = q[i] /\ i - n \in 1 .. Len(Buffers(d))
        BY <1>15, <4>1
      <4> QED  BY <2>3, <4>2
    <3> QED  BY <3>1, <3>2
  <2> QED  BY <2>1, <2>2, <2>3
<1>25. Linked(d, "Run")
  BY <1>12, <1>13, <1>14 DEF Linked, Acks
<1>26. d.out \in Seq(LinePacket)
  BY DEF On, Acks
<1> QED  BY <1>10, <1>20, <1>21, <1>22, <1>23, <1>24, <1>25, <1>26 DEF On, Sound

\* Rules 29 and 32.
LEMMA AcknowledgedOn ==
  ASSUME NEW c, NEW e, On(c, "Run", e), Scene(e), c.ev = "rcvd"
  PROVE  /\ On(Acknowledged(c), "Run", e)
         /\ On(StopTimer(SetTequalAplus1(SetAeqRESP(CompleteAckedTransmits(c)))), "Run", e)
<1> DEFINE r == c.pkt.resp
           n == Before(c.ackw, {i \in 1 .. Len(c.ackw) : GT(c.ackw[i].num, r)})
           g == SetAeqRESP(CompleteAckedTransmits(c))
           U == IF LE(c.T, r) THEN Succ(r) ELSE c.T
           d == IfTleAthenSetTeqAplus1(g)
           f == SetTequalAplus1(g)
<1>0. Fields \subseteq DOMAIN c
  BY DEF On, Sound, Typing
<1> HIDE DEF n
<1>1. g = [c EXCEPT !.ackw = SubSeq(@, n + 1, Len(@)),
                    !.comp = @ \o [i \in 1 .. n |-> [t |-> "xmt", id |-> c.ackw[i].id]],
                    !.taken = @ \cup {c.ackw[i].id : i \in 1 .. n},
                    !.shuffled = @ /\ n < Len(Messages(c.ackw \o c.xmtq)),
                    !.A = r]
  <2>1. CompleteAckedTransmits(c) = Complete(c, n)
    BY DEF CompleteAckedTransmits, n
  <2>2. Complete(c, n).pkt = c.pkt
    BY <1>0 DEF Complete, Fields
  <2> QED  BY <2>1, <2>2 DEF SetAeqRESP, Complete
<1>2. Acks(c, g, n, r, c.T)
  <2> HIDE DEF g, r
  <2>1. /\ g.ackw = SubSeq(c.ackw, n + 1, Len(c.ackw))
        /\ g.comp = c.comp \o [i \in 1 .. n |-> [t |-> "xmt", id |-> c.ackw[i].id]]
        /\ g.taken = c.taken \cup {c.ackw[i].id : i \in 1 .. n}
        /\ g.A = r /\ DOMAIN g = DOMAIN c
    BY <1>0, <1>1, Zenon DEF Fields
  <2>2. /\ g.T = c.T /\ Fields \subseteq DOMAIN g /\ g.timer = c.timer /\ g.again = c.again
        /\ g.X = c.X /\ g.NAKed = c.NAKed
        /\ g.dtr = c.dtr /\ g.conn = c.conn /\ g.car = c.car /\ g.fail = c.fail /\ g.room = c.room
        /\ g.R = c.R /\ g.N = c.N
        /\ g.rcv = c.rcv /\ g.xmtq = c.xmtq /\ g.busy = c.busy
    BY <1>0, <1>1 DEF Fields
  <2>3. /\ g.ev = c.ev /\ g.pkt = c.pkt /\ g.unread = c.unread /\ g.todo = c.todo
        /\ g.done = c.done /\ g.out = c.out /\ g.fatal = c.fatal
        /\ g.sup = c.sup /\ g.floor = c.floor
    BY <1>0, <1>1 DEF Fields
  <2> QED  BY <2>1, <2>2, <2>3 DEF Acks
<1>3. Acks(c, f, n, r, Succ(r))
  BY <1>2 DEF SetTequalAplus1, Acks, Fields
<1>4. Acks(c, d, n, r, U)
  BY <1>2, <1>3 DEF IfTleAthenSetTeqAplus1, Acks
<1> HIDE DEF d, f, g
<1>5. On(d, "Run", e) /\ On(f, "Run", e)
  BY <1>3, <1>4, AcksOn DEF n
<1>6. On(IfAgeXthenStopTimer(d), "Run", e) /\ On(StopTimer(f), "Run", e)
  BY <1>5, FlagsOn DEF IfAgeXthenStopTimer
<1> QED  BY <1>6 DEF Acknowledged, d, f, g

\* The two queues as one, when the member i of the first goes to the end of
\* the other.
Moved(q, i, r) ==
  /\ r \in Seq(Packet) /\ Len(r) = Len(q)
  /\ \A j \in 1 .. i - 1 : r[j] = q[j]
  /\ \A j \in i .. Len(q) - 1 : r[j] = q[j + 1]
  /\ r[Len(q)] = q[i]

LEMMA MovedIs ==
  ASSUME NEW a \in Seq(Packet), NEW x \in Seq(Packet), NEW i \in 1 .. Len(a)
  PROVE  /\ Moved(a \o x, i, RemoveAt(a, i) \o Append(x, a[i]))
         /\ RemoveAt(a, i) \in Seq(Packet) /\ Len(RemoveAt(a, i)) = Len(a) - 1
         /\ Append(x, a[i]) \in Seq(Packet) /\ Len(Append(x, a[i])) = Len(x) + 1
<1> DEFINE X == Packet
           b == RemoveAt(a, i)
           y == Append(x, a[i])
           q == a \o x
           r == b \o y
<1>1. Len(a) \in Nat /\ Len(x) \in Nat /\ i \in Nat /\ 1 <= i /\ i <= Len(a)
  BY LenProperties
<1>2. /\ b \in Seq(X) /\ Len(b) = Len(a) - 1
      /\ \A j \in 1 .. Len(a) - 1 : b[j] = IF j < i THEN a[j] ELSE a[j + 1]
  BY RemoveAtIndex
<1>3. a[i] \in X
  BY ElementOfSeq
<1>4. /\ y \in Seq(X) /\ Len(y) = Len(x) + 1
      /\ \A j \in 1 .. Len(x) : y[j] = x[j]
      /\ y[Len(x) + 1] = a[i]
  BY <1>3, AppendProperties
<1>5. /\ q \in Seq(X) /\ Len(q) = Len(a) + Len(x)
      /\ \A j \in 1 .. Len(a) + Len(x) : q[j] = IF j <= Len(a) THEN a[j] ELSE x[j - Len(a)]
  BY ConcatProperties
<1> HIDE DEF b, y, q
<1>6. /\ r \in Seq(X) /\ Len(r) = Len(b) + Len(y)
      /\ \A j \in 1 .. Len(b) + Len(y) : r[j] = IF j <= Len(b) THEN b[j] ELSE y[j - Len(b)]
  BY <1>2, <1>4, ConcatProperties
<1> HIDE DEF r
<1>7. Len(r) = Len(q) /\ Len(b) + Len(y) = Len(a) + Len(x)
  BY <1>1, <1>2, <1>4, <1>5, <1>6
<1>8. \A j \in 1 .. i - 1 : r[j] = q[j]
  <2> TAKE j \in 1 .. i - 1
  <2>1. /\ j \in 1 .. Len(a) - 1 /\ j < i /\ j <= Len(b) /\ j <= Len(a)
        /\ j \in 1 .. Len(a) + Len(x)
    BY <1>1, <1>2
  <2> QED  BY <1>2, <1>5, <1>6, <1>7, <2>1
<1>9. \A j \in i .. Len(q) - 1 : r[j] = q[j + 1]
  <2> TAKE j \in i .. Len(q) - 1
  <2>0. j \in 1 .. Len(a) + Len(x) /\ j + 1 \in 1 .. Len(a) + Len(x) /\ ~(j < i)
    BY <1>1, <1>5
  <2>1. CASE j <= Len(b)
    <3>1. j \in 1 .. Len(a) - 1 /\ j + 1 <= Len(a)
      BY <1>1, <1>2, <2>0, <2>1
    <3> QED  BY <1>2, <1>5, <1>6, <1>7, <2>0, <2>1, <3>1
  <2>2. CASE ~(j <= Len(b))
    <3>1. /\ j - Len(b) \in 1 .. Len(x) /\ ~(j + 1 <= Len(a))
          /\ (j + 1) - Len(a) = j - Len(b)
      BY <1>1, <1>2, <1>5, <2>0, <2>2
    <3> QED  BY <1>4, <1>5, <1>6, <1>7, <2>0, <2>2, <3>1
  <2> QED  BY <2>1, <2>2
<1>10. r[Len(q)] = q[i]
  <2>1. /\ Len(q) \in 1 .. Len(b) + Len(y) /\ ~(Len(q) <= Len(b)) /\ Len(q) - Len(b) = Len(x) + 1
        /\ i \in 1 .. Len(a) + Len(x)
    BY <1>1, <1>2, <1>4, <1>5
  <2> QED  BY <1>1, <1>4, <1>5, <1>6, <2>1
<1>11. Moved(q, i, r)
  BY <1>6, <1>7, <1>8, <1>9, <1>10 DEF Moved
<1> QED  BY <1>2, <1>4, <1>11 DEF b, y, q, r

\* d is c with other queues of the same messages, another N and another T.
Moves(c, d) ==
  /\ Fields \subseteq DOMAIN d /\ d.timer = c.timer /\ d.again = c.again
  /\ d.X = c.X /\ d.NAKed = c.NAKed
  /\ d.dtr = c.dtr /\ d.conn = c.conn /\ d.car = c.car /\ d.fail = c.fail /\ d.room = c.room
  /\ d.R = c.R /\ d.A = c.A
  /\ d.rcv = c.rcv /\ d.comp = c.comp /\ d.busy = c.busy
  /\ d.ev = c.ev /\ d.pkt = c.pkt /\ d.unread = c.unread /\ d.todo = c.todo
  /\ d.done = c.done /\ d.fatal = c.fatal
  /\ d.sup = c.sup /\ d.taken = c.taken /\ d.floor = c.floor

\* Rule 37.
LEMMA RetransmitOn ==
  ASSUME NEW c, NEW e, On(c, "Run", e), Scene(e), LT(c.T, Succ(c.N))
  PROVE  On(IncrementT(ReTransmitMessageT(c)), "Run", e)
<1> DEFINE a == c.ackw
           x == c.xmtq
           q == Buffers(c)
           here == {j \in 1 .. Len(a) : a[j].num = c.T}
           i == CHOOSE j \in here : \A l \in here : j <= l
           d == IncrementT(ReTransmitMessageT(c))
<1>1. /\ Typing(c) /\ Still(c) /\ Shaped(c) /\ Room(c) /\ Kept(c) /\ Fields \subseteq DOMAIN c
      /\ a \in Seq(Packet) /\ x \in Seq(Packet)
      /\ c.A \in Number /\ c.N \in Number /\ c.T \in Number
  BY DEF On, Sound, Typing
<1>2. Succ(c.T) \in Number
  BY <1>1, SuccIs
<1>3. Held(q, Len(a)) /\ Window(q, Len(a), c.A, c.N, c.T)
  BY Roomy DEF On, Linked
<1>4. CASE here = {}
  <2>1. d = [c EXCEPT !.T = Succ(@)]
    BY <1>4, Zenon DEF IncrementT, ReTransmitMessageT
  <2>2. Window(q, Len(a), c.A, c.N, Succ(c.T))
    <3> HIDE DEF q, a
    <3> QED  BY <1>1, <1>3, WindowSkip
  <2> HIDE DEF d
  <2>3. Moves(c, d) /\ d.T = Succ(c.T)
    BY <1>1, <2>1 DEF Moves, Fields
  <2>4. d.xmtq = x /\ d.ackw = a /\ d.out = c.out /\ d.N = c.N
    BY <1>1, <2>1 DEF Fields
  <2>5. Sound(d)
    <3>1. Buffers(d) = q
      BY <2>4 DEF Buffers
    <3>2. Typing(d)
      BY <1>1, <1>2, <2>3, <2>4 DEF Typing, Moves
    <3>3. Still(d) /\ Shaped(d) /\ Room(d)
      BY <1>1, <2>3, <2>4 DEF Still, Shaped, Room, Moves
    <3>4. Kept(d)
      BY <1>1, <2>3, <3>1 DEF Kept, Moves
    <3> QED  BY <3>2, <3>3, <3>4 DEF Sound
  <2>6. Linked(d, "Run")
    BY <2>2, <2>3, <2>4 DEF Linked, Moves, Buffers
  <2>7. Seen(d, "Run") = Seen(c, "Run") /\ Line(d, e) = Line(c, e)
    BY <2>3, <2>4 DEF Moves, Seen, Line
  <2>8. Connected(d) /\ Hears(d, e)
    BY <2>3 DEF On, Connected, Hears, Moves
  <2>9. On(d, "Run", e)
    BY <2>4, <2>5, <2>6, <2>7, <2>8 DEF On
  <2> QED  BY <2>9 DEF d
<1>5. CASE here # {}
  <2>1. i \in 1 .. Len(a) /\ a[i].num = c.T
    <3>1. here \in SUBSET Nat
      OBVIOUS
    <3>2. \A j : j \in here => j \in 1 .. Len(a) /\ a[j].num = c.T
      OBVIOUS
    <3> HIDE DEF here
    <3>3. \E j \in here : \A l \in here : j <= l
      BY <1>5, <3>1, First
    <3>4. i \in here
      BY <3>3
    <3> QED  BY <3>2, <3>4
  <2>2. a[i] \in Packet /\ a[i].k = "data"
    BY <1>1, <2>1, ElementOfSeq DEF Shaped
  <2>3. [a[i] EXCEPT !.k = "data"] = a[i]
    <3> DEFINE p == a[i]
    <3>1. p \in Packet /\ p.k = "data"
      BY <2>2
    <3> HIDE DEF p
    <3>2. [p EXCEPT !.k = "data"] = p
      BY <3>1 DEF Packet
    <3> QED  BY <3>2 DEF p
  <2> DEFINE b == RemoveAt(a, i)
             y == Append(x, a[i])
             r == b \o y
  <2>4. d = [c EXCEPT !.ackw = b, !.xmtq = y, !.T = Succ(@)]
    <3>1. ReTransmitMessageT(c) = [c EXCEPT !.ackw = RemoveAt(@, i),
                                            !.xmtq = Append(@, [c.ackw[i] EXCEPT !.k = "data"])]
      BY <1>5, Zenon DEF ReTransmitMessageT
    <3>2. ReTransmitMessageT(c) = [c EXCEPT !.ackw = b, !.xmtq = y]
      BY <2>3, <3>1
    <3> HIDE DEF b, y, a, x, i
    <3>3. ReTransmitMessageT(c).T = c.T
      BY <1>1, <3>2 DEF Fields
    <3> QED  BY <3>2, <3>3 DEF IncrementT
  <2>5. q = a \o x
    BY DEF Buffers
  <2>6. /\ Len(q) \in Nat /\ Len(a) \in Nat /\ Len(x) \in Nat
        /\ Len(q) = Len(a) + Len(x)
        /\ \A j \in 1 .. Len(a) : q[j] = a[j]
        /\ \A j \in 1 .. Len(x) : q[Len(a) + j] = x[j]
    <3>1. Typing(c)
      BY <1>1
    <3>2. /\ Buffers(c) \in Seq(Packet) /\ Len(c.ackw) \in Nat /\ Len(c.xmtq) \in Nat
          /\ Len(Buffers(c)) = Len(c.ackw) + Len(c.xmtq)
          /\ \A j \in 1 .. Len(c.ackw) : Buffers(c)[j] = c.ackw[j]
          /\ \A j \in 1 .. Len(c.xmtq) : Buffers(c)[Len(c.ackw) + j] = c.xmtq[j]
      BY <3>1, BuffersAre
    <3>3. Len(Buffers(c)) \in Nat
      BY <3>2, LenProperties
    <3> QED  BY <3>2, <3>3, Zenon
  <2> HIDE DEF a, x, q, i, d, here
  <2>7. /\ r \in Seq(Packet) /\ Len(r) = Len(q)
        /\ b \in Seq(Packet) /\ Len(b) = Len(a) - 1
        /\ y \in Seq(Packet) /\ Len(y) = Len(x) + 1
        /\ \A j \in 1 .. i - 1 : r[j] = q[j]
        /\ \A j \in i .. Len(q) - 1 : r[j] = q[j + 1]
        /\ r[Len(q)] = q[i]
    <3>1. /\ a \in Seq(Packet) /\ x \in Seq(Packet) /\ i \in 1 .. Len(a)
      BY <1>1, <2>1
    <3>2. /\ Moved(a \o x, i, b \o y)
          /\ b \in Seq(Packet) /\ Len(b) = Len(a) - 1
          /\ y \in Seq(Packet) /\ Len(y) = Len(x) + 1
      BY <3>1, MovedIs
    <3> QED  BY <2>5, <3>2 DEF Moved
  <2>70. /\ \A j \in 1 .. Len(a) - 1 : b[j] = IF j < i THEN a[j] ELSE a[j + 1]
         /\ \A j \in 1 .. Len(x) : y[j] = x[j]
         /\ y[Len(x) + 1] = a[i]
    BY <1>1, <2>1, <2>2, RemoveAtIndex, AppendProperties
  <2> HIDE DEF b, y
  <2>71. r = b \o y
    OBVIOUS
  <2> HIDE DEF r
  <2>8. Window(r, Len(a) - 1, c.A, c.N, Succ(c.T))
    <3>1. q[i].num = c.T
      BY <2>1, <2>6
    <3> QED  BY <1>1, <1>3, <2>1, <2>7, <3>1, WindowMove
  <2>9. d.xmtq = y /\ d.ackw = b /\ d.out = c.out /\ d.N = c.N /\ d.T = Succ(c.T)
    BY <1>1, <2>4 DEF Fields
  <2>10. Moves(c, d)
    BY <1>1, <2>4 DEF Moves, Fields
  <2>11. Buffers(d) = r
    BY <2>9, <2>71 DEF Buffers
  <2>12. Typing(d) /\ Still(d)
    BY <1>1, <1>2, <2>7, <2>9, <2>10 DEF Typing, Still, Moves
  <2>13. Shaped(d)
    <3>1. ASSUME NEW j \in 1 .. Len(b) PROVE b[j].k = "data" /\ b[j].id # 0
      <4>1. j \in 1 .. Len(a) - 1 /\ j \in 1 .. Len(a) /\ j + 1 \in 1 .. Len(a)
        BY <2>6, <2>7
      <4>2. b[j] = a[j] \/ b[j] = a[j + 1]
        BY <2>70, <4>1
      <4> QED  BY <1>1, <4>1, <4>2 DEF Shaped, a
    <3>2. ASSUME NEW j \in 1 .. Len(y) PROVE y[j].k \in {"raw", "data"} /\ y[j].id # 0
      <4>1. j \in 1 .. Len(x) \/ j = Len(x) + 1
        BY <2>6, <2>7
      <4>2. CASE j \in 1 .. Len(x)
        BY <1>1, <2>70, <4>2 DEF Shaped, x
      <4>3. CASE j = Len(x) + 1
        BY <1>1, <2>1, <2>70, <4>3 DEF Shaped, a
      <4> QED  BY <4>1, <4>2, <4>3
    <3> QED  BY <2>9, <3>1, <3>2 DEF Shaped
  <2>14. Room(d)
    <3>1. Len(y) + Len(b) = Len(x) + Len(a)
      BY <2>6, <2>7
    <3> QED  BY <1>1, <2>9, <2>10, <3>1 DEF Room, Moves, a, x
  <2>15. Kept(d)
    <3> SUFFICES ASSUME NEW m \in c.floor + 1 .. c.sup
                 PROVE  m \in c.taken \/ \E j \in 1 .. Len(r) : r[j].id = m
      BY <2>10, <2>11 DEF Kept, Moves
    <3>1. m \in c.taken \/ \E j \in 1 .. Len(q) : q[j].id = m
      BY <1>1 DEF Kept, q
    <3>2. ASSUME NEW j \in 1 .. Len(q), q[j].id = m
          PROVE  \E l \in 1 .. Len(r) : r[l].id = m
      <4>1. CASE j < i
        <5>1. j \in 1 .. i - 1
          BY <2>6, <4>1, <2>1
        <5> QED  BY <2>7, <3>2, <5>1
      <4>2. CASE j = i
        <5>1. Len(q) \in 1 .. Len(r)
          BY <2>6, <2>7, <3>2
        <5> QED  BY <2>7, <3>2, <4>2, <5>1
      <4>3. CASE j > i
        <5>1. j - 1 \in i .. Len(q) - 1 /\ (j - 1) + 1 = j /\ j - 1 \in 1 .. Len(r)
          BY <2>1, <2>6, <2>7, <4>3
        <5> QED  BY <2>7, <3>2, <5>1
      <4> QED  BY <2>1, <2>6, <4>1, <4>2, <4>3
    <3> QED  BY <3>1, <3>2
  <2>16. Linked(d, "Run")
    BY <2>7, <2>8, <2>9, <2>10, <2>11 DEF Linked, Moves
  <2>17. Seen(d, "Run") = Seen(c, "Run") /\ Line(d, e) = Line(c, e)
    BY <2>9, <2>10 DEF Moves, Seen, Line
  <2>18. Connected(d) /\ Hears(d, e) /\ d.out \in Seq(LinePacket)
    BY <2>9, <2>10 DEF On, Connected, Hears, Moves
  <2>19. On(d, "Run", e)
    BY <2>12, <2>13, <2>14, <2>15, <2>16, <2>17, <2>18 DEF On, Sound
  <2> QED  BY <2>19 DEF d
<1> QED  BY <1>4, <1>5

\* The two queues as one, when the head of the second has become p.
LEMMA NumberedIs ==
  ASSUME NEW a \in Seq(Packet), NEW x \in Seq(Packet), x # <<>>, NEW p \in Packet,
         p.k = "data", p.id = x[1].id
  PROVE  /\ Append(a, p) \in Seq(Packet) /\ Len(Append(a, p)) = Len(a) + 1
         /\ \A i \in 1 .. Len(a) : Append(a, p)[i] = a[i]
         /\ Append(a, p)[Len(a) + 1] = p
         /\ SubSeq(x, 2, Len(x)) \in Seq(Packet) /\ Len(SubSeq(x, 2, Len(x))) = Len(x) - 1
         /\ \A i \in 1 .. Len(x) - 1 : SubSeq(x, 2, Len(x))[i] = x[i + 1]
         /\ Numbering(a \o x, Len(a) + 1, p.num, Append(a, p) \o SubSeq(x, 2, Len(x)))
<1> DEFINE b == Append(a, p)
           y == SubSeq(x, 2, Len(x))
           q == a \o x
           r == b \o y
<1>1. Len(a) \in Nat /\ Len(x) \in Nat /\ Len(x) >= 1
  BY LenProperties, EmptySeq
<1>2. /\ b \in Seq(Packet) /\ Len(b) = Len(a) + 1
      /\ \A i \in 1 .. Len(a) : b[i] = a[i]
      /\ b[Len(a) + 1] = p
  BY AppendProperties
<1>3. /\ y \in Seq(Packet) /\ Len(y) = Len(x) - 1
      /\ \A i \in 1 .. Len(x) - 1 : y[i] = x[i + 1]
  <2>1. 1 \in 0 .. Len(x) /\ 1 + 1 = 2
    BY <1>1
  <2>2. /\ SubSeq(x, 1 + 1, Len(x)) \in Seq(Packet)
        /\ Len(SubSeq(x, 1 + 1, Len(x))) = Len(x) - 1
        /\ \A i \in 1 .. Len(x) - 1 : SubSeq(x, 1 + 1, Len(x))[i] = x[i + 1]
    BY <2>1, SuffixIs
  <2> QED  BY <2>1, <2>2
<1>4. /\ q \in Seq(Packet) /\ Len(q) = Len(a) + Len(x)
      /\ \A j \in 1 .. Len(a) + Len(x) : q[j] = IF j <= Len(a) THEN a[j] ELSE x[j - Len(a)]
  BY ConcatProperties
<1> HIDE DEF b, y, q
<1>5. /\ r \in Seq(Packet) /\ Len(r) = Len(b) + Len(y)
      /\ \A j \in 1 .. Len(b) + Len(y) : r[j] = IF j <= Len(b) THEN b[j] ELSE y[j - Len(b)]
  BY <1>2, <1>3, ConcatProperties
<1> HIDE DEF r
<1>7. Len(r) = Len(q) /\ Len(r) = Len(a) + Len(x)
  BY <1>1, <1>2, <1>3, <1>4, <1>5
<1>8. \A j \in 1 .. Len(q) : j # Len(a) + 1 => r[j] = q[j]
  <2> TAKE j \in 1 .. Len(q)
  <2>0. j \in 1 .. Len(b) + Len(y) /\ j \in 1 .. Len(a) + Len(x)
    BY <1>4, <1>5, <1>7
  <2>1. CASE j <= Len(a)
    <3>1. j \in 1 .. Len(a) /\ j <= Len(b)
      BY <1>1, <1>2, <2>1
    <3> QED  BY <1>2, <1>4, <1>5, <2>0, <2>1, <3>1
  <2>2. CASE j > Len(a) + 1
    <3>1. /\ ~(j <= Len(b)) /\ ~(j <= Len(a))
          /\ j - Len(b) \in 1 .. Len(x) - 1 /\ (j - Len(b)) + 1 = j - Len(a)
      BY <1>1, <1>2, <1>3, <2>0, <2>2
    <3> QED  BY <1>3, <1>4, <1>5, <2>0, <3>1
  <2> QED  BY <1>1, <2>0, <2>1, <2>2
<1>9. r[Len(a) + 1] = p /\ q[Len(a) + 1] = x[1]
  <2>1. /\ Len(a) + 1 \in 1 .. Len(b) + Len(y) /\ Len(a) + 1 <= Len(b)
        /\ Len(a) + 1 \in 1 .. Len(a) + Len(x) /\ ~(Len(a) + 1 <= Len(a))
        /\ (Len(a) + 1) - Len(a) = 1
    BY <1>1, <1>2, <1>3
  <2> QED  BY <1>2, <1>4, <1>5, <2>1
<1>10. Numbering(q, Len(a) + 1, p.num, r)
  BY <1>5, <1>7, <1>8, <1>9 DEF Numbering
<1> QED  BY <1>2, <1>3, <1>10 DEF b, y, q, r

\* d is c when the first message of its transmit queue has got the next number
\* and gone on the line.
Numbered(c, d) ==
  LET p == [c.xmtq[1] EXCEPT !.k = "data", !.num = Succ(c.N)]
  IN  /\ Moves(c, d)
      /\ d.ackw = Append(c.ackw, p) /\ d.xmtq = SubSeq(c.xmtq, 2, Len(c.xmtq))
      /\ d.N = Succ(c.N) /\ d.T = Succ(Succ(c.N))
      /\ \E w \in LinePacket :
           /\ w.k = "data" /\ w.num = Succ(c.N) /\ w.resp = c.R
           /\ d.out = c.out \o <<w>>

LEMMA NumberedOn ==
  ASSUME NEW c, NEW e, On(c, "Run", e), Scene(e), c.xmtq # <<>>, c.xmtq[1].k = "raw",
         NEW d, Numbered(c, d)
  PROVE  On(d, "Run", e)
<1> DEFINE a == c.ackw
           x == c.xmtq
           q == Buffers(c)
           n == Succ(c.N)
           p == [x[1] EXCEPT !.k = "data", !.num = n]
           b == Append(a, p)
           y == SubSeq(x, 2, Len(x))
           r == b \o y
           v == Seen(c, "Run")
           z == Seen(d, "Run")
<1>1. /\ Typing(c) /\ Still(c) /\ Shaped(c) /\ Room(c) /\ Kept(c)
      /\ a \in Seq(Packet) /\ x \in Seq(Packet)
      /\ c.A \in Number /\ c.N \in Number /\ c.T \in Number
  BY DEF On, Sound, Typing
<1>2. n \in Number /\ Succ(n) \in Number
  BY <1>1, SuccIs
<1>3. Held(q, Len(a)) /\ Window(q, Len(a), c.A, c.N, c.T)
  BY Roomy DEF On, Linked
<1>4. /\ q \in Seq(Packet) /\ Len(a) \in Nat /\ Len(x) \in Nat
      /\ Len(q) = Len(a) + Len(x)
      /\ \A i \in 1 .. Len(x) : q[Len(a) + i] = x[i]
  <2>1. Typing(c)
    BY <1>1
  <2> QED  BY <2>1, BuffersAre
<1>5. 1 \in 1 .. Len(x) /\ x[1] \in Packet /\ x[1].k = "raw" /\ x[1].id # 0 /\ x # <<>>
  <2>1. 1 \in 1 .. Len(x)
    BY <1>1, <1>4, EmptySeq
  <2> QED  BY <1>1, <2>1, ElementOfSeq DEF Shaped
<1>6. p \in Packet /\ p.k = "data" /\ p.num = n /\ p.id = x[1].id
  <2> DEFINE h == x[1]
  <2>1. h \in Packet
    BY <1>5
  <2>2. p = [h EXCEPT !.k = "data", !.num = n]
    OBVIOUS
  <2> HIDE DEF h, p, n
  <2>3. p \in Packet /\ p.k = "data" /\ p.num = n /\ p.id = h.id
    BY <1>2, <2>1, <2>2 DEF Packet, Kinds
  <2> QED  BY <2>3 DEF h
<1>7. q[Len(a) + 1] = x[1] /\ Len(a) < Len(q)
  <2>1. \A i \in 1 .. Len(x) : q[Len(a) + i] = x[i]
    BY <1>4
  <2> HIDE DEF q, a, x
  <2> QED  BY <1>4, <1>5, <2>1
<1>9. /\ d.ackw = b /\ d.xmtq = y /\ d.N = n /\ d.T = Succ(n) /\ Moves(c, d)
  BY DEF Numbered
<1>10. q = a \o x
  BY DEF Buffers
<1> HIDE DEF a, x, q, p, n, r, v, z
<1>11. /\ b \in Seq(Packet) /\ Len(b) = Len(a) + 1
       /\ \A i \in 1 .. Len(a) : b[i] = a[i]
       /\ b[Len(a) + 1] = p
       /\ y \in Seq(Packet) /\ Len(y) = Len(x) - 1
       /\ \A i \in 1 .. Len(x) - 1 : y[i] = x[i + 1]
       /\ Numbering(a \o x, Len(a) + 1, p.num, b \o y)
  <2>1. /\ a \in Seq(Packet) /\ x \in Seq(Packet) /\ x # <<>> /\ p \in Packet
        /\ p.k = "data" /\ p.id = x[1].id
    BY <1>1, <1>5, <1>6
  <2>2. /\ b \in Seq(Packet) /\ Len(b) = Len(a) + 1
        /\ \A i \in 1 .. Len(a) : b[i] = a[i]
        /\ b[Len(a) + 1] = p
    BY <2>1, NumberedIs
  <2>3. /\ y \in Seq(Packet) /\ Len(y) = Len(x) - 1
        /\ \A i \in 1 .. Len(x) - 1 : y[i] = x[i + 1]
    BY <2>1, NumberedIs
  <2>4. Numbering(a \o x, Len(a) + 1, p.num, b \o y)
    BY <2>1, NumberedIs
  <2> QED  BY <2>2, <2>3, <2>4
<1> HIDE DEF b, y
<1>12. Buffers(d) = r
  BY <1>9, <1>10, <1>11 DEF Buffers, r
<1>13. /\ Window(r, Len(a) + 1, c.A, n, Succ(n)) /\ Held(r, Len(a) + 1)
       /\ Ahead(c.A, n) = Ahead(c.A, c.N) + 1
       /\ \A i \in 1 .. Len(q) : r[i].id = q[i].id
       /\ Len(r) = Len(q)
  <2>1. Len(a) < Len(q) /\ q[Len(a) + 1].k = "raw"
    BY <1>5, <1>7
  <2>2. /\ Window(r, Len(a) + 1, c.A, Succ(c.N), Succ(Succ(c.N))) /\ Held(r, Len(a) + 1)
        /\ Ahead(c.A, Succ(c.N)) = Ahead(c.A, c.N) + 1
        /\ \A i \in 1 .. Len(q) : r[i].id = q[i].id
        /\ Len(r) = Len(q)
    <3> DEFINE w == Len(a)
               A == c.A
               N == c.N
               T == c.T
    <3>1. /\ A \in Number /\ N \in Number /\ Held(q, w) /\ Window(q, w, A, N, T)
          /\ w < Len(q) /\ q[w + 1].k = "raw"
          /\ Numbering(q, w + 1, Succ(N), r)
      BY <1>1, <1>3, <1>6, <1>10, <1>11, <2>1 DEF n, r
    <3> HIDE DEF w, A, N, T
    <3>2. /\ Window(r, w + 1, A, Succ(N), Succ(Succ(N))) /\ Held(r, w + 1)
          /\ Ahead(A, Succ(N)) = Ahead(A, N) + 1
          /\ \A i \in 1 .. Len(q) : r[i].id = q[i].id
          /\ Len(r) = Len(q)
      BY <3>1, WindowSend
    <3> QED  BY <3>2 DEF w, A, N
  <2> QED  BY <2>2 DEF n
<1>14. Ahead(c.A, n) <= MaxXmt
  <2>1. Ahead(c.A, n) <= Len(r) /\ Len(r) <= MaxXmt /\ Len(r) \in Nat
    BY <1>1, <1>2, <1>4, <1>13, WindowSize, LenProperties DEF Window, Held
  <2>2. Ahead(c.A, n) \in Nat
    BY <1>1, <1>2, AheadIs
  <2> QED  BY <2>1, <2>2, Sizes
<1>15. Typing(d) /\ Still(d)
  BY <1>1, <1>2, <1>9, <1>11 DEF Typing, Still, Moves
<1>16. Shaped(d)
  <2>1. ASSUME NEW i \in 1 .. Len(b) PROVE b[i].k = "data" /\ b[i].id # 0
    <3>1. i \in 1 .. Len(a) \/ i = Len(a) + 1
      BY <1>4, <1>11
    <3>2. CASE i \in 1 .. Len(a)
      BY <1>1, <1>11, <3>2 DEF Shaped, a
    <3>3. CASE i = Len(a) + 1
      BY <1>5, <1>6, <1>11, <3>3
    <3> QED  BY <3>1, <3>2, <3>3
  <2>2. ASSUME NEW i \in 1 .. Len(y) PROVE y[i].k \in {"raw", "data"} /\ y[i].id # 0
    <3>1. i \in 1 .. Len(x) - 1 /\ i + 1 \in 1 .. Len(x)
      BY <1>4, <1>11
    <3> QED  BY <1>1, <1>11, <3>1 DEF Shaped, x
  <2> QED  BY <1>9, <2>1, <2>2 DEF Shaped
<1>17. Room(d)
  <2>1. Len(y) + Len(b) = Len(x) + Len(a)
    BY <1>4, <1>11
  <2> QED  BY <1>1, <1>9, <2>1 DEF Room, Moves, a, x
<1>18. Kept(d)
  <2> SUFFICES ASSUME NEW m \in c.floor + 1 .. c.sup
               PROVE  m \in c.taken \/ \E i \in 1 .. Len(r) : r[i].id = m
    BY <1>9, <1>12 DEF Kept, Moves
  <2>1. m \in c.taken \/ \E i \in 1 .. Len(q) : q[i].id = m
    BY <1>1 DEF Kept, q
  <2> QED  BY <1>13, <2>1
<1>19. Linked(d, "Run")
  BY <1>9, <1>11, <1>12, <1>13 DEF Linked, Moves
<1>20. v \in View /\ v.link = "Run" /\ v.R = c.R /\ v.A = c.A /\ v.N = c.N
  BY <1>1, SeenIs DEF v
<1>21. z \in View /\ z.link = "Run" /\ z.R = c.R /\ z.A = c.A /\ z.N = n
  <2>1. z \in View /\ z.link = "Run" /\ z.R = d.R /\ z.A = d.A /\ z.N = d.N
    BY <1>15, SeenIs DEF z
  <2> QED  BY <1>9, <2>1 DEF Moves
<1>22. PICK w \in LinePacket :
         /\ w.k = "data" /\ w.num = n /\ w.resp = c.R
         /\ d.out = c.out \o <<w>>
  BY DEF Numbered, n
<1>23. c.out \in Seq(LinePacket) /\ e.in \in Seq(LinePacket) /\ e.peer \in View
       /\ e.wire \in Seq(LinePacket) /\ e.up \in BOOLEAN
  BY DEF On, Scene
<1> DEFINE S == <<w>>
<1>24. S \in Seq(LinePacket) /\ Len(S) = 1 /\ S[1] = w
  OBVIOUS
<1>25. d.out = c.out \o S
  BY <1>22
<1> HIDE DEF S
<1>26. d.out \in Seq(LinePacket)
  BY <1>23, <1>24, <1>25, ConcatProperties
<1> DEFINE Wy == Line(c, e)
<1>27. Wy \in Seq(LinePacket) /\ Pair(v, e.in, e.peer, Wy, e.up)
  BY <1>23, ConcatProperties DEF Line, On, v
<1> HIDE DEF Wy
<1>28. Pair(z, e.in, e.peer, Wy, e.up)
  <2>1. /\ v.link # "Halt" /\ z.link = v.link /\ z.R = v.R /\ z.A = v.A /\ z.N = Succ(v.N)
    BY <1>20, <1>21 DEF n
  <2>2. Ahead(v.A, z.N) = Ahead(v.A, v.N) + 1 /\ Ahead(v.A, z.N) <= MaxXmt
    BY <1>13, <1>14, <1>20, <1>21
  <2> QED  BY <1>20, <1>21, <1>23, <1>27, <2>1, <2>2, PairNumber
<1>29. Pair(z, e.in, e.peer, Line(d, e), e.up)
  <2>1. CASE ~e.up
    BY <1>28, <2>1 DEF Line, Wy
  <2>2. CASE e.up
    <3>1. \A i \in 1 .. Len(S) : S[i].resp = z.R /\ Rank(S[i].k) = LinkRank(z.link)
      BY <1>21, <1>22, <1>24 DEF Rank, LinkRank
    <3>2. \A i \in 1 .. Len(S) : S[i].k = "data" => Ahead(S[i].num, z.N) <= Reach
      <4>1. Ahead(n, n) = 0
        BY <1>2, AheadIs
      <4>2. 0 <= Reach
        BY SomeSent, Sizes DEF Reach
      <4> QED  BY <1>21, <1>22, <1>24, <4>1, <4>2
    <3>3. Pair(z, e.in, e.peer, Wy, TRUE)
      BY <1>28, <2>2
    <3>30. z.link # "Halt" /\ (z.link = "IStart" => z.R = 0)
      BY <1>21
    <3>4. Pair(z, e.in, e.peer, Wy \o S, TRUE)
      BY <1>21, <1>23, <1>24, <1>27, <3>1, <3>2, <3>3, <3>30, PairSend
    <3>5. (e.wire \o c.out) \o S = e.wire \o (c.out \o S)
      <4> DEFINE w1 == e.wire
                 o == c.out
      <4>1. w1 \in Seq(LinePacket) /\ o \in Seq(LinePacket) /\ S \in Seq(LinePacket)
        BY <1>23, <1>24
      <4> HIDE DEF w1, o
      <4>2. (w1 \o o) \o S = w1 \o (o \o S)
        BY <4>1, Assoc
      <4> QED  BY <4>2 DEF w1, o
    <3>6. Line(d, e) = Wy \o S
      BY <1>25, <2>2, <3>5 DEF Line, Wy
    <3> QED  BY <2>2, <3>4, <3>6
  <2> QED  BY <1>23, <2>1, <2>2
<1>30. Connected(d) /\ Hears(d, e)
  BY <1>9 DEF On, Connected, Hears, Moves
<1> QED  BY <1>15, <1>16, <1>17, <1>18, <1>19, <1>26, <1>29, <1>30 DEF On, Sound, z

\* A queue is its head before the rest.
LEMMA HeadIs ==
  ASSUME NEW X, NEW q \in Seq(X), q # <<>>
  PROVE  /\ q[1] \in X /\ Len(q) \in Nat /\ Len(q) >= 1
         /\ SubSeq(q, 2, Len(q)) \in Seq(X) /\ Len(SubSeq(q, 2, Len(q))) = Len(q) - 1
         /\ \A i \in 1 .. Len(q) - 1 : SubSeq(q, 2, Len(q))[i] = q[i + 1]
         /\ q = <<q[1]>> \o SubSeq(q, 2, Len(q))
<1> DEFINE t == SubSeq(q, 2, Len(q))
           h == <<q[1]>>
           r == h \o t
<1>1. Len(q) \in Nat /\ Len(q) >= 1 /\ 1 \in 0 .. Len(q) /\ 1 + 1 = 2 /\ 1 \in 1 .. Len(q)
  BY LenProperties, EmptySeq
<1>2. q[1] \in X
  BY <1>1, ElementOfSeq
<1>3. /\ t \in Seq(X) /\ Len(t) = Len(q) - 1
      /\ \A i \in 1 .. Len(q) - 1 : t[i] = q[i + 1]
  <2>1. /\ SubSeq(q, 1 + 1, Len(q)) \in Seq(X)
        /\ Len(SubSeq(q, 1 + 1, Len(q))) = Len(q) - 1
        /\ \A i \in 1 .. Len(q) - 1 : SubSeq(q, 1 + 1, Len(q))[i] = q[i + 1]
    BY <1>1, SuffixIs
  <2> QED  BY <1>1, <2>1
<1>4. h \in Seq(X) /\ Len(h) = 1 /\ h[1] = q[1]
  BY <1>2
<1> HIDE DEF t, h
<1>5. /\ r \in Seq(X) /\ Len(r) = 1 + Len(t)
      /\ \A i \in 1 .. 1 + Len(t) : r[i] = IF i <= 1 THEN h[i] ELSE t[i - 1]
  <2>1. /\ h \o t \in Seq(X) /\ Len(h \o t) = Len(h) + Len(t)
        /\ \A i \in 1 .. Len(h) + Len(t) : (h \o t)[i] = IF i <= Len(h) THEN h[i] ELSE t[i - Len(h)]
    <3>1. h \in Seq(X) /\ t \in Seq(X)
      BY <1>3, <1>4
    <3> QED  BY <3>1, ConcatProperties
  <2> QED  BY <1>4, <2>1
<1> HIDE DEF r
<1>6. Len(r) = Len(q) /\ \A i \in 1 .. Len(r) : r[i] = q[i]
  <2>1. Len(r) = Len(q)
    BY <1>1, <1>3, <1>5
  <2>2. ASSUME NEW i \in 1 .. Len(r) PROVE r[i] = q[i]
    <3>1. CASE i = 1
      BY <1>1, <1>4, <1>5, <2>1, <3>1
    <3>2. CASE i # 1
      <4>1. ~(i <= 1) /\ i - 1 \in 1 .. Len(q) - 1 /\ (i - 1) + 1 = i /\ i \in 1 .. 1 + Len(t)
        BY <1>1, <1>3, <2>1, <3>2
      <4> QED  BY <1>3, <1>5, <4>1
    <3> QED  BY <3>1, <3>2
  <2> QED  BY <2>1, <2>2
<1>7. r = q
  BY <1>5, <1>6, SeqEqual
<1> QED  BY <1>1, <1>2, <1>3, <1>7 DEF t, h, r

\* Rule 38.
LEMMA SendDataBursts ==
  ASSUME left.speed = "full", NEW c, NEW e, On(c, "Run", e),
         c.xmtq # <<>>, c.xmtq[1].k = "raw"
  PROVE  \E d, m, S : Numbered(c, d) /\ Bursts(d, SendDataMessage(c), "ack", m, S)
<1> DEFINE a == c.ackw
           x == c.xmtq
           n == Succ(c.N)
           p == [x[1] EXCEPT !.k = "data", !.num = n]
           t == SubSeq(x, 2, Len(x))
           r == [x EXCEPT ![1] = p]
           c1 == [c EXCEPT !.xmtq = r, !.N = n, !.T = Succ(n), !.SACK = FALSE]
           k == BuiltPrefix(r)
           m == k - 1
           go == SubSeq(r, 1, k)
           S == Sent(c1, go)
           s == SubSeq(S, 2, Len(S))
           d == StartTransmitter(c1)
           c2 == [c EXCEPT !.xmtq = t, !.ackw = Append(a, p), !.N = n, !.T = Succ(n),
                           !.out = @ \o <<S[1]>>]
<1>1. /\ x \in Seq(Packet) /\ a \in Seq(Packet) /\ c.out \in Seq(LinePacket)
      /\ c.R \in Number /\ c.N \in Number /\ Fields \subseteq DOMAIN c /\ c.again \in BOOLEAN
      /\ c.busy = 0 /\ c.fail = FALSE /\ c.conn = TRUE /\ c.room = Pool
  BY DEF On, Sound, Typing, Still, Connected
<1>2. /\ x[1] \in Packet /\ Len(x) \in Nat /\ Len(x) >= 1
      /\ t \in Seq(Packet) /\ Len(t) = Len(x) - 1
      /\ \A i \in 1 .. Len(x) - 1 : t[i] = x[i + 1]
  <2> HIDE DEF x
  <2>1. x \in Seq(Packet) /\ x # <<>>
    BY <1>1 DEF x
  <2> QED  BY <2>1, HeadIs
<1>3. /\ n \in Number /\ p \in Packet /\ p.k = "data" /\ p.num = n /\ p.id # 0
  <2>1. n \in Number
    BY <1>1, SuccIs
  <2>2. x[1].id # 0
    <3>1. 1 \in 1 .. Len(x)
      BY <1>2
    <3> QED  BY <3>1 DEF On, Sound, Shaped
  <2> DEFINE h == x[1]
  <2>3. h \in Packet /\ p = [h EXCEPT !.k = "data", !.num = n] /\ h.id # 0
    BY <1>2, <2>2
  <2> HIDE DEF h, p, n
  <2> QED  BY <2>1, <2>3 DEF Packet, Kinds
<1>4. \A i \in 1 .. Len(x) : x[i].k \in {"raw", "data"} /\ x[i].id # 0
  BY DEF On, Sound, Shaped
<1>5. SendDataMessage(c) = d
  BY OfOne DEF SendDataMessage, Then
<1>6. r = <<p>> \o t /\ r \in Seq(Packet) /\ Len(r) = Len(x)
  <2> HIDE DEF x, p, t
  <2>1. 1 \in 1 .. Len(x) /\ x \in Seq(Packet)
    BY <1>1, <1>2
  <2>2. /\ r \in Seq(Packet) /\ Len(r) = Len(x)
        /\ \A i \in 1 .. Len(x) : r[i] = IF i = 1 THEN p ELSE x[i]
    BY <1>3, <2>1, ExceptSeq
  <2> HIDE DEF r
  <2>3. /\ r # <<>> /\ r[1] = p
    BY <1>2, <2>1, <2>2
  <2> DEFINE u == SubSeq(r, 2, Len(r))
  <2>4. /\ u \in Seq(Packet) /\ Len(u) = Len(r) - 1
        /\ \A i \in 1 .. Len(r) - 1 : u[i] = r[i + 1]
        /\ r = <<r[1]>> \o u
    BY <2>2, <2>3, HeadIs
  <2> HIDE DEF u
  <2>5. \A i \in 1 .. Len(u) : u[i] = t[i]
    <3> TAKE i \in 1 .. Len(u)
    <3>1. i \in 1 .. Len(r) - 1 /\ i \in 1 .. Len(x) - 1 /\ i + 1 \in 1 .. Len(x) /\ i + 1 # 1
      BY <1>2, <2>2, <2>4
    <3> QED  BY <1>2, <2>2, <2>4, <3>1
  <2>6. u = t
    <3>1. u \in Seq(Packet) /\ t \in Seq(Packet) /\ Len(u) = Len(t)
      BY <1>2, <2>2, <2>4
    <3> QED  BY <2>5, <3>1, SeqEqual
  <2> QED  BY <2>2, <2>3, <2>4, <2>6
<1>7. /\ c1.xmtq = r /\ c1.ackw = a /\ c1.out = c.out /\ c1.R = c.R
      /\ c1.busy = 0 /\ c1.fail = FALSE /\ c1.conn = TRUE /\ c1.room = Pool
      /\ Fields \subseteq DOMAIN c1
      /\ c1.N = n /\ c1.T = Succ(n)
  BY <1>1 DEF Fields
<1>8. /\ c1.timer = c.timer /\ c1.X = c.X /\ c1.NAKed = c.NAKed
      /\ c1.dtr = c.dtr /\ c1.car = c.car /\ c1.A = c.A
      /\ c1.rcv = c.rcv /\ c1.comp = c.comp
      /\ c1.ev = c.ev /\ c1.pkt = c.pkt /\ c1.unread = c.unread /\ c1.todo = c.todo
      /\ c1.done = c.done /\ c1.fatal = c.fatal
      /\ c1.sup = c.sup /\ c1.taken = c.taken /\ c1.floor = c.floor
  BY <1>1 DEF Fields
<1>9. /\ c2.xmtq = t /\ c2.ackw = Append(a, p) /\ c2.out = c.out \o <<S[1]>> /\ c2.R = c.R
      /\ c2.busy = 0 /\ c2.fail = FALSE /\ c2.conn = TRUE /\ c2.room = Pool
      /\ Fields \subseteq DOMAIN c2
      /\ c2.N = n /\ c2.T = Succ(n)
  <2> HIDE DEF S
  <2> QED  BY <1>1 DEF Fields
<1>10. Moves(c, c2)
  <2> HIDE DEF S
  <2> QED  BY <1>1 DEF Fields, Moves
<1> HIDE DEF a, x, n, t, r, c1, c2, k
<1>11. /\ r[1] = p /\ \A i \in 1 .. Len(t) : r[i + 1] = t[i]
  <2>0. 1 \in 1 .. Len(t) + 1
    BY <1>2
  <2> HIDE DEF p
  <2> QED  BY <1>2, <1>3, <1>6, <2>0, PushedIs
<1>12. /\ k \in 0 .. Len(r) /\ \A i \in 1 .. k : r[i].k # "raw"
       /\ k < Len(r) => r[k + 1].k = "raw"
  <2>1. Len(r) \in Nat
    BY <1>2, <1>6
  <2> QED  BY <2>1, PrefixIs DEF k
<1> HIDE DEF p
<1>13. k \in 1 .. Len(t) + 1 /\ k \in Nat /\ m \in 0 .. Len(t) /\ k = m + 1
  <2>1. k # 0
    <3>1. k = 0 => k < Len(r) /\ k + 1 = 1
      BY <1>2, <1>6
    <3> QED  BY <1>3, <1>11, <1>12, <3>1
  <2> QED  BY <1>2, <1>6, <1>12, <2>1
<1>14. /\ SubSeq(r, k + 1, Len(r)) = SubSeq(t, m + 1, Len(t))
       /\ SubSeq(go, 2, k) = SubSeq(t, 1, m)
  BY <1>2, <1>3, <1>6, <1>13, PushedIs
<1>15. go \in Seq(Packet) /\ Len(go) = k /\ \A i \in 1 .. k : go[i] = r[i]
  BY <1>6, <1>12, Halves
<1> HIDE DEF m, go
<1>16. \A i \in 1 .. m : t[i].k = "data" /\ i \in 1 .. Len(t) /\ r[i + 1] = t[i] /\ i + 1 \in 1 .. k
                         /\ t[i].id # 0
  <2> TAKE i \in 1 .. m
  <2>1. i \in 1 .. Len(t) /\ i + 1 \in 1 .. k /\ i + 1 \in 1 .. Len(x) /\ i \in 1 .. Len(x) - 1
    BY <1>2, <1>13
  <2>2. r[i + 1] = t[i] /\ r[i + 1].k # "raw" /\ t[i] = x[i + 1]
    BY <1>2, <1>11, <1>12, <2>1
  <2> QED  BY <1>4, <2>1, <2>2 DEF x
<1>17. /\ go[1] = p
       /\ \A i \in 1 .. k : i # 1 => go[i] = t[i - 1] /\ i - 1 \in 1 .. m /\ (i - 1) + 1 = i
  <2>1. go[1] = p
    BY <1>11, <1>13, <1>15
  <2>2. ASSUME NEW i \in 1 .. k, i # 1
        PROVE  go[i] = t[i - 1] /\ i - 1 \in 1 .. m /\ (i - 1) + 1 = i
    <3>1. i - 1 \in 1 .. m /\ (i - 1) + 1 = i
      BY <1>13, <2>2
    <3>2. r[i] = t[i - 1]
      BY <1>16, <3>1
    <3> QED  BY <1>15, <3>1, <3>2
  <2> QED  BY <2>1, <2>2
<1>18. \A i \in 1 .. k : go[i].k = "data" /\ go[i].id # 0
  <2> TAKE i \in 1 .. k
  <2>1. CASE i = 1
    BY <1>3, <1>17, <2>1
  <2>2. CASE i # 1
    BY <1>16, <1>17, <2>2
  <2> QED  BY <2>1, <2>2
<1>19. Messages(go) = go
  <2>0. \A i \in 1 .. Len(go) : IsData(go[i]) <=> i > 0
    BY <1>13, <1>15, <1>18 DEF IsData
  <2>1. Messages(go) = SubSeq(go, 0 + 1, Len(go))
    BY <1>15, <1>13, <2>0, MessagesIs
  <2> QED  BY <1>15, <2>1, SubSeqFull
<1>20. d = [[c1 EXCEPT !.out = @ \o S, !.room = IF @ = Pool THEN @ ELSE @ - k]
              EXCEPT !.xmtq = SubSeq(@, k + 1, Len(@)), !.ackw = @ \o Messages(go),
                     !.again = TRUE]
  <2>1. k <= Pool
    <3>1. Len(x) <= MaxXmt
      BY Roomy DEF On, x
    <3> QED  BY <1>2, <1>6, <1>12, <3>1, Sizes
  <2>2. BuiltPrefix(c1.xmtq) = k
    BY <1>7 DEF k
  <2>3. Taken(c1) = k
    BY <1>7, <1>13, <2>1, <2>2, TakenIs
  <2> QED  BY <1>7, <1>13, <2>2, <2>3 DEF StartTransmitter, go, d, S
<1>21. /\ S \in Seq(LinePacket) /\ Len(S) = k
       /\ \A i \in 1 .. k : S[i].k = go[i].k /\ S[i].num = go[i].num /\ S[i].resp = c.R
  <2>1. \A i \in 1 .. Len(go) : go[i].k # "raw"
    BY <1>15, <1>18
  <2>2. c1.R \in Number /\ c1.R = c.R
    BY <1>1, <1>7
  <2> QED  BY <1>15, <2>1, <2>2, SentIs
<1> HIDE DEF S, d
<1>22. /\ S # <<>> /\ S[1] \in LinePacket
       /\ s \in Seq(LinePacket) /\ Len(s) = m /\ \A i \in 1 .. m : s[i] = S[i + 1]
       /\ S = <<S[1]>> \o s
  <2>1. S # <<>> /\ S \in Seq(LinePacket)
    BY <1>13, <1>21
  <2>2. /\ S[1] \in LinePacket
        /\ s \in Seq(LinePacket) /\ Len(s) = Len(S) - 1 /\ \A i \in 1 .. Len(S) - 1 : s[i] = S[i + 1]
        /\ S = <<S[1]>> \o s
    BY <2>1, HeadIs
  <2>3. Len(S) - 1 = m
    BY <1>13, <1>21
  <2> QED  BY <2>1, <2>2, <2>3
<1>23. /\ S[1].k = "data" /\ S[1].num = n /\ S[1].resp = c.R
  BY <1>3, <1>13, <1>17, <1>21
<1>24. Numbered(c, c2)
  <2>1. \E w \in LinePacket : w.k = "data" /\ w.num = n /\ w.resp = c.R /\ c2.out = c.out \o <<w>>
    BY <1>9, <1>22, <1>23
  <2> QED  BY <1>9, <1>10, <2>1 DEF Numbered, n, p, t, x, a
<1> HIDE DEF s
<1>25. d.ackw = c2.ackw \o SubSeq(t, 1, m)
  <2>1. go = <<p>> \o SubSeq(t, 1, m)
    <3>1. go # <<>> /\ go \in Seq(Packet)
      BY <1>13, <1>15
    <3>2. go = <<go[1]>> \o SubSeq(go, 2, Len(go))
      BY <3>1, HeadIs
    <3> QED  BY <1>14, <1>15, <1>17, <3>2
  <2> DEFINE h == <<p>>
             u == SubSeq(t, 1, m)
  <2>2. h \in Seq(Packet) /\ u \in Seq(Packet) /\ a \in Seq(Packet)
    <3>1. u \in Seq(Packet)
      BY <1>2, <1>13, Halves
    <3> QED  BY <1>1, <1>3, <3>1 DEF a
  <2>3. Append(a, p) = a \o h
    BY <1>1, <1>3, AppendIsConcat DEF a
  <2>4. d.ackw = a \o go
    BY <1>7, <1>19, <1>20 DEF Fields
  <2>5. go = h \o u
    BY <2>1
  <2> HIDE DEF h, u
  <2>6. (a \o h) \o u = a \o (h \o u)
    BY <2>2, Assoc
  <2>7. c2.ackw = a \o h
    BY <1>9, <2>3
  <2>8. d.ackw = c2.ackw \o u
    BY <2>4, <2>5, <2>6, <2>7
  <2> QED  BY <2>8 DEF u
<1>26. d.out = c2.out \o s
  <2> DEFINE h == <<S[1]>>
             o == c.out
  <2>1. h \in Seq(LinePacket) /\ o \in Seq(LinePacket) /\ s \in Seq(LinePacket)
    BY <1>1, <1>22
  <2>2. S = h \o s /\ c2.out = o \o h
    BY <1>9, <1>22
  <2>3. d.out = o \o S
    BY <1>7, <1>20 DEF Fields
  <2> HIDE DEF h, o
  <2>4. (o \o h) \o s = o \o (h \o s)
    BY <2>1, Assoc
  <2>5. d.out = (o \o h) \o s
    BY <2>2, <2>3, <2>4
  <2> QED  BY <2>2, <2>5
<1>27. /\ d.xmtq = SubSeq(t, m + 1, Len(t))
       /\ Fields \subseteq DOMAIN d /\ d.again \in BOOLEAN
  BY <1>7, <1>14, <1>20 DEF Fields
<1>28. /\ d.timer = c2.timer /\ d.X = c2.X /\ d.NAKed = c2.NAKed
       /\ d.dtr = c2.dtr /\ d.conn = c2.conn /\ d.car = c2.car /\ d.fail = c2.fail
       /\ d.room = c2.room
       /\ d.R = c2.R /\ d.N = c2.N /\ d.A = c2.A /\ d.T = c2.T
       /\ d.rcv = c2.rcv /\ d.comp = c2.comp /\ d.busy = c2.busy
  BY <1>1, <1>7, <1>8, <1>9, <1>10, <1>20 DEF Fields, Moves
<1>29. /\ d.ev = c2.ev /\ d.pkt = c2.pkt /\ d.unread = c2.unread /\ d.todo = c2.todo
       /\ d.done = c2.done /\ d.fatal = c2.fatal
       /\ d.sup = c2.sup /\ d.taken = c2.taken /\ d.floor = c2.floor
  BY <1>1, <1>7, <1>8, <1>9, <1>10, <1>20 DEF Fields, Moves
<1>30. \A i \in 1 .. Len(s) :
         /\ s[i].resp = c2.R
         /\ s[i].k = "data" /\ \E j \in 1 .. m : s[i].num = t[j].num
  <2> TAKE i \in 1 .. Len(s)
  <2>1. i \in 1 .. m /\ i + 1 \in 1 .. k /\ i + 1 # 1 /\ (i + 1) - 1 = i
    BY <1>13, <1>22
  <2>2. s[i] = S[i + 1] /\ go[i + 1] = t[i]
    BY <1>17, <1>22, <2>1
  <2>3. S[i + 1].k = go[i + 1].k /\ S[i + 1].num = go[i + 1].num /\ S[i + 1].resp = c.R
    BY <1>21, <2>1
  <2>4. go[i + 1].k = "data" /\ c2.R = c.R
    BY <1>9, <1>18, <2>1
  <2> QED  BY <2>1, <2>2, <2>3, <2>4
<1>31. \A i \in 1 .. m : t[i].k = "data"
  BY <1>16
<1>32. Bursts(c2, d, "ack", m, s)
  <2>1. m \in 0 .. Len(c2.xmtq) /\ c2.xmtq = t
    BY <1>9, <1>13
  <2>2. s \in Seq(LinePacket)
    BY <1>22
  <2> QED  BY <1>25, <1>26, <1>27, <1>28, <1>29, <1>30, <1>31, <2>1, <2>2 DEF Bursts
<1> QED  BY <1>5, <1>24, <1>32

LEMMA SendDataOn ==
  ASSUME left.speed = "full", NEW c, NEW e, On(c, "Run", e), Scene(e), UserSendMessage(c)
  PROVE  On(SendDataMessage(c), "Run", e)
<1>1. c.xmtq # <<>> /\ c.xmtq[1].k = "raw"
  BY DEF UserSendMessage, Built
<1> DEFINE f == SendDataMessage(c)
<1>2. PICK d, m, S : Numbered(c, d) /\ Bursts(d, f, "ack", m, S)
  BY <1>1, SendDataBursts
<1>3. On(d, "Run", e)
  BY <1>1, <1>2, NumberedOn
<1>4. Rank("ack") = LinkRank("Run") /\ "ack" # "data"
  BY DEF Rank, LinkRank
<1> HIDE DEF f
<1>5. On(f, "Run", e)
  BY <1>2, <1>3, <1>4, BurstOn
<1> QED  BY <1>5 DEF f

\* The queues hold nothing but messages: ddcmp_ResetVariables keeps them all.
LEMMA ZeroedIs ==
  ASSUME NEW q \in Seq(Packet), \A i \in 1 .. Len(q) : q[i].k \in {"raw", "data"}
  PROVE  /\ SubSeq(q, ControlPrefix(q) + 1, Len(q)) = q
         /\ Zeroed(q) \in Seq(Packet) /\ Len(Zeroed(q)) = Len(q)
         /\ \A i \in 1 .. Len(q) : Zeroed(q)[i].k = "raw" /\ Zeroed(q)[i].id = q[i].id
<1>1. Len(q) \in Nat /\ \A i \in 1 .. Len(q) : q[i] \in Packet
  BY LenProperties, ElementOfSeq
<1>2. ControlPrefix(q) = 0
  <2> DEFINE S == {i \in 1 .. Len(q) : q[i].k \in {"raw", "data"}}
  <2>1. S \in SUBSET (1 .. Len(q)) /\ ControlPrefix(q) = Before(q, S)
    BY DEF ControlPrefix
  <2>2. \A i \in 1 .. Len(q) : i \in S
    OBVIOUS
  <2> HIDE DEF S
  <2>3. Before(q, S) \in 0 .. Len(q) /\ \A i \in 1 .. Before(q, S) : i \notin S
    BY <1>1, <2>1, BeforeIs
  <2>4. Before(q, S) # 0 => 1 \in 1 .. Before(q, S) /\ 1 \in 1 .. Len(q)
    BY <1>1, <2>3
  <2> QED  BY <2>1, <2>2, <2>3, <2>4
<1>3. SubSeq(q, ControlPrefix(q) + 1, Len(q)) = q
  <2>1. 0 + 1 = 1
    OBVIOUS
  <2> QED  BY <1>2, <2>1, SubSeqFull
<1>4. ASSUME NEW i \in 1 .. Len(q)
      PROVE  /\ [q[i] EXCEPT !.k = "raw", !.num = 0] \in Packet
             /\ [q[i] EXCEPT !.k = "raw", !.num = 0].k = "raw"
             /\ [q[i] EXCEPT !.k = "raw", !.num = 0].id = q[i].id
  <2> DEFINE p == q[i]
  <2>1. p \in Packet
    BY <1>1
  <2>2. 0 \in Number
    BY Numbers, Sizes
  <2> HIDE DEF p
  <2>3. /\ [p EXCEPT !.k = "raw", !.num = 0] \in Packet
        /\ [p EXCEPT !.k = "raw", !.num = 0].k = "raw"
        /\ [p EXCEPT !.k = "raw", !.num = 0].id = p.id
    BY <2>1, <2>2 DEF Packet, Kinds
  <2> QED  BY <2>3 DEF p
<1>5. Zeroed(q) \in [1 .. Len(q) -> Packet]
  BY <1>4 DEF Zeroed
<1>6. Zeroed(q) \in Seq(Packet) /\ Len(Zeroed(q)) = Len(q)
  BY <1>1, <1>5, FunSeq
<1>7. \A i \in 1 .. Len(q) : Zeroed(q)[i].k = "raw" /\ Zeroed(q)[i].id = q[i].id
  BY <1>4 DEF Zeroed
<1> QED  BY <1>3, <1>6, <1>7

LEMMA ResetIs ==
  ASSUME NEW c, Sound(c)
  PROVE  LET d == ResetVariables(c)
         IN  /\ Sound(d) /\ Linked(d, "IStart")
             /\ d.R = 0 /\ d.N = 0 /\ d.A = 0
             /\ d.dtr = c.dtr /\ d.conn = c.conn /\ d.car = c.car /\ d.out = c.out
             /\ d.ev = c.ev /\ d.pkt = c.pkt /\ d.unread = c.unread /\ d.todo = c.todo
<1> DEFINE q == Buffers(c)
           z == Zeroed(q)
           d == ResetVariables(c)
<1>1. /\ Typing(c) /\ Still(c) /\ Shaped(c) /\ Room(c) /\ Kept(c) /\ Fields \subseteq DOMAIN c
  BY DEF Sound, Typing
<1>2. /\ q \in Seq(Packet) /\ Len(c.ackw) \in Nat /\ Len(c.xmtq) \in Nat
      /\ Len(q) = Len(c.ackw) + Len(c.xmtq)
      /\ \A i \in 1 .. Len(c.ackw) : q[i] = c.ackw[i]
      /\ \A i \in 1 .. Len(c.xmtq) : q[Len(c.ackw) + i] = c.xmtq[i]
  BY <1>1, BuffersAre
<1>3. \A i \in 1 .. Len(q) : q[i].k \in {"raw", "data"} /\ q[i].id # 0
  <2> TAKE i \in 1 .. Len(q)
  <2>1. CASE i <= Len(c.ackw)
    <3>1. i \in 1 .. Len(c.ackw)
      BY <1>2, <2>1
    <3>2. c.ackw[i].k = "data" /\ c.ackw[i].id # 0
      BY <1>1, <3>1 DEF Shaped
    <3> QED  BY <1>2, <3>1, <3>2
  <2>2. CASE ~(i <= Len(c.ackw))
    <3> DEFINE j == i - Len(c.ackw)
    <3>1. j \in 1 .. Len(c.xmtq) /\ Len(c.ackw) + j = i
      <4> DEFINE k == Len(c.ackw)
                 l == Len(c.xmtq)
                 n == Len(q)
      <4>1. k \in Nat /\ l \in Nat /\ n = k + l /\ i \in 1 .. n /\ ~(i <= k)
        BY <1>2, <2>2
      <4> HIDE DEF k, l, n
      <4>2. i - k \in 1 .. l /\ k + (i - k) = i
        BY <4>1
      <4> QED  BY <4>2 DEF k, l
    <3> HIDE DEF j
    <3>2. c.xmtq[j].k \in {"raw", "data"} /\ c.xmtq[j].id # 0 /\ q[i] = c.xmtq[j]
      BY <1>1, <1>2, <3>1 DEF Shaped
    <3> QED  BY <3>2
  <2> QED  BY <2>1, <2>2
<1>4. /\ SubSeq(q, ControlPrefix(q) + 1, Len(q)) = q
      /\ z \in Seq(Packet) /\ Len(z) = Len(q)
      /\ \A i \in 1 .. Len(q) : z[i].k = "raw" /\ z[i].id = q[i].id
  <2> HIDE DEF q
  <2> QED  BY <1>2, <1>3, ZeroedIs
<1>5. d = [c EXCEPT !.R = 0, !.N = 0, !.A = 0, !.T = 1, !.X = 0,
                    !.SACK = FALSE, !.SNAK = FALSE, !.SREP = FALSE,
                    !.link = "Halt", !.ackw = <<>>, !.xmtq = z,
                    !.busy = Place(@, Len(c.ackw) - ControlPrefix(q)),
                    !.round = {}, !.shuffled = @ \/ OutOfOrder(q)]
  <2>1. d = [c EXCEPT !.R = 0, !.N = 0, !.A = 0, !.T = 1, !.X = 0,
                      !.SACK = FALSE, !.SNAK = FALSE, !.SREP = FALSE,
                      !.link = "Halt", !.ackw = <<>>,
                      !.xmtq = Zeroed(SubSeq(q, ControlPrefix(q) + 1, Len(q))),
                      !.busy = Place(@, Len(c.ackw) - ControlPrefix(q)),
                      !.round = {}, !.shuffled = @ \/ OutOfOrder(q)]
    BY DEF ResetVariables, Buffers
  <2> HIDE DEF q, d
  <2> QED  BY <1>4, <2>1
<1> HIDE DEF q, z, d
<1>6. /\ d.R = 0 /\ d.N = 0 /\ d.A = 0 /\ d.T = 1 /\ d.X = 0 /\ d.ackw = <<>> /\ d.xmtq = z
      /\ Fields \subseteq DOMAIN d /\ d.timer = c.timer /\ d.again = c.again /\ d.NAKed = c.NAKed
      /\ d.dtr = c.dtr /\ d.conn = c.conn /\ d.car = c.car /\ d.out = c.out /\ d.fail = c.fail
      /\ d.room = c.room
      /\ d.ev = c.ev /\ d.pkt = c.pkt /\ d.unread = c.unread /\ d.todo = c.todo
  BY <1>1, <1>5 DEF Fields
<1>7. /\ d.rcv = c.rcv /\ d.comp = c.comp /\ d.busy = c.busy /\ d.done = c.done /\ d.fatal = c.fatal
      /\ d.sup = c.sup /\ d.taken = c.taken /\ d.floor = c.floor
  <2>1. c.busy = 0
    BY <1>1 DEF Still
  <2> QED  BY <1>1, <1>5, <2>1 DEF Fields, Place
<1>8. 0 \in Number /\ 1 \in Number
  BY Numbers, Sizes
<1>9. Typing(d) /\ Still(d)
  <2>1. <<>> \in Seq(Packet)
    OBVIOUS
  <2> QED  BY <1>1, <1>4, <1>6, <1>7, <1>8, <2>1 DEF Typing, Still
<1>10. Buffers(d) = z
  <2>1. <<>> \o z = z
    BY <1>4, ConcatEmptySeq
  <2> QED  BY <1>6, <2>1 DEF Buffers
<1>11. Len(d.ackw) = 0
  BY <1>6
<1>12. Shaped(d)
  <2>1. \A i \in 1 .. Len(z) : z[i].k \in {"raw", "data"} /\ z[i].id # 0
    BY <1>3, <1>4
  <2>2. \A i \in 1 .. Len(d.ackw) : FALSE
    BY <1>11
  <2> QED  BY <1>6, <2>1, <2>2 DEF Shaped
<1>13. Room(d)
  <2> DEFINE l == Len(c.xmtq)
             k == Len(c.ackw)
             u == Len(d.xmtq)
             t == Tally(c.comp, "xmt")
  <2>1. /\ l \in Nat /\ k \in Nat /\ u = k + l /\ l + k + t <= MaxXmt /\ t \in Nat
    BY <1>1, <1>2, <1>4, <1>6, TallySum DEF Room, Typing
  <2> HIDE DEF l, k, u, t
  <2>2. u + 0 + t <= MaxXmt
    BY <2>1, Sizes
  <2>3. c.rcv + Tally(c.comp, "rcv") <= MaxRcv
    BY <1>1 DEF Room
  <2> QED  BY <1>7, <1>11, <2>2, <2>3 DEF Room, u, t
<1>14. Kept(d)
  <2> SUFFICES ASSUME NEW m \in c.floor + 1 .. c.sup
               PROVE  m \in c.taken \/ \E i \in 1 .. Len(z) : z[i].id = m
    BY <1>7, <1>10 DEF Kept
  <2>1. m \in c.taken \/ \E i \in 1 .. Len(q) : q[i].id = m
    BY <1>1 DEF Kept, q
  <2> QED  BY <1>4, <2>1
<1>15. Linked(d, "IStart")
  <2>1. Window(z, 0, 0, 0, 1)
    BY <1>4, WindowEmpty
  <2>2. \A i \in 1 .. Len(d.xmtq) : d.xmtq[i].k = "raw"
    BY <1>4, <1>6
  <2> QED  BY <1>6, <1>10, <1>11, <2>1, <2>2 DEF Linked
<1>16. Sound(d)
  BY <1>9, <1>12, <1>13, <1>14 DEF Sound
<1> QED  BY <1>6, <1>15, <1>16 DEF d

\* c has a connection of which its link knows nothing yet.
Joining(c, e) ==
  /\ Sound(c) /\ Connected(c) /\ Hears(c, e) /\ c.link = "Halt" /\ c.out \in Seq(LinePacket)
  /\ e.up = TRUE /\ Pair(Seen(c, "Halt"), e.in, e.peer, Line(c, e), TRUE)

\* Rules 1 and 7.
LEMMA ResetOn ==
  ASSUME NEW c, NEW e, Scene(e), Joining(c, e) \/ On(c, "IStart", e)
  PROVE  On(ResetVariables(c), "IStart", e)
<1> DEFINE d == ResetVariables(c)
           z == Seen(d, "IStart")
<1>1. Sound(c) /\ Connected(c) /\ Hears(c, e) /\ c.out \in Seq(LinePacket)
  BY DEF Joining, On
<1>2. /\ Sound(d) /\ Linked(d, "IStart")
      /\ d.R = 0 /\ d.N = 0 /\ d.A = 0
      /\ d.dtr = c.dtr /\ d.conn = c.conn /\ d.car = c.car /\ d.out = c.out
      /\ d.ev = c.ev /\ d.pkt = c.pkt /\ d.unread = c.unread /\ d.todo = c.todo
  BY <1>1, ResetIs
<1> HIDE DEF d
<1>3. Connected(d) /\ Hears(d, e) /\ Line(d, e) = Line(c, e) /\ d.out \in Seq(LinePacket)
  BY <1>1, <1>2 DEF Connected, Hears, Line
<1>4. z \in View /\ z.link = "IStart" /\ z.R = 0 /\ z.A = 0 /\ z.N = 0
  <2>1. z \in View /\ z.link = "IStart" /\ z.R = d.R /\ z.A = d.A /\ z.N = d.N
    BY <1>2, SeenIs DEF Sound
  <2> QED  BY <1>2, <2>1
<1>5. Pair(z, e.in, e.peer, Line(c, e), e.up)
  <2>1. CASE Joining(c, e)
    <3> DEFINE x == Seen(c, "Halt")
    <3>1. x \in View /\ x.link = "Halt"
      BY <1>1, SeenIs DEF Sound
    <3>2. Pair(x, e.in, e.peer, Line(c, e), TRUE) /\ e.up = TRUE
      BY <2>1 DEF Joining
    <3> HIDE DEF x, z
    <3> QED  BY <1>4, <3>1, <3>2, PairJoin DEF Scene
  <2>2. CASE On(c, "IStart", e)
    <3>1. c.R = 0 /\ c.N = 0 /\ c.A = 0
      BY <2>2 DEF On, Linked
    <3>2. z = Seen(c, "IStart")
      BY <1>2, <3>1 DEF Seen
    <3> QED  BY <2>2, <3>2 DEF On
  <2> QED  BY <2>1, <2>2
<1>6. On(d, "IStart", e)
  BY <1>2, <1>3, <1>5 DEF On
<1> QED  BY <1>6 DEF d

\* Rule 23.
LEMMA NakOn ==
  ASSUME left.speed = "full", NEW c, NEW e, On(c, "Run", e), Scene(e)
  PROVE  On(NAKMissingPacket(c), "Run", e)
<1>1. On(StartTransmitter(c), "Run", e)
  BY StartOn
<1> DEFINE d == [c EXCEPT !.NAKed = c.R]
<1>2. On(d, "Run", e)
  BY FlagsOn
<1> HIDE DEF d
<1>3. On(SendNak(d), "Run", e)
  BY <1>2, SendsOn
<1>4. Free(c) # 0
  BY Roomy DEF On
<1> QED  BY <1>1, <1>3, <1>4 DEF NAKMissingPacket, SendNak, d

-----------------------------------------------------------------------------
(* The state table *)

\* A packet takes the link of a controller one state further.
LEMMA LinkOn ==
  ASSUME NEW c, NEW l \in {"IStart", "AStart"}, NEW e, On(c, l, e), Scene(e), c.ev = "rcvd"
  PROVE  On(c, "AStart", e) /\ (c.pkt.k # "start" => On(c, "Run", e))
<1> DEFINE x == Seen(c, l)
           W == e.in
<1>1. /\ Sound(c) /\ Connected(c) /\ Hears(c, e) /\ c.out \in Seq(LinePacket)
      /\ Pair(x, W, e.peer, Line(c, e), e.up) /\ Linked(c, l)
      /\ W # <<>> /\ c.pkt = W[1] /\ W \in Seq(LinePacket) /\ e.peer \in View /\ e.up \in BOOLEAN
  BY DEF On, Hears, Scene
<1>2. x \in View /\ x.link = l /\ x.R = c.R /\ x.A = c.A /\ x.N = c.N
  BY <1>1, SeenIs DEF Sound
<1>3. ASSUME NEW n \in {"AStart", "Run"}, n = "Run" => c.pkt.k # "start"
      PROVE  On(c, n, e)
  <2> DEFINE z == Seen(c, n)
  <2>1. z \in View /\ z.link = n /\ z.R = c.R /\ z.A = c.A /\ z.N = c.N
    BY <1>1, SeenIs DEF Sound
  <2>2. Linked(c, n)
    BY <1>1 DEF Linked
  <2> DEFINE Wy == Line(c, e)
  <2> HIDE DEF z, x, W, Wy
  <2>3. Pair(z, W, e.peer, Wy, e.up)
    <3>1. Pair(x, W, e.peer, Wy, e.up)
      BY <1>1 DEF Wy
    <3>2. \/ z.link = "AStart"
          \/ z.link = "Run" /\ W[1].k # "start"
      BY <1>1, <1>3, <2>1
    <3>3. z.R = x.R /\ z.A = x.A /\ z.N = x.N /\ x.link \in {"IStart", "AStart"}
      BY <1>2, <2>1
    <3> QED  BY <1>1, <1>2, <2>1, <3>1, <3>2, <3>3, PairLink
  <2> QED  BY <1>1, <2>2, <2>3 DEF On, z, W, Wy
<1> QED  BY <1>3

\* A link that runs has seen the last START of its connection.
LEMMA NoStart ==
  ASSUME NEW c, NEW e, On(c, "Run", e), Scene(e), c.ev = "rcvd"
  PROVE  c.pkt.k # "start"
<1> DEFINE x == Seen(c, "Run")
           W == e.in
<1>1. W # <<>> /\ c.pkt = W[1] /\ W \in Seq(LinePacket)
  BY DEF On, Hears, Scene
<1>2. 1 \in 1 .. Len(W)
  <2> HIDE DEF W
  <2>1. Len(W) \in Nat
    BY <1>1, LenProperties
  <2> QED  BY <1>1, <2>1, EmptySeq
<1>3. x.link = "Run"
  BY DEF Seen
<1>4. Pair(x, W, e.peer, Line(c, e), e.up)
  BY DEF On
<1> HIDE DEF x, W
<1>5. Opened(x, W)
  BY <1>3, <1>4 DEF Pair, Half
<1> QED  BY <1>1, <1>2, <1>3, <1>5 DEF Opened

\* c works in its state.
Live(c, e) == On(c, c.link, e)

\* What a rule does when it matches.
LEMMA NewOn ==
  ASSUME NEW a, NEW new, NEW e, On(a, new, e)
  PROVE  Live([a EXCEPT !.link = new], e)
<1> DEFINE d == [a EXCEPT !.link = new]
<1>1. On(d, new, e) /\ d.link = new
  BY FlagsOn
<1> HIDE DEF d
<1>2. Live(d, e)
  BY <1>1 DEF Live
<1> QED  BY <1>2 DEF d

LEMMA LiveIs ==
  ASSUME NEW c, NEW e, Live(c, e)
  PROVE  /\ c.link \in {"IStart", "AStart", "Run"} /\ On(c, c.link, e)
         /\ c.car = TRUE /\ c.done.k = "none"
BY DEF Live, On, Connected, Sound, Still, NoPacket

\* What SendStrt makes of a link that starts over.
LEMMA RestartOn ==
  ASSUME left.speed = "full", NEW c, NEW e, Scene(e), Joining(c, e) \/ On(c, "IStart", e)
  PROVE  LET d == Then(ResetVariables(c), SendStrt)
         IN  On(StopTimer(d), "IStart", e) /\ On(StartTimer(d), "IStart", e)
<1> DEFINE r == ResetVariables(c)
<1>1. On(r, "IStart", e)
  BY ResetOn
<1> HIDE DEF r
<1>2. Then(r, SendStrt) = SendStrt(r)
  BY OfOne DEF Then
<1> DEFINE d == SendStrt(r)
<1>3. On(d, "IStart", e)
  BY <1>1, SendsOn
<1> HIDE DEF d
<1>4. On(StopTimer(d), "IStart", e) /\ On(StartTimer(d), "IStart", e)
  BY <1>3, FlagsOn
<1> QED  BY <1>2, <1>4 DEF r, d

LEMMA IStartOn ==
  ASSUME left.speed = "full", NEW c, NEW e, Scene(e), Live(c, e)
  PROVE  /\ Live(R4(c), e) /\ Live(R5(c), e) /\ Live(R6(c), e)
         /\ Live(R7(c), e) /\ Live(R10(c), e) /\ Live(R11(c), e)
<1>1. /\ c.link \in {"IStart", "AStart", "Run"} /\ On(c, c.link, e) /\ c.car = TRUE
  BY LiveIs
<1>2. Live(R4(c), e) /\ Live(R10(c), e)
  <2>1. c.link = "IStart" => On(StartTimer(c), "IStart", e)
    BY <1>1, FlagsOn
  <2>2. c.link = "IStart" => Live([StartTimer(c) EXCEPT !.link = "IStart"], e)
    BY <2>1, NewOn
  <2> QED  BY <2>2 DEF R4, R10, Rule
<1>3. Live(R5(c), e)
  <2>1. c.link = "IStart" /\ Received(c, "stack") => On(c, "Run", e)
    BY <1>1, LinkOn DEF Received
  <2>2. On(c, "Run", e) => On(SetSACK(c), "Run", e)
    BY FlagsOn
  <2> DEFINE a == SetSACK(c)
  <2>3. On(a, "Run", e) => On(StopTimer(a), "Run", e)
    <3> HIDE DEF a
    <3> QED  BY FlagsOn
  <2> DEFINE b == StopTimer(a)
  <2>4. On(b, "Run", e) => Live([b EXCEPT !.link = "Run"], e)
    <3> HIDE DEF b
    <3> QED  BY NewOn
  <2> QED  BY <2>1, <2>2, <2>3, <2>4 DEF R5, Rule
<1>4. Live(R6(c), e)
  <2>1. c.link = "IStart" /\ Received(c, "start") => On(c, "AStart", e)
    BY <1>1, LinkOn DEF Received
  <2> DEFINE a == SendStack(c)
             b == StartTimer(a)
  <2>2. On(c, "AStart", e) => On(a, "AStart", e)
    BY SendsOn
  <2>3. On(a, "AStart", e) => On(b, "AStart", e)
    <3> HIDE DEF a
    <3> QED  BY FlagsOn
  <2>4. On(b, "AStart", e) => Live([b EXCEPT !.link = "AStart"], e)
    <3> HIDE DEF b
    <3> QED  BY NewOn
  <2> HIDE DEF a
  <2> QED  BY <2>1, <2>2, <2>3, <2>4 DEF R6, Rule, a
<1>5. Live(R7(c), e)
  <2> DEFINE b == StartTimer(Then(ResetVariables(c), SendStrt))
  <2>1. c.link = "IStart" => On(b, "IStart", e)
    BY <1>1, RestartOn
  <2>2. On(b, "IStart", e) => Live([b EXCEPT !.link = "IStart"], e)
    <3> HIDE DEF b
    <3> QED  BY NewOn
  <2>3. R7(c) = Rule(c, "IStart", TimerExpired(c), b, "IStart")
    BY DEF R7
  <2> HIDE DEF b
  <2> QED  BY <2>1, <2>2, <2>3 DEF Rule
<1>6. Live(R11(c), e)
  BY <1>1 DEF R11, Rule
<1> QED  BY <1>2, <1>3, <1>4, <1>5, <1>6

LEMMA AStartOn ==
  ASSUME left.speed = "full", NEW c, NEW e, Scene(e), Live(c, e)
  PROVE  /\ Live(R12(c), e) /\ Live(R13(c), e) /\ Live(R14(c), e)
         /\ Live(R15(c), e) /\ Live(R16(c), e)
<1>1. /\ c.link \in {"IStart", "AStart", "Run"} /\ On(c, c.link, e) /\ c.car = TRUE
  BY LiveIs
<1>2. Live(R12(c), e)
  BY <1>1 DEF R12, Rule
<1>3. Live(R13(c), e) /\ Live(R14(c), e)
  <2> DEFINE b == StopTimer(c)
  <2>1. c.link = "AStart" /\ (Received(c, "ack") \/ Received(c, "data")) => On(c, "Run", e)
    BY <1>1, LinkOn DEF Received
  <2>2. On(c, "Run", e) => On(b, "Run", e)
    BY FlagsOn
  <2>3. On(b, "Run", e) => Live([b EXCEPT !.link = "Run"], e)
    <3> HIDE DEF b
    <3> QED  BY NewOn
  <2> QED  BY <2>1, <2>2, <2>3 DEF R13, R14, Rule
<1>4. Live(R15(c), e)
  <2> DEFINE a == SetSACK(c)
             b == StopTimer(a)
  <2>1. c.link = "AStart" /\ Received(c, "stack") => On(c, "Run", e)
    BY <1>1, LinkOn DEF Received
  <2>2. On(c, "Run", e) => On(a, "Run", e)
    BY FlagsOn
  <2>3. On(a, "Run", e) => On(b, "Run", e)
    <3> HIDE DEF a
    <3> QED  BY FlagsOn
  <2>4. On(b, "Run", e) => Live([b EXCEPT !.link = "Run"], e)
    <3> HIDE DEF b
    <3> QED  BY NewOn
  <2> QED  BY <2>1, <2>2, <2>3, <2>4 DEF R15, Rule
<1>5. Live(R16(c), e)
  <2> DEFINE a == SendStack(c)
             b == StartTimer(a)
  <2>1. c.link = "AStart" => On(a, "AStart", e)
    BY <1>1, SendsOn
  <2>2. On(a, "AStart", e) => On(b, "AStart", e)
    <3> HIDE DEF a
    <3> QED  BY FlagsOn
  <2>3. On(b, "AStart", e) => Live([b EXCEPT !.link = "AStart"], e)
    <3> HIDE DEF b
    <3> QED  BY NewOn
  <2> HIDE DEF a
  <2> QED  BY <2>1, <2>2, <2>3 DEF R16, Rule, a
<1> QED  BY <1>2, <1>3, <1>4, <1>5

LEMMA RunReceiveOn ==
  ASSUME left.speed = "full", NEW c, NEW e, Scene(e), Live(c, e)
  PROVE  /\ Live(R19(c), e) /\ Live(R20(c), e) /\ Live(R22(c), e) /\ Live(R23(c), e)
         /\ Live(R24(c), e) /\ Live(R25(c), e) /\ Live(R26(c), e) /\ Live(R27(c), e)
         /\ Live(R29(c), e) /\ Live(R32(c), e) /\ Live(R34(c), e)
<1>1. /\ c.link \in {"IStart", "AStart", "Run"} /\ On(c, c.link, e) /\ c.car = TRUE
  BY LiveIs
<1>2. Live(R19(c), e)
  BY <1>1 DEF R19, Rule
<1>3. Live(R20(c), e)
  <2>1. c.link = "Run" => ~Received(c, "start")
    BY <1>1, NoStart DEF Received
  <2> QED  BY <2>1 DEF R20, Rule
<1>4. Live(R22(c), e) /\ Live(R26(c), e)
  <2> DEFINE b == SetSACK(c)
  <2>1. c.link = "Run" => On(b, "Run", e)
    BY <1>1, FlagsOn
  <2>2. On(b, "Run", e) => Live([b EXCEPT !.link = "Run"], e)
    <3> HIDE DEF b
    <3> QED  BY NewOn
  <2> QED  BY <2>1, <2>2 DEF R22, R26, Rule
<1>5. Live(R25(c), e) /\ Live(R27(c), e)
  <2> DEFINE b == SetSNAK(c)
  <2>1. c.link = "Run" => On(b, "Run", e)
    BY <1>1, FlagsOn
  <2>2. On(b, "Run", e) => Live([b EXCEPT !.link = "Run"], e)
    <3> HIDE DEF b
    <3> QED  BY NewOn
  <2> QED  BY <2>1, <2>2 DEF R25, R27, Rule
<1>6. Live(R34(c), e)
  <2> DEFINE b == SetSREP(c)
  <2>1. c.link = "Run" => On(b, "Run", e)
    BY <1>1, FlagsOn
  <2>2. On(b, "Run", e) => Live([b EXCEPT !.link = "Run"], e)
    <3> HIDE DEF b
    <3> QED  BY NewOn
  <2> QED  BY <2>1, <2>2 DEF R34, Rule
<1>7. Live(R23(c), e)
  <2> DEFINE b == NAKMissingPacket(c)
  <2>1. c.link = "Run" => On(b, "Run", e)
    BY <1>1, NakOn
  <2> HIDE DEF b
  <2>2. On(b, "Run", e) => Live([b EXCEPT !.link = "Run"], e)
    BY NewOn
  <2> QED  BY <2>1, <2>2 DEF R23, Rule, b
<1>8. Live(R24(c), e)
  <2> DEFINE b == GiveBufferToUser(c)
  <2>1. c.link = "Run" /\ Received(c, "data") /\ c.pkt.num = Succ(c.R) => On(b, "Run", e)
    BY <1>1, GiveOn DEF Received
  <2> HIDE DEF b
  <2>2. On(b, "Run", e) => Live([b EXCEPT !.link = "Run"], e)
    BY NewOn
  <2> QED  BY <2>1, <2>2 DEF R24, Rule, b
<1>9. Live(R29(c), e)
  <2> DEFINE b == Acknowledged(c)
  <2>1. c.link = "Run" /\ (Received(c, "data") \/ Received(c, "ack")) => On(b, "Run", e)
    BY <1>1, AcknowledgedOn DEF Received
  <2> HIDE DEF b
  <2>2. On(b, "Run", e) => Live([b EXCEPT !.link = "Run"], e)
    BY NewOn
  <2> QED  BY <2>1, <2>2 DEF R29, Rule, b
<1>10. Live(R32(c), e)
  <2> DEFINE b == StopTimer(SetTequalAplus1(SetAeqRESP(CompleteAckedTransmits(c))))
  <2>1. c.link = "Run" /\ Received(c, "nak") => On(b, "Run", e)
    BY <1>1, AcknowledgedOn DEF Received
  <2>3. R32(c) = Rule(c, "Run", Received(c, "nak") /\ ALeRESPleN(c), b, "Run")
    BY DEF R32
  <2> HIDE DEF b
  <2>2. On(b, "Run", e) => Live([b EXCEPT !.link = "Run"], e)
    BY NewOn
  <2> QED  BY <2>1, <2>2, <2>3 DEF Rule
<1> QED  BY <1>2, <1>3, <1>4, <1>5, <1>6, <1>7, <1>8, <1>9, <1>10

LEMMA RunTransmitOn ==
  ASSUME left.speed = "full", NEW c, NEW e, Scene(e), Live(c, e)
  PROVE  /\ Live(R35(c), e) /\ Live(R36(c), e) /\ Live(R37(c), e) /\ Live(R38(c), e)
         /\ Live(R39(c), e) /\ Live(R40(c), e) /\ Live(R41(c), e)
<1>1. /\ c.link \in {"IStart", "AStart", "Run"} /\ On(c, c.link, e) /\ c.done.k = "none"
  BY LiveIs
<1>2. Live(R40(c), e) /\ Live(R41(c), e)
  BY <1>1 DEF R40, R41, Rule, DataMessageSent, REPMessageSent
<1>3. Live(R35(c), e)
  <2> DEFINE a == SendNak(c)
             b == ClearSNAK(a)
  <2>1. c.link = "Run" => On(a, "Run", e)
    BY <1>1, SendsOn
  <2> HIDE DEF a
  <2>2. On(a, "Run", e) => On(b, "Run", e)
    BY FlagsOn
  <2>3. R35(c) = Rule(c, "Run", TransmitterIdle(c) /\ c.SNAK, b, "Run")
    BY DEF R35, a
  <2> HIDE DEF b
  <2>4. On(b, "Run", e) => Live([b EXCEPT !.link = "Run"], e)
    BY NewOn
  <2> QED  BY <2>1, <2>2, <2>3, <2>4 DEF Rule
<1>4. Live(R36(c), e)
  <2> DEFINE a == SendRep(c)
             b == ClearSREP(a)
  <2>1. c.link = "Run" => On(a, "Run", e)
    BY <1>1, SendsOn
  <2> HIDE DEF a
  <2>2. On(a, "Run", e) => On(b, "Run", e)
    BY FlagsOn
  <2>3. R36(c) = Rule(c, "Run", TransmitterIdle(c) /\ ~c.SNAK /\ c.SREP, b, "Run")
    BY DEF R36, a
  <2> HIDE DEF b
  <2>4. On(b, "Run", e) => Live([b EXCEPT !.link = "Run"], e)
    BY NewOn
  <2> QED  BY <2>1, <2>2, <2>3, <2>4 DEF Rule
<1>5. Live(R37(c), e)
  <2> DEFINE a == IncrementT(ReTransmitMessageT(c))
             b == ClearSACK(a)
  <2>1. c.link = "Run" /\ TltNplus1(c) => On(a, "Run", e)
    BY <1>1, RetransmitOn DEF TltNplus1
  <2> HIDE DEF a
  <2>2. On(a, "Run", e) => On(b, "Run", e)
    BY FlagsOn
  <2>3. R37(c) = Rule(c, "Run", Ready(c) /\ TltNplus1(c), b, "Run")
    BY DEF R37, a
  <2> HIDE DEF b
  <2>4. On(b, "Run", e) => Live([b EXCEPT !.link = "Run"], e)
    BY NewOn
  <2> QED  BY <2>1, <2>2, <2>3, <2>4 DEF Rule
<1>6. Live(R38(c), e)
  <2> DEFINE a == SendDataMessage(c)
             b == ClearSACK(a)
  <2>1. c.link = "Run" /\ UserSendMessage(c) => On(a, "Run", e)
    BY <1>1, SendDataOn
  <2> HIDE DEF a
  <2>2. On(a, "Run", e) => On(b, "Run", e)
    BY FlagsOn
  <2>3. R38(c) = Rule(c, "Run", Ready(c) /\ UserSendMessage(c) /\ TeqNplus1(c), b, "Run")
    BY DEF R38, a
  <2> HIDE DEF b
  <2>4. On(b, "Run", e) => Live([b EXCEPT !.link = "Run"], e)
    BY NewOn
  <2> QED  BY <2>1, <2>2, <2>3, <2>4 DEF Rule
<1>7. Live(R39(c), e)
  <2> DEFINE a == SendAck(c)
             b == ClearSACK(a)
  <2>1. c.link = "Run" => On(a, "Run", e)
    BY <1>1, SendsOn
  <2> HIDE DEF a
  <2>2. On(a, "Run", e) => On(b, "Run", e)
    BY FlagsOn
  <2>3. R39(c) = Rule(c, "Run", Ready(c) /\ c.SACK /\ TeqNplus1(c), b, "Run")
    BY DEF R39, a
  <2> HIDE DEF b
  <2>4. On(b, "Run", e) => Live([b EXCEPT !.link = "Run"], e)
    BY NewOn
  <2> QED  BY <2>1, <2>2, <2>3, <2>4 DEF Rule
<1> QED  BY <1>2, <1>3, <1>4, <1>5, <1>6, <1>7

\* The scans apply their rules in turn.
LEMMA Scans ==
  ASSUME NEW c
  PROVE  /\ ScanIStart(c) = R11(R10(R7(R6(R5(R4(c))))))
         /\ ScanAStart(c) = R16(R15(R14(R13(R12(c)))))
         /\ ScanRunReceive(c) =
              R34(R32(R29(R27(R26(R25(R24(R23(R22(R20(R19(c)))))))))))
         /\ ScanRunTransmit(c) = R41(R40(R39(R38(R37(R36(R35(c)))))))
         /\ Scan(c) = ScanRunTransmit(ScanRunReceive(ScanAStart(ScanIStart(ScanHalt(c)))))
<1>1. \A x : Then(x, R4) = R4(x) /\ Then(x, R5) = R5(x) /\ Then(x, R6) = R6(x)
             /\ Then(x, R7) = R7(x) /\ Then(x, R10) = R10(x) /\ Then(x, R11) = R11(x)
  BY OfOne DEF Then
<1>2. \A x : Then(x, R12) = R12(x) /\ Then(x, R13) = R13(x) /\ Then(x, R14) = R14(x)
             /\ Then(x, R15) = R15(x) /\ Then(x, R16) = R16(x)
  BY OfOne DEF Then
<1>3. \A x : Then(x, R19) = R19(x) /\ Then(x, R20) = R20(x) /\ Then(x, R22) = R22(x)
             /\ Then(x, R23) = R23(x) /\ Then(x, R24) = R24(x) /\ Then(x, R25) = R25(x)
  BY OfOne DEF Then
<1>4. \A x : Then(x, R26) = R26(x) /\ Then(x, R27) = R27(x) /\ Then(x, R29) = R29(x)
             /\ Then(x, R32) = R32(x) /\ Then(x, R34) = R34(x)
  BY OfOne DEF Then
<1>5. \A x : Then(x, R35) = R35(x) /\ Then(x, R36) = R36(x) /\ Then(x, R37) = R37(x)
             /\ Then(x, R38) = R38(x) /\ Then(x, R39) = R39(x) /\ Then(x, R40) = R40(x)
             /\ Then(x, R41) = R41(x)
  BY OfOne DEF Then
<1>6. \A x : Then(x, ScanHalt) = ScanHalt(x) /\ Then(x, ScanIStart) = ScanIStart(x)
             /\ Then(x, ScanAStart) = ScanAStart(x)
             /\ Then(x, ScanRunReceive) = ScanRunReceive(x)
             /\ Then(x, ScanRunTransmit) = ScanRunTransmit(x)
  BY OfOne DEF Then
<1>7. ScanIStart(c) = R11(R10(R7(R6(R5(R4(c))))))
  BY <1>1 DEF ScanIStart
<1>8. ScanAStart(c) = R16(R15(R14(R13(R12(c)))))
  BY <1>2 DEF ScanAStart
<1>9. ScanRunReceive(c) = R34(R32(R29(R27(R26(R25(R24(R23(R22(R20(R19(c)))))))))))
  <2> DEFINE h == R25(R24(R23(R22(R20(R19(c))))))
  <2>1. Then(Then(Then(Then(Then(Then(c, R19), R20), R22), R23), R24), R25) = h
    BY <1>3
  <2>2. ScanRunReceive(c) = Then(Then(Then(Then(Then(h, R26), R27), R29), R32), R34)
    BY <2>1, Zenon DEF ScanRunReceive
  <2> HIDE DEF h
  <2>3. Then(Then(Then(Then(Then(h, R26), R27), R29), R32), R34) = R34(R32(R29(R27(R26(h)))))
    BY <1>4
  <2> QED  BY <2>2, <2>3 DEF h
<1>10. ScanRunTransmit(c) = R41(R40(R39(R38(R37(R36(R35(c)))))))
  BY <1>5 DEF ScanRunTransmit
<1>11. Scan(c) = ScanRunTransmit(ScanRunReceive(ScanAStart(ScanIStart(ScanHalt(c)))))
  BY <1>6 DEF Scan
<1> QED  BY <1>7, <1>8, <1>9, <1>10, <1>11

\* The scan after rule 1.
LEMMA TableOn ==
  ASSUME left.speed = "full", NEW c, NEW e, Scene(e), Live(c, e)
  PROVE  Live(ScanRunTransmit(ScanRunReceive(ScanAStart(ScanIStart(c)))), e)
<1>1. \A x : Live(x, e) => /\ Live(R4(x), e) /\ Live(R5(x), e) /\ Live(R6(x), e)
                           /\ Live(R7(x), e) /\ Live(R10(x), e) /\ Live(R11(x), e)
  BY IStartOn
<1>2. \A x : Live(x, e) => /\ Live(R12(x), e) /\ Live(R13(x), e) /\ Live(R14(x), e)
                           /\ Live(R15(x), e) /\ Live(R16(x), e)
  BY AStartOn
<1>3. \A x : Live(x, e) =>
        /\ Live(R19(x), e) /\ Live(R20(x), e) /\ Live(R22(x), e) /\ Live(R23(x), e)
        /\ Live(R24(x), e) /\ Live(R25(x), e) /\ Live(R26(x), e) /\ Live(R27(x), e)
        /\ Live(R29(x), e) /\ Live(R32(x), e) /\ Live(R34(x), e)
  BY RunReceiveOn
<1>4. \A x : Live(x, e) =>
        /\ Live(R35(x), e) /\ Live(R36(x), e) /\ Live(R37(x), e) /\ Live(R38(x), e)
        /\ Live(R39(x), e) /\ Live(R40(x), e) /\ Live(R41(x), e)
  BY RunTransmitOn
<1>5. \A x : Live(x, e) => Live(ScanIStart(x), e)
  <2> TAKE x
  <2>1. ScanIStart(x) = R11(R10(R7(R6(R5(R4(x))))))
    BY Scans
  <2> QED  BY <1>1, <2>1
<1>6. \A x : Live(x, e) => Live(ScanAStart(x), e)
  <2> TAKE x
  <2>1. ScanAStart(x) = R16(R15(R14(R13(R12(x)))))
    BY Scans
  <2> QED  BY <1>2, <2>1
<1>7. \A x : Live(x, e) => Live(ScanRunReceive(x), e)
  <2> TAKE x
  <2>1. ScanRunReceive(x) = R34(R32(R29(R27(R26(R25(R24(R23(R22(R20(R19(x)))))))))))
    BY Scans
  <2> QED  BY <1>3, <2>1
<1>8. \A x : Live(x, e) => Live(ScanRunTransmit(x), e)
  <2> TAKE x
  <2>1. ScanRunTransmit(x) = R41(R40(R39(R38(R37(R36(R35(x)))))))
    BY Scans
  <2> QED  BY <1>4, <2>1
<1> QED  BY <1>5, <1>6, <1>7, <1>8

LEMMA ScanOn ==
  ASSUME left.speed = "full", NEW c, NEW e, Scene(e), Live(c, e) \/ Joining(c, e)
  PROVE  Live(Scan(c), e)
<1>1. Live(ScanHalt(c), e)
  <2>1. CASE Live(c, e)
    <3>1. c.link # "Halt"
      BY <2>1, LiveIs
    <3> QED  BY <2>1, <3>1 DEF ScanHalt, Rule
  <2>2. CASE Joining(c, e)
    <3> DEFINE b == StopTimer(Then(ResetVariables(c), SendStrt))
    <3>1. On(b, "IStart", e)
      BY <2>2, RestartOn
    <3>2. ScanHalt(c) = [b EXCEPT !.link = "IStart"]
      BY <2>2 DEF ScanHalt, Rule, Joining, Connected
    <3> HIDE DEF b
    <3> QED  BY <3>1, <3>2, NewOn
  <2> QED  BY <2>1, <2>2
<1> QED  BY <1>1, TableOn, Scans

\* The rules of another state do nothing.
LEMMA Elsewhere ==
  ASSUME NEW c
  PROVE  /\ c.link # "IStart" => ScanIStart(c) = c
         /\ c.link # "AStart" => ScanAStart(c) = c
         /\ c.link # "Run" => ScanRunReceive(c) = c /\ ScanRunTransmit(c) = c
<1>1. ASSUME c.link # "IStart" PROVE ScanIStart(c) = c
  <2>1. R4(c) = c /\ R5(c) = c
    BY <1>1, Zenon DEF R4, R5, Rule
  <2>2. R6(c) = c /\ R7(c) = c
    BY <1>1, Zenon DEF R6, R7, Rule
  <2>3. R10(c) = c /\ R11(c) = c
    BY <1>1, Zenon DEF R10, R11, Rule
  <2> QED  BY <2>1, <2>2, <2>3, Scans
<1>2. ASSUME c.link # "AStart" PROVE ScanAStart(c) = c
  <2>1. R12(c) = c /\ R13(c) = c /\ R14(c) = c
    BY <1>2, Zenon DEF R12, R13, R14, Rule
  <2>2. R15(c) = c /\ R16(c) = c
    BY <1>2, Zenon DEF R15, R16, Rule
  <2> QED  BY <2>1, <2>2, Scans
<1>3. ASSUME c.link # "Run" PROVE ScanRunReceive(c) = c
  <2>1. R19(c) = c /\ R20(c) = c /\ R22(c) = c
    BY <1>3, Zenon DEF R19, R20, R22, Rule
  <2>2. R23(c) = c /\ R24(c) = c /\ R25(c) = c
    BY <1>3, Zenon DEF R23, R24, R25, Rule
  <2>3. R26(c) = c /\ R27(c) = c /\ R29(c) = c
    BY <1>3, Zenon DEF R26, R27, R29, Rule
  <2>4. R32(c) = c /\ R34(c) = c
    BY <1>3, Zenon DEF R32, R34, Rule
  <2> QED  BY <2>1, <2>2, <2>3, <2>4, Scans
<1>4. ASSUME c.link # "Run" PROVE ScanRunTransmit(c) = c
  <2>1. R35(c) = c /\ R36(c) = c /\ R37(c) = c
    BY <1>4, Zenon DEF R35, R36, R37, Rule
  <2>2. R38(c) = c /\ R39(c) = c
    BY <1>4, Zenon DEF R38, R39, Rule
  <2>3. R40(c) = c /\ R41(c) = c
    BY <1>4, Zenon DEF R40, R41, Rule
  <2> QED  BY <2>1, <2>2, <2>3, Scans
<1> QED  BY <1>1, <1>2, <1>3, <1>4

\* Without carrier a link that is down stays down.
LEMMA ScanOff ==
  ASSUME NEW c, c.link = "Halt", c.car = FALSE
  PROVE  Scan(c) = c
<1>1. ScanHalt(c) = c
  BY Zenon DEF ScanHalt, Rule
<1>2. c.link # "IStart" /\ c.link # "AStart" /\ c.link # "Run"
  OBVIOUS
<1>3. ScanIStart(c) = c /\ ScanAStart(c) = c /\ ScanRunReceive(c) = c /\ ScanRunTransmit(c) = c
  BY <1>2, Elsewhere
<1> QED  BY <1>1, <1>3, Scans

LEMMA SameChain ==
  ASSUME NEW c, NEW d, NEW b, Same(c, d), Same(d, b)
  PROVE  Same(c, b)
BY DEF Same

LEMMA SameTyping ==
  ASSUME NEW c, NEW d, Typing(c), Same(c, d)
  PROVE  Typing(d)
BY DEF Same, Typing

LEMMA SameFlags ==
  ASSUME NEW c, NEW d, Typing(c), Same(c, d), NEW l
  PROVE  /\ Same(c, StartTimer(d)) /\ Same(c, StopTimer(d))
         /\ StartTimer(d).link = d.link /\ StopTimer(d).link = d.link
         /\ Same(c, [d EXCEPT !.link = l]) /\ [d EXCEPT !.link = l].link = l
<1>1. Typing(d)
  BY SameTyping
<1>2. Same(d, StartTimer(d)) /\ StartTimer(d).link = d.link
  BY <1>1 DEF Same, Typing, Fields, StartTimer
<1>3. Same(d, StopTimer(d)) /\ StopTimer(d).link = d.link
  BY <1>1 DEF Same, Typing, Fields, StopTimer
<1>4. Same(d, [d EXCEPT !.link = l]) /\ [d EXCEPT !.link = l].link = l
  BY <1>1 DEF Same, Typing, Fields
<1> QED  BY <1>2, <1>3, <1>4, SameChain

\* A timer started in IStart, a link halted.
LEMMA SameStarted ==
  ASSUME NEW c, NEW d, Typing(c), Same(c, d)
  PROVE  /\ Same(c, [StartTimer(d) EXCEPT !.link = "IStart"])
         /\ [StartTimer(d) EXCEPT !.link = "IStart"].link = "IStart"
<1> DEFINE b == StartTimer(d)
<1>1. Same(c, b)
  BY SameFlags
<1> HIDE DEF b
<1>2. Same(c, [b EXCEPT !.link = "IStart"]) /\ [b EXCEPT !.link = "IStart"].link = "IStart"
  BY <1>1, SameFlags
<1> QED  BY <1>2 DEF b

LEMMA SameHalted ==
  ASSUME NEW c, NEW d, Typing(c), Same(c, d)
  PROVE  /\ Same(c, [StopTimer(d) EXCEPT !.link = "Halt"])
         /\ [StopTimer(d) EXCEPT !.link = "Halt"].link = "Halt"
<1> DEFINE b == StopTimer(d)
<1>1. Same(c, b)
  BY SameFlags
<1> HIDE DEF b
<1>2. Same(c, [b EXCEPT !.link = "Halt"]) /\ [b EXCEPT !.link = "Halt"].link = "Halt"
  BY <1>1, SameFlags
<1> QED  BY <1>2 DEF b

\* When the carrier is lost the link halts: rules 11, 12 and 19.
LEMMA ScanDrop ==
  ASSUME NEW c, Typing(c), c.link \in {"IStart", "AStart", "Run"}, c.car = FALSE, c.ev = "none"
  PROVE  Same(c, Scan(c)) /\ Scan(c).link = "Halt"
<1>1. \A d : Same(c, d) => d.car = FALSE /\ d.ev = "none"
  BY DEF Same
<1>2. Same(c, c)
  BY DEF Same, Typing
<1>3. ScanHalt(c) = c
  <2>1. c.link # "Halt"
    OBVIOUS
  <2> QED  BY <2>1, Zenon DEF ScanHalt, Rule
<1>4. \A d : d.car = FALSE /\ d.ev = "none" => R5(d) = d /\ R6(d) = d /\ R7(d) = d
  <2> TAKE d
  <2> HAVE d.car = FALSE /\ d.ev = "none"
  <2>1. d.ev # "rcvd" /\ d.ev # "timer"
    OBVIOUS
  <2>2. R5(d) = d
    BY <2>1, Zenon DEF R5, Rule, Received
  <2>3. R6(d) = d
    BY <2>1, Zenon DEF R6, Rule, Received
  <2>4. R7(d) = d
    BY <2>1, Zenon DEF R7, Rule, TimerExpired
  <2> QED  BY <2>2, <2>3, <2>4
<1>5. \A d : Same(c, d) => Same(c, R4(d)) /\ (d.link = "IStart" \/ R4(d) = d)
  <2> TAKE d
  <2> HAVE Same(c, d)
  <2>1. Same(c, [StartTimer(d) EXCEPT !.link = "IStart"])
    BY SameStarted
  <2> QED  BY <2>1, Zenon DEF R4, Rule
<1>6. \A d : Same(c, d) => Same(c, R10(d)) /\ (d.link = "IStart" \/ R10(d) = d)
  <2> TAKE d
  <2> HAVE Same(c, d)
  <2>1. Same(c, [StartTimer(d) EXCEPT !.link = "IStart"])
    BY SameStarted
  <2> QED  BY <2>1, Zenon DEF R10, Rule
<1>7. \A d : Same(c, d) => /\ Same(c, R11(d)) /\ R11(d).link # "IStart"
                           /\ d.link # "IStart" => R11(d) = d
  <2> TAKE d
  <2> HAVE Same(c, d)
  <2> DEFINE h == [StopTimer(d) EXCEPT !.link = "Halt"]
  <2>1. Same(c, h) /\ h.link # "IStart"
    BY SameHalted
  <2>2. d.car = FALSE
    BY <1>1
  <2>3. R11(d) = IF d.link = "IStart" THEN h ELSE d
    BY <2>2, Zenon DEF R11, Rule
  <2> HIDE DEF h
  <2> QED  BY <2>1, <2>3
<1>8. \A d : Same(c, d) => /\ Same(c, R12(d)) /\ R12(d).link \in {d.link, "Halt"}
                           /\ R12(d).link # "AStart" /\ (d.link # "AStart" => R12(d) = d)
  <2> TAKE d
  <2> HAVE Same(c, d)
  <2> DEFINE h == [StopTimer(d) EXCEPT !.link = "Halt"]
  <2>1. Same(c, h) /\ h.link = "Halt"
    BY SameHalted
  <2>2. d.car = FALSE
    BY <1>1
  <2>3. R12(d) = IF d.link = "AStart" THEN h ELSE d
    BY <2>2, Zenon DEF R12, Rule
  <2> HIDE DEF h
  <2> QED  BY <2>1, <2>3
<1>9. \A d : Same(c, d) => /\ Same(c, R19(d)) /\ R19(d).link \in {d.link, "Halt"}
                           /\ R19(d).link # "Run"
  <2> TAKE d
  <2> HAVE Same(c, d)
  <2> DEFINE h == [StopTimer(d) EXCEPT !.link = "Halt"]
  <2>1. Same(c, h) /\ h.link = "Halt"
    BY SameHalted
  <2>2. d.car = FALSE
    BY <1>1
  <2>3. R19(d) = IF d.link = "Run" THEN h ELSE d
    BY <2>2, Zenon DEF R19, Rule
  <2> HIDE DEF h
  <2> QED  BY <2>1, <2>3
<1> DEFINE d1 == R4(c)
           d2 == R10(d1)
           d3 == R11(d2)
           d4 == R12(d3)
           d5 == R19(d4)
<1>10. Same(c, d1) /\ R5(d1) = d1 /\ R6(d1) = d1 /\ R7(d1) = d1
  BY <1>1, <1>2, <1>4, <1>5
<1>11. Same(c, d2)
  <2> HIDE DEF d1
  <2> QED  BY <1>6, <1>10
<1>12. ScanIStart(c) = d3
  BY <1>10, Scans
<1>13. c.link \in {"AStart", "Run"} => d3 = c
  <2> SUFFICES ASSUME c.link \in {"AStart", "Run"} PROVE d3 = c
    OBVIOUS
  <2>1. c.link # "IStart"
    OBVIOUS
  <2>2. d1 = c
    BY <1>2, <1>5, <2>1
  <2>3. d2 = c
    BY <1>2, <1>6, <2>1, <2>2
  <2> QED  BY <1>2, <1>7, <2>1, <2>3
<1>14. Same(c, d3) /\ d3.link # "IStart"
  <2> HIDE DEF d2
  <2> QED  BY <1>7, <1>11
<1>15. d3.link \in {"Halt", "AStart", "Run"}
  <2>1. CASE c.link = "IStart"
    <3>1. d1.link = "IStart" /\ d2.link = "IStart"
      <4>1. \A d : Same(c, d) /\ d.link = "IStart" => R4(d).link = "IStart" /\ R10(d).link = "IStart"
        <5> TAKE d
        <5> HAVE Same(c, d) /\ d.link = "IStart"
        <5> DEFINE b == [StartTimer(d) EXCEPT !.link = "IStart"]
        <5>1. b.link = "IStart"
          BY SameStarted
        <5>2. R4(d) \in {b, d} /\ R10(d) \in {b, d}
          <6> USE DEF R4, R10, Rule
          <6>1. R4(d) = b \/ R4(d) = d
            BY Zenon
          <6>2. R10(d) = b \/ R10(d) = d
            BY Zenon
          <6> QED  BY <6>1, <6>2 DEF b
        <5> HIDE DEF b
        <5> QED  BY <5>1, <5>2
      <4>2. d1.link = "IStart"
        BY <1>2, <2>1, <4>1
      <4> HIDE DEF d1
      <4> QED  BY <1>10, <4>1, <4>2
    <3>2. d2.car = FALSE
      <4> HIDE DEF d2
      <4> QED  BY <1>1, <1>11
    <3>3. d3 = [StopTimer(d2) EXCEPT !.link = "Halt"]
      <4> HIDE DEF d2
      <4> QED  BY <3>1, <3>2, Zenon DEF R11, Rule
    <3> HIDE DEF d2
    <3> QED  BY <1>11, <3>3, SameHalted
  <2>2. CASE c.link \in {"AStart", "Run"}
    BY <1>13, <2>2
  <2> QED  BY <2>1, <2>2
<1>16. Same(c, d4) /\ d4.link \in {"Halt", "Run"}
  <2> HIDE DEF d3
  <2> QED  BY <1>8, <1>14, <1>15
<1>17. R13(d4) = d4 /\ R14(d4) = d4 /\ R15(d4) = d4 /\ R16(d4) = d4
  <2> HIDE DEF d4
  <2>1. d4.link # "AStart"
    BY <1>16
  <2>2. R13(d4) = d4 /\ R14(d4) = d4
    BY <2>1, Zenon DEF R13, R14, Rule
  <2>3. R15(d4) = d4 /\ R16(d4) = d4
    BY <2>1, Zenon DEF R15, R16, Rule
  <2> QED  BY <2>2, <2>3
<1>18. ScanAStart(d3) = d4
  BY <1>17, Scans
<1>19. Same(c, d5) /\ d5.link = "Halt"
  <2> HIDE DEF d4
  <2> QED  BY <1>9, <1>16
<1>20. ScanRunReceive(d4) = d5
  <2> HIDE DEF d4
  <2>1. d5.link # "Run"
    BY <1>19
  <2> HIDE DEF d5
  <2>2. R20(d5) = d5 /\ R22(d5) = d5 /\ R23(d5) = d5
    BY <2>1, Zenon DEF R20, R22, R23, Rule
  <2>3. R24(d5) = d5 /\ R25(d5) = d5 /\ R26(d5) = d5
    BY <2>1, Zenon DEF R24, R25, R26, Rule
  <2>4. R27(d5) = d5 /\ R29(d5) = d5
    BY <2>1, Zenon DEF R27, R29, Rule
  <2>5. R32(d5) = d5 /\ R34(d5) = d5
    BY <2>1, Zenon DEF R32, R34, Rule
  <2>6. R19(d4) = d5
    BY DEF d5
  <2> QED  BY <2>2, <2>3, <2>4, <2>5, <2>6, Scans
<1> HIDE DEF d5
<1>21. ScanRunTransmit(d5) = d5
  BY <1>19, Elsewhere
<1>22. Scan(c) = d5
  <2> HIDE DEF d3, d4
  <2> QED  BY <1>3, <1>12, <1>18, <1>20, <1>21, Scans
<1> QED  BY <1>19, <1>22

-----------------------------------------------------------------------------
(* The services *)

\* d is c but for the event, the packet and the calls.
Alike(c, d) ==
  /\ Fields \subseteq DOMAIN d /\ d.timer \in {"off", "on", "spent"} /\ d.again \in BOOLEAN
  /\ d.X \in Number /\ d.NAKed \in Number
  /\ d.link = c.link
  /\ d.dtr = c.dtr /\ d.conn = c.conn /\ d.car = c.car /\ d.fail = c.fail /\ d.room = c.room
  /\ d.R = c.R /\ d.N = c.N /\ d.A = c.A /\ d.T = c.T
  /\ d.rcv = c.rcv /\ d.comp = c.comp /\ d.xmtq = c.xmtq /\ d.ackw = c.ackw /\ d.busy = c.busy
  /\ d.done = c.done /\ d.out = c.out /\ d.fatal = c.fatal
  /\ d.sup = c.sup /\ d.taken = c.taken /\ d.floor = c.floor

Told(c, d, ev, pkt, unread, todo) ==
  /\ Alike(c, d)
  /\ d.ev = ev /\ d.pkt = pkt /\ d.unread = unread /\ d.todo = todo

LEMMA AlikeKeeps ==
  ASSUME NEW c, NEW d, Alike(c, d)
  PROVE  /\ Sound(c) => Sound(d)
         /\ Connected(c) => Connected(d)
         /\ \A e : Line(d, e) = Line(c, e)
         /\ \A l : Seen(d, l) = Seen(c, l) /\ (Linked(c, l) => Linked(d, l))
<1>1. Buffers(d) = Buffers(c)
  BY DEF Alike, Buffers
<1>2. ASSUME Sound(c) PROVE Sound(d)
  <2>1. Typing(d) /\ Still(d)
    BY <1>2 DEF Alike, Sound, Typing, Still
  <2>2. Shaped(d) /\ Room(d)
    BY <1>2 DEF Alike, Sound, Shaped, Room
  <2>3. Kept(d)
    BY <1>1, <1>2 DEF Alike, Sound, Kept
  <2> QED  BY <2>1, <2>2, <2>3 DEF Sound
<1>3. \A l : Linked(c, l) => Linked(d, l)
  BY <1>1 DEF Alike, Linked
<1>4. \A l : Seen(d, l) = Seen(c, l)
  BY DEF Alike, Seen
<1>5. \A e : Line(d, e) = Line(c, e)
  BY DEF Alike, Line
<1>6. Connected(c) => Connected(d)
  BY DEF Alike, Connected
<1> QED  BY <1>2, <1>3, <1>4, <1>5, <1>6

\* e becomes g as c becomes d.
Onward(e, g, ev, pkt, unread, todo) ==
  /\ g.peer = e.peer /\ g.wire = e.wire /\ g.up = e.up
  /\ g.ev = ev /\ g.unread = unread /\ g.todo = todo
  /\ ev = "rcvd" => g.in # <<>> /\ pkt = g.in[1]

LEMMA ToldOn ==
  ASSUME NEW c, NEW e, NEW d, NEW g, NEW ev, NEW pkt, NEW unread, NEW todo, NEW l,
         On(c, l, e), Told(c, d, ev, pkt, unread, todo), Onward(e, g, ev, pkt, unread, todo),
         Pair(Seen(c, l), g.in, e.peer, Line(c, e), e.up)
  PROVE  On(d, l, g)
<1>1. Alike(c, d)
  BY DEF Told
<1>2. /\ Sound(d) /\ Linked(d, l) /\ Connected(d)
      /\ Seen(d, l) = Seen(c, l) /\ Line(d, e) = Line(c, e)
  BY <1>1, AlikeKeeps DEF On
<1>3. Hears(d, g)
  BY DEF Told, Onward, Hears
<1>4. d.out \in Seq(LinePacket) /\ l \in {"IStart", "AStart", "Run"}
  BY <1>1 DEF Alike, On
<1>5. Line(d, g) = Line(d, e)
  BY DEF Line, Onward
<1>6. Pair(Seen(d, l), g.in, g.peer, Line(d, g), g.up)
  BY <1>2, <1>5 DEF Onward
<1> QED  BY <1>2, <1>3, <1>4, <1>6 DEF On

LEMMA EventTold ==
  ASSUME NEW c, Typing(c), NEW ev
  PROVE  Told(c, [c EXCEPT !.ev = ev], ev, c.pkt, c.unread, c.todo)
BY DEF Typing, Fields, Told, Alike

LEMMA TodoTold ==
  ASSUME NEW c, Typing(c), NEW todo
  PROVE  Told(c, [c EXCEPT !.todo = todo], c.ev, c.pkt, c.unread, todo)
BY DEF Typing, Fields, Told, Alike

LEMMA AgainTold ==
  ASSUME NEW c, Typing(c)
  PROVE  Told(c, [c EXCEPT !.again = FALSE], c.ev, c.pkt, c.unread, c.todo)
BY DEF Typing, Fields, Told, Alike

LEMMA ReadTold ==
  ASSUME NEW c, Typing(c), NEW pkt, NEW unread
  PROVE  Told(c, [c EXCEPT !.pkt = pkt, !.unread = unread], c.ev, pkt, unread, c.todo)
BY DEF Typing, Fields, Told, Alike

LEMMA ToldTwice ==
  ASSUME NEW c, NEW d, NEW b, NEW ev, NEW pkt, NEW unread, NEW todo,
         NEW ev2, NEW pkt2, NEW unread2, NEW todo2,
         Told(c, d, ev, pkt, unread, todo), Told(d, b, ev2, pkt2, unread2, todo2)
  PROVE  Told(c, b, ev2, pkt2, unread2, todo2)
BY DEF Told, Alike

LEMMA ToldTyping ==
  ASSUME NEW c, Typing(c), NEW d, NEW ev, NEW pkt, NEW unread, NEW todo,
         Told(c, d, ev, pkt, unread, todo)
  PROVE  Typing(d)
BY DEF Told, Alike, Typing

\* What the end of ddcmp_dispatch makes of the scan.
Ended(s, d) ==
  \E todo \in {s.todo, <<"xmit", "svc">> \o s.todo} : Told(s, d, "none", s.pkt, s.unread, todo)

LEMMA DispatchIs ==
  ASSUME NEW c, NEW event, Typing(Scan([c EXCEPT !.ev = event]))
  PROVE  Ended(Scan([c EXCEPT !.ev = event]), Dispatch(c, event))
<1> DEFINE b == [c EXCEPT !.ev = event]
           s == Scan(b)
           d == [s EXCEPT !.ev = "none"]
<1>1. Then(b, Scan) = s
  BY OfOne DEF Then
<1>2. Then(d, Again) = Again(d)
  <2> HIDE DEF d
  <2> QED  BY OfOne DEF Then
<1>3. Dispatch(c, event) = Again(d)
  BY <1>1, <1>2 DEF Dispatch
<1>4. Typing(s)
  OBVIOUS
<1> HIDE DEF s
<1>5. Told(s, d, "none", s.pkt, s.unread, s.todo)
  BY <1>4, EventTold
<1> HIDE DEF d
<1>6. Typing(d) /\ d.todo = s.todo /\ d.ev = "none" /\ d.pkt = s.pkt /\ d.unread = s.unread
  <2>1. Typing(d)
    BY <1>4, <1>5, ToldTyping
  <2> QED  BY <1>5, <2>1 DEF Told
<1>7. ASSUME d.again PROVE Told(s, Again(d), "none", s.pkt, s.unread, <<"xmit", "svc">> \o s.todo)
  <2> DEFINE a == [d EXCEPT !.again = FALSE]
             t == <<"xmit", "svc">> \o a.todo
             h == [a EXCEPT !.todo = t]
  <2>1. Told(d, a, d.ev, d.pkt, d.unread, d.todo)
    BY <1>6, AgainTold
  <2>2. Again(d) = h
    BY <1>7 DEF Again, Calls
  <2> HIDE DEF a
  <2>3. Typing(a)
    BY <1>6, <2>1, ToldTyping
  <2> HIDE DEF t
  <2>4. Told(a, h, a.ev, a.pkt, a.unread, t)
    BY <2>3, TodoTold
  <2> HIDE DEF h
  <2>5. a.ev = "none" /\ a.pkt = s.pkt /\ a.unread = s.unread /\ a.todo = s.todo
    BY <1>6, <2>1 DEF Told
  <2>6. Told(s, a, a.ev, a.pkt, a.unread, a.todo)
    BY <1>5, <1>6, <2>1, <2>5, ToldTwice
  <2>7. Told(s, h, a.ev, a.pkt, a.unread, t)
    BY <2>4, <2>6, ToldTwice
  <2> QED  BY <2>2, <2>5, <2>7 DEF t
<1>8. ASSUME ~d.again PROVE Again(d) = d
  BY <1>8 DEF Again
<1>9. Ended(s, Again(d))
  <2>1. CASE d.again
    BY <1>7, <2>1 DEF Ended
  <2>2. CASE ~d.again
    BY <1>5, <1>8, <2>2 DEF Ended
  <2> QED  BY <2>1, <2>2
<1> QED  BY <1>3, <1>9 DEF s

\* What a controller that works does not see of the line: the packets it
\* does not read in this action, the other end, what was in flight to it,
\* the socket.
Framed(f) ==
  /\ f.rest \in Seq(LinePacket) /\ f.peer \in View /\ f.wire \in Seq(LinePacket)
  /\ f.up \in BOOLEAN
  /\ f.peer.link = "IStart" => f.peer.R = 0 /\ f.peer.A = 0 /\ f.peer.N = 0

Coming(unread, f) == unread \o f.rest

At(c, f) ==
  [in |-> Coming(c.unread, f), peer |-> f.peer, wire |-> f.wire, up |-> f.up,
   ev |-> c.ev, unread |-> c.unread, todo |-> c.todo]

LEMMA AtIs ==
  ASSUME NEW c, NEW f
  PROVE  /\ At(c, f).in = Coming(c.unread, f) /\ At(c, f).peer = f.peer
         /\ At(c, f).wire = f.wire /\ At(c, f).up = f.up
         /\ At(c, f).ev = c.ev /\ At(c, f).unread = c.unread /\ At(c, f).todo = c.todo
BY DEF At

LEMMA SceneAt ==
  ASSUME NEW c, NEW f, Framed(f), c.unread \in Seq(LinePacket)
  PROVE  Scene(At(c, f))
<1>1. Coming(c.unread, f) \in Seq(LinePacket)
  <2> DEFINE u == c.unread
             r == f.rest
  <2>1. u \in Seq(LinePacket) /\ r \in Seq(LinePacket)
    BY DEF Framed
  <2> HIDE DEF u, r
  <2>2. u \o r \in Seq(LinePacket)
    BY <2>1, ConcatProperties
  <2> QED  BY <2>2 DEF Coming, u, r
<1> DEFINE e == At(c, f)
<1>2. e.in = Coming(c.unread, f) /\ e.peer = f.peer /\ e.wire = f.wire /\ e.up = f.up
  BY AtIs
<1> HIDE DEF e
<1>3. Scene(e)
  BY <1>1, <1>2 DEF Scene, Framed
<1> QED  BY <1>3 DEF e

\* What holds of the line with what is on it for the rules holds of it later.
Follows(e, g) ==
  /\ g.peer = e.peer /\ g.wire = e.wire /\ g.up = e.up
  /\ g.ev = "none" /\ g.unread = e.unread
  /\ \A x \in View : \A Wy : Pair(x, e.in, e.peer, Wy, e.up) => Pair(x, g.in, e.peer, Wy, e.up)

LEMMA DispatchOn ==
  ASSUME left.speed = "full", NEW c, NEW event, NEW e, Scene(e),
         \/ Live([c EXCEPT !.ev = event], e)
         \/ Joining([c EXCEPT !.ev = event], e)
  PROVE  /\ Dispatch(c, event).ev = "none" /\ Dispatch(c, event).unread = e.unread
         /\ Dispatch(c, event).todo \in {e.todo, <<"xmit", "svc">> \o e.todo}
         /\ \A g : Follows(e, g) /\ g.todo = Dispatch(c, event).todo => Live(Dispatch(c, event), g)
<1> DEFINE b == [c EXCEPT !.ev = event]
           s == Scan(b)
           d == Dispatch(c, event)
<1>1. Live(s, e)
  <2> HIDE DEF b
  <2> QED  BY ScanOn DEF b
<1>2. Typing(s) /\ s.unread = e.unread /\ s.todo = e.todo
  <2> HIDE DEF s
  <2> QED  BY <1>1 DEF Live, On, Sound, Hears
<1>3. Ended(s, d)
  BY <1>2, DispatchIs
<1> HIDE DEF s, d
<1>4. PICK todo \in {s.todo, <<"xmit", "svc">> \o s.todo} :
        Told(s, d, "none", s.pkt, s.unread, todo)
  BY <1>3 DEF Ended
<1>5. d.ev = "none" /\ d.unread = e.unread /\ d.todo = todo /\ d.link = s.link
  BY <1>2, <1>4 DEF Told, Alike
<1>6. ASSUME NEW g, Follows(e, g), g.todo = d.todo PROVE Live(d, g)
  <2> DEFINE l == s.link
  <2>1. On(s, l, e)
    BY <1>1 DEF Live
  <2>2. Onward(e, g, "none", s.pkt, s.unread, todo)
    BY <1>2, <1>5, <1>6 DEF Follows, Onward
  <2>3. Seen(s, l) \in View
    <3>1. l \in {"Halt", "IStart", "AStart", "Run"}
      BY <2>1 DEF On
    <3> QED  BY <1>2, <3>1, SeenIs
  <2>4. Pair(Seen(s, l), e.in, e.peer, Line(s, e), e.up)
    BY <2>1 DEF On
  <2>5. Pair(Seen(s, l), g.in, e.peer, Line(s, e), e.up)
    BY <1>6, <2>3, <2>4 DEF Follows
  <2> HIDE DEF l
  <2>6. On(d, l, g)
    BY <1>4, <2>1, <2>2, <2>5, ToldOn
  <2> QED  BY <1>5, <2>6 DEF Live, l
<1> QED  BY <1>2, <1>4, <1>5, <1>6 DEF d

\* d works as c did, with no more to do than two more calls.
Works(c, d, f) ==
  /\ Live(d, At(d, f)) /\ d.ev = "none" /\ d.unread \in Seq(LinePacket)
  /\ d.todo \in {c.todo, <<"xmit", "svc">> \o c.todo}

\* A call of ddcmp_dispatch without a packet.
LEMMA DispatchLive ==
  ASSUME left.speed = "full", NEW c, NEW f, Framed(f), c.unread \in Seq(LinePacket),
         c.ev = "none", NEW event \in {"none", "xmit", "timer"},
         Live(c, At(c, f)) \/ Joining(c, At(c, f))
  PROVE  Works(c, Dispatch(c, event), f)
<1> DEFINE b == [c EXCEPT !.ev = event]
           e0 == At(c, f)
           d == Dispatch(c, event)
<1>1. Sound(c) /\ Typing(c)
  BY DEF Live, On, Joining, Sound
<1>2. Told(c, b, event, c.pkt, c.unread, c.todo)
  BY <1>1, EventTold
<1> HIDE DEF b
<1>0. PICK e : /\ e.in = Coming(b.unread, f) /\ e.peer = f.peer /\ e.wire = f.wire /\ e.up = f.up
               /\ e.ev = b.ev /\ e.unread = b.unread /\ e.todo = b.todo
               /\ e = At(b, f)
  BY AtIs
<1>3. /\ e.in = Coming(c.unread, f) /\ e.peer = f.peer /\ e.wire = f.wire /\ e.up = f.up
      /\ e.ev = event /\ e.unread = c.unread /\ e.todo = c.todo /\ Scene(e)
      /\ b.unread = c.unread /\ b.ev = event /\ b.todo = c.todo
      /\ Alike(c, b) /\ b.link = c.link
  <2>1. b.unread = c.unread /\ b.ev = event /\ b.todo = c.todo /\ Alike(c, b) /\ b.link = c.link
    BY <1>2 DEF Told, Alike
  <2>2. Scene(e)
    BY <1>0, <2>1, SceneAt
  <2> QED  BY <1>0, <2>1, <2>2
<1>4. /\ e0.in = Coming(c.unread, f) /\ e0.peer = f.peer /\ e0.wire = f.wire /\ e0.up = f.up
      /\ e0.ev = c.ev /\ e0.unread = c.unread /\ e0.todo = c.todo
  BY AtIs
<1> HIDE DEF e0
<1>5. Onward(e0, e, event, c.pkt, c.unread, c.todo)
  BY <1>3, <1>4 DEF Onward
<1>6. Live(b, e) \/ Joining(b, e)
  <2>1. CASE Live(c, e0)
    <3> DEFINE l == c.link
    <3>1. On(c, l, e0)
      BY <2>1 DEF Live
    <3>2. Pair(Seen(c, l), e.in, e0.peer, Line(c, e0), e0.up)
      BY <1>3, <1>4, <3>1 DEF On
    <3> HIDE DEF l
    <3>3. On(b, l, e)
      BY <1>2, <1>5, <3>1, <3>2, ToldOn
    <3> QED  BY <1>3, <3>3 DEF Live, l
  <2>2. CASE Joining(c, e0)
    <3>1. /\ Sound(b) /\ Connected(b) /\ Line(b, e) = Line(c, e) /\ Seen(b, "Halt") = Seen(c, "Halt")
      BY <1>3, <2>2, AlikeKeeps DEF Joining
    <3>2. Line(c, e) = Line(c, e0)
      BY <1>3, <1>4 DEF Line
    <3>3. Hears(b, e) /\ b.link = "Halt" /\ b.out \in Seq(LinePacket)
      BY <1>3, <2>2 DEF Hears, Alike, Joining
    <3>4. e.up = TRUE /\ Pair(Seen(b, "Halt"), e.in, e.peer, Line(b, e), TRUE)
      BY <1>3, <1>4, <2>2, <3>1, <3>2 DEF Joining
    <3> QED  BY <3>1, <3>3, <3>4 DEF Joining
  <2> QED  BY <2>1, <2>2 DEF e0
<1>7. /\ d.ev = "none" /\ d.unread = e.unread
      /\ d.todo \in {e.todo, <<"xmit", "svc">> \o e.todo}
      /\ \A h : Follows(e, h) /\ h.todo = d.todo => Live(d, h)
  <2>1. Scene(e) /\ (Live([c EXCEPT !.ev = event], e) \/ Joining([c EXCEPT !.ev = event], e))
    BY <1>3, <1>6 DEF b
  <2> QED  BY <2>1, DispatchOn
<1> HIDE DEF d
<1>8. PICK g : /\ g.in = Coming(d.unread, f) /\ g.peer = f.peer /\ g.wire = f.wire /\ g.up = f.up
               /\ g.ev = d.ev /\ g.unread = d.unread /\ g.todo = d.todo
               /\ g = At(d, f)
  BY AtIs
<1>9. Follows(e, g)
  BY <1>3, <1>7, <1>8 DEF Follows
<1>10. Live(d, At(d, f))
  BY <1>7, <1>8, <1>9
<1> QED  BY <1>3, <1>7, <1>10 DEF d, Works

\* A packet is taken from the line and dispatched.
LEMMA ReadLive ==
  ASSUME left.speed = "full", NEW c, NEW f, Framed(f), c.unread \in Seq(LinePacket),
         c.ev = "none", Live(c, At(c, f)), c.unread # <<>>
  PROVE  Works(c, Dispatch([c EXCEPT !.pkt = Head(c.unread), !.unread = Tail(@)], "rcvd"), f)
<1> DEFINE p == Head(c.unread)
           u == Tail(c.unread)
           a == [c EXCEPT !.pkt = p, !.unread = u]
           b == [a EXCEPT !.ev = "rcvd"]
           e0 == At(c, f)
           e == [in |-> Coming(c.unread, f), peer |-> f.peer, wire |-> f.wire, up |-> f.up,
                 ev |-> "rcvd", unread |-> u, todo |-> c.todo]
           d == Dispatch([c EXCEPT !.pkt = Head(c.unread), !.unread = Tail(@)], "rcvd")
<1>1. Typing(c)
  BY DEF Live, On, Sound
<1>2. d = Dispatch(a, "rcvd")
  <2>1. a = [c EXCEPT !.pkt = Head(c.unread), !.unread = Tail(@)]
    BY <1>1 DEF Typing, Fields
  <2> HIDE DEF a
  <2> QED  BY <2>1 DEF Fill
<1>3. /\ Coming(c.unread, f) \in Seq(LinePacket) /\ Coming(c.unread, f) # <<>>
      /\ Coming(c.unread, f)[1] = p /\ u \in Seq(LinePacket)
      /\ Tail(Coming(c.unread, f)) = Coming(u, f)
  <2> DEFINE v == c.unread
             r == f.rest
             w == v \o r
  <2>1. /\ v \in Seq(LinePacket) /\ r \in Seq(LinePacket) /\ v # <<>> /\ Len(v) \in Nat
        /\ Len(r) \in Nat
    BY LenProperties DEF Framed
  <2> HIDE DEF v, r
  <2>2. Len(v) >= 1
    BY <2>1, EmptySeq
  <2>3. /\ w \in Seq(LinePacket) /\ Len(w) = Len(v) + Len(r)
        /\ \A i \in 1 .. Len(v) : w[i] = v[i]
        /\ \A i \in Len(v) + 1 .. Len(w) : w[i] = r[i - Len(v)]
    BY <2>1, ConcatProperties
  <2>4. Tail(v) \in Seq(LinePacket) /\ Len(Tail(v)) = Len(v) - 1
        /\ \A j \in 1 .. Len(Tail(v)) : Tail(v)[j] = v[j + 1]
    BY <2>1, TailIndex
  <2> HIDE DEF w
  <2>5. w # <<>> /\ w[1] = v[1]
    BY <2>1, <2>2, <2>3
  <2>6. Tail(w) \in Seq(LinePacket) /\ Len(Tail(w)) = Len(w) - 1
        /\ \A j \in 1 .. Len(Tail(w)) : Tail(w)[j] = w[j + 1]
    BY <2>3, <2>5, TailIndex
  <2>7. /\ Tail(v) \o r \in Seq(LinePacket) /\ Len(Tail(v) \o r) = Len(Tail(v)) + Len(r)
        /\ \A i \in 1 .. Len(Tail(v)) : (Tail(v) \o r)[i] = Tail(v)[i]
        /\ \A i \in Len(Tail(v)) + 1 .. Len(Tail(v) \o r) :
             (Tail(v) \o r)[i] = r[i - Len(Tail(v))]
    BY <2>1, <2>4, ConcatProperties
  <2> DEFINE x == Tail(v) \o r
             y == Tail(w)
             t == Tail(v)
  <2> HIDE DEF x, y, t
  <2>8. Len(x) = Len(y) /\ \A i \in 1 .. Len(x) : x[i] = y[i]
    <3>1. Len(x) = Len(y) /\ Len(t) \in Nat /\ Len(x) = Len(t) + Len(r) /\ Len(t) = Len(v) - 1
      BY <2>1, <2>2, <2>3, <2>4, <2>6, <2>7 DEF x, y, t
    <3>2. ASSUME NEW i \in 1 .. Len(x) PROVE x[i] = y[i]
      <4>1. y[i] = w[i + 1] /\ i + 1 \in 1 .. Len(w)
        BY <2>6, <3>1, <2>3, <2>1 DEF y
      <4>2. CASE i <= Len(t)
        <5>1. x[i] = v[i + 1] /\ i + 1 \in 1 .. Len(v)
          BY <2>4, <2>7, <3>1, <4>2, <2>1 DEF x, t
        <5> QED  BY <2>3, <4>1, <5>1
      <4>3. CASE ~(i <= Len(t))
        <5>1. i \in Len(t) + 1 .. Len(x)
          BY <3>1, <4>3
        <5>2. x[i] = r[i - Len(t)]
          BY <2>7, <5>1 DEF x, t
        <5>3. i + 1 \in Len(v) + 1 .. Len(w) /\ (i + 1) - Len(v) = i - Len(t)
          BY <2>1, <3>1, <4>1, <5>1
        <5> QED  BY <2>3, <4>1, <5>2, <5>3
      <4> QED  BY <4>2, <4>3
    <3> QED  BY <3>1, <3>2
  <2>9. x = y
    <3>1. x \in Seq(LinePacket) /\ y \in Seq(LinePacket)
      BY <2>6, <2>7 DEF x, y
    <3> QED  BY <2>8, <3>1, SeqEqual
  <2>10. Head(v) = v[1]
    BY <2>1
  <2> QED  BY <2>1, <2>3, <2>4, <2>5, <2>9, <2>10 DEF x, y, w, v, r, Coming
<1>4. Told(c, a, c.ev, p, u, c.todo)
  BY <1>1, ReadTold
<1> HIDE DEF a
<1>5. Typing(a)
  BY <1>1, <1>4, ToldTyping
<1>6. Told(a, b, "rcvd", a.pkt, a.unread, a.todo)
  BY <1>5, EventTold
<1> HIDE DEF b
<1>7. a.pkt = p /\ a.unread = u /\ a.todo = c.todo
  BY <1>4 DEF Told
<1>8. Told(c, b, "rcvd", p, u, c.todo)
  BY <1>4, <1>6, <1>7, ToldTwice
<1> HIDE DEF p, u
<1>9. /\ e0.in = Coming(c.unread, f) /\ e0.peer = f.peer /\ e0.wire = f.wire /\ e0.up = f.up
  BY AtIs
<1>10. /\ e.in = Coming(c.unread, f) /\ e.peer = f.peer /\ e.wire = f.wire /\ e.up = f.up
       /\ e.ev = "rcvd" /\ e.unread = u /\ e.todo = c.todo
  OBVIOUS
<1> HIDE DEF e0, e
<1>11. Scene(e)
  BY <1>3, <1>10 DEF Scene, Framed
<1>12. Onward(e0, e, "rcvd", p, u, c.todo)
  BY <1>3, <1>9, <1>10 DEF Onward
<1>13. Live(b, e)
  <2> DEFINE l == c.link
  <2>1. On(c, l, e0)
    BY DEF Live, e0
  <2>2. Pair(Seen(c, l), e.in, e0.peer, Line(c, e0), e0.up)
    BY <1>9, <1>10, <2>1 DEF On
  <2> HIDE DEF l
  <2>3. On(b, l, e)
    BY <1>8, <1>12, <2>1, <2>2, ToldOn
  <2>4. b.link = c.link
    BY <1>8 DEF Told, Alike
  <2> QED  BY <2>3, <2>4 DEF Live, l
<1>14. /\ d.ev = "none" /\ d.unread = e.unread
       /\ d.todo \in {e.todo, <<"xmit", "svc">> \o e.todo}
       /\ \A h : Follows(e, h) /\ h.todo = d.todo => Live(d, h)
  BY <1>2, <1>11, <1>13, DispatchOn DEF b
<1> HIDE DEF d
<1>15. PICK g : /\ g.in = Coming(d.unread, f) /\ g.peer = f.peer /\ g.wire = f.wire /\ g.up = f.up
                /\ g.ev = d.ev /\ g.unread = d.unread /\ g.todo = d.todo
                /\ g = At(d, f)
  BY AtIs
<1>16. ASSUME NEW x \in View, NEW Wy, Pair(x, e.in, e.peer, Wy, e.up)
       PROVE  Pair(x, g.in, e.peer, Wy, e.up)
  <2>1. g.in = Tail(e.in) /\ e.in \in Seq(LinePacket) /\ e.in # <<>>
    BY <1>3, <1>10, <1>14, <1>15 DEF u
  <2>2. e.peer \in View /\ e.up \in BOOLEAN
    BY <1>11 DEF Scene
  <2>3. Pair(x, Tail(e.in), e.peer, Wy, e.up)
    BY <1>16, <2>1, <2>2, PairTaken
  <2> QED  BY <2>1, <2>3
<1>17. Follows(e, g)
  BY <1>10, <1>14, <1>15, <1>16 DEF Follows
<1>18. Live(d, At(d, f))
  BY <1>14, <1>15, <1>17
<1> QED  BY <1>3, <1>10, <1>14, <1>18 DEF d, u, Works

\* Another event, packet or list of calls: c works, or is down, as before.
LEMMA ToldLive ==
  ASSUME NEW c, NEW d, NEW f, NEW pkt, NEW todo, c.ev = "none",
         Told(c, d, "none", pkt, c.unread, todo)
  PROVE  /\ Live(c, At(c, f)) => Live(d, At(d, f))
         /\ Joining(c, At(c, f)) => Joining(d, At(d, f))
<1>1. PICK e : /\ e.in = Coming(c.unread, f) /\ e.peer = f.peer /\ e.wire = f.wire /\ e.up = f.up
               /\ e.ev = c.ev /\ e.unread = c.unread /\ e.todo = c.todo
               /\ e = At(c, f)
  BY AtIs
<1>2. PICK g : /\ g.in = Coming(d.unread, f) /\ g.peer = f.peer /\ g.wire = f.wire /\ g.up = f.up
               /\ g.ev = d.ev /\ g.unread = d.unread /\ g.todo = d.todo
               /\ g = At(d, f)
  BY AtIs
<1>3. /\ d.unread = c.unread /\ d.ev = "none" /\ d.todo = todo /\ d.pkt = pkt
      /\ Alike(c, d) /\ d.link = c.link
  BY DEF Told, Alike
<1>4. Onward(e, g, "none", pkt, c.unread, todo) /\ g.in = e.in
  BY <1>1, <1>2, <1>3 DEF Onward
<1>5. ASSUME Live(c, e) PROVE Live(d, g)
  <2> DEFINE l == c.link
  <2>1. On(c, l, e)
    BY <1>5 DEF Live
  <2>2. Pair(Seen(c, l), g.in, e.peer, Line(c, e), e.up)
    BY <1>4, <2>1 DEF On
  <2> HIDE DEF l
  <2>3. On(d, l, g)
    BY <1>4, <2>1, <2>2, ToldOn
  <2> QED  BY <1>3, <2>3 DEF Live, l
<1>6. ASSUME Joining(c, e) PROVE Joining(d, g)
  <2>1. /\ Sound(d) /\ Connected(d) /\ Line(d, g) = Line(c, g) /\ Seen(d, "Halt") = Seen(c, "Halt")
    BY <1>3, <1>6, AlikeKeeps DEF Joining
  <2>2. Line(c, g) = Line(c, e)
    BY <1>1, <1>2 DEF Line
  <2>3. Hears(d, g) /\ d.link = "Halt" /\ d.out \in Seq(LinePacket)
    BY <1>2, <1>3, <1>6 DEF Hears, Alike, Joining
  <2>4. g.up = TRUE /\ Pair(Seen(d, "Halt"), g.in, g.peer, Line(d, g), TRUE)
    BY <1>1, <1>2, <1>4, <1>6, <2>1, <2>2 DEF Joining
  <2> QED  BY <2>1, <2>3, <2>4 DEF Joining
<1> QED  BY <1>1, <1>2, <1>5, <1>6

\* c has lost its connection: nothing comes and nothing goes.
Idle(c, f) ==
  /\ Sound(c) /\ c.conn = FALSE /\ c.unread = <<>> /\ c.out = <<>>
  /\ Pair(Seen(c, "Halt"), f.rest, f.peer, f.wire, f.up)

Down(c, f) == Idle(c, f) /\ c.link = "Halt" /\ c.car = FALSE

\* What an idle controller keeps.
Bare(c, d) ==
  /\ d.conn = c.conn /\ d.fail = c.fail /\ d.room = c.room
  /\ d.R = c.R /\ d.N = c.N /\ d.A = c.A /\ d.T = c.T
  /\ d.rcv = c.rcv /\ d.comp = c.comp /\ d.xmtq = c.xmtq /\ d.ackw = c.ackw /\ d.busy = c.busy
  /\ d.done = c.done /\ d.out = c.out /\ d.fatal = c.fatal
  /\ d.sup = c.sup /\ d.taken = c.taken /\ d.floor = c.floor

LEMMA BareIdle ==
  ASSUME NEW c, NEW d, NEW f, Idle(c, f), Bare(c, d), Typing(d), d.unread = <<>>
  PROVE  Idle(d, f)
<1>1. Buffers(d) = Buffers(c)
  BY DEF Bare, Buffers
<1>2. Still(d) /\ Shaped(d) /\ Room(d)
  BY DEF Bare, Idle, Sound, Still, Shaped, Room
<1>3. Kept(d)
  BY <1>1 DEF Bare, Idle, Sound, Kept
<1>4. Seen(d, "Halt") = Seen(c, "Halt") /\ d.conn = FALSE /\ d.out = <<>>
  BY DEF Bare, Idle, Seen
<1> QED  BY <1>2, <1>3, <1>4 DEF Idle, Sound

LEMMA ToldDown ==
  ASSUME NEW c, NEW d, NEW f, Down(c, f), NEW ev, NEW pkt, NEW todo,
         Told(c, d, ev, pkt, c.unread, todo)
  PROVE  Down(d, f)
<1>1. Typing(d)
  BY ToldTyping DEF Down, Idle, Sound
<1>2. Bare(c, d) /\ d.unread = <<>> /\ d.link = "Halt" /\ d.car = FALSE
  BY DEF Told, Alike, Bare, Down, Idle
<1> QED  BY <1>1, <1>2, BareIdle DEF Down

\* The calls there are at full speed.
Names ==
  {"none", "xmit", "timer", "svc", "queued", "fill", "command", "carrier", "send", "incoming"}

\* c goes on, connected or not.
Goes(c, f) ==
  /\ c.ev = "none" /\ c.todo \in Seq(Names) /\ c.unread \in Seq(LinePacket)
  /\ Live(c, At(c, f)) \/ Down(c, f)

LEMMA MoreNames ==
  ASSUME NEW todo \in Seq(Names)
  PROVE  /\ <<"xmit", "svc">> \o todo \in Seq(Names)
         /\ <<"queued", "fill">> \o todo \in Seq(Names) /\ <<"none">> \o todo \in Seq(Names)
         /\ <<"fill">> \o todo \in Seq(Names) /\ <<"fill", "svc">> \o todo \in Seq(Names)
<1>1. /\ <<"xmit", "svc">> \in Seq(Names) /\ <<"queued", "fill">> \in Seq(Names)
      /\ <<"none">> \in Seq(Names) /\ <<"fill">> \in Seq(Names) /\ <<"fill", "svc">> \in Seq(Names)
  BY DEF Names
<1> QED  BY <1>1, ConcatProperties

LEMMA ToldGoes ==
  ASSUME NEW c, NEW d, NEW f, Goes(c, f), NEW pkt, NEW todo \in Seq(Names),
         Told(c, d, "none", pkt, c.unread, todo)
  PROVE  Goes(d, f)
<1>1. d.ev = "none" /\ d.todo \in Seq(Names) /\ d.unread \in Seq(LinePacket)
  BY DEF Told, Goes
<1>2. Live(d, At(d, f)) \/ Down(d, f)
  BY ToldLive, ToldDown DEF Goes
<1> QED  BY <1>1, <1>2 DEF Goes

LEMMA CallsGo ==
  ASSUME NEW c, NEW f, Goes(c, f)
  PROVE  /\ Goes(Calls(c, <<"queued", "fill">>), f) /\ Goes(Calls(c, <<"none">>), f)
         /\ Goes(Calls(c, <<"fill">>), f) /\ Goes(Calls(c, <<"fill", "svc">>), f)
<1>1. Typing(c) /\ c.ev = "none"
  BY DEF Goes, Live, On, Down, Idle, Sound
<1>2. ASSUME NEW todo \in Seq(Names) PROVE Goes([c EXCEPT !.todo = todo], f)
  <2>1. Told(c, [c EXCEPT !.todo = todo], "none", c.pkt, c.unread, todo)
    BY <1>1, TodoTold
  <2> QED  BY <2>1, ToldGoes
<1>3. ASSUME NEW calls, calls \o c.todo \in Seq(Names) PROVE Goes(Calls(c, calls), f)
  <2> DEFINE t == calls \o c.todo
  <2>1. Calls(c, calls) = [c EXCEPT !.todo = t]
    BY <1>1 DEF Calls, Typing, Fields
  <2> QED  BY <1>2, <1>3, <2>1
<1>4. c.todo \in Seq(Names)
  BY DEF Goes
<1> QED  BY <1>3, <1>4, MoreNames

LEMMA ServiceGoes ==
  ASSUME NEW c, NEW f, Goes(c, f)
  PROVE  /\ Goes(Service(c), f) /\ Goes(AfterCommand(c), f) /\ Goes(SendPending(c), f)
         /\ Goes(Queued(c), f) /\ Goes(Carrier(c), f) /\ Goes(Incoming(c), f)
<1>1. c.busy = 0 /\ ~(c.car /\ ~c.conn)
  BY DEF Goes, Live, On, Down, Idle, Sound, Still, Connected
<1>2. Goes(Service(c), f)
  <2>1. Service(c) = Calls(c, <<"queued", "fill">>)
    BY <1>1, Zenon DEF Service
  <2> QED  BY <2>1, CallsGo
<1>3. AfterCommand(c) = Service(c)
  BY <1>1, Zenon DEF AfterCommand
<1>4. SendPending(c) = Service(c) \/ SendPending(c) = c
  BY Zenon DEF SendPending
<1>5. Queued(c) = Calls(c, <<"none">>) \/ Queued(c) = c
  BY Zenon DEF Queued
<1>6. Carrier(c) = c
  BY <1>1, Zenon DEF Carrier
<1>7. Incoming(c) = Calls(c, <<"fill", "svc">>) \/ Incoming(c) = c
  BY Zenon DEF Incoming
<1> QED  BY <1>2, <1>3, <1>4, <1>5, <1>6, <1>7, CallsGo

\* A call of ddcmp_dispatch while the line is down.
LEMMA DispatchDown ==
  ASSUME NEW c, NEW f, Down(c, f), c.todo \in Seq(Names), NEW event
  PROVE  Goes(Dispatch(c, event), f)
<1> DEFINE b == [c EXCEPT !.ev = event]
           d == Dispatch(c, event)
<1>1. Typing(c)
  BY DEF Down, Idle, Sound
<1>2. Told(c, b, event, c.pkt, c.unread, c.todo)
  BY <1>1, EventTold
<1> HIDE DEF b
<1>3. Typing(b)
  BY <1>1, <1>2, ToldTyping
<1>4. b.link = "Halt" /\ b.car = FALSE /\ b.unread = c.unread /\ b.todo = c.todo /\ b.pkt = c.pkt
  BY <1>2 DEF Told, Alike, Down
<1>5. Scan(b) = b
  BY <1>4, ScanOff
<1>6. Ended(b, d)
  BY <1>3, <1>5, DispatchIs DEF b
<1> HIDE DEF d
<1>7. PICK todo \in {b.todo, <<"xmit", "svc">> \o b.todo} :
        Told(b, d, "none", b.pkt, b.unread, todo)
  BY <1>6 DEF Ended
<1>8. Told(c, d, "none", c.pkt, c.unread, todo)
  BY <1>2, <1>4, <1>7, ToldTwice
<1>9. Down(d, f)
  BY <1>8, ToldDown
<1>10. todo \in Seq(Names)
  BY <1>4, <1>7, MoreNames
<1>11. d.unread = <<>> /\ d.ev = "none" /\ d.todo = todo
  BY <1>8, <1>9 DEF Told, Down, Idle
<1>12. <<>> \in Seq(LinePacket)
  OBVIOUS
<1> QED  BY <1>9, <1>10, <1>11, <1>12 DEF Goes, d

\* dmc_poll_svc when the connection is gone.
LEMMA CarrierDown ==
  ASSUME NEW c, NEW f, Idle(c, f), c.link \in {"IStart", "AStart", "Run"}, c.car = TRUE,
         c.todo \in Seq(Names)
  PROVE  Goes(Carrier(c), f)
<1> DEFINE a == [c EXCEPT !.car = FALSE]
           b == [a EXCEPT !.ev = "none"]
           s == Scan(b)
           d == Dispatch(a, "none")
<1>1. Typing(c) /\ c.conn = FALSE /\ c.unread = <<>>
  BY DEF Idle, Sound
<1>2. Carrier(c) = d
  BY <1>1, Zenon DEF Carrier
<1>3. Typing(a) /\ Bare(c, a) /\ a.car = FALSE /\ a.link = c.link /\ a.unread = <<>> /\ a.todo = c.todo
  BY <1>1 DEF Typing, Fields, Bare
<1> HIDE DEF a
<1>4. Told(a, b, "none", a.pkt, a.unread, a.todo)
  BY <1>3, EventTold
<1> HIDE DEF b
<1>5. Typing(b)
  BY <1>3, <1>4, ToldTyping
<1>6. /\ b.car = FALSE /\ b.link = c.link /\ b.ev = "none" /\ b.unread = <<>> /\ b.todo = c.todo
      /\ Bare(a, b)
  BY <1>3, <1>4 DEF Told, Alike, Bare
<1>7. Same(b, s) /\ s.link = "Halt"
  BY <1>5, <1>6, ScanDrop
<1>8. Ended(s, d)
  <2>1. Typing(Scan(b))
    BY <1>5, <1>7, SameTyping
  <2> QED  BY <2>1, DispatchIs DEF b
<1> HIDE DEF s, d
<1>9. Typing(s) /\ Bare(b, s) /\ s.unread = <<>> /\ s.todo = c.todo /\ s.car = FALSE
  <2>1. Typing(s)
    BY <1>5, <1>7, SameTyping
  <2> QED  BY <1>6, <1>7, <2>1 DEF Same, Bare
<1>10. Bare(c, s)
  BY <1>3, <1>6, <1>9 DEF Bare
<1>11. Down(s, f)
  BY <1>7, <1>9, <1>10, BareIdle DEF Down
<1>12. PICK todo \in {s.todo, <<"xmit", "svc">> \o s.todo} :
         Told(s, d, "none", s.pkt, s.unread, todo)
  BY <1>8 DEF Ended
<1>13. Down(d, f)
  BY <1>11, <1>12, ToldDown
<1>14. todo \in Seq(Names)
  BY <1>9, <1>12, MoreNames
<1>15. d.unread = <<>> /\ d.ev = "none" /\ d.todo = todo
  BY <1>9, <1>12 DEF Told
<1>16. <<>> \in Seq(LinePacket)
  OBVIOUS
<1> QED  BY <1>2, <1>13, <1>14, <1>15, <1>16 DEF Goes

\* c at the start of an action or within it: it goes on, or the next call
\* finds that it has a connection, or that it has lost it.
Working(c, f) ==
  /\ c.ev = "none" /\ c.todo \in Seq(Names) /\ c.unread \in Seq(LinePacket)
  /\ \/ Live(c, At(c, f))
     \/ Down(c, f)
     \/ Joining(c, At(c, f)) /\ c.todo # <<>> /\ Head(c.todo) = "none"
     \/ /\ Idle(c, f) /\ c.link \in {"IStart", "AStart", "Run"} /\ c.car = TRUE
        /\ c.todo # <<>> /\ Head(c.todo) = "carrier"

LEMMA WorksGo ==
  ASSUME NEW c, NEW d, NEW f, Works(c, d, f), c.todo \in Seq(Names)
  PROVE  Goes(d, f)
BY MoreNames DEF Works, Goes

LEMMA DispatchGoes ==
  ASSUME left.speed = "full", NEW c, NEW f, Framed(f), Goes(c, f)
  PROVE  /\ \A call \in {"none", "xmit", "timer"} : Goes(Dispatch(c, call), f)
         /\ Goes(Fill(c), f)
<1>1. c.ev = "none" /\ c.todo \in Seq(Names) /\ c.unread \in Seq(LinePacket)
  BY DEF Goes
<1>2. CASE Live(c, At(c, f))
  <2>1. \A call \in {"none", "xmit", "timer"} : Works(c, Dispatch(c, call), f)
    BY <1>1, <1>2, DispatchLive
  <2>2. ASSUME Readable(c) PROVE Goes(Fill(c), f)
    <3> DEFINE b == Calls(c, <<"fill">>)
               a == [b EXCEPT !.pkt = Head(c.unread), !.unread = Tail(@)]
    <3>1. Typing(c)
      BY <1>2 DEF Live, On, Sound
    <3>2. /\ Told(c, b, "none", c.pkt, c.unread, <<"fill">> \o c.todo)
          /\ b.unread = c.unread /\ b.todo = <<"fill">> \o c.todo /\ b.ev = "none"
      <4> DEFINE t == <<"fill">> \o c.todo
      <4>1. b = [c EXCEPT !.todo = t]
        BY <3>1 DEF Calls, Typing, Fields
      <4> HIDE DEF b, t
      <4>2. Told(c, b, "none", c.pkt, c.unread, t)
        BY <1>1, <3>1, <4>1, TodoTold
      <4>3. b.unread = c.unread /\ b.todo = t /\ b.ev = "none"
        BY <4>2 DEF Told
      <4> QED  BY <4>2, <4>3 DEF t
    <3> HIDE DEF b
    <3>3. Live(b, At(b, f))
      BY <1>1, <1>2, <3>2, ToldLive
    <3>4. b.unread # <<>> /\ b.unread \in Seq(LinePacket)
      BY <1>1, <2>2, <3>2 DEF Readable
    <3>5. a = [b EXCEPT !.pkt = Head(b.unread), !.unread = Tail(@)]
      BY <3>2
    <3>6. Works(b, Dispatch(a, "rcvd"), f)
      <4> HIDE DEF a
      <4> QED  BY <3>2, <3>3, <3>4, <3>5, ReadLive
    <3>7. Fill(c) = Dispatch(a, "rcvd")
      BY <2>2, Zenon DEF Fill, b
    <3>8. b.todo \in Seq(Names)
      BY <1>1, <3>2, MoreNames
    <3> HIDE DEF a
    <3> QED  BY <3>6, <3>7, <3>8, WorksGo
  <2>3. ASSUME ~Readable(c) PROVE Goes(Fill(c), f)
    <3>1. Fill(c) = c
      BY <2>3, Zenon DEF Fill
    <3> QED  BY <1>2, <3>1
  <2>4. \A call \in {"none", "xmit", "timer"} : Goes(Dispatch(c, call), f)
    BY <1>1, <2>1, WorksGo
  <2> QED  BY <2>2, <2>3, <2>4
<1>3. CASE Down(c, f)
  <2>1. \A call : Goes(Dispatch(c, call), f)
    BY <1>1, <1>3, DispatchDown
  <2>2. Fill(c) = c
    <3>1. ~Readable(c)
      BY <1>3 DEF Down, Idle, Readable
    <3> QED  BY <3>1, Zenon DEF Fill
  <2> QED  BY <2>1, <2>2
<1> QED  BY <1>2, <1>3 DEF Goes

LEMMA StepGoes ==
  ASSUME left.speed = "full", NEW c, NEW f, Framed(f), Working(c, f)
  PROVE  Goes(Step(c), f)
<1> DEFINE call == Head(c.todo)
           rest == Tail(c.todo)
           d == [c EXCEPT !.todo = Tail(@)]
<1>1. Typing(c) /\ c.ev = "none" /\ c.todo \in Seq(Names) /\ c.unread \in Seq(LinePacket)
  BY DEF Working, Live, On, Down, Joining, Idle, Sound
<1>2. CASE c.todo = <<>>
  <2>1. Step(c) = c
    BY <1>2, Zenon DEF Step
  <2> QED  BY <1>2, <2>1 DEF Working, Goes
<1>3. CASE c.todo # <<>>
  <2>1. call \in Names /\ rest \in Seq(Names)
    BY <1>1, <1>3, HeadTailProperties
  <2>2. Told(c, d, "none", c.pkt, c.unread, rest)
    <3>1. d = [c EXCEPT !.todo = rest]
      BY <1>1 DEF Typing, Fields
    <3> HIDE DEF d, rest
    <3> QED  BY <1>1, <3>1, TodoTold
  <2>3. Step(c) = CASE call \in {"none", "xmit", "timer"} -> Dispatch(d, call)
                    [] call = "fill" -> Fill(d)
                    [] call = "svc" -> Service(d)
                    [] call = "complete" -> CompleteTransmit(d)
                    [] call = "start" -> StartTransmitter(d)
                    [] call = "queued" -> Queued(d)
                    [] call = "command" -> AfterCommand(d)
                    [] call = "carrier" -> Carrier(d)
                    [] call = "send" -> SendPending(d)
                    [] OTHER -> Incoming(d)
    BY <1>3, Zenon DEF Step
  <2>9. \/ Live(c, At(c, f)) \/ (Joining(c, At(c, f)) /\ call = "none")
        \/ Down(c, f)
        \/ (Idle(c, f) /\ c.link \in {"IStart", "AStart", "Run"} /\ c.car = TRUE /\ call = "carrier")
    BY Zenon DEF Working
  <2> HIDE DEF call, d, rest
  <2>4. /\ d.ev = "none" /\ d.todo \in Seq(Names) /\ d.unread \in Seq(LinePacket)
        /\ d.unread = c.unread /\ Alike(c, d) /\ d.link = c.link /\ d.car = c.car
    BY <1>1, <2>1, <2>2 DEF Told, Alike
  <2>5. \/ Goes(d, f)
        \/ Joining(d, At(d, f)) /\ call = "none"
        \/ Idle(d, f) /\ d.link \in {"IStart", "AStart", "Run"} /\ d.car = TRUE /\ call = "carrier"
    <3>1. CASE Live(c, At(c, f)) \/ (Joining(c, At(c, f)) /\ call = "none")
      <4>1. Live(d, At(d, f)) \/ (Joining(d, At(d, f)) /\ call = "none")
        BY <1>1, <2>2, <3>1, ToldLive
      <4>2. CASE Live(d, At(d, f))
        BY <2>4, <4>2 DEF Goes
      <4> QED  BY <4>1, <4>2
    <3>2. CASE Down(c, f)
      <4>1. Down(d, f)
        BY <2>2, <3>2, ToldDown
      <4> QED  BY <2>4, <4>1 DEF Goes
    <3>3. CASE Idle(c, f) /\ c.link \in {"IStart", "AStart", "Run"} /\ c.car = TRUE /\ call = "carrier"
      <4>1. Bare(c, d) /\ d.unread = <<>>
        BY <2>4, <3>3 DEF Alike, Bare, Idle
      <4>2. Typing(d)
        BY <1>1, <2>2, ToldTyping
      <4>3. Idle(d, f)
        BY <3>3, <4>1, <4>2, BareIdle
      <4>4. d.link \in {"IStart", "AStart", "Run"} /\ d.car = TRUE /\ call = "carrier"
        BY <2>4, <3>3
      <4> QED  BY <4>3, <4>4
    <3> QED  BY <2>9, <3>1, <3>2, <3>3
  <2>6. CASE Goes(d, f)
    <3>1. /\ Goes(Service(d), f) /\ Goes(AfterCommand(d), f) /\ Goes(SendPending(d), f)
          /\ Goes(Queued(d), f) /\ Goes(Carrier(d), f) /\ Goes(Fill(d), f)
          /\ Goes(Incoming(d), f)
          /\ \A k \in {"none", "xmit", "timer"} : Goes(Dispatch(d, k), f)
      BY <2>6, ServiceGoes, DispatchGoes
    <3>2. CASE call \in {"none", "xmit", "timer"}
      <4>1. Step(c) = Dispatch(d, call)
        BY <2>3, <3>2
      <4> QED  BY <3>1, <3>2, <4>1
    <3>3. CASE call = "fill"
      BY <2>3, <3>1, <3>3
    <3>4. CASE call = "svc"
      BY <2>3, <3>1, <3>4
    <3>5. CASE call = "queued"
      BY <2>3, <3>1, <3>5
    <3>6. CASE call = "command"
      BY <2>3, <3>1, <3>6
    <3>7. CASE call = "carrier"
      BY <2>3, <3>1, <3>7
    <3>8. CASE call = "send"
      BY <2>3, <3>1, <3>8
    <3>9. CASE call = "incoming"
      BY <2>3, <3>1, <3>9
    <3> QED  BY <2>1, <3>2, <3>3, <3>4, <3>5, <3>6, <3>7, <3>8, <3>9 DEF Names
  <2>7. CASE Joining(d, At(d, f)) /\ call = "none"
    <3>1. Step(c) = Dispatch(d, "none")
      BY <2>3, <2>7
    <3>2. Works(d, Dispatch(d, "none"), f)
      BY <2>4, <2>7, DispatchLive
    <3> QED  BY <2>4, <3>1, <3>2, WorksGo
  <2>8. CASE /\ Idle(d, f) /\ d.link \in {"IStart", "AStart", "Run"}
             /\ d.car = TRUE /\ call = "carrier"
    <3>1. Step(c) = Carrier(d)
      BY <2>3, <2>8
    <3> QED  BY <2>4, <2>8, <3>1, CarrierDown
  <2> QED  BY <2>5, <2>6, <2>7, <2>8
<1> QED  BY <1>2, <1>3

\* The first k calls of c.
Steps(g, c, k) == g = [n \in 0 .. k |-> IF n = 0 THEN c ELSE Step(g[n - 1])]

LEMMA StepsExist ==
  ASSUME NEW c, NEW m \in Nat
  PROVE  \E g : Steps(g, c, m)
<1> DEFINE S == {k \in 0 .. m : \E g : Steps(g, c, k)}
<1>1. 0 \in S
  <2> DEFINE g == [n \in 0 .. 0 |-> c]
  <2>1. g = [n \in 0 .. 0 |-> IF n = 0 THEN c ELSE Step(g[n - 1])]
    <3>1. \A n \in 0 .. 0 : n = 0
      OBVIOUS
    <3> HIDE DEF g
    <3>2. [n \in 0 .. 0 |-> c] = [n \in 0 .. 0 |-> IF n = 0 THEN c ELSE Step(g[n - 1])]
      BY <3>1
    <3> QED  BY <3>2 DEF g
  <2> HIDE DEF g
  <2>2. Steps(g, c, 0)
    BY <2>1 DEF Steps
  <2> QED  BY <2>2
<1>2. ASSUME NEW k \in 0 .. m - 1, k \in S PROVE k + 1 \in S
  <2>1. PICK g : Steps(g, c, k)
    BY <1>2
  <2> DEFINE t == [n \in 0 .. k + 1 |-> IF n = k + 1 THEN Step(g[k]) ELSE g[n]]
  <2>2. \A n \in 0 .. k : g[n] = IF n = 0 THEN c ELSE Step(g[n - 1])
    BY <2>1 DEF Steps
  <2>3. ASSUME NEW n \in 0 .. k + 1
        PROVE  t[n] = IF n = 0 THEN c ELSE Step(t[n - 1])
    <3>1. k \in Nat /\ k + 1 # 0
      OBVIOUS
    <3>2. CASE n = k + 1
      <4>1. t[n] = Step(g[k]) /\ n - 1 = k /\ t[k] = g[k]
        BY <3>1, <3>2
      <4> HIDE DEF t
      <4> QED  BY <3>1, <3>2, <4>1
    <3>3. CASE n \in 0 .. k
      <4>1. n # k + 1 /\ (n # 0 => n - 1 \in 0 .. k + 1 /\ n - 1 # k + 1)
        BY <3>1, <3>3
      <4>2. t[n] = g[n] /\ (n # 0 => t[n - 1] = g[n - 1])
        BY <4>1
      <4> HIDE DEF t
      <4> QED  BY <2>2, <3>3, <4>2
    <3> QED  BY <3>1, <3>2, <3>3
  <2>4. t = [n \in 0 .. k + 1 |-> t[n]]
    OBVIOUS
  <2> HIDE DEF t
  <2>5. Steps(t, c, k + 1)
    BY <2>3, <2>4 DEF Steps
  <2>6. k + 1 \in 0 .. m
    OBVIOUS
  <2> QED  BY <2>5, <2>6
<1>3. 0 .. m \subseteq S
  <2> HIDE DEF S
  <2> QED  BY <1>1, <1>2, UpTo
<1> QED  BY <1>3

\* Perform makes call after call.
LEMMA PerformIs ==
  ASSUME NEW c, NEW calls
  PROVE  \E g : /\ Perform(c, calls) = g[MaxCalls]
                /\ g[0] = [c EXCEPT !.todo = calls]
                /\ \A n \in 0 .. MaxCalls - 1 : g[n + 1] = Step(g[n])
<1> DEFINE b == [c EXCEPT !.todo = calls]
           g == CHOOSE h : h = [n \in 0 .. MaxCalls |-> IF n = 0 THEN b ELSE Then(h[n - 1], Step)]
<1>0. MaxCalls \in Nat
  BY DdcmpAssumption
<1>1. Perform(c, calls) = g[MaxCalls]
  BY DEF Perform
<1> HIDE DEF b
<1>2. \A x : Then(x, Step) = Step(x)
  BY OfOne DEF Then
<1>3. \E h : h = [n \in 0 .. MaxCalls |-> IF n = 0 THEN b ELSE Then(h[n - 1], Step)]
  <2>1. PICK h : Steps(h, b, MaxCalls)
    BY <1>0, StepsExist
  <2>2. h = [n \in 0 .. MaxCalls |-> IF n = 0 THEN b ELSE Then(h[n - 1], Step)]
    BY <1>2, <2>1 DEF Steps
  <2> QED  BY <2>2
<1>4. g = [n \in 0 .. MaxCalls |-> IF n = 0 THEN b ELSE Then(g[n - 1], Step)]
  BY <1>3
<1> HIDE DEF g
<1>5. \A n \in 0 .. MaxCalls : g[n] = IF n = 0 THEN b ELSE Step(g[n - 1])
  BY <1>2, <1>4
<1>6. g[0] = b
  BY <1>0, <1>5
<1>7. ASSUME NEW n \in 0 .. MaxCalls - 1 PROVE g[n + 1] = Step(g[n])
  <2>1. n + 1 \in 0 .. MaxCalls /\ n + 1 # 0 /\ (n + 1) - 1 = n
    BY <1>0
  <2> QED  BY <1>5, <2>1
<1> QED  BY <1>1, <1>6, <1>7 DEF b

LEMMA GoesWorking ==
  ASSUME NEW c, NEW f, Goes(c, f)
  PROVE  Working(c, f)
BY DEF Goes, Working

\* What an action calls leaves the controller as the calls found it.
LEMMA PerformGoes ==
  ASSUME left.speed = "full", NEW c, NEW calls, NEW f, Framed(f),
         Working([c EXCEPT !.todo = calls], f)
  PROVE  Working(Perform(c, calls), f)
<1>0. MaxCalls \in Nat
  BY DdcmpAssumption
<1>1. PICK g : /\ Perform(c, calls) = g[MaxCalls]
               /\ g[0] = [c EXCEPT !.todo = calls]
               /\ \A n \in 0 .. MaxCalls - 1 : g[n + 1] = Step(g[n])
  BY PerformIs
<1> DEFINE S == {n \in 0 .. MaxCalls : Working(g[n], f)}
<1>2. 0 \in S
  BY <1>0, <1>1
<1>3. ASSUME NEW n \in 0 .. MaxCalls - 1, n \in S PROVE n + 1 \in S
  <2>1. n + 1 \in 0 .. MaxCalls /\ Working(g[n], f) /\ g[n + 1] = Step(g[n])
    BY <1>0, <1>1, <1>3
  <2>2. Working(g[n + 1], f)
    BY <2>1, StepGoes, GoesWorking
  <2> QED  BY <2>1, <2>2
<1>4. MaxCalls \in S
  <2> HIDE DEF S
  <2>1. 0 .. MaxCalls \subseteq S
    BY <1>0, <1>2, <1>3, UpTo
  <2> QED  BY <1>0, <2>1
<1> QED  BY <1>1, <1>4

-----------------------------------------------------------------------------
(* The actions *)

\* A controller between two actions.
Settled(c) ==
  /\ Sound(c) /\ c.ev = "none" /\ c.out = <<>> /\ Linked(c, c.link)
  /\ \/ c.link = "Halt" /\ c.conn = FALSE /\ c.car = FALSE
     \/ c.link \in {"IStart", "AStart", "Run"} /\ Connected(c)

\* What the rest of the system is to a controller that reads n packets of W.
Around(W, n, y, Wy, up) ==
  [rest |-> SubSeq(W, n + 1, Len(W)), peer |-> y, wire |-> Wy, up |-> up]

LEMMA AroundIs ==
  ASSUME NEW W, NEW n, NEW y, NEW Wy, NEW up
  PROVE  /\ Around(W, n, y, Wy, up).rest = SubSeq(W, n + 1, Len(W))
         /\ Around(W, n, y, Wy, up).peer = y /\ Around(W, n, y, Wy, up).wire = Wy
         /\ Around(W, n, y, Wy, up).up = up
BY DEF Around

LEMMA SplitIs ==
  ASSUME NEW W \in Seq(LinePacket), NEW n \in 0 .. Len(W)
  PROVE  /\ SubSeq(W, 1, n) \in Seq(LinePacket)
         /\ SubSeq(W, n + 1, Len(W)) \in Seq(LinePacket)
         /\ SubSeq(W, 1, n) \o SubSeq(W, n + 1, Len(W)) = W
         /\ n = 0 => SubSeq(W, 1, n) = <<>> /\ SubSeq(W, n + 1, Len(W)) = W
<1>1. Len(W) \in Nat /\ n \in Nat /\ n <= Len(W)
  BY LenProperties
<1>2. \A i \in 1 .. Len(W) : W[i] \in LinePacket
  BY ElementOfSeq
<1>3. SubSeq(W, 1, n) \in Seq(LinePacket)
  <2>1. \A i \in 1 .. n : W[i] \in LinePacket
    BY <1>1, <1>2
  <2> QED  BY <1>1, <2>1, SubSeqProperties
<1>4. SubSeq(W, n + 1, Len(W)) \in Seq(LinePacket)
  BY SuffixIs
<1>5. SubSeq(W, 1, Len(W)) = W
  BY SubSeqFull
<1>6. SubSeq(W, 1, n) \o SubSeq(W, n + 1, Len(W)) = SubSeq(W, 1, Len(W))
  <2>1. 1 \in 1 .. Len(W) + 1 /\ n \in 1 - 1 .. Len(W) /\ Len(W) \in n .. Len(W)
    BY <1>1
  <2> QED  BY <2>1, ConcatAdjacentSubSeq
<1>7. n = 0 => SubSeq(W, 1, n) = <<>> /\ SubSeq(W, n + 1, Len(W)) = W
  <2> SUFFICES ASSUME n = 0 PROVE SubSeq(W, 1, 0) = <<>> /\ SubSeq(W, 0 + 1, Len(W)) = W
    OBVIOUS
  <2>1. SubSeq(W, 1, 0) = <<>>
    BY SubSeqEmpty
  <2> QED  BY <1>5, <2>1
<1> QED  BY <1>3, <1>4, <1>5, <1>6, <1>7

\* The line and the other end.
Ends(W, n, y, Wy, up) ==
  /\ W \in Seq(LinePacket) /\ n \in 0 .. Len(W) /\ y \in View /\ Wy \in Seq(LinePacket)
  /\ up \in BOOLEAN
  /\ y.link = "IStart" => y.R = 0 /\ y.A = 0 /\ y.N = 0

LEMMA AroundFramed ==
  ASSUME NEW W, NEW n, NEW y, NEW Wy, NEW up, Ends(W, n, y, Wy, up)
  PROVE  Framed(Around(W, n, y, Wy, up))
<1> DEFINE f == Around(W, n, y, Wy, up)
           r == SubSeq(W, n + 1, Len(W))
<1>1. r \in Seq(LinePacket)
  BY SplitIs DEF Ends
<1>2. f.rest = r /\ f.peer = y /\ f.wire = Wy /\ f.up = up
  BY AroundIs
<1> HIDE DEF f, r
<1>3. Framed(f)
  BY <1>1, <1>2 DEF Framed, Ends
<1> QED  BY <1>3 DEF f

\* b is what an action makes of c before it calls anything.
Kin(c, b) ==
  /\ b.link = c.link /\ b.R = c.R /\ b.A = c.A /\ b.N = c.N
  /\ b.ev = "none" /\ b.out = <<>>

LEMMA StartsLive ==
  ASSUME NEW c, Settled(c), Connected(c),
         NEW W, NEW n, NEW y, NEW Wy, NEW up, Ends(W, n, y, Wy, up),
         Pair(Seen(c, c.link), W, y, Wy, up),
         NEW b, Kin(c, b), Sound(b), Linked(b, b.link), Connected(b),
         b.unread = SubSeq(W, 1, n), b.todo \in Seq(Names)
  PROVE  Working(b, Around(W, n, y, Wy, up))
<1>1. PICK f : f = Around(W, n, y, Wy, up)
  OBVIOUS
<1>2. /\ f.rest = SubSeq(W, n + 1, Len(W)) /\ f.peer = y /\ f.wire = Wy /\ f.up = up
  BY <1>1, AroundIs
<1>3. PICK e : /\ e.in = Coming(b.unread, f) /\ e.peer = f.peer /\ e.wire = f.wire /\ e.up = f.up
               /\ e.ev = b.ev /\ e.unread = b.unread /\ e.todo = b.todo
               /\ e = At(b, f)
  BY AtIs
<1>4. e.in = W
  <2> DEFINE u == SubSeq(W, 1, n)
             r == SubSeq(W, n + 1, Len(W))
  <2>1. u \o r = W
    BY SplitIs DEF Ends
  <2> HIDE DEF u, r
  <2>2. b.unread = u /\ f.rest = r
    BY <1>2 DEF u, r
  <2>3. Coming(u, f) = W
    BY <2>1, <2>2, Zenon DEF Coming
  <2> QED  BY <1>3, <2>2, <2>3
<1>5. b.unread \in Seq(LinePacket)
  BY SplitIs DEF Ends
<1>6. c.link \in {"IStart", "AStart", "Run"}
  BY DEF Settled, Connected
<1>7. Seen(b, b.link) = Seen(c, c.link) /\ b.link = c.link
  BY DEF Seen, Kin
<1>8. b.out = <<>> /\ b.ev = "none"
  BY DEF Kin
<1>9. Line(b, e) = Wy /\ b.out \in Seq(LinePacket)
  <2>1. e.wire \o <<>> = e.wire
    BY <1>2, <1>3, ConcatEmptySeq DEF Ends
  <2>2. Line(b, e) = Wy
    BY <1>2, <1>3, <1>8, <2>1 DEF Line
  <2>3. <<>> \in Seq(LinePacket)
    OBVIOUS
  <2> QED  BY <1>8, <2>2, <2>3
<1>10. Hears(b, e)
  BY <1>3, <1>8 DEF Hears
<1>11. Pair(Seen(b, b.link), e.in, e.peer, Line(b, e), e.up)
  BY <1>2, <1>3, <1>4, <1>7, <1>9
<1>12. Live(b, e)
  BY <1>6, <1>7, <1>9, <1>10, <1>11 DEF Live, On
<1> QED  BY <1>1, <1>3, <1>5, <1>8, <1>12 DEF Working

\* A controller without a connection.
LEMMA StartsIdle ==
  ASSUME NEW W, NEW n, n = 0, NEW y, NEW Wy, NEW up, Ends(W, n, y, Wy, up),
         NEW b, Sound(b), b.conn = FALSE, b.out = <<>>, b.unread = SubSeq(W, 1, n),
         Pair(Seen(b, "Halt"), W, y, Wy, up)
  PROVE  Idle(b, Around(W, n, y, Wy, up)) /\ b.unread = <<>> /\ b.unread \in Seq(LinePacket)
<1>1. PICK f : f = Around(W, n, y, Wy, up)
  OBVIOUS
<1>2. /\ f.rest = SubSeq(W, n + 1, Len(W)) /\ f.peer = y /\ f.wire = Wy /\ f.up = up
  <2>1. \A k : Around(W, k, y, Wy, up).rest = SubSeq(W, k + 1, Len(W))
    BY AroundIs
  <2>2. f.rest = SubSeq(W, n + 1, Len(W))
    BY <1>1, <2>1, Zenon
  <2> QED  BY <1>1, <2>2, AroundIs
<1>3. n \in 0 .. Len(W) /\ W \in Seq(LinePacket)
  BY DEF Ends
<1>4. b.unread = <<>> /\ f.rest = W
  BY <1>2, <1>3, SplitIs
<1>5. <<>> \in Seq(LinePacket)
  OBVIOUS
<1>6. Idle(b, f)
  BY <1>2, <1>4 DEF Idle
<1> QED  BY <1>1, <1>4, <1>5, <1>6

\* A controller when an action is over.
Rested(d, h) ==
  [d EXCEPT !.out = <<>>, !.fail = FALSE, !.room = Pool, !.pkt = NoPacket, !.unread = <<>>,
            !.here = h]

LEMMA RestedIs ==
  ASSUME NEW d, Sound(d), NEW h
  PROVE  \E c : /\ c = Rested(d, h) /\ c.here = h /\ Sound(c) /\ c.ev = d.ev /\ c.out = <<>> /\ c.link = d.link
                /\ c.R = d.R /\ c.A = d.A /\ c.N = d.N
                /\ c.conn = d.conn /\ c.car = d.car /\ c.dtr = d.dtr
                /\ \A l : Linked(d, l) => Linked(c, l)
<1>z. PICK c : c = Rested(d, h)
  OBVIOUS
<1>0. Typing(d) /\ Still(d) /\ Shaped(d) /\ Room(d) /\ Kept(d)
  BY DEF Sound
<1>1. /\ Fields \subseteq DOMAIN c /\ c.timer = d.timer /\ c.again = d.again
      /\ c.X = d.X /\ c.NAKed = d.NAKed
  BY <1>z, <1>0 DEF Typing, Fields, Rested
<1>2. /\ c.ev = d.ev /\ c.out = <<>> /\ c.link = d.link
      /\ c.R = d.R /\ c.A = d.A /\ c.N = d.N /\ c.T = d.T
      /\ c.conn = d.conn /\ c.car = d.car /\ c.dtr = d.dtr /\ c.here = h
  BY <1>z, <1>0 DEF Typing, Fields, Rested
<1>3. /\ c.xmtq = d.xmtq /\ c.ackw = d.ackw /\ c.rcv = d.rcv /\ c.comp = d.comp
      /\ c.sup = d.sup /\ c.floor = d.floor /\ c.taken = d.taken
      /\ c.busy = d.busy /\ c.fail = FALSE /\ c.room = Pool /\ c.fatal = d.fatal
      /\ c.done = d.done
  BY <1>z, <1>0 DEF Typing, Fields, Rested
<1>4. Typing(c)
  BY <1>0, <1>1, <1>2, <1>3 DEF Typing
<1>5. Still(c) /\ Shaped(c) /\ Room(c)
  BY <1>0, <1>3 DEF Still, Shaped, Room
<1>6. Buffers(c) = Buffers(d)
  BY <1>3 DEF Buffers
<1>7. Kept(c)
  BY <1>0, <1>3, <1>6 DEF Kept
<1>8. Sound(c)
  BY <1>4, <1>5, <1>7 DEF Sound
<1>9. ASSUME NEW l, Linked(d, l) PROVE Linked(c, l)
  BY <1>2, <1>3, <1>6, <1>9 DEF Linked
<1> QED  BY <1>z, <1>2, <1>8, <1>9

\* c with u on its line and calls to make.
Begun(c, u, calls) ==
  [[c EXCEPT !.fail = FALSE, !.room = Pool, !.unread = u] EXCEPT !.todo = calls]

LEMMA UnreadTold ==
  ASSUME NEW c, Typing(c), Still(c), NEW u
  PROVE  Told(c, [c EXCEPT !.fail = FALSE, !.room = Pool, !.unread = u], c.ev, c.pkt, u, c.todo)
BY DEF Typing, Still, Fields, Told, Alike

LEMMA BegunTold ==
  ASSUME NEW c, Typing(c), Still(c), NEW u, NEW calls
  PROVE  Told(c, Begun(c, u, calls), c.ev, c.pkt, u, calls)
<1> DEFINE d == [c EXCEPT !.fail = FALSE, !.room = Pool, !.unread = u]
           b == [d EXCEPT !.todo = calls]
<1>1. Told(c, d, c.ev, c.pkt, u, c.todo)
  BY UnreadTold
<1> HIDE DEF d
<1>2. Typing(d)
  BY <1>1, ToldTyping
<1>3. Told(d, b, d.ev, d.pkt, d.unread, calls)
  BY <1>2, TodoTold
<1> HIDE DEF b
<1>4. d.ev = c.ev /\ d.pkt = c.pkt /\ d.unread = u
  BY <1>1 DEF Told
<1>5. Told(c, b, c.ev, c.pkt, u, calls)
  BY <1>1, <1>3, <1>4, ToldTwice
<1> QED  BY <1>5 DEF b, d, Begun

\* What a driver or the line does to a controller before it calls anything.
Readied(c, c0) ==
  /\ Kin(c, c0) /\ Sound(c0) /\ Linked(c0, c0.link)
  /\ c0.conn = c.conn /\ c0.car = c.car /\ c0.dtr \in {c.dtr, TRUE}

LEMMA BegunIs ==
  ASSUME NEW c0, Sound(c0), c0.ev = "none", c0.out = <<>>, NEW u, NEW calls
  PROVE  \E b : /\ b = Begun(c0, u, calls)
                /\ Sound(b) /\ b.unread = u /\ b.todo = calls
                /\ b.ev = "none" /\ b.out = <<>>
                /\ Alike(c0, b) /\ b.link = c0.link
                /\ b.conn = c0.conn /\ b.car = c0.car
<1>0. PICK b : b = Begun(c0, u, calls)
  OBVIOUS
<1>1. Told(c0, b, "none", c0.pkt, u, calls)
  BY <1>0, BegunTold DEF Sound
<1>2. Alike(c0, b) /\ b.unread = u /\ b.todo = calls /\ b.ev = "none"
  BY <1>1 DEF Told
<1>3. Sound(b)
  BY <1>2, AlikeKeeps
<1>4. b.out = <<>> /\ b.link = c0.link /\ b.conn = c0.conn /\ b.car = c0.car
  BY <1>2 DEF Alike
<1> QED  BY <1>0, <1>2, <1>3, <1>4

LEMMA Readies ==
  ASSUME NEW c, Settled(c), NEW W, NEW n, NEW y, NEW Wy, NEW up, Ends(W, n, y, Wy, up),
         Pair(Seen(c, c.link), W, y, Wy, up), n > 0 => c.conn = TRUE,
         NEW c0, Readied(c, c0), NEW calls \in Seq(Names)
  PROVE  Working(Begun(c0, SubSeq(W, 1, n), calls), Around(W, n, y, Wy, up))
<1> DEFINE u == SubSeq(W, 1, n)
<1>0. Sound(c0) /\ c0.ev = "none" /\ c0.out = <<>>
  BY DEF Readied, Kin
<1> HIDE DEF u
<1>1. PICK b : /\ b = Begun(c0, u, calls)
               /\ Sound(b) /\ b.unread = u /\ b.todo = calls
               /\ b.ev = "none" /\ b.out = <<>>
               /\ Alike(c0, b) /\ b.link = c0.link /\ b.conn = c0.conn /\ b.car = c0.car
  BY <1>0, BegunIs
<1>2. b.link = c.link /\ b.conn = c.conn /\ b.car = c.car /\ Kin(c, b)
  BY <1>1 DEF Readied, Kin, Alike
<1>3. Linked(b, b.link)
  <2>1. Linked(b, c0.link)
    BY <1>1, AlikeKeeps DEF Readied
  <2> QED  BY <1>1, <2>1
<1>4. CASE Connected(c)
  <2>1. Connected(b)
    BY <1>1, <1>4 DEF Connected, Readied, Alike
  <2>2. Working(b, Around(W, n, y, Wy, up))
    BY <1>1, <1>2, <1>3, <1>4, <2>1, StartsLive DEF u
  <2> QED  BY <1>1, <2>2 DEF u
<1>5. CASE c.link = "Halt" /\ c.conn = FALSE /\ c.car = FALSE
  <2>1. n = 0
    <3>1. n \in Nat /\ ~(n > 0)
      <4>1. Len(W) \in Nat /\ n \in 0 .. Len(W)
        BY LenProperties DEF Ends
      <4> QED  BY <1>5, <4>1
    <3> QED  BY <3>1
  <2>2. Seen(b, "Halt") = Seen(c, c.link)
    BY <1>2, <1>5 DEF Kin, Seen
  <2>3. Pair(Seen(b, "Halt"), W, y, Wy, up)
    BY <2>2
  <2>4. b.conn = FALSE /\ b.car = FALSE /\ b.link = "Halt"
    BY <1>2, <1>5
  <2>5. PICK f : f = Around(W, n, y, Wy, up)
    OBVIOUS
  <2>6. Idle(b, f) /\ b.unread \in Seq(LinePacket)
    BY <1>1, <2>1, <2>3, <2>4, <2>5, StartsIdle DEF u
  <2>7. Down(b, f)
    BY <2>4, <2>6 DEF Down
  <2>8. Working(b, f)
    BY <1>1, <2>6, <2>7 DEF Working
  <2> QED  BY <1>1, <2>5, <2>8 DEF u
<1> QED  BY <1>4, <1>5 DEF Settled

Round(f, W, n, y, Wy, up) ==
  /\ f.rest = SubSeq(W, n + 1, Len(W)) /\ f.peer = y /\ f.wire = Wy /\ f.up = up

LEMMA AroundRound ==
  ASSUME NEW W, NEW n, NEW y, NEW Wy, NEW up
  PROVE  Round(Around(W, n, y, Wy, up), W, n, y, Wy, up)
BY DEF Round, Around

\* The first packets of a connection can be read once it is accepted.
LEMMA Accepts ==
  ASSUME NEW c, Settled(c), c.conn = FALSE,
         NEW W, NEW n, n = 0, NEW y, NEW Wy, NEW up, Ends(W, n, y, Wy, up), up = TRUE,
         Pair(Seen(c, c.link), W, y, Wy, up),
         NEW c0, Kin(c, c0), Sound(c0), Connected(c0),
         NEW calls \in Seq(Names), calls # <<>>, Head(calls) = "none"
  PROVE  Working(Begun(c0, SubSeq(W, 1, n), calls), Around(W, n, y, Wy, up))
<1> DEFINE u == SubSeq(W, 1, n)
<1>0. c0.ev = "none" /\ c0.out = <<>> /\ c.link = "Halt"
  BY DEF Kin, Settled, Connected
<1> HIDE DEF u
<1>1. PICK b : /\ b = Begun(c0, u, calls)
               /\ Sound(b) /\ b.unread = u /\ b.todo = calls
               /\ b.ev = "none" /\ b.out = <<>>
               /\ Alike(c0, b) /\ b.link = c0.link /\ b.conn = c0.conn /\ b.car = c0.car
  BY <1>0, BegunIs
<1>2. PICK f : f = Around(W, n, y, Wy, up)
  OBVIOUS
<1>3. /\ f.rest = SubSeq(W, n + 1, Len(W)) /\ f.peer = y /\ f.wire = Wy /\ f.up = up
  <2>1. Round(f, W, n, y, Wy, up)
    BY <1>2, AroundRound
  <2> QED  BY <2>1 DEF Round
<1>4. PICK e : /\ e.in = Coming(b.unread, f) /\ e.peer = f.peer /\ e.wire = f.wire /\ e.up = f.up
               /\ e.ev = b.ev /\ e.unread = b.unread /\ e.todo = b.todo
               /\ e = At(b, f)
  BY AtIs
<1>5. u \in Seq(LinePacket) /\ e.in = W
  <2> DEFINE r == SubSeq(W, n + 1, Len(W))
  <2>1. u \o r = W /\ u \in Seq(LinePacket)
    BY SplitIs DEF Ends, u
  <2> HIDE DEF r
  <2>2. b.unread = u /\ f.rest = r
    BY <1>1, <1>3 DEF r
  <2>3. Coming(u, f) = W
    BY <2>1, <2>2, Zenon DEF Coming
  <2> QED  BY <1>4, <2>1, <2>2, <2>3
<1>6. Seen(b, "Halt") = Seen(c, c.link) /\ b.link = "Halt" /\ Connected(b)
  BY <1>0, <1>1 DEF Seen, Kin, Alike, Connected
<1>7. Line(b, e) = Wy /\ b.out \in Seq(LinePacket)
  <2>1. e.wire \o <<>> = e.wire
    BY <1>3, <1>4, ConcatEmptySeq DEF Ends
  <2>2. Line(b, e) = Wy
    BY <1>1, <1>3, <1>4, <2>1 DEF Line
  <2>3. <<>> \in Seq(LinePacket)
    OBVIOUS
  <2> QED  BY <1>1, <2>2, <2>3
<1>8. Hears(b, e)
  BY <1>1, <1>4 DEF Hears
<1>9. Joining(b, e)
  BY <1>1, <1>3, <1>4, <1>5, <1>6, <1>7, <1>8 DEF Joining
<1>10. Working(b, f)
  BY <1>1, <1>4, <1>5, <1>9 DEF Working
<1> QED  BY <1>1, <1>2, <1>10 DEF u

LEMMA PairHalt ==
  ASSUME NEW x, NEW W, NEW y, NEW Wy, Pair(x, W, y, Wy, FALSE), NEW z, z.link = "Halt"
  PROVE  Pair(z, W, y, Wy, FALSE)
<1>1. Half(z, W, y, Wy, FALSE)
  BY DEF Pair, Half
<1>2. Half(y, Wy, z, W, FALSE)
  BY DEF Pair, Half
<1> QED  BY <1>1, <1>2 DEF Pair

\* The poll sees that the socket is gone.
LEMMA Notices ==
  ASSUME NEW c, Settled(c), c.conn = TRUE,
         NEW W, NEW n, n = 0, NEW y, NEW Wy, NEW up, Ends(W, n, y, Wy, up), up = FALSE,
         Pair(Seen(c, c.link), W, y, Wy, up),
         NEW c0, Kin(c, c0), Sound(c0), c0.conn = FALSE, c0.car = TRUE,
         NEW calls \in Seq(Names), calls # <<>>, Head(calls) = "carrier"
  PROVE  Working(Begun(c0, SubSeq(W, 1, n), calls), Around(W, n, y, Wy, up))
<1> DEFINE u == SubSeq(W, 1, n)
<1>0. c0.ev = "none" /\ c0.out = <<>> /\ c0.link \in {"IStart", "AStart", "Run"}
  BY DEF Kin, Settled
<1> HIDE DEF u
<1>1. PICK b : /\ b = Begun(c0, u, calls)
               /\ Sound(b) /\ b.unread = u /\ b.todo = calls
               /\ b.ev = "none" /\ b.out = <<>>
               /\ Alike(c0, b) /\ b.link = c0.link /\ b.conn = c0.conn /\ b.car = c0.car
  BY <1>0, BegunIs
<1>2. Pair(Seen(b, "Halt"), W, y, Wy, up)
  <2>1. Seen(b, "Halt").link = "Halt"
    BY DEF Seen
  <2> QED  BY <2>1, PairHalt
<1>3. PICK f : f = Around(W, n, y, Wy, up)
  OBVIOUS
<1>4. Idle(b, f) /\ b.unread \in Seq(LinePacket)
  <2>1. b.unread = SubSeq(W, 1, n) /\ b.conn = FALSE
    BY <1>1 DEF u
  <2>2. Idle(b, Around(W, n, y, Wy, up)) /\ b.unread \in Seq(LinePacket)
    BY <1>1, <1>2, <2>1, StartsIdle
  <2> QED  BY <1>3, <2>2
<1>5. Working(b, f)
  BY <1>0, <1>1, <1>4 DEF Working, Kin
<1> QED  BY <1>1, <1>3, <1>5 DEF u

LEMMA ThinSelf ==
  ASSUME NEW W \in Seq(LinePacket)
  PROVE  Thin(<<>>, W)
<1>1. <<>> \in Seq(LinePacket) /\ W \o <<>> = W /\ Len(W) \in Nat /\ Len(<<>>) = 0
  BY ConcatEmptySeq, LenProperties
<1>2. Embeds(<<>>, W, <<>>)
  BY <1>1 DEF Embeds
<1> QED  BY <1>1, <1>2 DEF Thin

\* What an action leaves: the controller, its line and the other end's.
LEMMA RestedSettled ==
  ASSUME NEW d, NEW f, Framed(f), Working(d, f), d.todo = <<>>, NEW h,
         NEW W \in {Coming(d.unread, f), <<>>}
  PROVE  /\ Settled(Rested(d, h)) /\ Line(d, f) \in Seq(LinePacket)
         /\ Pair(Seen(Rested(d, h), Rested(d, h).link), W, f.peer, Line(d, f), f.up)
         /\ Rested(d, h).conn = d.conn /\ Rested(d, h).here = h
         /\ d.unread \in Seq(LinePacket) /\ d.conn \in BOOLEAN
         /\ d.conn = FALSE => d.unread = <<>>
<1>1. /\ Live(d, At(d, f)) \/ Down(d, f)
      /\ d.ev = "none" /\ d.unread \in Seq(LinePacket)
  BY DEF Working
<1>2. Sound(d)
  BY <1>1 DEF Live, On, Down, Idle
<1>3. PICK c : /\ c = Rested(d, h) /\ c.here = h /\ Sound(c) /\ c.ev = d.ev /\ c.out = <<>> /\ c.link = d.link
               /\ c.R = d.R /\ c.A = d.A /\ c.N = d.N
               /\ c.conn = d.conn /\ c.car = d.car /\ c.dtr = d.dtr
               /\ \A l : Linked(d, l) => Linked(c, l)
  BY <1>2, RestedIs
<1>4. Seen(c, c.link) = Seen(d, d.link) /\ \A l : l = d.link => Seen(d, l) = Seen(d, d.link)
  BY <1>3 DEF Seen
<1>5. f.peer \in View /\ f.up \in BOOLEAN /\ f.wire \in Seq(LinePacket)
      /\ f.rest \in Seq(LinePacket)
  BY DEF Framed
<1>6. CASE Live(d, At(d, f))
  <2>1. PICK e : /\ e.in = Coming(d.unread, f) /\ e.peer = f.peer /\ e.wire = f.wire /\ e.up = f.up
                 /\ e = At(d, f)
    BY AtIs
  <2>2. On(d, d.link, e)
    BY <1>6, <2>1 DEF Live
  <2>3. /\ Linked(d, d.link) /\ Connected(d) /\ d.link \in {"IStart", "AStart", "Run"}
        /\ d.out \in Seq(LinePacket)
        /\ Pair(Seen(d, d.link), e.in, e.peer, Line(d, e), e.up)
    BY <2>2 DEF On
  <2>4. Line(d, e) = Line(d, f)
    BY <2>1, Zenon DEF Line
  <2>5. Line(d, f) \in Seq(LinePacket)
    <3> DEFINE w == f.wire
               o == d.out
    <3>1. w \o o \in Seq(LinePacket) /\ w \in Seq(LinePacket)
      BY <1>5, <2>3, ConcatProperties
    <3> HIDE DEF w, o
    <3>2. Line(d, f) = IF f.up THEN w \o o ELSE w
      BY Zenon DEF Line, w, o
    <3> QED  BY <3>1, <3>2
  <2>6. Seen(d, d.link) \in View
    BY <1>2, <2>3, SeenIs DEF Sound
  <2>7. e.in \in Seq(LinePacket)
    <3> DEFINE v == d.unread
               t == f.rest
    <3>1. v \in Seq(LinePacket) /\ t \in Seq(LinePacket)
      BY <1>1, <1>5
    <3> HIDE DEF v, t
    <3>2. v \o t \in Seq(LinePacket)
      BY <3>1, ConcatProperties
    <3> QED  BY <2>1, <3>2 DEF Coming, v, t
  <2>8. Pair(Seen(d, d.link), e.in, f.peer, Line(d, f), f.up)
    BY <2>1, <2>3, <2>4
  <2>9. Pair(Seen(d, d.link), W, f.peer, Line(d, f), f.up)
    <3>1. CASE W = e.in
      BY <2>8, <3>1
    <3>2. CASE W = <<>>
      <4>1. Thin(W, e.in)
        BY <2>7, <3>2, ThinSelf
      <4> QED  BY <1>5, <2>6, <2>7, <2>8, <4>1, PairThin
    <3> QED  BY <2>1, <3>1, <3>2
  <2>10. Settled(c)
    BY <1>1, <1>3, <2>3 DEF Settled, Connected
  <2>11. d.conn = TRUE
    BY <2>3 DEF Connected
  <2> QED  BY <1>1, <1>3, <1>4, <2>5, <2>9, <2>10, <2>11
<1>7. CASE Down(d, f)
  <2>1. /\ d.link = "Halt" /\ d.conn = FALSE /\ d.car = FALSE /\ d.out = <<>>
        /\ d.unread = <<>>
        /\ Pair(Seen(d, "Halt"), f.rest, f.peer, f.wire, f.up)
    BY <1>7 DEF Down, Idle
  <2>2. Line(d, f) = f.wire
    <3>1. f.wire \o <<>> = f.wire
      BY <1>5, ConcatEmptySeq
    <3> QED  BY <2>1, <3>1, Zenon DEF Line
  <2>3. Seen(d, d.link) \in View
    BY <1>2, <2>1, SeenIs DEF Sound
  <2>4. Pair(Seen(d, d.link), f.rest, f.peer, f.wire, f.up)
    BY <2>1
  <2>5. Pair(Seen(d, d.link), W, f.peer, f.wire, f.up)
    <3>1. <<>> \o f.rest = f.rest
      BY <1>5, ConcatEmptySeq
    <3>2. Coming(d.unread, f) = f.rest
      BY <2>1, <3>1, Zenon DEF Coming
    <3>3. CASE W = f.rest
      BY <2>4, <3>3
    <3>4. CASE W = <<>>
      BY <1>5, <2>3, <2>4, <3>4, ThinSelf, PairThin
    <3> QED  BY <3>2, <3>3, <3>4
  <2>6. Settled(c)
    BY <1>1, <1>3, <2>1 DEF Settled, Linked
  <2> QED  BY <1>1, <1>3, <1>4, <1>5, <2>1, <2>2, <2>5, <2>6
<1> QED  BY <1>1, <1>6, <1>7

-----------------------------------------------------------------------------
(* The system *)

Mine(c) == Seen(c, c.link)

\* The packets that the line of c has taken in are the first of W.
Buffered(c, W) ==
  /\ c.here \in 0 .. Len(W)
  /\ c.conn = FALSE => c.here = 0

\* Both controllers and the connection between them, between two actions.
Whole(k, w, u) ==
  /\ u \in BOOLEAN
  /\ \A s \in Station :
       /\ Settled(k[s]) /\ w[s] \in Seq(LinePacket) /\ Buffered(k[s], w[s])
       /\ Pair(Mine(k[s]), w[s], Mine(k[Peer(s)]), w[Peer(s)], u)

LEMMA Peers ==
  ASSUME NEW s \in Station
  PROVE  /\ Peer(s) \in Station /\ Peer(s) # s /\ Peer(Peer(s)) = s
         /\ \A t \in Station : t = s \/ t = Peer(s)
<1>1. PICK a \in Station, b \in Station : a # b /\ Station = {a, b}
  BY DdcmpAssumption
<1>2. PICK o \in Station : o # s
  BY <1>1
<1>3. Peer(s) \in Station /\ Peer(s) # s
  BY <1>2 DEF Peer
<1>4. Peer(Peer(s)) \in Station /\ Peer(Peer(s)) # Peer(s)
  BY <1>3 DEF Peer
<1> QED  BY <1>1, <1>3, <1>4

LEMMA WholeIs ==
  ASSUME NEW s \in Station, NEW k, NEW w, NEW up \in BOOLEAN,
         Settled(k[s]), Settled(k[Peer(s)]),
         w[s] \in Seq(LinePacket), w[Peer(s)] \in Seq(LinePacket),
         Buffered(k[s], w[s]), Buffered(k[Peer(s)], w[Peer(s)]),
         Pair(Mine(k[s]), w[s], Mine(k[Peer(s)]), w[Peer(s)], up)
  PROVE  Whole(k, w, up)
<1>1. Pair(Mine(k[Peer(s)]), w[Peer(s)], Mine(k[s]), w[s], up)
  BY PairTurned
<1>2. Peer(Peer(s)) = s /\ \A t \in Station : t = s \/ t = Peer(s)
  BY Peers
<1> SUFFICES ASSUME NEW t \in Station
             PROVE  /\ Settled(k[t]) /\ w[t] \in Seq(LinePacket) /\ Buffered(k[t], w[t])
                    /\ Pair(Mine(k[t]), w[t], Mine(k[Peer(t)]), w[Peer(t)], up)
  BY DEF Whole
<1>3. CASE t = s
  BY <1>3
<1>4. CASE t = Peer(s)
  BY <1>1, <1>2, <1>4
<1> QED  BY <1>2, <1>3, <1>4

LEMMA SettledIs ==
  ASSUME NEW c, Settled(c)
  PROVE  /\ Mine(c) \in View /\ Mine(c).link = c.link
         /\ Mine(c).link = "IStart" => Mine(c).R = 0 /\ Mine(c).A = 0 /\ Mine(c).N = 0
<1>1. Typing(c) /\ c.link \in {"Halt", "IStart", "AStart", "Run"} /\ Linked(c, c.link)
  BY DEF Settled, Sound
<1>2. /\ Mine(c) \in View /\ Mine(c).link = c.link
      /\ Mine(c).R = c.R /\ Mine(c).A = c.A /\ Mine(c).N = c.N
  BY <1>1, SeenIs DEF Mine
<1> QED  BY <1>1, <1>2 DEF Linked

LEMMA EndsIs ==
  ASSUME NEW k, NEW w, NEW u, Whole(k, w, u), NEW s \in Station, NEW n \in 0 .. Len(w[s])
  PROVE  Ends(w[s], n, Mine(k[Peer(s)]), w[Peer(s)], u)
<1>1. Settled(k[Peer(s)]) /\ w[Peer(s)] \in Seq(LinePacket) /\ w[s] \in Seq(LinePacket)
      /\ u \in BOOLEAN
  BY Peers DEF Whole
<1> DEFINE y == Mine(k[Peer(s)])
<1>2. y \in View /\ (y.link = "IStart" => y.R = 0 /\ y.A = 0 /\ y.N = 0)
  BY <1>1, SettledIs
<1> HIDE DEF y
<1>3. Ends(w[s], n, y, w[Peer(s)], u)
  BY <1>1, <1>2 DEF Ends
<1> QED  BY <1>3 DEF y

\* The calls leave d; h packets stay in the line's buffer, the first of W.
LeftBy(s, c0, calls, read, d, h, W) ==
  /\ d = Perform([c0 EXCEPT !.fail = FALSE, !.room = Pool,
                            !.unread = SubSeq(wire[s], 1, read)], calls)
  /\ d.todo = <<>>
  /\ h = (IF ctlr[s].conn /\ ~d.conn THEN 0 ELSE Len(d.unread))
  /\ W = (IF ctlr[s].conn /\ ~d.conn THEN <<>>
          ELSE d.unread \o SubSeq(wire[s], read + 1, Len(wire[s])))
  /\ ctlr' = [ctlr EXCEPT ![s] = Rested(d, h)]
  /\ wire' = [wire EXCEPT ![s] = W, ![Peer(s)] = IF sock THEN @ \o d.out ELSE @]
  /\ left' = [left EXCEPT !.stall = @] /\ sock' = sock

\* No write fails and none stalls: what an action with calls to make leaves.
LEMMA LeaveIs ==
  ASSUME ~WriteFails, left.stall = 0, NEW s \in Station, NEW c0, NEW calls, NEW read,
         Leave(s, c0, calls, read)
  PROVE  \E d, h, W : LeftBy(s, c0, calls, read, d, h, W)
<1> DEFINE d == Perform([c0 EXCEPT !.fail = FALSE, !.room = Pool,
                                   !.unread = SubSeq(wire[s], 1, read)], calls)
           lost == ctlr[s].conn /\ ~d.conn
           h == IF lost THEN 0 ELSE Len(d.unread)
           W == IF lost THEN <<>> ELSE d.unread \o SubSeq(wire[s], read + 1, Len(wire[s]))
<1>1. Writes(s) = {FALSE}
  BY Zenon DEF Writes
<1>2. Rooms(s) = {Pool}
  <2>1. ~(left.stall > 0)
    OBVIOUS
  <2> QED  BY <2>1, Zenon DEF Rooms
<1>3. /\ d.todo = <<>>
      /\ ctlr' = [ctlr EXCEPT ![s] =
                    [d EXCEPT !.out = <<>>, !.fail = FALSE, !.room = Pool,
                              !.pkt = NoPacket, !.unread = <<>>,
                              !.here = IF lost THEN 0 ELSE Len(d.unread)]]
      /\ wire' = [wire EXCEPT
                    ![s] = IF lost THEN <<>>
                           ELSE d.unread \o SubSeq(@, read + 1, Len(@)),
                    ![Peer(s)] = IF sock THEN @ \o d.out ELSE @]
      /\ left' = [left EXCEPT !.stall = IF Pool = Pool THEN @ ELSE @ - 1]
      /\ sock' = sock
  BY <1>1, <1>2, Zenon DEF Leave
<1> HIDE DEF d
<1>4. ctlr' = [ctlr EXCEPT ![s] = Rested(d, h)]
  BY <1>3, Zenon DEF Rested
<1>5. wire' = [wire EXCEPT ![s] = W, ![Peer(s)] = IF sock THEN @ \o d.out ELSE @]
  BY <1>3
<1>6. left' = [left EXCEPT !.stall = @]
  BY <1>3
<1>7. LeftBy(s, c0, calls, read, d, h, W)
  BY <1>3, <1>4, <1>5, <1>6, Zenon DEF d, LeftBy
<1> QED  BY <1>7

LEMMA LeaveWhole ==
  ASSUME ~WriteFails, left.speed = "full", left.stall = 0,
         NEW s \in Station, DOMAIN ctlr = Station, DOMAIN wire = Station,
         Whole(ctlr, wire, sock), NEW c0, NEW calls, NEW read \in 0 .. Len(wire[s]),
         Leave(s, c0, calls, read),
         Working(Begun(c0, SubSeq(wire[s], 1, read), calls),
                 Around(wire[s], read, Mine(ctlr[Peer(s)]), wire[Peer(s)], sock))
  PROVE  /\ Whole(ctlr', wire', sock')
         /\ DOMAIN ctlr' = Station /\ DOMAIN wire' = Station
<1> DEFINE p == Peer(s)
           y == Mine(ctlr[p])
           u == SubSeq(wire[s], 1, read)
           a == [c0 EXCEPT !.fail = FALSE, !.room = Pool, !.unread = u]
           b == [a EXCEPT !.todo = calls]
<1>1. PICK f : f = Around(wire[s], read, y, wire[p], sock)
  OBVIOUS
<1>2. Round(f, wire[s], read, y, wire[p], sock)
  BY <1>1, AroundRound
<1>3. Framed(f)
  BY <1>1, EndsIs, AroundFramed
<1>4. Working(b, f)
  BY <1>1 DEF Begun
<1>5p. PICK d, h, W : LeftBy(s, c0, calls, read, d, h, W)
  BY LeaveIs
<1>5. /\ d = Perform(a, calls) /\ d.todo = <<>>
      /\ h = (IF ctlr[s].conn /\ ~d.conn THEN 0 ELSE Len(d.unread))
      /\ W = (IF ctlr[s].conn /\ ~d.conn THEN <<>>
              ELSE d.unread \o SubSeq(wire[s], read + 1, Len(wire[s])))
      /\ ctlr' = [ctlr EXCEPT ![s] = Rested(d, h)]
      /\ wire' = [wire EXCEPT ![s] = W, ![p] = IF sock THEN @ \o d.out ELSE @]
      /\ sock' = sock
  BY <1>5p, Zenon DEF LeftBy
<1> HIDE DEF u
<1>6. Working(d, f)
  <2> HIDE DEF a
  <2> QED  BY <1>3, <1>4, <1>5, PerformGoes
<1> HIDE DEF a, b
<1>7. p \in Station /\ p # s
  BY Peers
<1> HIDE DEF p
<1>8. Settled(ctlr[p]) /\ Buffered(ctlr[p], wire[p]) /\ wire[p] \in Seq(LinePacket)
  BY <1>7 DEF Whole
<1>9. /\ DOMAIN ctlr' = Station /\ DOMAIN wire' = Station
      /\ ctlr'[s] = Rested(d, h) /\ ctlr'[p] = ctlr[p]
  BY <1>5, <1>7
<1>10. wire'[s] = W /\ wire'[p] = IF sock THEN wire[p] \o d.out ELSE wire[p]
  BY <1>5, <1>7
<1>11. W \in {Coming(d.unread, f), <<>>}
  <2>1. f.rest = SubSeq(wire[s], read + 1, Len(wire[s]))
    BY <1>2 DEF Round
  <2>2. Coming(d.unread, f) = d.unread \o f.rest
    BY Zenon DEF Coming
  <2> QED  BY <1>5, <2>1, <2>2
<1>12. wire'[p] = Line(d, f)
  <2>1. f.up = sock /\ f.wire = wire[p]
    BY <1>2 DEF Round
  <2> QED  BY <1>10, <2>1, Zenon DEF Line
<1>13. f.peer = y /\ f.up = sock
  BY <1>2 DEF Round
<1>14. f.rest \in Seq(LinePacket) /\ sock \in BOOLEAN
  BY <1>3 DEF Framed, Whole
<1> HIDE DEF y
<1>15. /\ Settled(Rested(d, h)) /\ Line(d, f) \in Seq(LinePacket)
       /\ Pair(Seen(Rested(d, h), Rested(d, h).link), W, f.peer, Line(d, f), f.up)
       /\ Rested(d, h).conn = d.conn /\ Rested(d, h).here = h
       /\ d.unread \in Seq(LinePacket) /\ d.conn \in BOOLEAN
       /\ d.conn = FALSE => d.unread = <<>>
  <2>1. d.todo = <<>>
    BY <1>5
  <2> QED  BY <1>3, <1>6, <1>11, <2>1, RestedSettled, Zenon
<1>16. Pair(Mine(ctlr'[s]), wire'[s], Mine(ctlr'[p]), wire'[p], sock')
  BY <1>5, <1>9, <1>10, <1>12, <1>13, <1>15 DEF Mine, y
<1>17. /\ W \in Seq(LinePacket)
       /\ h \in 0 .. Len(W)
       /\ d.conn = FALSE => h = 0
  <2> DEFINE v == d.unread
             t == f.rest
             r == v \o t
  <2>1. v \in Seq(LinePacket) /\ t \in Seq(LinePacket)
    BY <1>14, <1>15
  <2> HIDE DEF v, t
  <2>2. r \in Seq(LinePacket) /\ Len(r) = Len(v) + Len(t) /\ Len(v) \in Nat /\ Len(t) \in Nat
    BY <2>1, ConcatProperties, LenProperties
  <2>3. /\ h = (IF ctlr[s].conn /\ ~d.conn THEN 0 ELSE Len(v))
        /\ W = (IF ctlr[s].conn /\ ~d.conn THEN <<>> ELSE r)
    <3>1. f.rest = SubSeq(wire[s], read + 1, Len(wire[s]))
      BY <1>2 DEF Round
    <3> QED  BY <1>5, <3>1 DEF v, t
  <2> HIDE DEF r
  <2>4. <<>> \in Seq(LinePacket) /\ Len(<<>>) = 0
    OBVIOUS
  <2>5. W \in Seq(LinePacket) /\ h \in 0 .. Len(W)
    BY <2>2, <2>3, <2>4
  <2>6. d.conn = FALSE => h = 0
    BY <1>15, <2>3, <2>4 DEF v
  <2> QED  BY <2>5, <2>6
<1>18. /\ Settled(ctlr'[s]) /\ Settled(ctlr'[p]) /\ wire'[p] \in Seq(LinePacket)
       /\ wire'[s] \in Seq(LinePacket) /\ sock' \in BOOLEAN
  BY <1>5, <1>8, <1>9, <1>10, <1>12, <1>14, <1>15, <1>17
<1>19. Buffered(ctlr'[s], wire'[s])
  BY <1>9, <1>10, <1>15, <1>17 DEF Buffered
<1>20. Buffered(ctlr'[p], wire'[p])
  <2> DEFINE v == wire[p]
             t == d.out
             r == v \o t
  <2>1. CASE wire'[p] = v
    BY <1>8, <1>9, <2>1
  <2>2. CASE wire'[p] # v
    <3>1. wire'[p] = r /\ v \in Seq(LinePacket) /\ sock
      BY <1>8, <1>10, <2>2
    <3>2. t \in Seq(LinePacket)
      <4>1. Live(d, At(d, f)) \/ Down(d, f)
        BY <1>5, <1>6 DEF Working
      <4>2. <<>> \in Seq(LinePacket)
        OBVIOUS
      <4> QED  BY <4>1, <4>2 DEF Live, On, Down, Idle
    <3> HIDE DEF v, t
    <3>3. Len(r) = Len(v) + Len(t) /\ Len(v) \in Nat /\ Len(t) \in Nat
      BY <3>1, <3>2, ConcatProperties, LenProperties
    <3>4. Buffered(ctlr[p], v)
      BY <1>8 DEF v
    <3> HIDE DEF r
    <3> QED  BY <1>9, <3>1, <3>3, <3>4 DEF Buffered
  <2> QED  BY <2>1, <2>2
<1>21. Whole(ctlr', wire', sock')
  BY <1>16, <1>18, <1>19, <1>20, WholeIs DEF p
<1> QED  BY <1>9, <1>21

\* d is c but for what the line and the protocol do not see.
Like(c, d) ==
  /\ Fields \subseteq DOMAIN d /\ d.timer \in {"off", "on", "spent"} /\ d.again = c.again
  /\ d.X = c.X /\ d.NAKed = c.NAKed /\ d.link = c.link
  /\ d.R = c.R /\ d.N = c.N /\ d.A = c.A /\ d.T = c.T
  /\ d.xmtq = c.xmtq /\ d.ackw = c.ackw /\ d.busy = c.busy /\ d.fail = FALSE
  /\ d.room = Pool /\ d.fatal = c.fatal /\ d.done = c.done /\ d.ev = c.ev /\ d.out = c.out
  /\ d.sup = c.sup /\ d.taken = c.taken /\ d.floor = c.floor
  /\ d.rcv \in Nat /\ d.comp \in Seq(Completion) /\ Room(d)
  /\ d.dtr \in {c.dtr, TRUE}

LEMMA LikeSound ==
  ASSUME NEW c, Settled(c), NEW d, Like(c, d)
  PROVE  Kin(c, d) /\ Sound(d) /\ Linked(d, d.link)
<1>0. Typing(c) /\ Still(c) /\ Shaped(c) /\ Kept(c) /\ c.ev = "none" /\ c.out = <<>>
  BY DEF Settled, Sound
<1>1. Typing(d)
  BY <1>0 DEF Like, Typing
<1>2. Still(d) /\ Shaped(d) /\ Room(d)
  BY <1>0 DEF Like, Still, Shaped
<1>3. Buffers(d) = Buffers(c)
  BY DEF Like, Buffers
<1>4. Kept(d)
  BY <1>0, <1>3 DEF Like, Kept
<1>5. Linked(d, d.link)
  BY <1>3 DEF Settled, Linked, Like
<1>6. Kin(c, d)
  BY <1>0 DEF Kin, Like
<1> QED  BY <1>1, <1>2, <1>4, <1>5, <1>6 DEF Sound

LEMMA LikeReadied ==
  ASSUME NEW c, Settled(c), NEW d, Like(c, d), d.conn = c.conn, d.car = c.car
  PROVE  Readied(c, d)
BY LikeSound DEF Readied, Like

LEMMA SettledRoom ==
  ASSUME NEW c, Settled(c)
  PROVE  /\ Fields \subseteq DOMAIN c /\ c.timer \in {"off", "on", "spent"}
         /\ c.rcv \in Nat /\ c.comp \in Seq(Completion) /\ Room(c)
         /\ c.conn \in BOOLEAN /\ c.car = c.conn /\ (c.link = "Halt" <=> c.conn = FALSE)
         /\ c.dtr \in {c.dtr, TRUE} /\ c.fail = FALSE /\ c.room = Pool /\ c.fatal = FALSE
         /\ c.busy = 0
BY DEF Settled, Sound, Typing, Connected, Still

\* An action that makes calls for a controller.
LEMMA ReadyWhole ==
  ASSUME ~WriteFails, left.speed = "full", left.stall = 0,
         NEW s \in Station, DOMAIN ctlr = Station, DOMAIN wire = Station,
         Whole(ctlr, wire, sock), NEW c0, Readied(ctlr[s], c0), NEW calls \in Seq(Names),
         NEW read \in 0 .. Len(wire[s]), read > 0 => ctlr[s].conn = TRUE,
         Leave(s, c0, calls, read)
  PROVE  /\ Whole(ctlr', wire', sock')
         /\ DOMAIN ctlr' = Station /\ DOMAIN wire' = Station
<1> DEFINE c == ctlr[s]
           W == wire[s]
           y == Mine(ctlr[Peer(s)])
           Wy == wire[Peer(s)]
<1>1. Ends(W, read, y, Wy, sock)
  BY EndsIs
<1>2. Settled(c) /\ Pair(Seen(c, c.link), W, y, Wy, sock)
  BY DEF Whole, Mine
<1> HIDE DEF y
<1>3. Working(Begun(c0, SubSeq(W, 1, read), calls), Around(W, read, y, Wy, sock))
  <2> HIDE DEF c, W, Wy
  <2> QED  BY <1>1, <1>2, Readies DEF c
<1> QED  BY <1>3, LeaveWhole DEF y

LEMMA CallNames ==
  /\ <<"none", "command">> \in Seq(Names) /\ <<"command">> \in Seq(Names)
  /\ <<"fill", "none", "command">> \in Seq(Names)
  /\ <<"svc">> \in Seq(Names) /\ <<"timer">> \in Seq(Names)
<1>1. /\ "none" \in Names /\ "command" \in Names /\ "svc" \in Names /\ "timer" \in Names
      /\ "fill" \in Names
  BY DEF Names
<1>2. <<"none", "command">> \in Seq(Names) /\ <<"command">> \in Seq(Names)
  BY <1>1
<1>3. <<"svc">> \in Seq(Names) /\ <<"timer">> \in Seq(Names)
  BY <1>1
<1>4. <<"fill", "none", "command">> \in Seq(Names)
  BY <1>1
<1> QED  BY <1>2, <1>3, <1>4

-----------------------------------------------------------------------------
(* One action at a time *)

\* A state of the system at full speed, with no stall to come.
Fast ==
  /\ left.speed = "full" /\ left.stall = 0 /\ DOMAIN ctlr = Station /\ DOMAIN wire = Station
  /\ Whole(ctlr, wire, sock)

FastNext == Whole(ctlr', wire', sock') /\ DOMAIN ctlr' = Station /\ DOMAIN wire' = Station

LEMMA LeaveFast ==
  ASSUME ~WriteFails, Fast, NEW s \in Station, NEW c0, Readied(ctlr[s], c0),
         NEW calls \in Seq(Names), Leave(s, c0, calls, ctlr[s].here)
  PROVE  FastNext
<1> DEFINE n == ctlr[s].here
<1>1. n \in 0 .. Len(wire[s]) /\ (ctlr[s].conn = FALSE => n = 0) /\ ctlr[s].conn \in BOOLEAN
  BY SettledRoom DEF Fast, Whole, Buffered
<1>2. n > 0 => ctlr[s].conn = TRUE
  BY <1>1
<1> HIDE DEF n
<1>3. Leave(s, c0, calls, n)
  BY DEF n
<1> QED  BY <1>1, <1>2, <1>3, ReadyWhole DEF Fast, FastNext

LEMMA ControlInFast ==
  ASSUME ~WriteFails, Fast, NEW s \in Station, ControlIn(s)
  PROVE  FastNext
<1> DEFINE c == ctlr[s]
           d == [c EXCEPT !.dtr = TRUE]
<1>1. Settled(c)
  BY DEF Fast, Whole
<1>2. Like(c, d) /\ d.conn = c.conn /\ d.car = c.car
  BY <1>1, SettledRoom DEF Fields, Like, Room
<1>3. Leave(s, d, <<"none", "command">>, c.here)
  BY DEF ControlIn
<1> HIDE DEF d
<1>4. Readied(c, d)
  BY <1>1, <1>2, LikeReadied
<1> QED  BY <1>3, <1>4, CallNames, LeaveFast

LEMMA WakeFast ==
  ASSUME ~WriteFails, Fast, NEW s \in Station, Wake(s)
  PROVE  FastNext
<1> DEFINE c == ctlr[s]
<1>1. Settled(c)
  BY DEF Fast, Whole
<1>2. Like(c, c)
  BY <1>1, SettledRoom DEF Like
<1>3. Leave(s, c, <<"svc">>, c.here)
  BY DEF Wake
<1>4. Readied(c, c)
  BY <1>1, <1>2, LikeReadied
<1> QED  BY <1>3, <1>4, CallNames, LeaveFast

LEMMA ExpireFast ==
  ASSUME ~WriteFails, Fast, NEW s \in Station, Expire(s)
  PROVE  FastNext
<1> DEFINE c == ctlr[s]
           d == [c EXCEPT !.timer = "spent"]
<1>1. Settled(c)
  BY DEF Fast, Whole
<1>2. Like(c, d) /\ d.conn = c.conn /\ d.car = c.car
  BY <1>1, SettledRoom DEF Fields, Like, Room
<1>3. Leave(s, d, <<"timer">>, c.here)
  BY DEF Expire
<1> HIDE DEF d
<1>4. Readied(c, d)
  BY <1>1, <1>2, LikeReadied
<1> QED  BY <1>3, <1>4, CallNames, LeaveFast

LEMMA CompletionTakenFast ==
  ASSUME ~WriteFails, Fast, NEW s \in Station, CompletionTaken(s)
  PROVE  FastNext
<1> DEFINE c == ctlr[s]
           d == [c EXCEPT !.comp = Tail(@)]
<1>1. Settled(c)
  BY DEF Fast, Whole
<1>2. c.comp \in Seq(Completion) /\ c.comp # <<>>
  BY <1>1, SettledRoom DEF CompletionTaken
<1>3. d.comp = Tail(c.comp) /\ d.xmtq = c.xmtq /\ d.ackw = c.ackw /\ d.rcv = c.rcv
  BY <1>1, SettledRoom DEF Fields
<1>4. Tail(c.comp) \in Seq(Completion)
      /\ Tally(d.comp, "rcv") <= Tally(c.comp, "rcv") /\ Tally(d.comp, "xmt") <= Tally(c.comp, "xmt")
  BY <1>2, <1>3, TallyTail
<1>5. Room(d)
  <2>1. /\ Tally(d.comp, "rcv") \in Nat /\ Tally(c.comp, "rcv") \in Nat
        /\ Tally(d.comp, "xmt") \in Nat /\ Tally(c.comp, "xmt") \in Nat
    BY <1>2, <1>3, <1>4, TallySum
  <2>2. c.rcv \in Nat /\ Len(c.xmtq) \in Nat /\ Len(c.ackw) \in Nat
    BY <1>1, BuffersAre DEF Settled, Sound, Typing
  <2>3. MaxRcv \in Nat /\ MaxXmt \in Nat
    BY DdcmpAssumption
  <2>4. /\ c.rcv + Tally(c.comp, "rcv") <= MaxRcv
        /\ Len(c.xmtq) + Len(c.ackw) + Tally(c.comp, "xmt") <= MaxXmt
    BY <1>1 DEF Settled, Sound, Room
  <2> HIDE DEF d
  <2>5. d.rcv + Tally(d.comp, "rcv") <= MaxRcv
    BY <1>3, <1>4, <2>1, <2>2, <2>3, <2>4
  <2>6. Len(d.xmtq) + Len(d.ackw) + Tally(d.comp, "xmt") <= MaxXmt
    <3>1. Len(d.xmtq) = Len(c.xmtq) /\ Len(d.ackw) = Len(c.ackw)
      BY <1>3
    <3> DEFINE x == Tally(d.comp, "xmt")
               z == Tally(c.comp, "xmt")
               q == Len(c.xmtq)
               w == Len(c.ackw)
    <3>2. x \in Nat /\ z \in Nat /\ q \in Nat /\ w \in Nat /\ x <= z /\ q + w + z <= MaxXmt
      BY <1>4, <2>1, <2>2, <2>4
    <3> HIDE DEF x, z, q, w
    <3>3. q + w + x <= MaxXmt
      BY <2>3, <3>2
    <3> QED  BY <3>1, <3>3 DEF x, q, w
  <2> QED  BY <2>5, <2>6 DEF Room
<1>6. Like(c, d) /\ d.conn = c.conn /\ d.car = c.car
  <2>1. d.comp \in Seq(Completion) /\ d.rcv \in Nat
    BY <1>1, <1>3, <1>4, SettledRoom
  <2> QED  BY <1>1, <1>5, <2>1, SettledRoom DEF Fields, Like
<1>7. Leave(s, d, <<"command">>, c.here)
  BY DEF CompletionTaken
<1> HIDE DEF d
<1>8. Readied(c, d)
  BY <1>1, <1>6, LikeReadied
<1> QED  BY <1>7, <1>8, CallNames, LeaveFast

LEMMA ReceiveRequestFast ==
  ASSUME ~WriteFails, Fast, NEW s \in Station, ReceiveRequest(s)
  PROVE  FastNext
<1> DEFINE c == ctlr[s]
           d == [c EXCEPT !.rcv = @ + 1]
<1>1. Settled(c) /\ Sound(c)
  BY DEF Fast, Whole, Settled
<1>2. Free(c) > 0 /\ Free(c) \in Nat
  BY <1>1, Roomy, Sizes
<1>3. /\ Fields \subseteq DOMAIN c /\ c.rcv \in Nat /\ c.comp \in Seq(Completion)
  BY <1>1, SettledRoom
<1>4. /\ d.rcv = c.rcv + 1 /\ d.comp = c.comp /\ d.xmtq = c.xmtq /\ d.ackw = c.ackw
      /\ d.dtr = c.dtr /\ d.conn = c.conn /\ d.car = c.car /\ d.timer = c.timer
      /\ Fields \subseteq DOMAIN d
  BY <1>3 DEF Fields
<1>5. /\ d.again = c.again /\ d.X = c.X /\ d.NAKed = c.NAKed /\ d.link = c.link
      /\ d.R = c.R /\ d.N = c.N /\ d.A = c.A /\ d.T = c.T
      /\ d.busy = c.busy /\ d.fail = c.fail /\ d.room = c.room
      /\ d.fatal = c.fatal /\ d.done = c.done /\ d.ev = c.ev /\ d.out = c.out
      /\ d.sup = c.sup /\ d.taken = c.taken /\ d.floor = c.floor
  BY <1>3 DEF Fields
<1>6. Room(d)
  <2>1. c.rcv + Tally(c.comp, "rcv") < MaxRcv
    BY DEF ReceiveRequest, Outstanding, Tally, Places
  <2>2. Tally(c.comp, "rcv") \in Nat /\ MaxRcv \in Nat
    BY <1>3, TallySum, DdcmpAssumption
  <2>3. Len(c.xmtq) + Len(c.ackw) + Tally(c.comp, "xmt") <= MaxXmt
    BY <1>1 DEF Sound, Room
  <2> HIDE DEF d, c
  <2>4. d.rcv + Tally(d.comp, "rcv") <= MaxRcv
    BY <1>3, <1>4, <2>1, <2>2
  <2>5. Len(d.xmtq) + Len(d.ackw) + Tally(d.comp, "xmt") <= MaxXmt
    BY <1>4, <2>3
  <2> QED  BY <2>4, <2>5 DEF Room
<1>7. Leave(s, d, <<"fill", "none", "command">>, c.here)
  <2>1. Leave(s, IF Free(c) > 0 THEN d ELSE [c EXCEPT !.fatal = TRUE],
              <<"fill", "none", "command">>, c.here)
    BY DEF ReceiveRequest
  <2> QED  BY <1>2, <2>1
<1> HIDE DEF d
<1>8. Like(c, d) /\ d.conn = c.conn /\ d.car = c.car
  <2>1. d.rcv \in Nat /\ d.comp \in Seq(Completion)
    BY <1>3, <1>4
  <2>2. d.timer \in {"off", "on", "spent"}
    BY <1>1, <1>4, SettledRoom
  <2>3. d.dtr \in {c.dtr, TRUE}
    BY <1>4
  <2>4. c.fail = FALSE /\ c.room = Pool
    BY <1>1, SettledRoom
  <2> QED  BY <1>4, <1>5, <1>6, <2>1, <2>2, <2>3, <2>4 DEF Like
<1>9. Readied(c, d)
  BY <1>1, <1>8, LikeReadied
<1> QED  BY <1>7, <1>9, CallNames, LeaveFast

\* c with one more message to send.
LEMMA MoreMessage ==
  ASSUME NEW c, Settled(c), Len(c.xmtq) + Len(c.ackw) + Tally(c.comp, "xmt") < MaxXmt,
         NEW d, NEW p \in Packet, p.k = "raw", p.id = c.sup + 1,
         d.xmtq = Append(c.xmtq, p), d.sup = c.sup + 1, d.dtr = TRUE,
         d.rcv = c.rcv, d.comp = c.comp, d.ackw = c.ackw,
         d.conn = c.conn, d.car = c.car, d.timer = c.timer,
         Fields \subseteq DOMAIN d, d.again = c.again, d.X = c.X, d.NAKed = c.NAKed,
         d.link = c.link, d.R = c.R, d.N = c.N, d.A = c.A, d.T = c.T,
         d.busy = c.busy, d.fail = FALSE, d.room = Pool, d.fatal = c.fatal, d.done = c.done,
         d.ev = c.ev, d.out = c.out, d.taken = c.taken, d.floor = c.floor
  PROVE  Readied(c, d)
<1>0. Sound(c) /\ Typing(c) /\ Still(c) /\ Shaped(c) /\ Room(c) /\ Kept(c)
      /\ c.ev = "none" /\ c.out = <<>> /\ Linked(c, c.link)
  BY DEF Settled, Sound
<1>1. /\ p.k = "raw" /\ p.id = c.sup + 1 /\ p.id # 0 /\ c.sup \in Nat
      /\ p \in Packet
  BY <1>0 DEF Typing
<1> DEFINE q == c.xmtq
           w == c.ackw
           b == Buffers(c)
<1>2. /\ q \in Seq(Packet) /\ w \in Seq(Packet) /\ b \in Seq(Packet)
      /\ Len(q) \in Nat /\ Len(w) \in Nat /\ Len(b) = Len(w) + Len(q)
  BY <1>0, BuffersAre DEF Typing
<1>3. b = w \o q
  BY DEF Buffers
<1> HIDE DEF q, w, b
<1>4. /\ Append(q, p) \in Seq(Packet) /\ Len(Append(q, p)) = Len(q) + 1
      /\ \A i \in 1 .. Len(q) : Append(q, p)[i] = q[i]
      /\ Append(q, p)[Len(q) + 1] = p
  BY <1>1, <1>2, AppendProperties
<1>5. /\ Append(b, p) \in Seq(Packet) /\ Len(Append(b, p)) = Len(b) + 1
      /\ \A i \in 1 .. Len(b) : Append(b, p)[i] = b[i]
      /\ Append(b, p)[Len(b) + 1] = p
  BY <1>1, <1>2, AppendProperties
<1>6. w \o Append(q, p) = Append(b, p)
  <2> DEFINE r == <<p>>
  <2>1. Append(q, p) = q \o r /\ Append(b, p) = b \o r /\ r \in Seq(Packet)
    BY <1>1, <1>2, AppendIsConcat
  <2> HIDE DEF r
  <2>2. (w \o q) \o r = w \o (q \o r)
    <3>1. w \in Seq(Packet) /\ q \in Seq(Packet) /\ r \in Seq(Packet)
      BY <1>2, <2>1
    <3> QED  BY <3>1, ConcatAssociative
  <2>3. b \o r = w \o (q \o r)
    BY <1>3, <2>2, Zenon
  <2> QED  BY <2>1, <2>3, Zenon
<1>7. Buffers(d) = Append(b, p)
  <2>1. d.ackw = w /\ d.xmtq = Append(q, p)
    BY DEF w, q
  <2> QED  BY <1>6, <2>1, Zenon DEF Buffers
<1>8. Typing(d)
  BY <1>0, <1>1, <1>4 DEF Typing, q
<1>9. Still(d)
  BY <1>0 DEF Still
<1>10. Shaped(d)
  <2>1. \A i \in 1 .. Len(q) : q[i].k \in {"raw", "data"} /\ q[i].id # 0
    BY <1>0 DEF Shaped, q
  <2>2. \A i \in 1 .. Len(Append(q, p)) :
           Append(q, p)[i].k \in {"raw", "data"} /\ Append(q, p)[i].id # 0
    BY <1>1, <1>2, <1>4, <2>1
  <2> QED  BY <1>0, <2>2 DEF Shaped, q
<1>11. Room(d)
  <2>1. Len(d.xmtq) = Len(c.xmtq) + 1
    BY <1>4 DEF q
  <2>2. Tally(c.comp, "xmt") \in Nat /\ MaxXmt \in Nat
    BY <1>0, TallySum, DdcmpAssumption DEF Typing
  <2>3. Len(d.xmtq) + Len(d.ackw) + Tally(d.comp, "xmt") <= MaxXmt
    <3> DEFINE x == Tally(c.comp, "xmt")
               lw == Len(w)
               lq == Len(q)
    <3>1. lq + lw + x < MaxXmt /\ Len(d.xmtq) = lq + 1 /\ Len(d.ackw) = lw
          /\ Tally(d.comp, "xmt") = x
      BY <2>1 DEF q, w
    <3>2. lq \in Nat /\ lw \in Nat /\ x \in Nat
      BY <1>2, <2>2
    <3> HIDE DEF x, lw, lq
    <3> QED  BY <2>2, <3>1, <3>2
  <2>4. d.rcv + Tally(d.comp, "rcv") <= MaxRcv
    BY <1>0 DEF Room
  <2> QED  BY <2>3, <2>4 DEF Room
<1>12. Kept(d)
  <2> SUFFICES ASSUME NEW m \in d.floor + 1 .. d.sup
               PROVE  m \in d.taken \/ \E i \in 1 .. Len(Append(b, p)) : Append(b, p)[i].id = m
    BY <1>7 DEF Kept
  <2>1. c.floor \in Nat /\ Len(b) \in Nat
    BY <1>0, <1>2 DEF Typing
  <2>2. CASE m = c.sup + 1
    <3>1. Len(b) + 1 \in 1 .. Len(Append(b, p))
      BY <1>5, <2>1
    <3> QED  BY <1>1, <1>5, <2>2, <3>1
  <2>3. CASE m # c.sup + 1
    <3>1. m \in c.floor + 1 .. c.sup
      BY <1>1, <2>1, <2>3
    <3>2. m \in c.taken \/ \E i \in 1 .. Len(b) : b[i].id = m
      BY <1>0, <3>1 DEF Kept, b
    <3>3. \A i \in 1 .. Len(b) : i \in 1 .. Len(Append(b, p))
      BY <1>5, <2>1
    <3> QED  BY <1>5, <3>2, <3>3
  <2> QED  BY <2>2, <2>3
<1>13. Sound(d)
  BY <1>8, <1>9, <1>10, <1>11, <1>12 DEF Sound
<1>14. Linked(d, d.link)
  <2>1. c.link # "Halt" => Window(Append(b, p), Len(w), c.A, c.N, c.T)
    <3> SUFFICES ASSUME c.link # "Halt" PROVE Window(Append(b, p), Len(w), c.A, c.N, c.T)
      OBVIOUS
    <3>1. Window(b, Len(w), c.A, c.N, c.T) /\ Held(b, Len(w))
      BY <1>0, Roomy DEF Linked, b, w
    <3>2. c.A \in Number /\ c.N \in Number
      BY <1>0 DEF Typing
    <3> QED  BY <1>1, <3>1, <3>2, WindowRaw
  <2>2. c.link \in {"IStart", "AStart"} =>
          /\ c.R = 0 /\ c.N = 0 /\ c.A = 0 /\ Len(w) = 0
          /\ \A i \in 1 .. Len(q) : q[i].k = "raw"
    BY <1>0 DEF Linked, w, q
  <2>3. c.link \in {"IStart", "AStart"} =>
          \A i \in 1 .. Len(Append(q, p)) : Append(q, p)[i].k = "raw"
    BY <1>1, <1>2, <1>4, <2>2
  <2> QED  BY <1>7, <2>1, <2>2, <2>3 DEF Linked, q, w
<1> QED  BY <1>0, <1>13, <1>14 DEF Readied, Kin

LEMMA TransmitRequestFast ==
  ASSUME ~WriteFails, Fast, NEW s \in Station, TransmitRequest(s)
  PROVE  FastNext
<1> DEFINE c == ctlr[s]
           p == [k |-> "raw", num |-> 0, id |-> c.sup + 1]
           d == [c EXCEPT !.sup = @ + 1, !.running = TRUE, !.dtr = TRUE,
                          !.xmtq = Append(@, [k |-> "raw", num |-> 0, id |-> c.sup + 1])]
<1>1. Settled(c) /\ Sound(c) /\ Shaped(c)
  BY DEF Fast, Whole, Settled, Sound
<1>2. Free(c) # 0
  BY <1>1, Roomy, Sizes
<1>3. /\ Fields \subseteq DOMAIN c
  BY <1>1, SettledRoom
<1>4. /\ d.sup = c.sup + 1 /\ d.dtr = TRUE /\ d.xmtq = Append(c.xmtq, p)
      /\ d.rcv = c.rcv /\ d.comp = c.comp /\ d.ackw = c.ackw
      /\ d.conn = c.conn /\ d.car = c.car /\ d.timer = c.timer
      /\ Fields \subseteq DOMAIN d
  BY <1>3 DEF Fields
<1>5. /\ d.again = c.again /\ d.X = c.X /\ d.NAKed = c.NAKed /\ d.link = c.link
      /\ d.R = c.R /\ d.N = c.N /\ d.A = c.A /\ d.T = c.T
      /\ d.busy = c.busy /\ d.fail = FALSE /\ d.room = Pool
      /\ d.fatal = c.fatal /\ d.done = c.done /\ d.ev = c.ev /\ d.out = c.out
      /\ d.taken = c.taken /\ d.floor = c.floor
  BY <1>1, <1>3, SettledRoom DEF Fields
<1>6. Len(c.xmtq) + Len(c.ackw) + Tally(c.comp, "xmt") < MaxXmt
  <2>1. DataOf(c.xmtq) + Len(c.ackw) + Tally(c.comp, "xmt") < MaxXmt
    BY DEF TransmitRequest, Outstanding, Tally, Places
  <2>2. DataOf(c.xmtq) = Len(c.xmtq)
    BY <1>1, DataOfAll, LenProperties DEF Sound, Typing, Shaped
  <2> QED  BY <2>1, <2>2
<1>7. Leave(s, d, <<"none", "command">>, c.here)
  BY <1>2 DEF TransmitRequest
<1>p. p \in Packet /\ p.k = "raw" /\ p.id = c.sup + 1
  <2>1. 0 \in Number
    BY Sizes DEF Number
  <2>2. c.sup + 1 \in Nat
    BY <1>1 DEF Sound, Typing
  <2> QED  BY <2>1, <2>2 DEF Packet
<1> HIDE DEF d, p
<1>8. Readied(c, d)
  BY <1>1, <1>p, <1>4, <1>5, <1>6, MoreMessage
<1> QED  BY <1>7, <1>8, CallNames, LeaveFast

-----------------------------------------------------------------------------
(* The poll *)

\* What the poll calls.
PollCalls(accept) ==
  (IF accept THEN <<"none">> ELSE <<>>) \o <<"carrier", "send", "incoming">>

LEMMA PollCallsAre ==
  ASSUME NEW accept \in BOOLEAN
  PROVE  /\ PollCalls(accept) \in Seq(Names) /\ PollCalls(accept) # <<>>
         /\ accept => Head(PollCalls(accept)) = "none"
         /\ ~accept => Head(PollCalls(accept)) = "carrier"
<1> DEFINE a == <<"none">>
           r == <<"carrier", "send", "incoming">>
<1>1. /\ a \in Seq(Names) /\ Len(a) = 1 /\ a[1] = "none"
      /\ r \in Seq(Names) /\ Len(r) = 3 /\ r[1] = "carrier"
  BY DEF Names
<1>2. PollCalls(accept) = IF accept THEN a \o r ELSE <<>> \o r
  BY Zenon DEF PollCalls
<1> HIDE DEF a, r
<1>3. /\ a \o r \in Seq(Names) /\ Len(a \o r) = 4 /\ (a \o r)[1] = "none"
  BY <1>1, ConcatProperties
<1>4. <<>> \o r = r
  BY <1>1, ConcatEmptySeq
<1>5. \A q \in Seq(Names) : Len(q) > 0 => q # <<>> /\ Head(q) = q[1]
  BY EmptySeq, HeadTailProperties
<1>6. a \o r # <<>> /\ Head(a \o r) = "none" /\ r # <<>> /\ Head(r) = "carrier"
  BY <1>1, <1>3, <1>5
<1> QED  BY <1>1, <1>2, <1>3, <1>4, <1>6

\* A poll without an accept or a notice.
LEMMA PollFast ==
  ASSUME ~WriteFails, Fast, NEW s \in Station, NEW n \in Nat, n <= Len(wire[s]),
         Poll(s, FALSE, FALSE, n)
  PROVE  FastNext
<1> DEFINE c == ctlr[s]
           d == [c EXCEPT !.conn = (@ \/ FALSE) /\ ~FALSE, !.car = @ \/ FALSE]
<1>1. Settled(c) /\ wire[s] \in Seq(LinePacket)
  BY DEF Fast, Whole
<1>2. c.conn \in BOOLEAN /\ c.car \in BOOLEAN /\ Fields \subseteq DOMAIN c
  BY <1>1, SettledRoom
<1>3. d.conn = c.conn /\ d.car = c.car
  BY <1>2 DEF Fields
<1>4. Like(c, d)
  BY <1>1, SettledRoom DEF Fields, Like, Room
<1>5. /\ Leave(s, d, PollCalls(FALSE), n)
      /\ n > 0 => c.conn = TRUE
  <2>1. /\ Leave(s, d, PollCalls(FALSE), n)
        /\ n > c.here => c.conn
    BY DEF Poll, PollCalls
  <2>2. c.here \in Nat /\ (c.conn = FALSE => c.here = 0)
    BY <1>1, LenProperties DEF Fast, Whole, Buffered
  <2> QED  BY <1>2, <2>1, <2>2
<1> HIDE DEF d
<1>6. Readied(c, d)
  BY <1>1, <1>3, <1>4, LikeReadied
<1>7. n \in 0 .. Len(wire[s])
  BY <1>1, LenProperties
<1>8. PollCalls(FALSE) \in Seq(Names)
  BY PollCallsAre
<1> QED  BY <1>5, <1>6, <1>7, <1>8, ReadyWhole DEF Fast, FastNext

LEMMA ConnectFast ==
  ASSUME ~WriteFails, Fast, NEW s \in Station, Connect(s)
  PROVE  FastNext
<1> DEFINE c == ctlr[s]
           d == [c EXCEPT !.conn = (@ \/ TRUE) /\ ~FALSE, !.car = @ \/ TRUE]
           W == wire[s]
           y == Mine(ctlr[Peer(s)])
           Wy == wire[Peer(s)]
           calls == PollCalls(TRUE)
<1>1. Settled(c) /\ W \in Seq(LinePacket) /\ Pair(Seen(c, c.link), W, y, Wy, sock)
      /\ sock \in BOOLEAN
  BY DEF Fast, Whole, Mine
<1>2. c.conn = FALSE /\ c.dtr = TRUE /\ sock = TRUE
  BY <1>1, SettledRoom DEF Connect, Poll
<1>3. d.conn = TRUE /\ d.car = TRUE /\ d.dtr = TRUE
  BY <1>1, <1>2, SettledRoom DEF Fields
<1>4. Like(c, d)
  BY <1>1, SettledRoom DEF Fields, Like, Room
<1>5. Leave(s, d, calls, 0)
  BY DEF Connect, Poll, PollCalls
<1> HIDE DEF d
<1>6. Kin(c, d) /\ Sound(d) /\ Connected(d)
  BY <1>1, <1>3, <1>4, LikeSound DEF Connected
<1>7. 0 \in 0 .. Len(W)
  BY <1>1, LenProperties
<1>8. calls \in Seq(Names) /\ calls # <<>> /\ Head(calls) = "none"
  BY PollCallsAre
<1>9. Ends(W, 0, y, Wy, sock)
  BY <1>7, EndsIs DEF Fast
<1>10. Working(Begun(d, SubSeq(W, 1, 0), calls), Around(W, 0, y, Wy, sock))
  <2> HIDE DEF c, W, y, Wy, calls
  <2> QED  BY <1>1, <1>2, <1>6, <1>8, <1>9, Accepts
<1> HIDE DEF calls
<1> QED  BY <1>5, <1>7, <1>10, LeaveWhole DEF Fast, FastNext

LEMMA DisconnectFast ==
  ASSUME ~WriteFails, Fast, NEW s \in Station, Disconnect(s)
  PROVE  FastNext
<1> DEFINE c == ctlr[s]
           d == [c EXCEPT !.conn = (@ \/ FALSE) /\ ~TRUE, !.car = @ \/ FALSE]
           W == wire[s]
           y == Mine(ctlr[Peer(s)])
           Wy == wire[Peer(s)]
           calls == PollCalls(FALSE)
<1>1. Settled(c) /\ W \in Seq(LinePacket) /\ Pair(Seen(c, c.link), W, y, Wy, sock)
      /\ sock \in BOOLEAN
  BY DEF Fast, Whole, Mine
<1>2. c.conn = TRUE /\ sock = FALSE /\ c.car = TRUE
  BY <1>1, SettledRoom DEF Disconnect, Poll
<1>3. d.conn = FALSE /\ d.car = TRUE
  BY <1>1, <1>2, SettledRoom DEF Fields
<1>4. Like(c, d)
  BY <1>1, SettledRoom DEF Fields, Like, Room
<1>5. Leave(s, d, calls, 0)
  BY DEF Disconnect, Poll, PollCalls
<1> HIDE DEF d
<1>6. Kin(c, d) /\ Sound(d)
  BY <1>1, <1>4, LikeSound
<1>7. 0 \in 0 .. Len(W)
  BY <1>1, LenProperties
<1>8. calls \in Seq(Names) /\ calls # <<>> /\ Head(calls) = "carrier"
  BY PollCallsAre
<1>9. Ends(W, 0, y, Wy, sock)
  BY <1>7, EndsIs DEF Fast
<1>10. Working(Begun(d, SubSeq(W, 1, 0), calls), Around(W, 0, y, Wy, sock))
  <2> HIDE DEF c, W, y, Wy, calls
  <2> QED  BY <1>1, <1>2, <1>3, <1>6, <1>8, <1>9, Notices
<1> HIDE DEF calls
<1> QED  BY <1>5, <1>7, <1>10, LeaveWhole DEF Fast, FastNext

LEMMA PollStepFast ==
  ASSUME ~WriteFails, Fast, NEW s \in Station, PollStep(s)
  PROVE  FastNext
<1>1. Len(wire[s]) \in Nat /\ ctlr[s].here \in 0 .. Len(wire[s])
  BY LenProperties DEF Fast, Whole, Buffered
<1>2. CASE Connect(s)
  BY <1>2, ConnectFast
<1>3. CASE Disconnect(s)
  BY <1>3, DisconnectFast
<1>4. CASE Receive(s)
  <2>1. PICK n \in 1 .. 2 : /\ ctlr[s].here + n <= Len(wire[s])
                             /\ Poll(s, FALSE, FALSE, ctlr[s].here + n)
    BY <1>4 DEF Receive
  <2>2. ctlr[s].here + n \in Nat
    BY <1>1
  <2> QED  BY <2>1, <2>2, PollFast
<1>5. CASE PollQuiet(s)
  <2>1. Poll(s, FALSE, FALSE, ctlr[s].here)
    BY <1>5 DEF PollQuiet
  <2>2. ctlr[s].here <= Len(wire[s]) /\ ctlr[s].here \in Nat
    BY <1>1
  <2> QED  BY <2>1, <2>2, PollFast
<1> QED  BY <1>2, <1>3, <1>4, <1>5 DEF PollStep

-----------------------------------------------------------------------------
(* The master clear and the line *)

\* What a master clear leaves of c.
Cleared(c) ==
  [c EXCEPT !.link = "Halt", !.running = FALSE, !.dtr = FALSE,
            !.conn = FALSE, !.car = FALSE, !.busy = 0, !.here = 0,
            !.rcv = 0, !.comp = <<>>, !.xmtq = <<>>, !.ackw = <<>>,
            !.floor = c.sup, !.shuffled = FALSE]

LEMMA TallyNone == Tally(<<>>, "rcv") = 0 /\ Tally(<<>>, "xmt") = 0
<1>1. Places(<<>>, "rcv") = {} /\ Places(<<>>, "xmt") = {}
  BY DEF Places
<1> QED  BY <1>1, FS_EmptySet DEF Tally

LEMMA ClearedSettled ==
  ASSUME NEW c, Settled(c)
  PROVE  /\ Settled(Cleared(c)) /\ Mine(Cleared(c)).link = "Halt"
         /\ c.link = "Halt" => Mine(Cleared(c)) = Mine(c)
         /\ Cleared(c).here = 0
<1>0. Sound(c) /\ Typing(c) /\ Still(c) /\ c.ev = "none" /\ c.out = <<>>
  BY DEF Settled, Sound
<1>1. PICK d : d = Cleared(c)
  OBVIOUS
<1>2. Fields \subseteq DOMAIN c
  BY <1>0 DEF Typing
<1>3. /\ d.link = "Halt" /\ d.conn = FALSE /\ d.car = FALSE /\ d.rcv = 0
      /\ d.comp = <<>> /\ d.xmtq = <<>> /\ d.ackw = <<>> /\ d.floor = c.sup
  BY <1>1, <1>2 DEF Cleared, Fields
<1>4. /\ d.timer = c.timer /\ d.again = c.again /\ d.X = c.X /\ d.NAKed = c.NAKed
      /\ d.R = c.R /\ d.N = c.N /\ d.A = c.A /\ d.T = c.T /\ Fields \subseteq DOMAIN d
  BY <1>1, <1>2 DEF Cleared, Fields
<1>5. /\ d.busy = 0 /\ d.fail = c.fail /\ d.fatal = c.fatal /\ d.done = c.done
      /\ d.room = c.room /\ d.here = 0
      /\ d.ev = c.ev /\ d.out = c.out /\ d.sup = c.sup /\ d.taken = c.taken
  BY <1>1, <1>2 DEF Cleared, Fields
<1>6. <<>> \in Seq(Packet) /\ <<>> \in Seq(Completion) /\ Len(<<>>) = 0
  OBVIOUS
<1>7. Typing(d)
  BY <1>0, <1>3, <1>4, <1>5, <1>6 DEF Typing
<1>8. Still(d)
  BY <1>0, <1>5 DEF Still
<1>9. Shaped(d)
  BY <1>3, <1>6 DEF Shaped
<1>10. Room(d)
  BY <1>3, <1>6, TallyNone, Sizes DEF Room
<1>11. Kept(d)
  <2>1. d.floor + 1 .. d.sup = {}
    BY <1>0, <1>3, <1>5 DEF Typing
  <2> QED  BY <2>1 DEF Kept
<1>12. Sound(d)
  BY <1>7, <1>8, <1>9, <1>10, <1>11 DEF Sound
<1>13. Settled(d)
  BY <1>0, <1>3, <1>5, <1>12 DEF Settled, Linked
<1>14. Mine(d).link = "Halt" /\ (c.link = "Halt" => Mine(d) = Mine(c))
  BY <1>3, <1>4 DEF Mine, Seen
<1> QED  BY <1>1, <1>5, <1>13, <1>14

LEMMA WholeAt ==
  ASSUME NEW k, NEW w, NEW u, Whole(k, w, u), NEW s \in Station
  PROVE  /\ u \in BOOLEAN /\ Settled(k[s]) /\ Settled(k[Peer(s)])
         /\ w[s] \in Seq(LinePacket) /\ w[Peer(s)] \in Seq(LinePacket)
         /\ Pair(Mine(k[s]), w[s], Mine(k[Peer(s)]), w[Peer(s)], u)
         /\ Mine(k[s]) \in View /\ Mine(k[Peer(s)]) \in View
         /\ Buffered(k[s], w[s]) /\ Buffered(k[Peer(s)], w[Peer(s)])
<1>1. Peer(s) \in Station
  BY Peers
<1>2. Settled(k[s]) /\ Settled(k[Peer(s)])
  BY <1>1 DEF Whole
<1>3. Mine(k[s]) \in View /\ Mine(k[Peer(s)]) \in View
  BY <1>2, SettledIs
<1> QED  BY <1>1, <1>2, <1>3 DEF Whole

LEMMA MasterClearFast ==
  ASSUME Fast, NEW s \in Station, MasterClear(s)
  PROVE  FastNext
<1> DEFINE p == Peer(s)
           c == ctlr[s]
           d == Cleared(c)
           y == Mine(ctlr[p])
<1>1. /\ sock \in BOOLEAN /\ Settled(c) /\ Settled(ctlr[p])
      /\ wire[s] \in Seq(LinePacket) /\ wire[p] \in Seq(LinePacket)
      /\ Pair(Mine(c), wire[s], y, wire[p], sock)
      /\ Mine(c) \in View /\ y \in View /\ Buffered(ctlr[p], wire[p])
  BY WholeAt DEF Fast
<1>2. /\ ctlr' = [ctlr EXCEPT ![s] = d] /\ wire' = [wire EXCEPT ![s] = <<>>]
      /\ sock' = (sock /\ ~c.conn)
  BY DEF MasterClear, Cleared
<1>3. p \in Station /\ p # s
  BY Peers
<1> HIDE DEF d, p, y
<1>4. /\ DOMAIN ctlr' = Station /\ DOMAIN wire' = Station
      /\ ctlr'[s] = d /\ ctlr'[p] = ctlr[p] /\ wire'[s] = <<>> /\ wire'[p] = wire[p]
  BY <1>2, <1>3 DEF Fast
<1>5. /\ Settled(d) /\ Mine(d).link = "Halt" /\ (c.link = "Halt" => Mine(d) = Mine(c))
      /\ d.here = 0
  BY <1>1, ClearedSettled DEF d
<1>6. Mine(d) \in View
  BY <1>5, SettledIs
<1>7. sock' \in BOOLEAN
  BY <1>2
<1>8. Pair(Mine(d), <<>>, y, wire[p], sock')
  <2>1. CASE c.conn = FALSE
    <3>1. sock' = sock /\ Mine(d) = Mine(c)
      BY <1>1, <1>2, <1>5, <2>1, SettledRoom
    <3>2. Thin(<<>>, wire[s])
      BY <1>1, ThinSelf
    <3>3. Pair(Mine(c), <<>>, y, wire[p], sock)
      BY <1>1, <3>2, PairThin
    <3> QED  BY <3>1, <3>3
  <2>2. CASE c.conn = TRUE
    <3>1. ~sock'
      BY <1>2, <2>2
    <3> DEFINE x == Mine(c)
               z == Mine(d)
               W == wire[s]
               Wy == wire[p]
    <3>2. Pair(x, W, y, Wy, sock) /\ x \in View /\ y \in View /\ sock \in BOOLEAN
      BY <1>1
    <3>3. z \in View /\ z.link = "Halt"
      BY <1>5, <1>6
    <3> HIDE DEF x, z, W, Wy
    <3>4. Pair(z, <<>>, y, Wy, sock')
      BY <1>7, <3>1, <3>2, <3>3, PairLost
    <3> QED  BY <3>4 DEF z, Wy
  <2>3. c.conn \in BOOLEAN
    BY <1>1, SettledRoom
  <2> QED  BY <2>1, <2>2, <2>3
<1>9. <<>> \in Seq(LinePacket) /\ Buffered(d, <<>>)
  <2>1. Len(<<>>) = 0
    OBVIOUS
  <2> QED  BY <1>5, <2>1 DEF Buffered
<1>10. Whole(ctlr', wire', sock')
  BY <1>1, <1>4, <1>5, <1>7, <1>8, <1>9, WholeIs DEF p, y
<1> QED  BY <1>4, <1>10 DEF FastNext

LEMMA SockUpFast ==
  ASSUME Fast, SockUp
  PROVE  FastNext
<1>0. ctlr' = ctlr /\ wire' = [s \in Station |-> <<>>] /\ sock' = TRUE
  BY DEF SockUp
<1>1. PICK s \in Station : TRUE
  BY DdcmpAssumption
<1> DEFINE p == Peer(s)
           x == Mine(ctlr[s])
           y == Mine(ctlr[p])
<1>2. /\ Settled(ctlr[s]) /\ Settled(ctlr[p]) /\ x \in View /\ y \in View
      /\ Buffered(ctlr[s], wire[s]) /\ Buffered(ctlr[p], wire[p])
  BY WholeAt DEF Fast
<1>3. p \in Station
  BY Peers
<1>4. ctlr[s].conn = FALSE /\ ctlr[p].conn = FALSE
  BY <1>2, <1>3, SettledRoom DEF SockUp
<1>5. x.link = "Halt" /\ y.link = "Halt"
  BY <1>2, <1>4, SettledRoom, SettledIs
<1>6. wire'[s] = <<>> /\ wire'[p] = <<>> /\ DOMAIN wire' = Station
  BY <1>0, <1>3
<1>7. /\ <<>> \in Seq(LinePacket)
      /\ Buffered(ctlr[s], <<>>) /\ Buffered(ctlr[p], <<>>)
  <2>1. Len(<<>>) = 0
    OBVIOUS
  <2> QED  BY <1>2, <1>4, <2>1 DEF Buffered
<1> HIDE DEF p, x, y
<1>8. Pair(x, <<>>, y, <<>>, TRUE)
  BY <1>2, <1>5, PairNone
<1>9. Whole(ctlr', wire', sock')
  BY <1>0, <1>2, <1>6, <1>7, <1>8, WholeIs DEF p, x, y
<1> QED  BY <1>0, <1>6, <1>9 DEF Fast, FastNext

LEMMA ThinPrefix ==
  ASSUME NEW W \in Seq(LinePacket), NEW n \in 0 .. Len(W)
  PROVE  /\ SubSeq(W, 1, n) \in Seq(LinePacket) /\ Len(SubSeq(W, 1, n)) = n
         /\ Thin(SubSeq(W, 1, n), W)
<1>1. Len(W) \in Nat /\ n \in Nat /\ n <= Len(W)
  BY LenProperties
<1>2. \A i \in 1 .. n : W[i] \in LinePacket
  BY <1>1, ElementOfSeq
<1>3. /\ SubSeq(W, 1, n) \in Seq(LinePacket) /\ Len(SubSeq(W, 1, n)) = n
      /\ \A i \in 1 .. n : SubSeq(W, 1, n)[i] = W[i]
  BY <1>1, <1>2, SubSeqProperties
<1> DEFINE P == SubSeq(W, 1, n)
           g == [j \in 1 .. n |-> j]
<1> HIDE DEF P
<1>4. P \in Seq(LinePacket) /\ Len(P) = n /\ \A i \in 1 .. n : P[i] = W[i]
  BY <1>3 DEF P
<1>5. \A j \in 1 .. n : g[j] = j
  OBVIOUS
<1> HIDE DEF g
<1>6. Embeds(P, W, g)
  BY <1>1, <1>4, <1>5 DEF Embeds
<1>7. W = <<>> => P = <<>>
  <2> SUFFICES ASSUME W = <<>> PROVE P = <<>>
    OBVIOUS
  <2>1. Len(P) = 0
    BY <1>1, <1>4
  <2> QED  BY <1>4, <2>1, EmptySeq
<1>8. Thin(P, W)
  BY <1>1, <1>4, <1>6, <1>7 DEF Thin
<1> QED  BY <1>3, <1>8 DEF P

LEMMA BreakFast ==
  ASSUME Fast, Break
  PROVE  FastNext
<1>1. /\ sock' = FALSE /\ ctlr' = ctlr
      /\ wire' = [s \in Station |-> SubSeq(wire[s], 1, ctlr[s].here)]
  BY DEF Break
<1>2. PICK s \in Station : TRUE
  BY DdcmpAssumption
<1> DEFINE p == Peer(s)
           x == Mine(ctlr[s])
           y == Mine(ctlr[p])
           W == wire[s]
           Wy == wire[p]
           P == SubSeq(W, 1, ctlr[s].here)
           Py == SubSeq(Wy, 1, ctlr[p].here)
<1>3. /\ Settled(ctlr[s]) /\ Settled(ctlr[p]) /\ x \in View /\ y \in View
      /\ W \in Seq(LinePacket) /\ Wy \in Seq(LinePacket) /\ sock \in BOOLEAN
      /\ Buffered(ctlr[s], W) /\ Buffered(ctlr[p], Wy)
      /\ Pair(x, W, y, Wy, sock)
  BY WholeAt DEF Fast
<1>4. p \in Station
  BY Peers
<1>5. wire'[s] = P /\ wire'[p] = Py /\ DOMAIN wire' = Station
  BY <1>1, <1>4
<1> HIDE DEF p, x, y, W, Wy
<1>6. P \in Seq(LinePacket) /\ Len(P) = ctlr[s].here /\ Thin(P, W)
  BY <1>3, ThinPrefix DEF Buffered
<1>7. Py \in Seq(LinePacket) /\ Len(Py) = ctlr[p].here /\ Thin(Py, Wy)
  BY <1>3, ThinPrefix DEF Buffered
<1> HIDE DEF P, Py
<1>8. Pair(x, P, y, Py, FALSE)
  <2>1. Pair(x, P, y, Wy, sock)
    BY <1>3, <1>6, PairThin
  <2>2. Pair(y, Wy, x, P, sock)
    BY <2>1, PairTurned
  <2>3. Pair(y, Py, x, P, sock)
    BY <1>3, <1>7, <2>2, PairThin
  <2>4. Pair(x, P, y, Py, sock)
    BY <2>3, PairTurned
  <2> QED  BY <1>3, <2>4, PairDown
<1>9. Buffered(ctlr[s], P) /\ Buffered(ctlr[p], Py)
  <2>1. ctlr[s].here \in Nat /\ ctlr[p].here \in Nat
    BY <1>3, LenProperties DEF Buffered
  <2> QED  BY <1>3, <1>6, <1>7, <2>1 DEF Buffered
<1>10. Whole(ctlr', wire', sock')
  BY <1>1, <1>3, <1>5, <1>6, <1>7, <1>8, <1>9, WholeIs DEF p, x, y
<1> QED  BY <1>1, <1>5, <1>10 DEF Fast, FastNext

\* A wire that loses packets.
LEMMA ThinWire ==
  ASSUME Fast, NEW s \in Station, NEW P \in Seq(LinePacket), Thin(P, wire[s]),
         ctlr[s].here <= Len(P),
         ctlr' = ctlr, sock' = sock, wire' = [wire EXCEPT ![s] = P]
  PROVE  FastNext
<1> DEFINE p == Peer(s)
           x == Mine(ctlr[s])
           y == Mine(ctlr[p])
<1>1. /\ sock \in BOOLEAN /\ Settled(ctlr[s]) /\ Settled(ctlr[p])
      /\ wire[p] \in Seq(LinePacket)
      /\ Buffered(ctlr[s], wire[s]) /\ Buffered(ctlr[p], wire[p])
      /\ Pair(x, wire[s], y, wire[p], sock) /\ x \in View /\ y \in View
  BY WholeAt DEF Fast
<1>2. p \in Station /\ p # s
  BY Peers
<1>3. wire'[s] = P /\ wire'[p] = wire[p] /\ DOMAIN wire' = Station
  BY <1>2 DEF Fast
<1> HIDE DEF p, x, y
<1>4. Pair(x, P, y, wire[p], sock)
  BY <1>1, PairThin
<1>5. Buffered(ctlr[s], P)
  <2>1. Len(P) \in Nat /\ Len(wire[s]) \in Nat
    BY DEF Thin
  <2> QED  BY <1>1, <2>1 DEF Buffered
<1>6. Whole(ctlr', wire', sock')
  BY <1>1, <1>3, <1>4, <1>5, WholeIs DEF p, x, y
<1> QED  BY <1>3, <1>6 DEF Fast, FastNext

LEMMA LoseFast ==
  ASSUME Fast, NEW s \in Station, Lose(s)
  PROVE  FastNext
<1>0. ctlr[s].here \in Nat /\ Len(wire[s]) \in Nat
  BY LenProperties DEF Fast, Whole, Buffered
<1>1. PICK i \in ctlr[s].here + 1 .. Len(wire[s]) : wire' = [wire EXCEPT ![s] = RemoveAt(@, i)]
  BY DEF Lose
<1>i. i \in 1 .. Len(wire[s]) /\ ctlr[s].here <= Len(wire[s]) - 1
  BY <1>0
<1> DEFINE W == wire[s]
           P == RemoveAt(W, i)
           g == [j \in 1 .. Len(P) |-> IF j < i THEN j ELSE j + 1]
<1>2. W \in Seq(LinePacket) /\ Len(W) \in Nat
  BY LenProperties DEF Fast, Whole
<1>3. /\ P \in Seq(LinePacket) /\ Len(P) = Len(W) - 1
      /\ \A j \in 1 .. Len(W) - 1 : P[j] = IF j < i THEN W[j] ELSE W[j + 1]
  BY <1>2, <1>i, RemoveAtIndex
<1>4. /\ wire' = [wire EXCEPT ![s] = P] /\ ctlr' = ctlr /\ sock' = sock
      /\ ctlr[s].here <= Len(P) /\ i \in 1 .. Len(W)
  BY <1>1, <1>i, <1>3 DEF Lose
<1> HIDE DEF W, P
<1>5. \A j \in 1 .. Len(P) : g[j] \in 1 .. Len(W) /\ P[j] = W[g[j]]
  BY <1>2, <1>3, <1>4
<1>6. \A j, k \in 1 .. Len(P) : j < k => g[j] < g[k]
  BY <1>2, <1>3, <1>4
<1> HIDE DEF g
<1>7. Embeds(P, W, g)
  BY <1>5, <1>6 DEF Embeds
<1>8. W = <<>> => P = <<>>
  <2>1. i \in 1 .. Len(W)
    BY <1>4
  <2> QED  BY <2>1, EmptySeq
<1>9. Thin(P, W)
  BY <1>2, <1>3, <1>7, <1>8 DEF Thin
<1> QED  BY <1>3, <1>4, <1>9, ThinWire DEF W

LEMMA BiteFast ==
  ASSUME Fast, NEW s \in Station, Bite(s)
  PROVE  FastNext
<1>0. ctlr[s].here \in Nat /\ Len(wire[s]) \in Nat
  BY LenProperties DEF Fast, Whole, Buffered
<1>1. PICK i \in ctlr[s].here + 1 .. Len(wire[s]) : wire' = [wire EXCEPT ![s][i].bad = TRUE]
  BY DEF Bite
<1>i. i \in 1 .. Len(wire[s]) /\ ctlr[s].here <= Len(wire[s])
  BY <1>0
<1> DEFINE W == wire[s]
           P == [W EXCEPT ![i].bad = TRUE]
           g == [j \in 1 .. Len(P) |-> j]
<1>2. W \in Seq(LinePacket) /\ Len(W) \in Nat /\ i \in 1 .. Len(W)
      /\ ctlr[s].here <= Len(W)
  BY <1>i, LenProperties DEF Fast, Whole
<1>3. wire' = [wire EXCEPT ![s] = P] /\ ctlr' = ctlr /\ sock' = sock
  BY <1>1 DEF Bite
<1> HIDE DEF W
<1>4. \A j \in 1 .. Len(W) : W[j] \in LinePacket
  BY <1>2, ElementOfSeq
<1>5. /\ P \in [1 .. Len(W) -> LinePacket]
      /\ \A j \in 1 .. Len(W) : /\ P[j].k = W[j].k /\ P[j].num = W[j].num
                                /\ P[j].resp = W[j].resp
  <2> DEFINE q == W[i]
             r == [q EXCEPT !.bad = TRUE]
  <2>1. q \in LinePacket
    BY <1>2, <1>4
  <2> HIDE DEF q
  <2>2. r \in LinePacket /\ r.k = q.k /\ r.num = q.num /\ r.resp = q.resp
    BY <2>1 DEF LinePacket
  <2>3. P = [W EXCEPT ![i] = r]
    BY Zenon DEF P, q, r
  <2> HIDE DEF P, r
  <2>4. W \in [1 .. Len(W) -> LinePacket]
    BY <1>2
  <2>5. P \in [1 .. Len(W) -> LinePacket]
    BY <2>2, <2>3, <2>4
  <2>6. \A j \in 1 .. Len(W) : P[j] = IF j = i THEN r ELSE W[j]
    BY <2>3, <2>4
  <2> QED  BY <2>2, <2>5, <2>6 DEF q
<1> HIDE DEF P
<1>6. P \in Seq(LinePacket) /\ Len(P) = Len(W)
  BY <1>2, <1>5, FunSeq
<1>7. \A j \in 1 .. Len(P) : g[j] = j
  OBVIOUS
<1> HIDE DEF g
<1>8. Embeds(P, W, g)
  BY <1>2, <1>5, <1>6, <1>7 DEF Embeds
<1>9. W # <<>>
  BY <1>2, EmptySeq
<1>10. Thin(P, W)
  BY <1>2, <1>6, <1>8, <1>9 DEF Thin
<1> QED  BY <1>2, <1>3, <1>6, <1>10, ThinWire DEF W

-----------------------------------------------------------------------------
(* The specification *)

\* No write fails or stalls.
Calm == ~WriteFails /\ \A x \in Scenarios : x.stall = 0

\* What is left of such a scenario.
Leftover ==
  [speed : {"limited", "full"}, supply : [Station -> Nat],
   loss : Nat, troll : BOOLEAN, stall : {0}, break : Nat, clear : Nat]

\* The inductive invariant: at full speed every controller is sound and what
\* is on the line between two of them is what their states allow.
IInv == left \in Leftover /\ (left.speed = "full" => Fast)

LEMMA LeftStep ==
  ASSUME ~WriteFails, left \in Leftover, [Next]_vars
  PROVE  left' \in Leftover /\ left'.speed = left.speed
<1>0. /\ left.loss \in Nat /\ left.break \in Nat /\ left.clear \in Nat
  BY DEF Leftover
<1>1. CASE UNCHANGED left
  BY <1>1
<1>2. CASE \E s \in Station : MasterClear(s)
  <2>1. left' = [left EXCEPT !.clear = @ - 1] /\ left.clear > 0
    BY <1>2 DEF MasterClear
  <2>2. left.clear - 1 \in Nat
    BY <1>0, <2>1
  <2> QED  BY <2>1, <2>2 DEF Leftover
<1>3. CASE Break
  <2>1. left' = [left EXCEPT !.break = @ - 1] /\ left.break > 0
    BY <1>3 DEF Break
  <2>2. left.break - 1 \in Nat
    BY <1>0, <2>1
  <2> QED  BY <2>1, <2>2 DEF Leftover
<1>4. CASE \E s \in Station : Lose(s) \/ Bite(s)
  <2>1. left' = [left EXCEPT !.loss = @ - 1] /\ left.loss > 0
    BY <1>4 DEF Lose, Bite
  <2>2. left.loss - 1 \in Nat
    BY <1>0, <2>1
  <2> QED  BY <2>1, <2>2 DEF Leftover
<1>5. ASSUME NEW s \in Station, DriverStep(s) \/ LineStep(s)
      PROVE  UNCHANGED left \/ MasterClear(s)
  <2>1. left.stall = 0 /\ left = [left EXCEPT !.stall = left.stall]
    BY DEF Leftover
  <2>2. ASSUME NEW c0, NEW calls, NEW read, Leave(s, c0, calls, read)
        PROVE  UNCHANGED left
    <3>1. PICK d, h, W : LeftBy(s, c0, calls, read, d, h, W)
      BY <2>1, <2>2, LeaveIs
    <3> QED  BY <2>1, <3>1, Zenon DEF LeftBy
  <2>3. CASE DriverStep(s)
    BY <2>2, <2>3, Zenon
       DEF DriverStep, ControlIn, TransmitRequest, CompletionTaken, ReceiveRequest
  <2>4. CASE LineStep(s)
    BY <2>2, <2>4, Zenon
       DEF LineStep, PollStep, Connect, Disconnect, Receive, PollQuiet, Poll, Wake, Expire
  <2> QED  BY <1>5, <2>3, <2>4
<1>6. CASE UNCHANGED vars
  BY <1>1, <1>6 DEF vars
<1>7. CASE SockUp
  BY <1>1, <1>7 DEF SockUp
<1> QED  BY <1>1, <1>2, <1>3, <1>4, <1>5, <1>6, <1>7 DEF Next

LEMMA FastStep ==
  ASSUME ~WriteFails, Fast, [Next]_vars
  PROVE  FastNext
<1>1. CASE UNCHANGED vars
  BY <1>1 DEF vars, Fast, FastNext
<1>2. ASSUME NEW s \in Station, DriverStep(s) PROVE FastNext
  BY <1>2, ControlInFast, ReceiveRequestFast, TransmitRequestFast, CompletionTakenFast,
     MasterClearFast DEF DriverStep
<1>3. ASSUME NEW s \in Station, LineStep(s) PROVE FastNext
  BY <1>3, PollStepFast, WakeFast, ExpireFast DEF LineStep
<1>4. ASSUME NEW s \in Station, Lose(s) \/ Bite(s) PROVE FastNext
  BY <1>4, LoseFast, BiteFast
<1>5. CASE SockUp
  BY <1>5, SockUpFast
<1>6. CASE Break
  BY <1>6, BreakFast
<1> QED  BY <1>1, <1>2, <1>3, <1>4, <1>5, <1>6 DEF Next

LEMMA ControllerSettled ==
  Settled(Controller) /\ Mine(Controller).link = "Halt" /\ Buffered(Controller, <<>>)
<1> DEFINE c == Controller
<1>1. /\ c.link = "Halt" /\ c.conn = FALSE /\ c.car = FALSE /\ c.rcv = 0
      /\ c.comp = <<>> /\ c.xmtq = <<>> /\ c.ackw = <<>> /\ c.floor = 0 /\ c.sup = 0
      /\ c.ev = "none" /\ c.out = <<>>
  BY DEF Controller
<1>2. /\ c.timer = "off" /\ c.again = FALSE /\ c.X = 0 /\ c.NAKed = 0
      /\ c.R = 0 /\ c.N = 0 /\ c.A = 0 /\ c.T = 1 /\ Fields \subseteq DOMAIN c
  BY DEF Controller, Fields
<1>3. /\ c.busy = 0 /\ c.fail = FALSE /\ c.fatal = FALSE /\ c.done = NoPacket
      /\ c.room = Pool /\ c.here = 0
  BY DEF Controller
<1>4. 0 \in Number /\ 1 \in Number
  <2>1. MaxXmt > 0
    BY DdcmpAssumption
  <2> QED  BY <2>1, Sizes DEF Number
<1>5. <<>> \in Seq(Packet) /\ <<>> \in Seq(Completion) /\ Len(<<>>) = 0
  OBVIOUS
<1> HIDE DEF c
<1>6. Typing(c)
  <2>1. c.timer \in {"off", "on", "spent"} /\ c.again \in BOOLEAN
    BY <1>2
  <2>2. /\ c.R \in Number /\ c.N \in Number /\ c.A \in Number /\ c.T \in Number
        /\ c.X \in Number /\ c.NAKed \in Number
    BY <1>2, <1>4
  <2>3. c.rcv \in Nat /\ c.sup \in Nat /\ c.floor \in Nat
    BY <1>1
  <2>4. c.comp \in Seq(Completion) /\ c.xmtq \in Seq(Packet) /\ c.ackw \in Seq(Packet)
    BY <1>1, <1>5
  <2> QED  BY <1>2, <2>1, <2>2, <2>3, <2>4 DEF Typing
<1>7. Still(c) /\ Shaped(c)
  BY <1>1, <1>3, <1>5 DEF Still, Shaped
<1>8. Room(c)
  BY <1>1, <1>5, TallyNone, Sizes DEF Room
<1>9. Kept(c)
  <2>1. c.floor + 1 .. c.sup = {}
    BY <1>1
  <2> QED  BY <2>1 DEF Kept
<1>10. Settled(c)
  BY <1>1, <1>6, <1>7, <1>8, <1>9 DEF Settled, Sound, Linked
<1>11. Mine(c).link = "Halt"
  BY <1>1 DEF Mine, Seen
<1>12. Buffered(c, <<>>)
  BY <1>3, <1>5 DEF Buffered
<1> QED  BY <1>10, <1>11, <1>12 DEF c

LEMMA InitInv == ASSUME Calm PROVE Init => IInv
<1> SUFFICES ASSUME Init PROVE IInv
  OBVIOUS
<1>1. left \in Leftover
  <2>1. left \in Scenarios /\ left.stall \in {0}
    BY DEF Init, Calm
  <2> QED  BY <2>1, DdcmpAssumption DEF Leftover
<1>2. ASSUME left.speed = "full" PROVE Fast
  <2>1. PICK s \in Station : TRUE
    BY DdcmpAssumption
  <2>2. Peer(s) \in Station
    BY Peers
  <2>3. ctlr[s] = Controller /\ ctlr[Peer(s)] = Controller
    BY <2>2 DEF Init
  <2>4. wire[s] = <<>> /\ wire[Peer(s)] = <<>> /\ sock \in BOOLEAN
    BY <2>2 DEF Init
  <2>5. Mine(Controller) \in View /\ Settled(Controller) /\ Buffered(Controller, <<>>)
    BY ControllerSettled, SettledIs
  <2>6. Pair(Mine(Controller), <<>>, Mine(Controller), <<>>, sock)
    BY <2>4, <2>5, ControllerSettled, PairNone
  <2>7. <<>> \in Seq(LinePacket)
    OBVIOUS
  <2>8. Whole(ctlr, wire, sock)
    BY <2>3, <2>4, <2>5, <2>6, <2>7, WholeIs
  <2>9. DOMAIN ctlr = Station /\ DOMAIN wire = Station
    BY DEF Init
  <2>10. left.stall = 0
    BY <1>1 DEF Leftover
  <2> QED  BY <1>2, <2>8, <2>9, <2>10 DEF Fast
<1> QED  BY <1>1, <1>2 DEF IInv

LEMMA NextInv == ASSUME Calm PROVE IInv /\ [Next]_vars => IInv'
<1> SUFFICES ASSUME IInv, [Next]_vars PROVE IInv'
  OBVIOUS
<1>1. left \in Leftover /\ (left.speed = "full" => Fast)
  BY DEF IInv
<1>2. left' \in Leftover /\ left'.speed = left.speed /\ ~WriteFails
  BY <1>1, LeftStep DEF Calm
<1>3. ASSUME left'.speed = "full" PROVE Fast'
  <2>1. Fast
    BY <1>1, <1>2, <1>3
  <2>2. FastNext
    BY <1>2, <2>1, FastStep
  <2>3. left'.stall = 0
    BY <1>2 DEF Leftover
  <2> QED  BY <1>3, <2>2, <2>3 DEF FastNext, Fast
<1> QED  BY <1>2, <1>3 DEF IInv

\* While writes to the line succeed, the pair of controllers and their line
\* are always as Fast says, whatever order the poll, the services, the timer
\* and the drivers come in.
THEOREM InvAlways == ASSUME Calm PROVE Spec => []IInv
<1>1. Init => IInv
  BY InitInv
<1>2. IInv /\ [Next]_vars => IInv'
  BY NextInv
<1> QED  BY <1>1, <1>2, PTL DEF Spec

LEMMA TypeOKIs == IInv => (left.speed = "full" => TypeOK)
<1> SUFFICES ASSUME Fast PROVE TypeOK
  BY DEF IInv
<1>1. sock \in BOOLEAN /\ left.speed \in {"limited", "full"}
  BY DEF Fast, Whole
<1>2. ASSUME NEW s \in Station
      PROVE  LET c == ctlr[s]
             IN  /\ c.link \in {"Halt", "IStart", "AStart", "Run"}
                 /\ c.timer \in {"off", "on", "spent"}
                 /\ {c.xmtq[i].k : i \in 1 .. Len(c.xmtq)} \subseteq Kinds \cup {"raw"}
                 /\ NumberOk(c)
  <2> DEFINE c == ctlr[s]
  <2>1. Settled(c) /\ Sound(c) /\ Typing(c)
    BY DEF Fast, Whole, Settled, Sound
  <2> HIDE DEF c
  <2>2. c.link \in {"Halt", "IStart", "AStart", "Run"} /\ c.timer \in {"off", "on", "spent"}
    BY <2>1 DEF Settled, Typing
  <2>3. {c.xmtq[i].k : i \in 1 .. Len(c.xmtq)} \subseteq Kinds \cup {"raw"}
    <3>1. \A i \in 1 .. Len(c.xmtq) : c.xmtq[i].k \in {"raw", "data"}
      BY <2>1 DEF Sound, Shaped
    <3> QED  BY <3>1 DEF Kinds
  <2>4. NumberOk(c)
    <3>1. Free(c) \in 0 .. Pool /\ Len(c.xmtq) \in Nat
      BY <2>1, Roomy, BuffersAre, Sizes
    <3>2. c.busy \in 0 .. Len(c.xmtq)
      BY <2>1, <3>1 DEF Sound, Still
    <3> QED  BY <2>1, <3>1, <3>2 DEF NumberOk, Typing
  <2> QED  BY <2>2, <2>3, <2>4 DEF c
<1> QED  BY <1>1, <1>2 DEF TypeOK

LEMMA NeverExhaustedIs == IInv => (left.speed = "full" => NeverExhausted)
BY SettledRoom DEF IInv, Fast, Whole, NeverExhausted

LEMMA NoControlQueuedIs == IInv => (left.speed = "full" => NoControlQueued)
BY DEF IInv, Fast, Whole, Settled, Sound, Shaped, NoControlQueued, IsData

LEMMA AccountedIs == IInv => (left.speed = "full" => Accounted)
<1> SUFFICES ASSUME Fast PROVE Accounted
  BY DEF IInv
<1> SUFFICES ASSUME NEW s \in Station
             PROVE  LET c == ctlr[s]
                        q == Buffers(c)
                        numbered == {i \in 1 .. Len(q) : q[i].k = "data"}
                    IN  /\ \A m \in c.floor + 1 .. c.sup :
                             m \in c.taken \/ \E i \in 1 .. Len(q) : q[i].id = m
                        /\ c.link = "Run" =>
                             /\ \A d \in 1 .. Ahead(c.A, c.N) :
                                  \E i \in numbered : Ahead(c.A, q[i].num) = d
                             /\ \A i, j \in numbered : i # j => q[i].num # q[j].num
  BY DEF Accounted
<1> DEFINE c == ctlr[s]
           q == Buffers(c)
           numbered == {i \in 1 .. Len(q) : q[i].k = "data"}
<1>1. Settled(c) /\ Kept(c) /\ Typing(c) /\ Linked(c, c.link)
  BY DEF Fast, Whole, Settled, Sound
<1> HIDE DEF c
<1>2. \A m \in c.floor + 1 .. c.sup :
        m \in c.taken \/ \E i \in 1 .. Len(q) : q[i].id = m
  BY <1>1 DEF Kept
<1> HIDE DEF q
<1>3. ASSUME c.link = "Run"
      PROVE  /\ \A d \in 1 .. Ahead(c.A, c.N) :
                  \E i \in numbered : Ahead(c.A, q[i].num) = d
             /\ \A i, j \in numbered : i # j => q[i].num # q[j].num
  <2>1. Covered(q, c.A, c.N) /\ Distinct(q)
    BY <1>1, <1>3 DEF Linked, Window, q
  <2>2. c.A \in Number /\ c.N \in Number
    BY <1>1 DEF Typing
  <2>3. ASSUME NEW d \in 1 .. Ahead(c.A, c.N)
        PROVE  \E i \in numbered : Ahead(c.A, q[i].num) = d
    <3> DEFINE n == After(c.A, d)
    <3>1. /\ d \in Nat /\ d < Modulus /\ d > 0 /\ d <= Ahead(c.A, c.N)
      <4>1. Ahead(c.A, c.N) \in Nat /\ Ahead(c.A, c.N) < Modulus
        BY <2>2, AheadIs
      <4>2. Modulus \in Nat
        BY Sizes
      <4> QED  BY <4>1, <4>2
    <3>2. n \in Number /\ Ahead(c.A, n) = d
      BY <2>2, <3>1, AfterIs
    <3> HIDE DEF n
    <3>3. \E i \in 1 .. Len(q) : Has(q, i, n)
      BY <2>1, <3>1, <3>2 DEF Covered
    <3> QED  BY <3>2, <3>3 DEF Has
  <2>4. \A i, j \in numbered : i # j => q[i].num # q[j].num
    BY <2>1 DEF Distinct
  <2> QED  BY <2>3, <2>4
<1> QED  BY <1>2, <1>3 DEF c, q

LEMMA AgreementIs == IInv => (left.speed = "full" => Agreement)
<1> SUFFICES ASSUME Fast PROVE Agreement
  BY DEF IInv
<1> SUFFICES ASSUME NEW s \in Station, ctlr[s].link = "Run", ctlr[Peer(s)].link = "Run"
             PROVE  Ahead(ctlr[s].A, ctlr[Peer(s)].R) <= Ahead(ctlr[s].A, ctlr[s].N)
  BY DEF Agreement
<1> DEFINE c == ctlr[s]
           d == ctlr[Peer(s)]
           x == Mine(c)
           y == Mine(d)
<1>1. Pair(x, wire[s], y, wire[Peer(s)], sock)
  BY WholeAt DEF Fast
<1>2. /\ x.link = "Run" /\ y.link = "Run" /\ x.A = c.A /\ x.N = c.N /\ y.R = d.R
  BY DEF Mine, Seen
<1> HIDE DEF x, y
<1>3. Ahead(x.A, y.R) <= Ahead(x.A, x.N)
  BY <1>1, <1>2 DEF Pair, Half, Known
<1> QED  BY <1>2, <1>3

\* The buffers and the numbers of a controller are well formed: the five queues
\* never hold more buffers than there are (BUFFER, DDCMP).
THEOREM TypeCorrect ==
  ASSUME Calm
  PROVE  Spec => [](left.speed = "full" => TypeOK)
BY InvAlways, TypeOKIs, PTL

\* "This is a fatal error which should never happen" does not happen
\* (dmc_buffer_allocate).
THEOREM BuffersSuffice ==
  ASSUME Calm
  PROVE  Spec => [](left.speed = "full" => NeverExhausted)
BY InvAlways, NeverExhaustedIs, PTL

\* No control packet is ever numbered as a message (ddcmp_ResetVariables).
THEOREM OnlyMessagesNumbered ==
  ASSUME Calm
  PROVE  Spec => [](left.speed = "full" => NoControlQueued)
BY InvAlways, NoControlQueuedIs, PTL

\* Every message is reported or on a queue, and the numbers of the queues are
\* those of the window (the state table and its actions).
THEOREM NothingForgotten ==
  ASSUME Calm
  PROVE  Spec => [](left.speed = "full" => Accounted)
BY InvAlways, AccountedIs, PTL

\* What one end acknowledges the other has sent (the RESP field and rules 22
\* to 32 of the state table).
THEOREM EndsAgree ==
  ASSUME Calm
  PROVE  Spec => [](left.speed = "full" => Agreement)
BY InvAlways, AgreementIs, PTL
=============================================================================
