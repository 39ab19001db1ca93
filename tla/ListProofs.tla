----------------------------- MODULE ListProofs -----------------------------
(***************************************************************************)
(* Facts about the sequences that stand for linked lists: what inserting,  *)
(* removing and appending do to positions and to the set of the members.   *)
(***************************************************************************)
EXTENDS Integers, Sequences, SequencesExt, SequenceTheorems, TLAPS

\* What inserting one element does to a sequence.
LEMMA InsertAtIndex ==
  ASSUME NEW S, NEW s \in Seq(S), NEW i \in 1 .. Len(s) + 1, NEW e \in S
  PROVE  /\ InsertAt(s, i, e) \in Seq(S)
         /\ Len(InsertAt(s, i, e)) = Len(s) + 1
         /\ \A j \in 1 .. Len(s) + 1 :
              InsertAt(s, i, e)[j] = IF j < i THEN s[j]
                                     ELSE IF j = i THEN e ELSE s[j - 1]
<1> DEFINE a == SubSeq(s, 1, i - 1)
           b == SubSeq(s, i, Len(s))
           t == a \o <<e>>
<1>1. /\ a \in Seq(S) /\ Len(a) = i - 1
      /\ \A j \in 1 .. i - 1 : a[j] = s[j]
  BY SubSeqProperties, LenProperties, ElementOfSeq
<1>2. /\ b \in Seq(S) /\ Len(b) = Len(s) - i + 1
      /\ \A j \in 1 .. Len(s) - i + 1 : b[j] = s[i + j - 1]
  BY SubSeqProperties, LenProperties, ElementOfSeq
<1>3. <<e>> \in Seq(S) /\ Len(<<e>>) = 1 /\ <<e>>[1] = e
  OBVIOUS
<1> HIDE DEF a, b
<1>4. /\ t \in Seq(S) /\ Len(t) = i
      /\ \A j \in 1 .. i : t[j] = IF j < i THEN s[j] ELSE e
  BY <1>1, <1>3, ConcatProperties
<1> HIDE DEF t
<1>5. /\ t \o b \in Seq(S) /\ Len(t \o b) = Len(s) + 1
      /\ \A j \in 1 .. Len(s) + 1 :
           (t \o b)[j] = IF j <= i THEN t[j] ELSE b[j - i]
  BY <1>2, <1>4, ConcatProperties
<1>6. InsertAt(s, i, e) = t \o b
  BY DEF InsertAt, a, b, t
<1> QED
  BY <1>2, <1>4, <1>5, <1>6

\* What removing one element does to a sequence.
LEMMA RemoveAtIndex ==
  ASSUME NEW S, NEW s \in Seq(S), NEW i \in 1 .. Len(s)
  PROVE  /\ RemoveAt(s, i) \in Seq(S)
         /\ Len(RemoveAt(s, i)) = Len(s) - 1
         /\ \A j \in 1 .. Len(s) - 1 :
              RemoveAt(s, i)[j] = IF j < i THEN s[j] ELSE s[j + 1]
<1> DEFINE a == SubSeq(s, 1, i - 1)
           b == SubSeq(s, i + 1, Len(s))
<1>1. /\ a \in Seq(S) /\ Len(a) = i - 1
      /\ \A j \in 1 .. i - 1 : a[j] = s[j]
  BY SubSeqProperties, LenProperties, ElementOfSeq
<1>2. /\ b \in Seq(S) /\ Len(b) = Len(s) - i
      /\ \A j \in 1 .. Len(s) - i : b[j] = s[i + j]
  BY SubSeqProperties, LenProperties, ElementOfSeq
<1> HIDE DEF a, b
<1>3. /\ a \o b \in Seq(S) /\ Len(a \o b) = Len(a) + Len(b)
      /\ \A j \in 1 .. Len(a) + Len(b) :
           (a \o b)[j] = IF j <= Len(a) THEN a[j] ELSE b[j - Len(a)]
  BY <1>1, <1>2, ConcatProperties
<1>4. RemoveAt(s, i) = a \o b
  BY DEF RemoveAt, a, b
<1>5. Len(s) \in Nat
  OBVIOUS
<1>6. Len(a) + Len(b) = Len(s) - 1
  BY <1>1, <1>2, <1>5
<1>7. ASSUME NEW j \in 1 .. Len(s) - 1
      PROVE  (a \o b)[j] = IF j < i THEN s[j] ELSE s[j + 1]
  <2>1. CASE j < i
    BY <1>1, <1>3, <1>5, <1>6, <2>1
  <2>2. CASE i <= j
    <3>1. j - (i - 1) \in 1 .. Len(s) - i /\ i + (j - (i - 1)) = j + 1
      BY <1>5, <2>2
    <3>2. b[j - (i - 1)] = s[j + 1]
      BY <1>2, <3>1
    <3>3. (a \o b)[j] = b[j - (i - 1)]
      BY <1>1, <1>3, <1>5, <1>6, <2>2
    <3>4. (a \o b)[j] = s[j + 1]
      BY <3>2, <3>3, Zenon
    <3>5. ~(j < i)
      BY <1>5, <2>2
    <3> QED
      BY <3>4, <3>5, Zenon
  <2>3. j < i \/ i <= j
    BY <1>5
  <2> QED
    BY <2>1, <2>2, <2>3, Zenon
<1> QED
  BY <1>3, <1>4, <1>6, <1>7

\* The units on a list are the values at its positions.
LEMMA Members ==
  ASSUME NEW S, NEW s \in Seq(S)
  PROVE  /\ ToSet(s) \subseteq S
         /\ \A x : x \in ToSet(s) <=> \E i \in 1 .. Len(s) : s[i] = x
         /\ s = <<>> <=> Len(s) = 0
         /\ s # <<>> => Head(s) = s[1]
<1>1. DOMAIN s = 1 .. Len(s)
  BY LenProperties
<1> QED
  BY <1>1, ElementOfSeq, EmptySeq DEF ToSet

\* The first element goes, the others move up.
LEMMA TailIndex ==
  ASSUME NEW S, NEW s \in Seq(S), s # <<>>
  PROVE  /\ Tail(s) \in Seq(S)
         /\ Len(Tail(s)) = Len(s) - 1
         /\ \A j \in 1 .. Len(s) - 1 : Tail(s)[j] = s[j + 1]
  BY HeadTailProperties

-----------------------------------------------------------------------------
(* Lists on which no one is twice *)

Once(s) == \A i, j \in 1 .. Len(s) : s[i] = s[j] => i = j

\* A new member.
LEMMA InsertOnce ==
  ASSUME NEW S, NEW s \in Seq(S), NEW i \in 1 .. Len(s) + 1, NEW e \in S,
         Once(s), e \notin ToSet(s)
  PROVE  /\ InsertAt(s, i, e) \in Seq(S)
         /\ ToSet(InsertAt(s, i, e)) = ToSet(s) \cup {e}
         /\ Once(InsertAt(s, i, e))
<1> DEFINE t == InsertAt(s, i, e)
<1>1. /\ t \in Seq(S)
      /\ Len(t) = Len(s) + 1
      /\ \A j \in 1 .. Len(s) + 1 :
           t[j] = IF j < i THEN s[j] ELSE IF j = i THEN e ELSE s[j - 1]
  BY InsertAtIndex
<1>2. Len(s) \in Nat
  OBVIOUS
<1>3. \A x : x \in ToSet(s) <=> \E j \in 1 .. Len(s) : s[j] = x
  BY Members
<1>4. \A x : x \in ToSet(t) <=> \E j \in 1 .. Len(t) : t[j] = x
  BY <1>1, Members
<1> HIDE DEF t
<1>5. ASSUME NEW x \in ToSet(t)
      PROVE  x \in ToSet(s) \cup {e}
  <2>1. PICK j \in 1 .. Len(s) + 1 : t[j] = x
    BY <1>1, <1>4
  <2>2. CASE j < i
    BY <1>1, <1>2, <1>3, <2>1, <2>2
  <2>3. CASE j = i
    BY <1>1, <1>2, <2>1, <2>3
  <2>4. CASE i < j
    <3>1. j - 1 \in 1 .. Len(s) /\ ~(j < i) /\ j # i
      BY <1>2, <2>4
    <3>2. t[j] = s[j - 1]
      BY <1>1, <3>1
    <3> QED
      BY <1>3, <2>1, <3>1, <3>2
  <2> QED
    BY <1>2, <2>2, <2>3, <2>4
<1>6. ASSUME NEW x \in ToSet(s)
      PROVE  x \in ToSet(t)
  <2>1. PICK j \in 1 .. Len(s) : s[j] = x
    BY <1>3
  <2>2. CASE j < i
    <3>1. j \in 1 .. Len(s) + 1
      BY <1>2
    <3> QED
      BY <1>1, <1>4, <2>1, <2>2, <3>1
  <2>3. CASE ~(j < i)
    <3>1. j + 1 \in 1 .. Len(s) + 1 /\ ~(j + 1 < i) /\ j + 1 # i /\ (j + 1) - 1 = j
      BY <1>2, <2>3
    <3>2. t[j + 1] = s[j]
      BY <1>1, <3>1
    <3> QED
      BY <1>1, <1>4, <2>1, <3>1, <3>2
  <2> QED
    BY <2>2, <2>3
<1>7. e \in ToSet(t)
  <2>1. i \in 1 .. Len(s) + 1 /\ t[i] = e
    BY <1>1
  <2> QED
    BY <1>1, <1>4, <2>1
<1>8. Once(t)
  <2> SUFFICES ASSUME NEW j \in 1 .. Len(s) + 1, NEW k \in 1 .. Len(s) + 1,
                      t[j] = t[k], j < k
               PROVE  FALSE
    BY <1>1, <1>2 DEF Once
  <2>1. \A l \in 1 .. Len(s) : s[l] # e
    BY <1>3
  <2>2. CASE k < i
    <3>1. j \in 1 .. Len(s) /\ k \in 1 .. Len(s) /\ j # k
      BY <1>2, <2>2
    <3>2. t[k] = s[k] /\ t[j] = s[j]
      BY <1>1, <1>2, <2>2
    <3> QED
      BY <3>1, <3>2 DEF Once
  <2>3. CASE k = i
    <3>1. j \in 1 .. Len(s) /\ t[j] = s[j] /\ t[k] = e
      BY <1>1, <1>2, <2>3
    <3> QED
      BY <2>1, <3>1
  <2>4. CASE i < k /\ j = i
    <3>1. k - 1 \in 1 .. Len(s) /\ t[k] = s[k - 1] /\ t[j] = e
      BY <1>1, <1>2, <2>4
    <3> QED
      BY <2>1, <3>1
  <2>5. CASE i < k /\ j < i
    <3>1. k - 1 \in 1 .. Len(s) /\ j \in 1 .. Len(s) /\ j # k - 1
      BY <1>2, <2>5
    <3>2. t[k] = s[k - 1] /\ t[j] = s[j]
      BY <1>1, <1>2, <2>5
    <3> QED
      BY <3>1, <3>2 DEF Once
  <2>6. CASE i < j
    <3>1. k - 1 \in 1 .. Len(s) /\ j - 1 \in 1 .. Len(s) /\ j - 1 # k - 1
      BY <1>2, <2>6
    <3>2. t[k] = s[k - 1] /\ t[j] = s[j - 1]
      BY <1>1, <1>2, <2>6
    <3> QED
      BY <3>1, <3>2 DEF Once
  <2> QED
    BY <1>2, <2>2, <2>3, <2>4, <2>5, <2>6
<1> QED
  BY <1>1, <1>5, <1>6, <1>7, <1>8 DEF t

\* A member less.
LEMMA RemoveOnce ==
  ASSUME NEW S, NEW s \in Seq(S), NEW i \in 1 .. Len(s), Once(s)
  PROVE  /\ RemoveAt(s, i) \in Seq(S)
         /\ ToSet(RemoveAt(s, i)) = ToSet(s) \ {s[i]}
         /\ Once(RemoveAt(s, i))
<1> DEFINE t == RemoveAt(s, i)
<1>1. /\ t \in Seq(S)
      /\ Len(t) = Len(s) - 1
      /\ \A j \in 1 .. Len(s) - 1 : t[j] = IF j < i THEN s[j] ELSE s[j + 1]
  BY RemoveAtIndex
<1>2. Len(s) \in Nat
  OBVIOUS
<1>3. \A x : x \in ToSet(s) <=> \E j \in 1 .. Len(s) : s[j] = x
  BY Members
<1>4. \A x : x \in ToSet(t) <=> \E j \in 1 .. Len(t) : t[j] = x
  BY <1>1, Members
<1> HIDE DEF t
<1>5. \A j \in 1 .. Len(s) - 1 : \E k \in 1 .. Len(s) :
        k # i /\ t[j] = s[k] /\ k = IF j < i THEN j ELSE j + 1
  <2> SUFFICES ASSUME NEW j \in 1 .. Len(s) - 1
               PROVE  \E k \in 1 .. Len(s) :
                        k # i /\ t[j] = s[k] /\ k = IF j < i THEN j ELSE j + 1
    OBVIOUS
  <2>1. CASE j < i
    <3>1. j \in 1 .. Len(s) /\ j # i /\ t[j] = s[j]
      BY <1>1, <1>2, <2>1
    <3> QED
      BY <2>1, <3>1
  <2>2. CASE ~(j < i)
    <3>1. j + 1 \in 1 .. Len(s) /\ j + 1 # i /\ t[j] = s[j + 1]
      BY <1>1, <1>2, <2>2
    <3> QED
      BY <2>2, <3>1
  <2> QED
    BY <2>1, <2>2
<1>6. ASSUME NEW x \in ToSet(t)
      PROVE  x \in ToSet(s) \ {s[i]}
  <2>1. PICK j \in 1 .. Len(s) - 1 : t[j] = x
    BY <1>1, <1>4
  <2>2. PICK k \in 1 .. Len(s) : k # i /\ t[j] = s[k]
    BY <1>5, <2>1
  <2> QED
    BY <1>3, <2>1, <2>2 DEF Once
<1>7. ASSUME NEW x \in ToSet(s) \ {s[i]}
      PROVE  x \in ToSet(t)
  <2>1. PICK j \in 1 .. Len(s) : s[j] = x /\ j # i
    BY <1>3
  <2>2. CASE j < i
    <3>1. j \in 1 .. Len(s) - 1 /\ t[j] = s[j]
      BY <1>1, <1>2, <2>2
    <3> QED
      BY <1>1, <1>4, <2>1, <3>1
  <2>3. CASE i < j
    <3>1. j - 1 \in 1 .. Len(s) - 1 /\ ~(j - 1 < i) /\ (j - 1) + 1 = j
      BY <1>2, <2>3
    <3>2. t[j - 1] = s[j]
      BY <1>1, <3>1
    <3> QED
      BY <1>1, <1>4, <2>1, <3>1, <3>2
  <2> QED
    BY <1>2, <2>1, <2>2, <2>3
<1>8. Once(t)
  <2> SUFFICES ASSUME NEW j \in 1 .. Len(s) - 1, NEW k \in 1 .. Len(s) - 1, t[j] = t[k]
               PROVE  j = k
    BY <1>1 DEF Once
  <2>1. PICK a \in 1 .. Len(s) : t[j] = s[a] /\ a = IF j < i THEN j ELSE j + 1
    BY <1>5
  <2>2. PICK b \in 1 .. Len(s) : t[k] = s[b] /\ b = IF k < i THEN k ELSE k + 1
    BY <1>5
  <2>3. a = b
    BY <2>1, <2>2 DEF Once
  <2> QED
    BY <1>2, <2>1, <2>2, <2>3
<1> QED
  BY <1>1, <1>6, <1>7, <1>8 DEF t

\* The first member less.
LEMMA TailOnce ==
  ASSUME NEW S, NEW s \in Seq(S), s # <<>>, Once(s)
  PROVE  /\ Tail(s) \in Seq(S)
         /\ Head(s) \in S /\ Head(s) \in ToSet(s)
         /\ ToSet(Tail(s)) = ToSet(s) \ {Head(s)}
         /\ Once(Tail(s))
<1> DEFINE t == Tail(s)
<1>1. t \in Seq(S) /\ Len(t) = Len(s) - 1 /\ \A j \in 1 .. Len(s) - 1 : t[j] = s[j + 1]
  BY TailIndex
<1>2. /\ ToSet(s) \subseteq S
      /\ \A x : x \in ToSet(s) <=> \E i \in 1 .. Len(s) : s[i] = x
      /\ s = <<>> <=> Len(s) = 0
      /\ Head(s) = s[1]
  BY Members
<1>3. \A x : x \in ToSet(t) <=> \E j \in 1 .. Len(t) : t[j] = x
  BY <1>1, Members
<1>4. Len(s) \in Nat \ {0}
  BY <1>2
<1>5. 1 \in 1 .. Len(s)
  BY <1>4
<1> HIDE DEF t
<1>6. Head(s) \in ToSet(s) /\ Head(s) \in S
  BY <1>2, <1>5
<1>7. ASSUME NEW x \in ToSet(t)
      PROVE  x \in ToSet(s) \ {s[1]}
  <2>1. PICK j \in 1 .. Len(s) - 1 : t[j] = x
    BY <1>1, <1>3
  <2>2. j + 1 \in 1 .. Len(s) /\ j + 1 # 1 /\ s[j + 1] = x
    BY <1>1, <1>4, <2>1
  <2> QED
    BY <1>2, <1>5, <2>2 DEF Once
<1>8. ASSUME NEW x \in ToSet(s) \ {s[1]}
      PROVE  x \in ToSet(t)
  <2>1. PICK j \in 1 .. Len(s) : s[j] = x /\ j # 1
    BY <1>2
  <2>2. j - 1 \in 1 .. Len(s) - 1 /\ (j - 1) + 1 = j
    BY <1>4, <2>1
  <2>3. t[j - 1] = x
    BY <1>1, <2>1, <2>2
  <2> QED
    BY <1>1, <1>3, <2>2, <2>3
<1>9. Once(t)
  <2> SUFFICES ASSUME NEW j \in 1 .. Len(s) - 1, NEW k \in 1 .. Len(s) - 1, t[j] = t[k]
               PROVE  j = k
    BY <1>1 DEF Once
  <2>1. j + 1 \in 1 .. Len(s) /\ k + 1 \in 1 .. Len(s) /\ s[j + 1] = s[k + 1]
    BY <1>1, <1>4
  <2>2. j + 1 = k + 1
    BY <2>1 DEF Once
  <2> QED
    BY <2>2
<1> QED
  BY <1>1, <1>2, <1>6, <1>7, <1>8, <1>9 DEF t

\* A new last member.
LEMMA AppendOnce ==
  ASSUME NEW S, NEW s \in Seq(S), NEW e \in S, Once(s), e \notin ToSet(s)
  PROVE  /\ Append(s, e) \in Seq(S)
         /\ ToSet(Append(s, e)) = ToSet(s) \cup {e}
         /\ Once(Append(s, e))
<1>1. /\ Append(s, e) \in Seq(S)
      /\ Len(Append(s, e)) = Len(s) + 1
      /\ \A j \in 1 .. Len(s) : Append(s, e)[j] = s[j]
      /\ Append(s, e)[Len(s) + 1] = e
  BY AppendProperties
<1>2. Len(s) \in Nat
  OBVIOUS
<1>3. \A x : x \in ToSet(s) <=> \E j \in 1 .. Len(s) : s[j] = x
  BY Members
<1>4. \A x : x \in ToSet(Append(s, e)) <=> \E j \in 1 .. Len(Append(s, e)) : Append(s, e)[j] = x
  BY <1>1, Members
<1>5. \A j \in 1 .. Len(s) + 1 : j \in 1 .. Len(s) \/ j = Len(s) + 1
  BY <1>2
<1>6. \A j \in 1 .. Len(s) : j \in 1 .. Len(s) + 1
  BY <1>2
<1>7. Len(s) + 1 \in 1 .. Len(s) + 1
  BY <1>2
<1>8. ToSet(Append(s, e)) = ToSet(s) \cup {e}
  BY <1>1, <1>3, <1>4, <1>5, <1>6, <1>7
<1>9. Once(Append(s, e))
  BY <1>1, <1>3, <1>5 DEF Once
<1> QED
  BY <1>1, <1>8, <1>9

\* Lists with no member in common, one after the other.
LEMMA ConcatOnce ==
  ASSUME NEW S, NEW s \in Seq(S), NEW t \in Seq(S),
         Once(s), Once(t), ToSet(s) \cap ToSet(t) = {}
  PROVE  /\ s \o t \in Seq(S)
         /\ ToSet(s \o t) = ToSet(s) \cup ToSet(t)
         /\ Once(s \o t)
<1> DEFINE c == s \o t
<1>1. /\ c \in Seq(S)
      /\ Len(c) = Len(s) + Len(t)
      /\ \A i \in 1 .. Len(s) + Len(t) : c[i] = IF i <= Len(s) THEN s[i] ELSE t[i - Len(s)]
  BY ConcatProperties
<1>2. Len(s) \in Nat /\ Len(t) \in Nat
  OBVIOUS
<1>3. \A x : x \in ToSet(s) <=> \E j \in 1 .. Len(s) : s[j] = x
  BY Members
<1>4. \A x : x \in ToSet(t) <=> \E j \in 1 .. Len(t) : t[j] = x
  BY Members
<1>5. \A x : x \in ToSet(c) <=> \E j \in 1 .. Len(c) : c[j] = x
  BY <1>1, Members
<1> HIDE DEF c
<1>6. \A i \in 1 .. Len(s) : i \in 1 .. Len(c) /\ c[i] = s[i]
  BY <1>1, <1>2
<1>7. \A i \in 1 .. Len(t) : i + Len(s) \in 1 .. Len(c) /\ c[i + Len(s)] = t[i]
  <2> SUFFICES ASSUME NEW i \in 1 .. Len(t)
               PROVE  i + Len(s) \in 1 .. Len(c) /\ c[i + Len(s)] = t[i]
    OBVIOUS
  <2>1. i + Len(s) \in 1 .. Len(s) + Len(t) /\ ~(i + Len(s) <= Len(s)) /\ (i + Len(s)) - Len(s) = i
    BY <1>2
  <2> QED
    BY <1>1, <2>1
<1>8. \A i \in 1 .. Len(c) : i \in 1 .. Len(s) \/ \E j \in 1 .. Len(t) : i = j + Len(s)
  <2> SUFFICES ASSUME NEW i \in 1 .. Len(c), ~(i \in 1 .. Len(s))
               PROVE  \E j \in 1 .. Len(t) : i = j + Len(s)
    OBVIOUS
  <2>1. i - Len(s) \in 1 .. Len(t) /\ i = (i - Len(s)) + Len(s)
    BY <1>1, <1>2
  <2> QED
    BY <2>1
<1>9. ToSet(c) = ToSet(s) \cup ToSet(t)
  <2>1. ASSUME NEW x \in ToSet(c)
        PROVE  x \in ToSet(s) \cup ToSet(t)
    <3>1. PICK i \in 1 .. Len(c) : c[i] = x
      BY <1>5
    <3>2. CASE i \in 1 .. Len(s)
      BY <1>3, <1>6, <3>1, <3>2
    <3>3. CASE \E j \in 1 .. Len(t) : i = j + Len(s)
      BY <1>4, <1>7, <3>1, <3>3
    <3> QED
      BY <1>8, <3>2, <3>3
  <2>2. ASSUME NEW x \in ToSet(s)
        PROVE  x \in ToSet(c)
    BY <1>3, <1>5, <1>6
  <2>3. ASSUME NEW x \in ToSet(t)
        PROVE  x \in ToSet(c)
    BY <1>4, <1>5, <1>7
  <2> QED
    BY <2>1, <2>2, <2>3
<1>10. Once(c)
  <2> SUFFICES ASSUME NEW i \in 1 .. Len(c), NEW j \in 1 .. Len(c), c[i] = c[j]
               PROVE  i = j
    BY DEF Once
  <2>1. CASE i \in 1 .. Len(s) /\ j \in 1 .. Len(s)
    BY <1>6, <2>1 DEF Once
  <2>2. CASE i \in 1 .. Len(s) /\ \E k \in 1 .. Len(t) : j = k + Len(s)
    BY <1>3, <1>4, <1>6, <1>7, <2>2
  <2>3. CASE j \in 1 .. Len(s) /\ \E k \in 1 .. Len(t) : i = k + Len(s)
    BY <1>3, <1>4, <1>6, <1>7, <2>3
  <2>4. CASE (\E k \in 1 .. Len(t) : i = k + Len(s)) /\ (\E k \in 1 .. Len(t) : j = k + Len(s))
    BY <1>7, <2>4 DEF Once
  <2> QED
    BY <1>8, <2>1, <2>2, <2>3, <2>4
<1> QED
  BY <1>1, <1>9, <1>10 DEF c
=============================================================================
