--------------------------- MODULE SequenceFacts ---------------------------
(* Queues and packets in flight, by their members: what Append, Tail,      *)
(* RemoveAt and SetToSeqs do to them.  Streams of bytes: concatenation and *)
(* FlattenSeq, by induction over sets of numbers.                          *)
EXTENDS Integers, FiniteSets, SequencesExt, SequenceTheorems, FiniteSetTheorems,
        NaturalsInduction, WellFoundedInduction, TLAPS

-----------------------------------------------------------------------------
(* Members *)

\* The members of a sequence.
Elems(s) == {s[i] : i \in 1..Len(s)}

\* No member of T occurs in s twice.
Distinct(s, T) ==
  \A i, j \in 1..Len(s) : s[i] = s[j] /\ s[i] \in T => i = j

\* The empty sequence.
LEMMA ElemsEmpty == Elems(<<>>) = {} /\ \A T : Distinct(<<>>, T)
BY DEF Elems, Distinct

\* Append adds a member, and leaves the others distinct if it is new.
LEMMA ElemsAppend ==
  ASSUME NEW S, NEW s \in Seq(S), NEW e \in S
  PROVE  /\ Append(s, e) \in Seq(S)
         /\ Elems(Append(s, e)) = Elems(s) \cup {e}
         /\ \A T : Distinct(s, T) /\ (e \in T => e \notin Elems(s))
                     => Distinct(Append(s, e), T)
<1>1. /\ Len(s) \in Nat
      /\ Append(s, e) \in Seq(S)
      /\ Len(Append(s, e)) = Len(s) + 1
      /\ \A i \in 1..Len(s) : Append(s, e)[i] = s[i]
      /\ Append(s, e)[Len(s) + 1] = e
  BY AppendProperties, LenProperties
<1> DEFINE a == Append(s, e)
<1> HIDE DEF a
<1>2. Elems(a) = Elems(s) \cup {e}
  BY <1>1 DEF Elems, a
<1>3. ASSUME NEW T, Distinct(s, T), e \in T => e \notin Elems(s)
      PROVE  Distinct(a, T)
  BY <1>1, <1>3 DEF Elems, Distinct, a
<1> QED
  BY <1>1, <1>2, <1>3 DEF a

\* Tail takes the first member away.
LEMMA ElemsTail ==
  ASSUME NEW S, NEW s \in Seq(S), s # <<>>
  PROVE  /\ Tail(s) \in Seq(S)
         /\ Head(s) \in S /\ Head(s) \in Elems(s)
         /\ Elems(s) = Elems(Tail(s)) \cup {Head(s)}
         /\ \A T : Distinct(s, T) =>
              /\ Distinct(Tail(s), T)
              /\ Head(s) \in T => Head(s) \notin Elems(Tail(s))
<1> DEFINE t == Tail(s)
           h == Head(s)
<1>1. /\ Len(s) \in Nat \ {0}
      /\ t \in Seq(S) /\ h \in S /\ h = s[1]
      /\ Len(t) = Len(s) - 1
      /\ \A i \in 1..Len(t) : t[i] = s[i + 1]
  BY HeadTailProperties, LenProperties, EmptySeq
<1> HIDE DEF t, h
<1>2. Elems(s) = Elems(t) \cup {h}
  <2>1. ASSUME NEW i \in 1..Len(s) PROVE s[i] \in Elems(t) \cup {h}
    <3>1. CASE i = 1
      BY <1>1, <3>1
    <3>2. CASE i # 1
      <4>1. i - 1 \in 1..Len(t) /\ s[i] = t[i - 1]
        BY <1>1, <3>2
      <4> QED
        BY <4>1 DEF Elems
    <3> QED
      BY <3>1, <3>2
  <2>2. ASSUME NEW i \in 1..Len(t) PROVE t[i] \in Elems(s)
    <3>1. i + 1 \in 1..Len(s) /\ t[i] = s[i + 1]
      BY <1>1
    <3> QED
      BY <3>1 DEF Elems
  <2>3. h \in Elems(s)
    BY <1>1 DEF Elems
  <2> QED
    BY <2>1, <2>2, <2>3 DEF Elems
<1>3. ASSUME NEW T, Distinct(s, T)
      PROVE  Distinct(t, T) /\ (h \in T => h \notin Elems(t))
  <2>1. \A i \in 1..Len(t) : i + 1 \in 1..Len(s) /\ i + 1 # 1
    BY <1>1
  <2>2. Distinct(t, T)
    BY <1>1, <1>3, <2>1 DEF Distinct
  <2>3. 1 \in 1..Len(s)
    BY <1>1
  <2> QED
    BY <1>1, <1>3, <2>1, <2>2, <2>3 DEF Distinct, Elems
<1> QED
  BY <1>1, <1>2, <1>3 DEF t, h

\* Where the i-th element of s without its k-th was in s.
Skip(k, i) == IF i < k THEN i ELSE i + 1

\* The index before a removed one stays, the ones behind it move up.
LEMMA SkipProperties ==
  ASSUME NEW n \in Nat, NEW k \in 1..n
  PROVE  /\ \A i \in 1..(n - 1) : Skip(k, i) \in 1..n /\ Skip(k, i) # k
         /\ \A i, j \in 1..(n - 1) : Skip(k, i) = Skip(k, j) => i = j
         /\ \A i \in 1..n : i # k => \E j \in 1..(n - 1) : Skip(k, j) = i
<1>1. ASSUME NEW i \in 1..n, i # k
      PROVE  \E j \in 1..(n - 1) : Skip(k, j) = i
  <2>1. CASE i < k
    <3>1. i \in 1..(n - 1) /\ Skip(k, i) = i
      BY <2>1 DEF Skip
    <3> QED
      BY <3>1
  <2>2. CASE i > k
    <3>1. i - 1 \in 1..(n - 1) /\ Skip(k, i - 1) = i
      BY <2>2 DEF Skip
    <3> QED
      BY <3>1
  <2> QED
    BY <1>1, <2>1, <2>2
<1>2. \A i \in 1..(n - 1) : Skip(k, i) \in 1..n /\ Skip(k, i) # k
  BY DEF Skip
<1>3. \A i, j \in 1..(n - 1) : Skip(k, i) = Skip(k, j) => i = j
  BY DEF Skip
<1> QED
  BY <1>1, <1>2, <1>3

\* RemoveAt() is a concatenation: what it has at each place.
LEMMA RemoveAtProperties ==
  ASSUME NEW S, NEW s \in Seq(S), NEW k \in 1..Len(s)
  PROVE  /\ RemoveAt(s, k) \in Seq(S)
         /\ Len(RemoveAt(s, k)) = Len(s) - 1
         /\ \A i \in 1..Len(RemoveAt(s, k)) : RemoveAt(s, k)[i] = s[Skip(k, i)]
<1> DEFINE r == RemoveAt(s, k)
<1>1. Len(s) \in Nat /\ \A i \in 1..Len(s) : s[i] \in S
  BY LenProperties, ElementOfSeq
<1> DEFINE a == SubSeq(s, 1, k - 1)
           b == SubSeq(s, k + 1, Len(s))
<1>2. /\ a \in Seq(S) /\ Len(a) = k - 1
      /\ \A i \in 1..(k - 1) : a[i] = s[i]
  <2>1. \A i \in 1..(k - 1) : s[i] \in S
    BY <1>1
  <2>2. /\ a \in Seq(S) /\ Len(a) = IF 1 <= k - 1 THEN (k - 1) - 1 + 1 ELSE 0
        /\ \A i \in 1..((k - 1) - 1 + 1) : a[i] = s[1 + i - 1]
    BY <1>1, <2>1, SubSeqProperties
  <2> QED
    BY <1>1, <2>2
<1>3. /\ b \in Seq(S) /\ Len(b) = Len(s) - k
      /\ \A i \in 1..(Len(s) - k) : b[i] = s[k + i]
  <2>1. \A i \in (k + 1)..Len(s) : s[i] \in S
    BY <1>1
  <2>2. /\ b \in Seq(S)
        /\ Len(b) = IF k + 1 <= Len(s) THEN Len(s) - (k + 1) + 1 ELSE 0
        /\ \A i \in 1..(Len(s) - (k + 1) + 1) : b[i] = s[(k + 1) + i - 1]
    BY <1>1, <2>1, SubSeqProperties
  <2> QED
    BY <1>1, <2>2
<1> HIDE DEF a, b
<1>4. /\ a \o b \in Seq(S)
      /\ Len(a \o b) = Len(a) + Len(b)
      /\ \A i \in 1..(Len(a) + Len(b)) :
           (a \o b)[i] = IF i <= Len(a) THEN a[i] ELSE b[i - Len(a)]
  BY <1>2, <1>3, ConcatProperties
<1>5. r = a \o b
  BY DEF RemoveAt, a, b
<1>6. r \in Seq(S) /\ Len(r) = Len(s) - 1
  BY <1>1, <1>2, <1>3, <1>4, <1>5
<1>7. ASSUME NEW i \in 1..(Len(s) - 1) PROVE r[i] = s[Skip(k, i)]
  <2>1. i \in 1..(Len(a) + Len(b)) /\ Len(a) = k - 1
    BY <1>1, <1>2, <1>3
  <2>2. r[i] = IF i <= k - 1 THEN a[i] ELSE b[i - (k - 1)]
    BY <1>4, <1>5, <2>1
  <2>3. CASE i < k
    <3>1. i \in 1..(k - 1) /\ i <= k - 1
      BY <1>1, <2>3
    <3> QED
      BY <1>2, <2>2, <2>3, <3>1 DEF Skip
  <2>4. CASE ~(i < k)
    <3>1. /\ ~(i <= k - 1) /\ i - (k - 1) \in 1..(Len(s) - k)
          /\ k + (i - (k - 1)) = i + 1
      BY <1>1, <2>4
    <3> QED
      BY <1>3, <2>2, <2>4, <3>1 DEF Skip
  <2> QED
    BY <2>3, <2>4
<1> QED
  BY <1>6, <1>7

\* RemoveAt takes one member away, wherever it is.
LEMMA ElemsRemoveAt ==
  ASSUME NEW S, NEW s \in Seq(S), NEW k \in 1..Len(s)
  PROVE  /\ RemoveAt(s, k) \in Seq(S)
         /\ Elems(s) = Elems(RemoveAt(s, k)) \cup {s[k]}
         /\ \A T : Distinct(s, T) =>
              /\ Distinct(RemoveAt(s, k), T)
              /\ s[k] \in T => s[k] \notin Elems(RemoveAt(s, k))
<1> DEFINE r == RemoveAt(s, k)
<1>1. Len(s) \in Nat
  BY LenProperties
<1>2. /\ r \in Seq(S)
      /\ Len(r) = Len(s) - 1
      /\ \A i \in 1..Len(r) : r[i] = s[Skip(k, i)]
  BY RemoveAtProperties
<1> HIDE DEF r
<1>3. /\ \A i \in 1..Len(r) : Skip(k, i) \in 1..Len(s) /\ Skip(k, i) # k
      /\ \A i, j \in 1..Len(r) : Skip(k, i) = Skip(k, j) => i = j
      /\ \A i \in 1..Len(s) : i # k => \E j \in 1..Len(r) : Skip(k, j) = i
  <2>1. /\ \A i \in 1..(Len(s) - 1) : Skip(k, i) \in 1..Len(s) /\ Skip(k, i) # k
        /\ \A i, j \in 1..(Len(s) - 1) : Skip(k, i) = Skip(k, j) => i = j
        /\ \A i \in 1..Len(s) : i # k => \E j \in 1..(Len(s) - 1) : Skip(k, j) = i
    BY <1>1, SkipProperties
  <2> QED
    BY <1>2, <2>1
<1>4. Elems(s) = Elems(r) \cup {s[k]}
  <2>1. \A i \in 1..Len(r) : r[i] \in Elems(s)
    BY <1>2, <1>3 DEF Elems
  <2>2. ASSUME NEW i \in 1..Len(s) PROVE s[i] \in Elems(r) \cup {s[k]}
    <3>1. CASE i # k
      <4>1. PICK j \in 1..Len(r) : Skip(k, j) = i
        BY <1>3, <3>1
      <4> QED
        BY <1>2, <4>1 DEF Elems
    <3> QED
      BY <3>1
  <2> QED
    BY <2>1, <2>2 DEF Elems
<1>5. ASSUME NEW T, Distinct(s, T)
      PROVE  Distinct(r, T) /\ (s[k] \in T => s[k] \notin Elems(r))
  <2>1. Distinct(r, T)
    BY <1>2, <1>3, <1>5 DEF Distinct
  <2> QED
    BY <1>2, <1>3, <1>5, <2>1 DEF Distinct, Elems
<1> QED
  BY <1>2, <1>4, <1>5 DEF r

\* The orders a set can be sent in have the set's members, each once.
LEMMA ElemsSetToSeqs ==
  ASSUME NEW S, IsFiniteSet(S), NEW s \in SetToSeqs(S)
  PROVE  s \in Seq(S) /\ Elems(s) \subseteq S /\ \A T : Distinct(s, T)
<1> DEFINE n == Cardinality(S)
<1>1. n \in Nat
  BY FS_CardinalityType
<1>2. s \in [1..n -> S] /\ \A i, j \in 1..n : i # j => s[i] # s[j]
  BY DEF SetToSeqs
<1>3. s \in Seq(S)
  BY <1>1, <1>2, SeqDef
<1>4. Len(s) \in Nat /\ 1..Len(s) = 1..n
  BY <1>2, <1>3, LenProperties
<1> QED
  BY <1>2, <1>3, <1>4 DEF Elems, Distinct

\* An element put in front of the last one.
LEMMA ElemsOvertake ==
  ASSUME NEW S, NEW s \in Seq(S), s # <<>>, NEW e \in S
  PROVE  /\ Front(s) \o <<e, Last(s)>> \in Seq(S)
         /\ Elems(Front(s) \o <<e, Last(s)>>) = Elems(s) \cup {e}
<1> DEFINE n == Len(s)
           a == SubSeq(s, 1, n - 1)
           b == <<e, s[n]>>
           r == a \o b
<1>1. n \in Nat \ {0} /\ \A i \in 1..n : s[i] \in S
  BY LenProperties, EmptySeq, ElementOfSeq
<1>2. r = Front(s) \o <<e, Last(s)>>
  BY DEF Front, Last
<1>3. b \in Seq(S) /\ Len(b) = 2 /\ b[1] = e /\ b[2] = s[n]
  BY <1>1
<1> HIDE DEF n
<1>4. /\ a \in Seq(S) /\ Len(a) = n - 1
      /\ \A i \in 1..(n - 1) : a[i] = s[i]
  <2>1. \A i \in 1..(n - 1) : s[i] \in S
    BY <1>1
  <2>2. /\ a \in Seq(S) /\ Len(a) = IF 1 <= n - 1 THEN (n - 1) - 1 + 1 ELSE 0
        /\ \A i \in 1..((n - 1) - 1 + 1) : a[i] = s[1 + i - 1]
    BY <1>1, <2>1, SubSeqProperties
  <2> QED
    BY <1>1, <2>2
<1> HIDE DEF a, b
<1>5. /\ r \in Seq(S) /\ Len(r) = n + 1
      /\ \A i \in 1..(n + 1) : r[i] = IF i <= n - 1 THEN a[i] ELSE b[i - (n - 1)]
  <2>1. /\ r \in Seq(S) /\ Len(r) = Len(a) + Len(b)
        /\ \A i \in 1..(Len(a) + Len(b)) : r[i] = IF i <= Len(a) THEN a[i] ELSE b[i - Len(a)]
    BY <1>3, <1>4, ConcatProperties
  <2>2. Len(a) + Len(b) = n + 1
    BY <1>1, <1>3, <1>4
  <2> QED
    BY <1>4, <2>1, <2>2
<1> HIDE DEF r
<1>6. ASSUME NEW i \in 1..(n + 1)
      PROVE  \/ i \in 1..(n - 1) /\ r[i] = s[i]
             \/ i = n /\ r[i] = e
             \/ i = n + 1 /\ r[i] = s[n]
  <2>1. CASE i <= n - 1
    BY <1>1, <1>4, <1>5, <2>1
  <2>2. CASE i = n
    <3>1. ~(i <= n - 1) /\ i - (n - 1) = 1
      BY <1>1, <2>2
    <3> QED
      BY <1>3, <1>5, <2>2, <3>1
  <2>3. CASE i = n + 1
    <3>1. ~(i <= n - 1) /\ i - (n - 1) = 2
      BY <1>1, <2>3
    <3> QED
      BY <1>3, <1>5, <2>3, <3>1
  <2> QED
    BY <1>1, <2>1, <2>2, <2>3
<1>7. ASSUME NEW i \in 1..n PROVE \E j \in 1..(n + 1) : r[j] = s[i]
  <2>1. CASE i = n
    <3>1. n + 1 \in 1..(n + 1) /\ n + 1 # n /\ n + 1 \notin 1..(n - 1)
      BY <1>1
    <3> QED
      BY <1>6, <2>1, <3>1
  <2>2. CASE i # n
    <3>1. i \in 1..(n + 1) /\ i # n + 1
      BY <1>1
    <3> QED
      BY <1>6, <2>2, <3>1
  <2> QED
    BY <2>1, <2>2
<1>8. n \in 1..(n + 1) /\ r[n] = e /\ n \in 1..n
  <2>1. n \in 1..(n + 1) /\ n \notin 1..(n - 1) /\ n # n + 1 /\ n \in 1..n
    BY <1>1
  <2> QED
    BY <1>6, <2>1
<1>9. \A i \in 1..(n - 1) : i \in 1..n
  BY <1>1
<1>10. Elems(r) = {r[i] : i \in 1..(n + 1)} /\ Elems(s) = {s[i] : i \in 1..n}
  BY <1>5 DEF Elems, n
<1>11. Elems(r) = Elems(s) \cup {e}
  BY <1>6, <1>7, <1>8, <1>9, <1>10
<1> QED
  BY <1>2, <1>5, <1>11

\* t continues s, and with what.
Continues(t, s) == Len(s) <= Len(t) /\ \A i \in 1..Len(s) : t[i] = s[i]
Added(s, t)     == {t[i] : i \in (Len(s) + 1)..Len(t)}

\* Append goes on with one more.
LEMMA AddedAppend ==
  ASSUME NEW S, NEW s \in Seq(S), NEW t \in Seq(S), Continues(t, s), NEW e \in S
  PROVE  /\ Continues(Append(t, e), s)
         /\ Added(s, Append(t, e)) = Added(s, t) \cup {e}
<1> DEFINE a == Append(t, e)
<1>1. /\ Len(s) \in Nat /\ Len(t) \in Nat
      /\ Len(a) = Len(t) + 1
      /\ \A i \in 1..Len(t) : a[i] = t[i]
      /\ a[Len(t) + 1] = e
  BY AppendProperties, LenProperties
<1> HIDE DEF a
<1>2. Continues(a, s)
  BY <1>1 DEF Continues
<1>3. Added(s, a) = Added(s, t) \cup {e}
  <2>1. \A i \in (Len(s) + 1)..Len(a) :
          \/ i \in (Len(s) + 1)..Len(t) /\ a[i] = t[i]
          \/ i = Len(t) + 1 /\ a[i] = e
    BY <1>1
  <2>2. \A i \in (Len(s) + 1)..Len(t) : i \in (Len(s) + 1)..Len(a) /\ a[i] = t[i]
    BY <1>1
  <2>3. Len(t) + 1 \in (Len(s) + 1)..Len(a)
    BY <1>1 DEF Continues
  <2> QED
    BY <1>1, <2>1, <2>2, <2>3 DEF Added
<1> QED
  BY <1>2, <1>3 DEF a

\* The members of a continuation, and a sequence that goes on with nothing.
LEMMA AddedElems ==
  ASSUME NEW S, NEW s \in Seq(S), NEW t \in Seq(S)
  PROVE  /\ Continues(t, s) => Elems(t) = Elems(s) \cup Added(s, t)
         /\ Continues(s, s) /\ Added(s, s) = {}
<1>1. Len(s) \in Nat /\ Len(t) \in Nat
  BY LenProperties
<1>2. Continues(s, s) /\ Added(s, s) = {}
  BY <1>1 DEF Continues, Added
<1>3. ASSUME Continues(t, s) PROVE Elems(t) = Elems(s) \cup Added(s, t)
  <2>1. \A i \in 1..Len(t) :
          \/ i \in 1..Len(s) /\ t[i] = s[i]
          \/ i \in (Len(s) + 1)..Len(t)
    BY <1>1, <1>3 DEF Continues
  <2>2. \A i \in 1..Len(s) : i \in 1..Len(t) /\ t[i] = s[i]
    BY <1>1, <1>3 DEF Continues
  <2>3. \A i \in (Len(s) + 1)..Len(t) : i \in 1..Len(t)
    BY <1>1
  <2> QED
    BY <2>1, <2>2, <2>3 DEF Elems, Added
<1> QED
  BY <1>2, <1>3

-----------------------------------------------------------------------------
(* Numbers *)

\* Every nonempty set of numbers has a least one: induction, where it is needed.
LEMMA LeastNumber ==
  ASSUME NEW S, S \subseteq Nat, S # {}
  PROVE  \E m \in S : \A k \in S : m <= k
<1> DEFINE R == {ss \in Nat \X Nat : ss[1] < ss[2]}
<1>1. IsWellFoundedOn(R, Nat)
  BY NatLessThanWellFounded DEF OpToRel
<1>2. \A y, x \in Nat : <<y, x>> \in R <=> y < x
  OBVIOUS
<1> HIDE DEF R
<1>3. PICK x \in S : \A y \in S : ~(<<y, x>> \in R)
  BY <1>1, WFMin
<1>4. \A y \in S : ~(y < x)
  BY <1>2, <1>3
<1> QED
  BY <1>4

\* Induction up to n, over a set of numbers.
LEMMA CountUp ==
  ASSUME NEW n \in Nat, NEW G, 0 \in G, \A k \in 0..n : k \in G /\ k < n => k + 1 \in G
  PROVE  \A k \in 0..n : k \in G
<1> DEFINE Bad == {k \in 0..n : k \notin G}
<1>1. SUFFICES ASSUME Bad # {} PROVE FALSE
  OBVIOUS
<1>2. Bad \subseteq Nat
  OBVIOUS
<1>3. PICK m \in Bad : \A k \in Bad : m <= k
  BY <1>1, <1>2, LeastNumber
<1>4. m \in 0..n /\ m \notin G /\ m # 0
  BY <1>3
<1>5. m - 1 \in 0..n /\ m - 1 \notin Bad /\ m - 1 < n /\ (m - 1) + 1 = m
  BY <1>3, <1>4
<1> QED
  BY <1>4, <1>5

-----------------------------------------------------------------------------
(* Concatenation *)

\* ConcatAssociative, in a form that the provers instantiate.
Associates(S) == \A s, t, u \in Seq(S) : (s \o t) \o u = s \o (t \o u)

\* Concatenation of sequences is associative.
LEMMA Associative == \A S : Associates(S)
BY ConcatAssociative DEF Associates

\* And ConcatProperties.
Concats(S) ==
  \A s, t \in Seq(S) :
    /\ s \o t \in Seq(S) /\ Len(s) \in Nat /\ Len(t) \in Nat
    /\ Len(s \o t) = Len(s) + Len(t)
    /\ \A i \in 1..Len(s) : (s \o t)[i] = s[i]
    /\ \A i \in 1..Len(t) : (s \o t)[Len(s) + i] = t[i]

\* The length and the members of a concatenation.
LEMMA Concatenation == \A S : Concats(S)
<1> SUFFICES ASSUME NEW S, NEW s \in Seq(S), NEW t \in Seq(S)
             PROVE  /\ s \o t \in Seq(S) /\ Len(s) \in Nat /\ Len(t) \in Nat
                    /\ Len(s \o t) = Len(s) + Len(t)
                    /\ \A i \in 1..Len(s) : (s \o t)[i] = s[i]
                    /\ \A i \in 1..Len(t) : (s \o t)[Len(s) + i] = t[i]
  BY DEF Concats
<1> QED
  BY ConcatProperties, LenProperties

\* A sequence is a function on 1..Len(s).
LEMMA SeqIs ==
  ASSUME NEW S, NEW s \in Seq(S)
  PROVE  /\ Len(s) \in Nat /\ DOMAIN s = 1..Len(s) /\ \A i \in 1..Len(s) : s[i] \in S
         /\ s = [i \in 1..Len(s) |-> s[i]]
BY LenProperties, ElementOfSeq

\* And a function on 1..n a sequence.
LEMMA FunSeq ==
  ASSUME NEW S, NEW n \in Nat, NEW f, f \in [1..n -> S]
  PROVE  f \in Seq(S) /\ Len(f) = n
OBVIOUS

\* A sequence is its first n members and the others.
LEMMA Cut ==
  ASSUME NEW P, NEW s \in Seq(P), NEW n \in 0..Len(s)
  PROVE  /\ SubSeq(s, 1, n) \in Seq(P) /\ SubSeq(s, n + 1, Len(s)) \in Seq(P)
         /\ Len(SubSeq(s, 1, n)) = n
         /\ s = SubSeq(s, 1, n) \o SubSeq(s, n + 1, Len(s))
<1> DEFINE L == Len(s)
           a == SubSeq(s, 1, n)
           b == SubSeq(s, n + 1, L)
<1>1. L \in Nat /\ \A i \in 1..L : s[i] \in P
  BY LenProperties, ElementOfSeq
<1>2. a \in Seq(P) /\ Len(a) = n /\ \A i \in 1..n : a[i] = s[i]
  BY <1>1, SubSeqProperties
<1>3. b \in Seq(P) /\ Len(b) = L - n /\ \A i \in 1..(L - n) : b[i] = s[n + i]
  <2>1. \A i \in (n + 1)..L : s[i] \in P
    BY <1>1
  <2>2. /\ b \in Seq(P) /\ Len(b) = (IF n + 1 <= L THEN L - (n + 1) + 1 ELSE 0)
        /\ \A i \in 1..(L - (n + 1) + 1) : b[i] = s[(n + 1) + i - 1]
    BY <1>1, <2>1, SubSeqProperties
  <2> HIDE DEF b
  <2> QED
    BY <1>1, <2>2
<1> HIDE DEF a, b
<1>4. Concats(P)
  BY Concatenation
<1>5. /\ a \o b \in Seq(P) /\ Len(a \o b) = Len(a) + Len(b)
      /\ \A i \in 1..Len(a) : (a \o b)[i] = a[i]
      /\ \A i \in 1..Len(b) : (a \o b)[Len(a) + i] = b[i]
  BY <1>2, <1>3, <1>4, Zenon DEF Concats
<1>6. ASSUME NEW i \in 1..L PROVE s[i] = (a \o b)[i]
  <2>1. CASE i <= n
    BY <1>1, <1>2, <1>5, <2>1
  <2>2. CASE ~(i <= n)
    <3>1. PICK j \in 1..(L - n) : i = n + j
      <4>1. i - n \in 1..(L - n) /\ n + (i - n) = i
        BY <1>1, <2>2
      <4> QED
        BY <4>1
    <3>2. b[j] = s[n + j] /\ (a \o b)[n + j] = b[j]
      BY <1>2, <1>3, <1>5
    <3> QED
      BY <3>1, <3>2
  <2> QED
    BY <2>1, <2>2
<1>7. s = a \o b
  <2>1. Len(a \o b) = Len(s)
    BY <1>1, <1>2, <1>3, <1>5
  <2> QED
    BY <1>5, <1>6, <2>1, SeqEqual
<1> QED
  BY <1>2, <1>3, <1>7 DEF a, b, L

\* Append, for a sequence of anything.
LEMMA AppendIs ==
  ASSUME NEW s, s \in Seq(Range(s)), NEW e
  PROVE  /\ Append(s, e) \in Seq(Range(Append(s, e)))
         /\ Len(s) \in Nat /\ Len(Append(s, e)) = Len(s) + 1
         /\ \A i \in 1..Len(s) : Append(s, e)[i] = s[i]
         /\ Append(s, e)[Len(s) + 1] = e
<1> DEFINE n == Len(s)
           S == Range(s) \cup {e}
           a == Append(s, e)
<1>1. n \in Nat /\ s \in [1..n -> Range(s)] /\ DOMAIN s = 1..n
  BY LenProperties
<1>2. s \in Seq(S) /\ e \in S
  <2>1. s \in [1..n -> S]
    BY <1>1
  <2> QED
    BY <1>1, <2>1
<1> HIDE DEF S
<1>3. /\ a \in Seq(S) /\ Len(a) = n + 1 /\ \A i \in 1..n : a[i] = s[i]
      /\ a[n + 1] = e
  BY <1>2, AppendProperties
<1>4. a \in [1..(n + 1) -> S] /\ DOMAIN a = 1..(n + 1)
  BY <1>3, LenProperties
<1> HIDE DEF a
<1>5. \A i \in 1..(n + 1) : a[i] \in Range(a)
  BY <1>4 DEF Range
<1>6. a = [i \in 1..(n + 1) |-> a[i]]
  BY <1>4
<1>7. a \in [1..(n + 1) -> Range(a)]
  BY <1>5, <1>6
<1>8. a \in Seq(Range(a))
  BY <1>1, <1>7
<1> QED
  BY <1>1, <1>3, <1>8 DEF a

\* Where the bytes of four sequences are in their concatenation.
LEMMA ConcatFour ==
  ASSUME NEW S, NEW a \in Seq(S), NEW b \in Seq(S), NEW c \in Seq(S), NEW d \in Seq(S),
         NEW z, z = a \o b \o c \o d
  PROVE  /\ Len(a) \in Nat /\ Len(b) \in Nat /\ Len(c) \in Nat /\ Len(d) \in Nat
         /\ z \in Seq(S) /\ Len(z) = Len(a) + Len(b) + Len(c) + Len(d)
         /\ \A i \in 1..Len(a) : z[i] = a[i]
         /\ \A i \in 1..Len(b) : z[Len(a) + i] = b[i]
         /\ \A i \in 1..Len(c) : z[Len(a) + Len(b) + i] = c[i]
         /\ \A i \in 1..Len(d) : z[Len(a) + Len(b) + Len(c) + i] = d[i]
<1>1. Concats(S)
  BY Concatenation
<1>2. PICK x : x = a \o b
  OBVIOUS
<1>3. /\ x \in Seq(S) /\ Len(a) \in Nat /\ Len(b) \in Nat
      /\ Len(x) = Len(a) + Len(b)
      /\ \A i \in 1..Len(a) : x[i] = a[i]
      /\ \A i \in 1..Len(b) : x[Len(a) + i] = b[i]
  <2>1. /\ a \o b \in Seq(S) /\ Len(a) \in Nat /\ Len(b) \in Nat
        /\ Len(a \o b) = Len(a) + Len(b)
        /\ \A i \in 1..Len(a) : (a \o b)[i] = a[i]
        /\ \A i \in 1..Len(b) : (a \o b)[Len(a) + i] = b[i]
    BY <1>1, Zenon DEF Concats
  <2> QED
    BY <1>2, <2>1
<1>4. PICK y : y = x \o c
  OBVIOUS
<1>5. /\ y \in Seq(S) /\ Len(c) \in Nat
      /\ Len(y) = Len(x) + Len(c)
      /\ \A i \in 1..Len(x) : y[i] = x[i]
      /\ \A i \in 1..Len(c) : y[Len(x) + i] = c[i]
  <2>1. /\ x \o c \in Seq(S) /\ Len(c) \in Nat
        /\ Len(x \o c) = Len(x) + Len(c)
        /\ \A i \in 1..Len(x) : (x \o c)[i] = x[i]
        /\ \A i \in 1..Len(c) : (x \o c)[Len(x) + i] = c[i]
    BY <1>1, <1>3, Zenon DEF Concats
  <2> QED
    BY <1>4, <2>1
<1>6. z = y \o d
  BY <1>2, <1>4
<1>7. /\ z \in Seq(S) /\ Len(d) \in Nat
      /\ Len(z) = Len(y) + Len(d)
      /\ \A i \in 1..Len(y) : z[i] = y[i]
      /\ \A i \in 1..Len(d) : z[Len(y) + i] = d[i]
  <2>1. /\ y \o d \in Seq(S) /\ Len(d) \in Nat
        /\ Len(y \o d) = Len(y) + Len(d)
        /\ \A i \in 1..Len(y) : (y \o d)[i] = y[i]
        /\ \A i \in 1..Len(d) : (y \o d)[Len(y) + i] = d[i]
    BY <1>1, <1>5, Zenon DEF Concats
  <2> QED
    BY <1>6, <2>1
<1>8. \A i \in 1..Len(x) : i \in 1..Len(y)
  BY <1>3, <1>5
<1>9. \A i \in 1..Len(a) : z[i] = a[i]
  BY <1>3, <1>5, <1>7
<1>10. \A i \in 1..Len(b) : z[Len(a) + i] = b[i]
  BY <1>3, <1>5, <1>7
<1>11. \A i \in 1..Len(c) : z[Len(a) + Len(b) + i] = c[i]
  BY <1>3, <1>5, <1>7
<1>12. \A i \in 1..Len(d) : z[Len(a) + Len(b) + Len(c) + i] = d[i]
  BY <1>3, <1>5, <1>7
<1> QED
  BY <1>3, <1>5, <1>7, <1>9, <1>10, <1>11, <1>12

-----------------------------------------------------------------------------
(* FlattenSeq *)

\* f[n] is the first n sequences of ss one after the other.
Joined(f, ss, n) ==
  /\ f[0] = <<>>
  /\ \A i \in 1..n : f[i] = f[i - 1] \o ss[i]

\* FlattenSeq() computes the last of the prefixes.  The prefixes are there by
\* LeastNumber: the least n without the first n of them would have n - 1.
LEMMA FlattenPrefixes ==
  ASSUME NEW S, NEW ss \in Seq(Seq(S))
  PROVE  \E f \in [0..Len(ss) -> Seq(S)] :
           Joined(f, ss, Len(ss)) /\ FlattenSeq(ss) = f[Len(ss)]
<1> DEFINE L == Len(ss)
<1>1. L \in Nat /\ \A i \in 1..L : ss[i] \in Seq(S)
  BY LenProperties, ElementOfSeq
<1>2. \A s \in Seq(S) : <<>> \o s = s /\ \A t \in Seq(S) : s \o t \in Seq(S)
  BY ConcatEmptySeq, ConcatProperties
<1>3. <<>> \in Seq(S)
  OBVIOUS
<1> HIDE DEF L
<1>4. ASSUME NEW n \in 0..L
      PROVE  \E f \in [0..n -> Seq(S)] : Joined(f, ss, n)
  <2> DEFINE Good(k) == \E f \in [0..k -> Seq(S)] : Joined(f, ss, k)
             Bad == {k \in 0..L : ~Good(k)}
  <2>1. Good(0)
    <3>1. [i \in 0..0 |-> <<>>] \in [0..0 -> Seq(S)] /\ Joined([i \in 0..0 |-> <<>>], ss, 0)
      BY <1>3 DEF Joined
    <3> QED
      BY <3>1
  <2>2. ASSUME NEW k \in 0..L, k + 1 \in 0..L, Good(k)
        PROVE  Good(k + 1)
    <3>1. PICK f \in [0..k -> Seq(S)] : Joined(f, ss, k)
      BY <2>2
    <3> DEFINE g == [i \in 0..(k + 1) |-> IF i = k + 1 THEN f[k] \o ss[k + 1] ELSE f[i]]
    <3>2. f[k] \o ss[k + 1] \in Seq(S)
      BY <1>1, <1>2, <2>2
    <3>3. g \in [0..(k + 1) -> Seq(S)]
      BY <1>1, <2>2, <3>2
    <3>4. Joined(g, ss, k + 1)
      <4>1. g[0] = <<>>
        BY <1>1, <2>2, <3>1 DEF Joined
      <4>2. ASSUME NEW i \in 1..(k + 1) PROVE g[i] = g[i - 1] \o ss[i]
        <5>1. CASE i = k + 1
          <6>1. i \in 0..(k + 1) /\ k \in 0..(k + 1) /\ i - 1 = k /\ k # k + 1
            BY <1>1, <2>2, <5>1
          <6>2. g[i] = f[k] \o ss[k + 1] /\ g[k] = f[k]
            BY <5>1, <6>1
          <6> HIDE DEF g
          <6> QED
            BY <5>1, <6>1, <6>2
        <5>2. CASE i # k + 1
          <6>1. i \in 1..k /\ g[i] = f[i] /\ g[i - 1] = f[i - 1]
            BY <1>1, <2>2, <5>2
          <6> QED
            BY <3>1, <6>1 DEF Joined
        <5> QED
          BY <5>1, <5>2
      <4> HIDE DEF g
      <4> QED
        BY <4>1, <4>2 DEF Joined
    <3> QED
      BY <3>3, <3>4
  <2> HIDE DEF Good
  <2>3. Bad = {}
    <3>1. SUFFICES ASSUME Bad # {} PROVE FALSE
      OBVIOUS
    <3>0. Bad \subseteq Nat
      BY <1>1
    <3>2. PICK m \in Bad : \A k \in Bad : m <= k
      BY <3>0, <3>1, LeastNumber
    <3>3. m # 0 /\ m \in 0..L /\ ~Good(m)
      BY <2>1, <3>2
    <3>4. m - 1 \in 0..L /\ m - 1 \notin Bad /\ (m - 1) + 1 = m
      BY <1>1, <3>2, <3>3
    <3> QED
      BY <2>2, <3>3, <3>4
  <2> QED
    BY <2>3 DEF Good
<1>5. PICK f \in [0..L -> Seq(S)] : Joined(f, ss, L)
  <2>1. L \in 0..L
    BY <1>1
  <2> QED
    BY <1>4, <2>1
<1>6. CASE L = 0
  <2>1. ss = <<>> /\ FlattenSeq(ss) = ss
    BY <1>6, EmptySeq DEF L, FlattenSeq
  <2> QED
    BY <1>5, <1>6, <2>1 DEF L, Joined
<1>7. CASE L # 0
  <2>0. f[1] = ss[1]
    <3>1. 1 \in 1..L /\ 1 - 1 = 0
      BY <1>1, <1>7
    <3>2. f[1] = f[1 - 1] \o ss[1] /\ f[0] = <<>>
      BY <1>5, <3>1 DEF Joined
    <3> QED
      BY <1>1, <1>2, <3>1, <3>2
  <2> DEFINE H(g) == g = [i \in 1..L |-> IF i = 1 THEN ss[i] ELSE g[i-1] \o ss[i]]
             c == CHOOSE g : H(g)
  <2>1. \E g : H(g)
    <3> DEFINE g == [i \in 1..L |-> f[i]]
    <3>1. ASSUME NEW i \in 1..L PROVE f[i] = IF i = 1 THEN ss[i] ELSE g[i-1] \o ss[i]
      <4>1. CASE i = 1
        BY <2>0, <4>1
      <4>2. CASE i # 1
        <5>1. i - 1 \in 1..L
          BY <1>1, <4>2
        <5> QED
          BY <1>5, <4>2, <5>1 DEF Joined
      <4> QED
        BY <4>1, <4>2
    <3>2. H(g)
      BY <3>1
    <3> QED
      BY <3>2
  <2>2. H(c)
    <3> HIDE DEF H
    <3> QED
      BY <2>1
  <2>3. FlattenSeq(ss) = c[L]
    BY <1>7 DEF FlattenSeq, L
  <2> HIDE DEF c
  <2>4. \A i \in 1..L : c[i] = IF i = 1 THEN ss[i] ELSE c[i-1] \o ss[i]
    BY <2>2
  <2>5. \A i \in 1..L : c[i] = f[i]
    <3> DEFINE Bad == {i \in 1..L : c[i] # f[i]}
    <3>1. SUFFICES ASSUME Bad # {} PROVE FALSE
      OBVIOUS
    <3>0. Bad \subseteq Nat
      BY <1>1
    <3>2. PICK m \in Bad : \A k \in Bad : m <= k
      BY <3>0, <3>1, LeastNumber
    <3>3. m \in 1..L /\ c[m] # f[m] /\ f[m] = f[m - 1] \o ss[m]
      BY <1>5, <3>2 DEF Joined
    <3>4. CASE m = 1
      BY <2>0, <2>4, <3>3, <3>4
    <3>5. CASE m # 1
      <4>1. m - 1 \in 1..L /\ m - 1 \notin Bad
        BY <1>1, <3>2, <3>3, <3>5
      <4>2. c[m - 1] = f[m - 1]
        BY <4>1
      <4>3. c[m] = c[m - 1] \o ss[m]
        BY <2>4, <3>3, <3>5
      <4> QED
        BY <3>3, <4>2, <4>3
    <3> QED
      BY <3>4, <3>5
  <2>6. FlattenSeq(ss) = f[L]
    <3>1. L \in 1..L
      BY <1>1, <1>7
    <3> QED
      BY <2>3, <2>5, <3>1
  <2> QED
    BY <1>5, <2>6 DEF L
<1> QED
  BY <1>6, <1>7

\* One sequence after the other: the parts may be flattened apart.
LEMMA FlattenConcat ==
  ASSUME NEW S, NEW ss \in Seq(Seq(S)), NEW tt \in Seq(Seq(S))
  PROVE  /\ FlattenSeq(ss) \in Seq(S)
         /\ FlattenSeq(ss \o tt) = FlattenSeq(ss) \o FlattenSeq(tt)
<1>0. Associates(S)
  BY Associative
<1> DEFINE m == Len(ss)
           n == Len(tt)
           u == ss \o tt
<1>1. /\ m \in Nat /\ n \in Nat
      /\ \A i \in 1..m : ss[i] \in Seq(S)
      /\ \A i \in 1..n : tt[i] \in Seq(S)
  BY LenProperties, ElementOfSeq
<1>2. /\ u \in Seq(Seq(S)) /\ Len(u) = m + n
      /\ \A i \in 1..(m + n) : u[i] = IF i <= m THEN ss[i] ELSE tt[i - m]
  BY ConcatProperties
<1>3. PICK f \in [0..m -> Seq(S)] : Joined(f, ss, m) /\ FlattenSeq(ss) = f[m]
  BY FlattenPrefixes
<1>4. PICK g \in [0..n -> Seq(S)] : Joined(g, tt, n) /\ FlattenSeq(tt) = g[n]
  BY FlattenPrefixes
<1>5. PICK h \in [0..(m + n) -> Seq(S)] : Joined(h, u, m + n) /\ FlattenSeq(u) = h[m + n]
  BY <1>2, FlattenPrefixes
<1> HIDE DEF m, n, u
<1>6. \A i \in 0..m : h[i] = f[i]
  <2> DEFINE Bad == {i \in 0..m : h[i] # f[i]}
  <2>1. SUFFICES ASSUME Bad # {} PROVE FALSE
    OBVIOUS
  <2>2. Bad \subseteq Nat
    BY <1>1
  <2>3. PICK k \in Bad : \A j \in Bad : k <= j
    BY <2>1, <2>2, LeastNumber
  <2>4. k \in 0..m /\ h[k] # f[k] /\ k # 0
    BY <1>3, <1>5, <2>3 DEF Joined
  <2>5. /\ k \in 1..m /\ k \in 1..(m + n) /\ k - 1 \in 0..m /\ k - 1 \notin Bad
    BY <1>1, <2>3, <2>4
  <2>6. h[k - 1] = f[k - 1] /\ u[k] = ss[k]
    BY <1>1, <1>2, <2>5
  <2>7. h[k] = h[k - 1] \o u[k] /\ f[k] = f[k - 1] \o ss[k]
    BY <1>3, <1>5, <2>5 DEF Joined
  <2> QED
    BY <2>4, <2>6, <2>7
<1>7. \A i \in 0..n : h[m + i] = f[m] \o g[i]
  <2> DEFINE Bad == {i \in 0..n : h[m + i] # f[m] \o g[i]}
  <2>1. SUFFICES ASSUME Bad # {} PROVE FALSE
    OBVIOUS
  <2>2. Bad \subseteq Nat
    BY <1>1
  <2>3. PICK k \in Bad : \A j \in Bad : k <= j
    BY <2>1, <2>2, LeastNumber
  <2>4. k \in 0..n /\ h[m + k] # f[m] \o g[k]
    BY <2>3
  <2>5. f[m] \in Seq(S) /\ h[m] = f[m]
    BY <1>1, <1>3, <1>6
  <2>6. CASE k = 0
    <3>1. g[0] = <<>> /\ m + k = m
      BY <1>1, <1>4, <2>6 DEF Joined
    <3>2. f[m] \o <<>> = f[m]
      BY <2>5, ConcatEmptySeq
    <3> QED
      BY <2>4, <2>5, <2>6, <3>1, <3>2
  <2>7. CASE k # 0
    <3>00. k - 1 \in 0..n /\ ~(k <= k - 1)
      BY <1>1, <2>4, <2>7
    <3>0. k - 1 \notin Bad
      BY <2>3, <3>00
    <3>1. /\ k \in 1..n /\ m + k \in 1..(m + n) /\ k - 1 \in 0..n
          /\ (m + k) - 1 = m + (k - 1) /\ ~(m + k <= m) /\ (m + k) - m = k
      BY <1>1, <2>4, <2>7
    <3>2. h[m + (k - 1)] = f[m] \o g[k - 1] /\ u[m + k] = tt[k]
      BY <1>2, <3>0, <3>1
    <3>3. h[m + k] = h[(m + k) - 1] \o u[m + k] /\ g[k] = g[k - 1] \o tt[k]
      BY <1>4, <1>5, <3>1 DEF Joined
    <3>4. g[k - 1] \in Seq(S) /\ tt[k] \in Seq(S)
      BY <1>1, <1>4, <3>1
    <3>5. (f[m] \o g[k - 1]) \o tt[k] = f[m] \o (g[k - 1] \o tt[k])
      BY <1>0, <2>5, <3>4 DEF Associates
    <3> QED
      BY <2>4, <3>1, <3>2, <3>3, <3>5
  <2> QED
    BY <2>6, <2>7
<1>8. FlattenSeq(u) = f[m] \o g[n]
  <2>1. n \in 0..n
    BY <1>1
  <2>2. h[m + n] = f[m] \o g[n]
    BY <1>7, <2>1
  <2> QED
    BY <1>5, <2>2
<1>9. FlattenSeq(ss) \in Seq(S)
  BY <1>1, <1>3
<1> QED
  BY <1>3, <1>4, <1>8, <1>9 DEF u, m, n

\* No sequence, and one.
LEMMA FlattenFew ==
  ASSUME NEW S, NEW s \in Seq(S)
  PROVE  FlattenSeq(<<>>) = <<>> /\ FlattenSeq(<<s>>) = s
<1>1. FlattenSeq(<<>>) = <<>>
  BY DEF FlattenSeq
<1>2. <<s>> \in Seq(Seq(S)) /\ Len(<<s>>) = 1 /\ <<s>>[1] = s
  OBVIOUS
<1>3. PICK f \in [0..1 -> Seq(S)] : Joined(f, <<s>>, 1) /\ FlattenSeq(<<s>>) = f[1]
  BY <1>2, FlattenPrefixes
<1>4. f[0] = <<>> /\ f[1] = f[1 - 1] \o s
  BY <1>2, <1>3 DEF Joined
<1>5. <<>> \o s = s /\ 1 - 1 = 0
  BY ConcatEmptySeq
<1> QED
  BY <1>1, <1>3, <1>4, <1>5

\* A step forward at a time: sequences of one element each.
LEMMA FlattenSingles ==
  ASSUME NEW S, NEW ss \in Seq(Seq(S)), \A i \in 1..Len(ss) : Len(ss[i]) = 1
  PROVE  FlattenSeq(ss) = [i \in 1..Len(ss) |-> ss[i][1]]
<1> DEFINE L == Len(ss)
<1>1. L \in Nat /\ \A i \in 1..L : ss[i] \in Seq(S) /\ Len(ss[i]) = 1
  BY LenProperties, ElementOfSeq
<1>2. PICK f \in [0..L -> Seq(S)] : Joined(f, ss, L) /\ FlattenSeq(ss) = f[L]
  BY FlattenPrefixes
<1> HIDE DEF L
<1> DEFINE Good(k) == Len(f[k]) = k /\ \A i \in 1..k : f[k][i] = ss[i][1]
<1>3. Good(0)
  BY <1>2 DEF Joined
<1>4. ASSUME NEW k \in 0..L, k + 1 \in 0..L, Good(k)
      PROVE  Good(k + 1)
  <2>1. /\ k + 1 \in 1..L /\ (k + 1) - 1 = k /\ k \in Nat
    BY <1>1, <1>4
  <2>2. f[k + 1] = f[k] \o ss[k + 1]
    BY <1>2, <2>1 DEF Joined
  <2>3. f[k] \in Seq(S) /\ ss[k + 1] \in Seq(S) /\ Len(ss[k + 1]) = 1
    BY <1>1, <1>4, <2>1
  <2> DEFINE a == f[k]
             b == ss[k + 1]
             c == f[k + 1]
  <2>4. a \in Seq(S) /\ b \in Seq(S) /\ Len(b) = 1 /\ c = a \o b /\ Len(a) = k
    BY <1>4, <2>2, <2>3
  <2>5. \A i \in 1..k : a[i] = ss[i][1]
    BY <1>4
  <2> HIDE DEF a, b, c
  <2>6. /\ Len(c) = k + 1
        /\ \A i \in 1..k : c[i] = a[i]
        /\ c[k + 1] = b[1]
    <3>1. Concats(S)
      BY Concatenation
    <3>2. /\ Len(a \o b) = Len(a) + Len(b)
          /\ \A i \in 1..Len(a) : (a \o b)[i] = a[i]
          /\ \A i \in 1..Len(b) : (a \o b)[Len(a) + i] = b[i]
      BY <2>4, <3>1, Zenon DEF Concats
    <3>3. Len(c) = k + 1 /\ \A i \in 1..k : c[i] = a[i]
      BY <2>4, <3>2
    <3>4. c[k + 1] = b[1]
      BY <2>4, <3>2
    <3> QED
      BY <2>1, <3>3, <3>4
  <2>7. ASSUME NEW i \in 1..(k + 1) PROVE c[i] = ss[i][1]
    <3>1. CASE i <= k
      <4>1. i \in 1..k
        BY <2>1, <3>1
      <4> QED
        BY <2>5, <2>6, <3>1, <4>1
    <3>2. CASE ~(i <= k)
      <4>1. i = k + 1
        BY <2>1, <3>2
      <4> QED
        BY <2>6, <3>2, <4>1 DEF b
    <3> QED
      BY <3>1, <3>2
  <2> QED
    BY <2>6, <2>7 DEF c
<1> HIDE DEF Good
<1>5. Good(L)
  <2> DEFINE Bad == {k \in 0..L : ~Good(k)}
  <2>0. L \in 0..L
    BY <1>1
  <2>1. SUFFICES ASSUME Bad # {} PROVE FALSE
    BY <2>0
  <2>2. Bad \subseteq Nat
    BY <1>1
  <2>3. PICK m \in Bad : \A k \in Bad : m <= k
    BY <2>1, <2>2, LeastNumber
  <2>4. m \in 0..L /\ ~Good(m) /\ m # 0
    BY <1>3, <2>3
  <2>5. m - 1 \in 0..L /\ (m - 1) + 1 = m /\ ~(m <= m - 1)
    BY <1>1, <2>4
  <2>6. Good(m - 1)
    BY <2>3, <2>5
  <2> QED
    BY <1>4, <2>4, <2>5, <2>6
<1>6. f[L] \in Seq(S) /\ Len(f[L]) = L /\ \A i \in 1..L : f[L][i] = ss[i][1]
  BY <1>1, <1>5 DEF Good
<1> DEFINE s == f[L]
           t == [i \in 1..L |-> ss[i][1]]
<1>7. s \in [1..L -> S]
  BY <1>6, LenProperties
<1>8. s = t
  BY <1>6, <1>7
<1> QED
  BY <1>2, <1>8 DEF L
=============================================================================
