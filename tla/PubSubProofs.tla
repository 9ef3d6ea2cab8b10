---------------------------- MODULE PubSubProofs ----------------------------
(***************************************************************************)
(* Proofs about PubSub, for every capacity, every number of messages and   *)
(* subscribers and every use the application makes of the channel.         *)
(***************************************************************************)
EXTENDS PubSub, SequenceTheorems, FiniteSetTheorems, TLAPS

-----------------------------------------------------------------------------
(* Queues *)

\* What is left of a queue after pop_front() on its n oldest frames.
LEMMA PopFrontProperties ==
  ASSUME NEW q \in Seq(Header), NEW n \in 0..Len(q)
  PROVE  /\ PopFront(q, n) \in Seq(Header)
         /\ Len(PopFront(q, n)) = Len(q) - n
         /\ \A i \in 1..(Len(q) - n) : PopFront(q, n)[i] = q[i + n]
<1>1. Len(q) \in Nat /\ \A i \in (n + 1)..Len(q) : q[i] \in Header
  BY ElementOfSeq, LenProperties
<1>2. /\ SubSeq(q, n + 1, Len(q)) \in Seq(Header)
      /\ Len(SubSeq(q, n + 1, Len(q))) =
           IF n + 1 <= Len(q) THEN Len(q) - (n + 1) + 1 ELSE 0
      /\ \A i \in 1..(Len(q) - (n + 1) + 1) :
           SubSeq(q, n + 1, Len(q))[i] = q[(n + 1) + i - 1]
  <2>1. n + 1 \in Int /\ Len(q) \in Int
    BY <1>1
  <2> HIDE DEF Header
  <2> QED
    BY <1>1, <2>1, SubSeqProperties
<1> QED
  BY <1>1, <1>2 DEF PopFront

\* All that the layout of a queue depends on: the regions of its frames.
Sized(q) ==
  /\ Len(q) \in Nat
  /\ \A i \in 1..Len(q) : /\ q[i].start \in Nat
                          /\ q[i].len \in Nat
                          /\ End(q[i]) \in Nat
                          /\ End(q[i]) = q[i].start + q[i].len

\* Every queue of headers is such a sequence.
LEMMA QueueSized ==
  ASSUME NEW q \in Seq(Header)
  PROVE  Sized(q)
<1>1. Len(q) \in Nat /\ \A i \in 1..Len(q) : q[i] \in Header
  BY ElementOfSeq, LenProperties
<1> QED
  BY <1>1, SMTT(30) DEF Header, End, Sized

-----------------------------------------------------------------------------
(* The layout of the ring *)

\* Popping from the front, and shrinking any region in place, keep the ring
\* laid out: the two ways in which a queue changes under a pending write.
LEMMA LayoutWeakens ==
  ASSUME NEW q, NEW p, Sized(q), Sized(p), NEW n \in 0..Len(q),
         Layout(q),
         Len(p) = Len(q) - n,
         \A i \in 1..Len(p) : /\ p[i].start = q[i + n].start
                              /\ p[i].len <= q[i + n].len
  PROVE  Layout(p)
<1>1. /\ Len(q) \in Nat /\ Len(p) \in Nat /\ n \in Nat
      /\ \A i \in 1..Len(q) : /\ q[i].start \in Nat /\ q[i].len \in Nat
                              /\ End(q[i]) \in Nat
                              /\ End(q[i]) = q[i].start + q[i].len
      /\ \A i \in 1..Len(p) : /\ p[i].start \in Nat /\ p[i].len \in Nat
                              /\ End(p[i]) \in Nat
                              /\ End(p[i]) = p[i].start + p[i].len
  BY DEF Sized
<1>2. PICK k \in 0..Len(q) :
        /\ Len(q) > 0 => k >= 1
        /\ \A i, j \in 1..Len(q) :
             (i < j /\ (j <= k \/ i > k)) => End(q[i]) <= q[j].start
        /\ \A i \in 1..Len(q) : End(q[i]) <= Capacity
        /\ k < Len(q) => End(q[Len(q)]) <= q[1].start
  BY DEF Layout
<1>3. ASSUME NEW i \in 1..Len(p)
      PROVE  /\ i + n \in 1..Len(q)
             /\ End(p[i]) \in Nat /\ End(q[i + n]) \in Nat
             /\ End(p[i]) <= End(q[i + n])
             /\ p[i].start \in Nat /\ p[i].start = q[i + n].start
  <2>1. i + n \in 1..Len(q)
    BY <1>1
  <2>2. p[i].start = q[i + n].start /\ p[i].len <= q[i + n].len
    OBVIOUS
  <2>3. /\ End(q[i + n]) = q[i + n].start + q[i + n].len
        /\ q[i + n].start \in Nat /\ q[i + n].len \in Nat
        /\ End(q[i + n]) \in Nat
    BY <1>1, <2>1
  <2>4. /\ End(p[i]) = p[i].start + p[i].len
        /\ p[i].start \in Nat /\ p[i].len \in Nat
        /\ End(p[i]) \in Nat
    BY <1>1
  <2> QED
    BY <2>1, <2>2, <2>3, <2>4, SMTT(30)
<1>4. ASSUME NEW i \in 1..Len(p)
      PROVE  End(p[i]) <= Capacity
  <2>1. End(q[i + n]) <= Capacity
    BY <1>2, <1>3
  <2> QED
    BY <2>1, <1>3, CapacityAssumption
<1>5. CASE k > n
  <2>1. k - n \in 0..Len(p) /\ k - n >= 1
    BY <1>1, <1>5
  <2>2. ASSUME NEW i \in 1..Len(p), NEW j \in 1..Len(p),
               i < j, j <= k - n \/ i > k - n
        PROVE  End(p[i]) <= p[j].start
    <3>1. End(q[i + n]) <= q[j + n].start
      BY <1>1, <1>2, <1>3, <2>2
    <3> QED
      BY <1>3, <3>1, SMTT(30)
  <2>3. ASSUME k - n < Len(p)
        PROVE  End(p[Len(p)]) <= p[1].start
    <3>1. /\ End(q[Len(q)]) <= q[1].start
          /\ Len(p) \in 1..Len(p) /\ 1 \in 1..Len(p) /\ Len(p) + n = Len(q)
      BY <1>1, <1>2, <1>5, <2>3
    <3>2. q[1].start <= q[1 + n].start
      <4>1. CASE n = 0
        BY <1>1, <3>1, <4>1
      <4>2. CASE n > 0
        <5>1. End(q[1]) <= q[1 + n].start
          BY <1>1, <1>2, <1>5, <3>1, <4>2
        <5>2. q[1].start <= End(q[1]) /\ 1 + n \in 1..Len(q)
          BY <1>1, <1>5, <3>1, SMTT(30)
        <5> QED
          BY <1>1, <5>1, <5>2, <3>1
      <4> QED
        BY <1>1, <4>1, <4>2
    <3>3. /\ End(p[Len(p)]) <= End(q[Len(q)])
          /\ End(p[Len(p)]) \in Nat /\ End(q[Len(q)]) \in Nat
      BY <1>3, <3>1
    <3>4. p[1].start = q[1 + n].start /\ p[1].start \in Nat
      BY <1>3, <3>1
    <3>5. q[1].start \in Nat
      BY <1>1, <3>1
    <3> QED
      BY <3>1, <3>2, <3>3, <3>4, <3>5
  <2> DEFINE kp == k - n
  <2>4. /\ kp \in 0..Len(p)
        /\ Len(p) > 0 => kp >= 1
        /\ \A i, j \in 1..Len(p) :
             (i < j /\ (j <= kp \/ i > kp)) => End(p[i]) <= p[j].start
        /\ \A i \in 1..Len(p) : End(p[i]) <= Capacity
        /\ kp < Len(p) => End(p[Len(p)]) <= p[1].start
    BY <1>4, <2>1, <2>2, <2>3
  <2> HIDE DEF kp
  <2> QED
    BY <2>4 DEF Layout
<1>6. CASE k <= n
  <2>1. ASSUME NEW i \in 1..Len(p), NEW j \in 1..Len(p), i < j
        PROVE  End(p[i]) <= p[j].start
    <3>1. /\ i + n \in 1..Len(q) /\ j + n \in 1..Len(q)
          /\ i + n < j + n /\ i + n > k
      BY <1>1, <1>6, <2>1
    <3>2. End(q[i + n]) <= q[j + n].start
      BY <1>2, <3>1
    <3> QED
      BY <1>3, <3>2, SMTT(30)
  <2>2. Len(p) \in 0..Len(p) /\ (Len(p) > 0 => Len(p) >= 1)
    BY <1>1
  <2> DEFINE kp == Len(p)
  <2>3. /\ kp \in 0..Len(p)
        /\ Len(p) > 0 => kp >= 1
        /\ \A i, j \in 1..Len(p) :
             (i < j /\ (j <= kp \/ i > kp)) => End(p[i]) <= p[j].start
        /\ \A i \in 1..Len(p) : End(p[i]) <= Capacity
        /\ ~(kp < Len(p))
    BY <1>1, <1>4, <2>1, <2>2
  <2> HIDE DEF kp
  <2> QED
    BY <2>3 DEF Layout
<1> QED
  BY <1>1, <1>5, <1>6

\* A grant that publishes nothing gives its region back.
LEMMA LayoutButLast ==
  ASSUME NEW q, NEW p, Sized(q), Sized(p), Layout(q),
         Len(q) = Len(p) + 1,
         \A i \in 1..Len(p) : p[i] = q[i]
  PROVE  Layout(p)
<1>1. /\ Len(q) \in Nat /\ Len(p) \in Nat
      /\ \A i \in 1..Len(q) : /\ q[i].start \in Nat /\ q[i].len \in Nat
                              /\ End(q[i]) \in Nat
                              /\ End(q[i]) = q[i].start + q[i].len
  BY DEF Sized
<1>2. PICK k \in 0..Len(q) :
        /\ Len(q) > 0 => k >= 1
        /\ \A i, j \in 1..Len(q) :
             (i < j /\ (j <= k \/ i > k)) => End(q[i]) <= q[j].start
        /\ \A i \in 1..Len(q) : End(q[i]) <= Capacity
        /\ k < Len(q) => End(q[Len(q)]) <= q[1].start
  BY DEF Layout
<1> DEFINE kp == IF k <= Len(p) THEN k ELSE Len(p)
<1>3. kp \in 0..Len(p) /\ (Len(p) > 0 => kp >= 1)
  BY <1>1, <1>2
<1>4. ASSUME NEW i \in 1..Len(p)
      PROVE  i \in 1..Len(q) /\ p[i] = q[i]
  BY <1>1
<1>5. ASSUME NEW i \in 1..Len(p), NEW j \in 1..Len(p),
             i < j, j <= kp \/ i > kp
      PROVE  End(p[i]) <= p[j].start
  <2>1. j <= k \/ i > k
    BY <1>1, <1>5
  <2> QED
    BY <1>2, <1>4, <1>5, <2>1
<1>6. ASSUME kp < Len(p)
      PROVE  End(p[Len(p)]) <= p[1].start
  <2>1. /\ k < Len(p) /\ k < Len(q)
        /\ Len(p) \in 1..Len(p) /\ 1 \in 1..Len(p)
        /\ Len(p) \in 1..Len(q) /\ Len(q) \in 1..Len(q) /\ 1 \in 1..Len(q)
        /\ Len(p) < Len(q)
    BY <1>1, <1>6
  <2>2. End(q[Len(p)]) <= q[Len(q)].start /\ End(q[Len(q)]) <= q[1].start
    BY <1>2, <2>1
  <2>3. /\ q[Len(q)].start <= End(q[Len(q)])
        /\ q[Len(q)].start \in Nat /\ End(q[Len(q)]) \in Nat
        /\ End(q[Len(p)]) \in Nat /\ q[1].start \in Nat
    BY <1>1, <2>1
  <2>4. p[Len(p)] = q[Len(p)] /\ p[1] = q[1]
    BY <1>4, <2>1
  <2>5. End(q[Len(p)]) <= q[1].start
    BY <2>2, <2>3
  <2> QED
    BY <2>4, <2>5
<1>7. \A i \in 1..Len(p) : End(p[i]) <= Capacity
  BY <1>2, <1>4
<1> HIDE DEF kp
<1> QED
  BY <1>3, <1>5, <1>6, <1>7 DEF Layout

\* grant_with_context(): a region that free_space() allows, put where the code
\* puts it, fits behind the newest frame or, wrapped, below the oldest one.
LEMMA LayoutGrows ==
  ASSUME NEW q, NEW p, Sized(q), Sized(p), Layout(q),
         q # <<>> => Len(q) > 0,
         q = <<>> => Len(q) = 0,
         NEW sz \in Nat, sz <= FreeSpace(q),
         Len(p) = Len(q) + 1,
         \A i \in 1..Len(q) : p[i] = q[i],
         p[Len(p)].start = NewStart(q, sz),
         p[Len(p)].len = sz
  PROVE  Layout(p)
<1>1. /\ Len(q) \in Nat /\ Len(p) \in Nat
      /\ \A i \in 1..Len(q) : /\ q[i].start \in Nat /\ q[i].len \in Nat
                              /\ End(q[i]) \in Nat
                              /\ End(q[i]) = q[i].start + q[i].len
  BY DEF Sized
<1>2. PICK k \in 0..Len(q) :
        /\ Len(q) > 0 => k >= 1
        /\ \A i, j \in 1..Len(q) :
             (i < j /\ (j <= k \/ i > k)) => End(q[i]) <= q[j].start
        /\ \A i \in 1..Len(q) : End(q[i]) <= Capacity
        /\ k < Len(q) => End(q[Len(q)]) <= q[1].start
  BY DEF Layout
<1> DEFINE x == p[Len(p)]
<1>3. /\ Len(p) \in 1..Len(p)
      /\ x.start \in Nat /\ End(x) \in Nat /\ End(x) = x.start + sz
  BY <1>1 DEF Sized
<1>4. ASSUME NEW i \in 1..Len(p)
      PROVE  (i \in 1..Len(q) /\ p[i] = q[i]) \/ i = Len(p)
  BY <1>1
<1>5. CASE q = <<>>
  <2>1. x.start = 0 /\ sz <= Capacity /\ Len(p) = 1
    BY <1>1, <1>5 DEF NewStart, FreeSpace
  <2>2. /\ 1 \in 0..Len(p) /\ Len(p) = 1 /\ ~(1 < Len(p))
        /\ \A i \in 1..Len(p) : i = 1 /\ ~(i < 1)
        /\ End(p[1]) <= Capacity
    <3>1. x = p[1]
      BY <2>1
    <3> HIDE DEF x
    <3>2. End(x) <= Capacity
      BY <1>3, <2>1
    <3>3. Len(p) = 1
      BY <2>1
    <3>4. 1 \in 0..1 /\ ~(1 < 1) /\ \A i \in 1..1 : i = 1 /\ ~(i < 1)
      OBVIOUS
    <3> QED
      BY <3>1, <3>2, <3>3, <3>4
  <2>3. /\ \A i \in 1..Len(p) : End(p[i]) <= Capacity
        /\ \A i, j \in 1..Len(p) :
             (i < j /\ (j <= 1 \/ i > 1)) => End(p[i]) <= p[j].start
    BY <2>2
  <2> QED
    BY <2>2, <2>3 DEF Layout
<1>6. CASE q # <<>>
  <2> DEFINE b == End(q[Len(q)])
             f == q[1].start
  <2>1. /\ Len(q) > 0 /\ k >= 1 /\ Len(q) \in 1..Len(q) /\ 1 \in 1..Len(q)
        /\ 1 \in 1..Len(p) /\ p[1] = q[1] /\ Len(q) < Len(p)
        /\ b \in Nat /\ f \in Nat /\ b <= Capacity
    BY <1>1, <1>2, <1>6
  <2>2. /\ b <= f => sz <= f - b /\ x.start = b
        /\ ~(b <= f) /\ sz <= Capacity - b => x.start = b
        /\ ~(b <= f) /\ ~(sz <= Capacity - b) => x.start = 0 /\ sz <= f
    BY <1>1, <1>6, <2>1, CapacityAssumption
       DEF FreeSpace, NewStart, Inverted, Front, Back, Larger
  \* Every region of a part that is in order lies below the part's last one.
  <2>3. ASSUME NEW i \in 1..Len(q), i > k \/ k = Len(q)
        PROVE  End(q[i]) <= b
    <3>1. CASE i = Len(q)
      BY <1>1, <2>1, <3>1
    <3>2. CASE i < Len(q)
      <4>1. End(q[i]) <= q[Len(q)].start
        BY <1>1, <1>2, <2>1, <2>3, <3>2
      <4>2. q[Len(q)].start <= b /\ q[Len(q)].start \in Nat /\ End(q[i]) \in Nat
        BY <1>1, <2>1, SMTT(30)
      <4> QED
        BY <2>1, <4>1, <4>2
    <3> QED
      BY <1>1, <3>1, <3>2
  <2> HIDE DEF b, f
  <2>4. \A i \in 1..Len(q) : End(q[i]) \in Nat /\ q[i].start \in Nat
    BY <1>1
  <2>5. f <= Capacity
    <3>1. q[1].start <= End(q[1]) /\ End(q[1]) <= Capacity
      BY <1>1, <1>2, <2>1
    <3> QED
      BY <2>1, <2>4, <3>1, CapacityAssumption DEF f
  <2>6. End(x) <= Capacity
    BY <1>3, <2>1, <2>2, <2>5, CapacityAssumption
  <2>7. \A i \in 1..Len(p) : End(p[i]) <= Capacity
    BY <1>2, <1>4, <2>6
  <2>8. CASE x.start = b
    <3> DEFINE kp == IF k = Len(q) THEN Len(p) ELSE k
    <3>1. kp \in 0..Len(p) /\ kp >= 1
      BY <1>1, <2>1
    <3>2. ASSUME NEW i \in 1..Len(p), NEW j \in 1..Len(p),
                 i < j, j <= kp \/ i > kp
          PROVE  End(p[i]) <= p[j].start
      <4>1. i \in 1..Len(q) /\ p[i] = q[i]
        BY <1>1, <3>2
      <4>2. CASE j = Len(p)
        <5>1. i > k \/ k = Len(q)
          BY <1>1, <3>2, <4>2
        <5> QED
          BY <2>3, <2>8, <4>1, <4>2, <5>1
      <4>3. CASE j # Len(p)
        <5>1. j \in 1..Len(q) /\ p[j] = q[j] /\ (j <= k \/ i > k)
          BY <1>1, <3>2, <4>3
        <5> QED
          BY <1>2, <3>2, <4>1, <5>1
      <4> QED
        BY <4>2, <4>3
    <3>3. ASSUME kp < Len(p)
          PROVE  End(p[Len(p)]) <= p[1].start
      <4>1. b <= f
        BY <1>1, <1>2, <3>3 DEF b, f
      <4>2. End(x) <= f
        BY <1>3, <2>1, <2>2, <4>1
      <4> QED
        BY <2>1, <4>2 DEF f
    <3> HIDE DEF kp
    <3> QED
      BY <2>7, <3>1, <3>2, <3>3 DEF Layout
  <2>9. CASE x.start = 0 /\ sz <= f /\ k = Len(q)
    <3>1. ASSUME NEW i \in 1..Len(p), NEW j \in 1..Len(p),
                 i < j, j <= k \/ i > k
          PROVE  End(p[i]) <= p[j].start
      <4>1. /\ i \in 1..Len(q) /\ j \in 1..Len(q) /\ j <= k
            /\ p[i] = q[i] /\ p[j] = q[j]
        BY <1>1, <2>9, <3>1
      <4> QED
        BY <1>2, <3>1, <4>1
    <3>2. End(p[Len(p)]) <= p[1].start
      BY <1>3, <2>1, <2>9 DEF f
    <3>3. k \in 0..Len(p)
      BY <1>1, <2>1
    <3> QED
      BY <2>1, <2>7, <3>1, <3>2, <3>3 DEF Layout
  <2>10. ~(b <= f) => k = Len(q)
    BY <1>1, <1>2 DEF b, f
  <2> QED
    BY <2>2, <2>8, <2>9, <2>10
<1> QED
  BY <1>5, <1>6

\* In a ring that is laid out no two regions share a byte.
LEMMA LayoutApart ==
  ASSUME NEW q, Sized(q), Layout(q),
         NEW i \in 1..Len(q), NEW j \in 1..Len(q), i < j
  PROVE  /\ End(q[i]) <= Capacity /\ End(q[j]) <= Capacity
         /\ Apart(q[i].start, End(q[i]), q[j].start, End(q[j]))
<1>1. /\ Len(q) \in Nat
      /\ \A n \in 1..Len(q) : /\ q[n].start \in Nat /\ q[n].len \in Nat
                              /\ End(q[n]) \in Nat
                              /\ End(q[n]) = q[n].start + q[n].len
  BY DEF Sized
<1>2. PICK k \in 0..Len(q) :
        /\ Len(q) > 0 => k >= 1
        /\ \A m, n \in 1..Len(q) :
             (m < n /\ (n <= k \/ m > k)) => End(q[m]) <= q[n].start
        /\ \A n \in 1..Len(q) : End(q[n]) <= Capacity
        /\ k < Len(q) => End(q[Len(q)]) <= q[1].start
  BY DEF Layout
<1>3. ASSUME j <= k \/ i > k
      PROVE  Apart(q[i].start, End(q[i]), q[j].start, End(q[j]))
  BY <1>2, <1>3 DEF Apart
<1>4. ASSUME i <= k, k < j
      PROVE  Apart(q[i].start, End(q[i]), q[j].start, End(q[j]))
  <2>1. /\ k < Len(q) /\ 1 \in 1..Len(q) /\ Len(q) \in 1..Len(q)
        /\ End(q[Len(q)]) <= q[1].start
    BY <1>1, <1>2, <1>4
  <2>2. /\ End(q[j]) \in Nat /\ End(q[Len(q)]) \in Nat /\ q[1].start \in Nat
        /\ q[i].start \in Nat /\ q[Len(q)].start \in Nat /\ End(q[1]) \in Nat
        /\ q[1].start <= End(q[1]) /\ q[Len(q)].start <= End(q[Len(q)])
    <3>1. \A n \in 1..Len(q) : /\ q[n].start \in Nat /\ End(q[n]) \in Nat
                               /\ q[n].start <= End(q[n])
      BY <1>1, SMTT(30)
    <3> QED
      BY <2>1, <3>1
  <2>3. End(q[j]) <= End(q[Len(q)])
    <3>1. CASE j = Len(q)
      BY <2>2, <3>1
    <3>2. CASE j < Len(q)
      <4>1. End(q[j]) <= q[Len(q)].start
        BY <1>1, <1>2, <1>4, <2>1, <3>2
      <4> QED
        BY <2>2, <4>1
    <3> QED
      BY <1>1, <3>1, <3>2
  <2>4. q[1].start <= q[i].start
    <3>1. CASE i = 1
      BY <2>2, <3>1
    <3>2. CASE i > 1
      <4>1. End(q[1]) <= q[i].start
        BY <1>1, <1>2, <1>4, <2>1, <3>2
      <4> QED
        BY <2>2, <4>1
    <3> QED
      BY <1>1, <3>1, <3>2
  <2>5. End(q[j]) <= q[i].start
    BY <2>1, <2>2, <2>3, <2>4
  <2> QED
    BY <2>5 DEF Apart
<1>5. End(q[i]) <= Capacity /\ End(q[j]) <= Capacity
  BY <1>2
<1> QED
  BY <1>1, <1>3, <1>4, <1>5

-----------------------------------------------------------------------------
(* How the queue changes *)

\* The part of ChannelInv that is about the queue and the write grant.
QueueInv ==
  /\ Len(messages) <= next_message_id
  /\ IdsContiguous
  /\ OneWriter
  /\ Reserved

\* p is q without some of its oldest frames; only counts and marks differ.
Shrunk(p, q) ==
  \E n \in 0..Len(q) :
    /\ p \in Seq(Header)
    /\ Len(p) = Len(q) - n
    /\ \A i \in 1..Len(p) : /\ p[i].start = q[i + n].start
                            /\ p[i].len = q[i + n].len
                            /\ p[i].message_id = q[i + n].message_id

\* Popping frames shrinks the queue.
LEMMA PopFrontShrinks ==
  ASSUME NEW q \in Seq(Header), NEW n \in 0..Len(q)
  PROVE  Shrunk(PopFront(q, n), q)
<1> DEFINE p == PopFront(q, n)
<1>1. /\ p \in Seq(Header)
      /\ Len(p) = Len(q) - n
      /\ \A i \in 1..Len(p) : p[i] = q[i + n]
  BY PopFrontProperties
<1> HIDE DEF p
<1>2. Shrunk(p, q)
  BY <1>1 DEF Shrunk
<1> QED
  BY <1>2 DEF p

\* So does doing nothing.
LEMMA ShrunkItself ==
  ASSUME NEW q \in Seq(Header)
  PROVE  Shrunk(q, q)
<1>1. Len(q) \in Nat
  BY LenProperties
<1>2. 0 \in 0..Len(q) /\ Len(q) = Len(q) - 0 /\ \A i \in 1..Len(q) : i = i + 0
  BY <1>1
<1> QED
  BY <1>2 DEF Shrunk

\* A frame's count and mark may change: its place in the ring does not.
LEMMA FlagsShrink ==
  ASSUME NEW q \in Seq(Header), NEW i \in 1..Len(q), NEW m \in Header,
         m.start = q[i].start, m.len = q[i].len,
         m.message_id = q[i].message_id
  PROVE  Shrunk([q EXCEPT ![i] = m], q)
<1> DEFINE p == [q EXCEPT ![i] = m]
<1>1. /\ p \in Seq(Header)
      /\ Len(p) = Len(q)
      /\ \A j \in 1..Len(q) : p[j] = IF j = i THEN m ELSE q[j]
  BY ExceptSeq
<1>2. Len(q) \in Nat
  BY LenProperties
<1> HIDE DEF p
<1>3. /\ 0 \in 0..Len(q) /\ Len(p) = Len(q) - 0
      /\ \A j \in 1..Len(p) : j + 0 = j
  BY <1>1, <1>2
<1>4. \A j \in 1..Len(p) : /\ p[j].start = q[j + 0].start
                           /\ p[j].len = q[j + 0].len
                           /\ p[j].message_id = q[j + 0].message_id
  BY <1>1, <1>3
<1>5. Shrunk(p, q)
  BY <1>1, <1>3, <1>4 DEF Shrunk
<1> QED
  BY <1>5 DEF p

\* A write grant occupies its region as a frame would.
LEMMA PendingIsHeader ==
  ASSUME next_message_id \in Nat, NEW w \in GrantW
  PROVE  /\ Pending(w) \in Header
         /\ Pending(w).start = w.start
         /\ Pending(w).len = w.size
BY DEF Pending, GrantW, Header

\* Every step that only takes frames off the front, or changes counts and
\* marks, keeps the queue and whatever is pending in order.
LEMMA ShrinkingKeepsQueueInv ==
  ASSUME TypeOK, QueueInv,
         Shrunk(messages', messages),
         next_message_id' = next_message_id,
         write_in_progress' = write_in_progress,
         wgrants' \subseteq GrantW,
         wgrants = {} <=> wgrants' = {},
         \A w1, w2 \in wgrants' : w1 = w2,
         \A w \in wgrants' :
           \E v \in wgrants : w.start = v.start /\ w.size = v.size
  PROVE  QueueInv'
<1>1. /\ messages \in Seq(Header) /\ next_message_id \in Nat
      /\ wgrants \subseteq GrantW
  BY DEF TypeOK
<1>2. PICK n \in 0..Len(messages) :
        /\ messages' \in Seq(Header)
        /\ Len(messages') = Len(messages) - n
        /\ \A i \in 1..Len(messages') :
             /\ messages'[i].start = messages[i + n].start
             /\ messages'[i].len = messages[i + n].len
             /\ messages'[i].message_id = messages[i + n].message_id
  BY DEF Shrunk
<1>3. Len(messages) \in Nat /\ Len(messages') \in Nat
  BY <1>1, <1>2, LenProperties
<1>4. (Len(messages) <= next_message_id)'
  BY <1>1, <1>2, <1>3 DEF QueueInv
<1>5. IdsContiguous'
  <2> SUFFICES ASSUME NEW i \in 1..Len(messages')
               PROVE  messages'[i].message_id =
                        (next_message_id' - Len(messages')) + i - 1
    BY DEF IdsContiguous, StartId
  <2>1. i + n \in 1..Len(messages)
    BY <1>2, <1>3
  <2>2. messages[i + n].message_id =
          (next_message_id - Len(messages)) + (i + n) - 1
    BY <2>1 DEF QueueInv, IdsContiguous, StartId
  <2>3. messages'[i].message_id = messages[i + n].message_id
    BY <1>2
  <2> HIDE DEF QueueInv
  <2> QED
    BY <1>1, <1>2, <1>3, <2>2, <2>3
<1>6. OneWriter'
  <2>1. write_in_progress' => Len(messages') < MaxMessages
    BY <1>2, <1>3, MaxMessagesAssumption DEF QueueInv, OneWriter
  <2> QED
    BY <2>1 DEF QueueInv, OneWriter
<1>7. Reserved'
  <2>1. ASSUME wgrants' = {}
        PROVE  Layout(messages')
    <3>1. Layout(messages)
      BY <2>1 DEF QueueInv, Reserved
    <3>2. Sized(messages) /\ Sized(messages')
      BY <1>1, <1>2, QueueSized
    <3>3. \A i \in 1..Len(messages') :
            messages'[i].len <= messages[i + n].len
      <4>1. \A i \in 1..Len(messages') : messages'[i].len \in Nat
        BY <3>2 DEF Sized
      <4> QED
        BY <1>2, <4>1
    <3> QED
      BY <1>2, <3>1, <3>2, <3>3, LayoutWeakens
  <2>2. ASSUME NEW w \in wgrants'
        PROVE  Layout(Append(messages', Pending(w)'))
    <3>1. PICK v \in wgrants : w.start = v.start /\ w.size = v.size
      OBVIOUS
    <3> DEFINE x == Pending(v)
               y == Pending(w)'
               q == Append(messages, x)
               p == Append(messages', y)
    <3>2. /\ x \in Header /\ y \in Header
          /\ x.start = v.start /\ x.len = v.size
          /\ y.start = w.start /\ y.len = w.size
      <4>1. v \in GrantW /\ w \in GrantW
        BY <1>1
      <4> QED
        BY <1>1, <4>1 DEF Pending, GrantW, Header
    <3>3. Layout(q)
      BY DEF QueueInv, Reserved
    <3> HIDE DEF x, y
    <3>4. /\ q \in Seq(Header) /\ Len(q) = Len(messages) + 1
          /\ \A i \in 1..Len(messages) : q[i] = messages[i]
          /\ q[Len(messages) + 1] = x
      BY <1>1, <3>2, AppendProperties
    <3>5. /\ p \in Seq(Header) /\ Len(p) = Len(messages') + 1
          /\ \A i \in 1..Len(messages') : p[i] = messages'[i]
          /\ p[Len(messages') + 1] = y
      BY <1>2, <3>2, AppendProperties
    <3> HIDE DEF p, q
    <3>6. Sized(q) /\ Sized(p)
      BY <3>4, <3>5, QueueSized
    <3>7. n \in 0..Len(q) /\ Len(p) = Len(q) - n
      BY <1>2, <1>3, <3>4, <3>5
    <3>8. ASSUME NEW i \in 1..Len(p)
          PROVE  p[i].start = q[i + n].start /\ p[i].len = q[i + n].len
      <4>1. CASE i \in 1..Len(messages')
        <5>1. i + n \in 1..Len(messages)
          BY <1>2, <1>3, <4>1
        <5> QED
          BY <1>2, <3>4, <3>5, <4>1, <5>1
      <4>2. CASE i = Len(messages') + 1
        <5>1. i + n = Len(messages) + 1
          BY <1>2, <1>3, <4>2
        <5> QED
          BY <3>1, <3>2, <3>4, <3>5, <4>2, <5>1
      <4> QED
        BY <1>3, <3>5, <4>1, <4>2
    <3>9. \A i \in 1..Len(p) : p[i].len <= q[i + n].len
      <4>1. \A i \in 1..Len(p) : p[i].len \in Nat
        BY <3>6 DEF Sized
      <4> QED
        BY <3>8, <4>1
    <3>10. Layout(p)
      BY <3>3, <3>6, <3>7, <3>8, <3>9, LayoutWeakens
    <3> QED
      BY <3>10 DEF p, y
  <2> QED
    BY <2>1, <2>2 DEF Reserved
<1> QED
  BY <1>4, <1>5, <1>6, <1>7 DEF QueueInv

\* A frame starts at an offset.
LEMMA NewStartType ==
  ASSUME NEW q \in Seq(Header), NEW sz \in Nat
  PROVE  NewStart(q, sz) \in Nat
<1>1. Sized(q) /\ (q # <<>> => Len(q) \in 1..Len(q))
  BY QueueSized, EmptySeq, LenProperties
<1> QED
  BY <1>1 DEF Sized, NewStart, Back

\* A grant that is given keeps the queue in order together with the region it
\* reserves.
LEMMA GrantKeepsQueueInv ==
  ASSUME TypeOK, QueueInv, NEW sz \in Nat,
         CanGrant(messages, sz), TakeGrant(messages, sz),
         messages' = messages, next_message_id' = next_message_id
  PROVE  QueueInv' /\ wgrants' \subseteq GrantW
<1>1. messages \in Seq(Header) /\ next_message_id \in Nat /\ Len(messages) \in Nat
  BY LenProperties DEF TypeOK
<1>2. ~write_in_progress /\ wgrants = {}
  BY DEF CanGrant, QueueInv, OneWriter
<1>3. sz <= FreeSpace(messages) /\ ~DequeFull(messages)
  BY DEF CanGrant, HasRoom
<1> DEFINE w == [start |-> NewStart(messages, sz), size |-> sz, to_commit |-> 0]
<1>4. w \in GrantW /\ w.start = NewStart(messages, sz) /\ w.size = sz
  BY <1>1, NewStartType DEF GrantW
<1>5. wgrants' = {w} /\ write_in_progress' = TRUE
  BY <1>2 DEF TakeGrant
<1> HIDE DEF w
<1>6. Len(messages) < MaxMessages
  BY <1>1, <1>3, MaxMessagesAssumption DEF DequeFull
<1>7. OneWriter'
  BY <1>5, <1>6 DEF OneWriter
<1>8. Layout(Append(messages, Pending(w)))
  <2> DEFINE x == Pending(w)
             p == Append(messages, x)
  <2>1. x \in Header /\ x.start = w.start /\ x.len = w.size
    BY <1>1, <1>4, PendingIsHeader
  <2> HIDE DEF x
  <2>2. /\ p \in Seq(Header) /\ Len(p) = Len(messages) + 1
        /\ \A i \in 1..Len(messages) : p[i] = messages[i]
        /\ p[Len(messages) + 1] = x
    BY <1>1, <2>1, AppendProperties
  <2> HIDE DEF p
  <2>3. Sized(messages) /\ Sized(p) /\ Layout(messages)
    BY <1>1, <1>2, <2>2, QueueSized DEF QueueInv, Reserved
  <2>4. /\ messages # <<>> => Len(messages) > 0
        /\ messages = <<>> => Len(messages) = 0
    BY <1>1, EmptySeq
  <2>5. p[Len(p)].start = NewStart(messages, sz) /\ p[Len(p)].len = sz
    BY <1>4, <2>1, <2>2
  <2>6. Layout(p)
    BY <1>3, <2>2, <2>3, <2>4, <2>5, LayoutGrows
  <2> QED
    BY <2>6 DEF p, x
<1>9. Reserved'
  <2>1. w' = w /\ Pending(w)' = Pending(w)
    BY DEF Pending, w, NewStart, Inverted, Front, Back
  <2> QED
    BY <1>5, <1>8, <2>1 DEF Reserved
<1>10. IdsContiguous' /\ (Len(messages) <= next_message_id)'
  BY DEF QueueInv, IdsContiguous, StartId
<1> QED
  BY <1>4, <1>5, <1>7, <1>9, <1>10 DEF QueueInv

\* "used as u16" never makes a frame longer than what was used.
LEMMA TruncationShrinks ==
  ASSUME NEW a \in Nat
  PROVE  a % LenMod \in Nat /\ a % LenMod <= a
<1>1. LenMod \in Nat /\ LenMod > 0
  BY LenModAssumption
<1>2. CASE a < LenMod
  BY <1>1, <1>2
<1>3. CASE a >= LenMod
  BY <1>1, <1>3
<1> QED
  BY <1>1, <1>2, <1>3

\* The header that commit_inner() queues, truncated to the bytes used.
LEMMA NewHeaderProperties ==
  ASSUME TypeOK, NEW w \in GrantW, NEW used \in Nat
  PROVE  /\ NewHeader(w, used) \in Header
         /\ NewHeader(w, used).message_id = next_message_id
         /\ NewHeader(w, used).start = w.start
         /\ NewHeader(w, used).len <= w.size
<1>1. w.start \in Nat /\ w.size \in Nat /\ next_message_id \in Nat
      /\ subscriber_count \in Nat
  BY DEF TypeOK, GrantW
<1> DEFINE a == Smaller(w.size, used)
<1>2. a \in Nat /\ a <= w.size
  BY <1>1 DEF Smaller
<1> HIDE DEF a
<1>3. a % LenMod \in Nat /\ a % LenMod <= a
  BY <1>2, TruncationShrinks
<1>4. a % LenMod <= w.size
  BY <1>1, <1>2, <1>3
<1> QED
  BY <1>1, <1>3, <1>4 DEF NewHeader, Header, a

\* commit_inner(): the frame takes the place its grant reserved, or gives it
\* back when there is nobody to read it.
LEMMA CommitKeepsQueueInv ==
  ASSUME TypeOK, QueueInv, NEW w \in wgrants, NEW used \in Nat,
         CommitInner(w, used)
  PROVE  /\ QueueInv'
         /\ messages' \in Seq(Header)
         /\ next_message_id' \in Nat
         /\ write_in_progress' = FALSE
         /\ wgrants' = {}
<1>1. /\ messages \in Seq(Header) /\ next_message_id \in Nat
      /\ Len(messages) \in Nat /\ w \in GrantW
  BY LenProperties DEF TypeOK
<1>2. /\ write_in_progress /\ Len(messages) < MaxMessages
      /\ Layout(Append(messages, Pending(w)))
  BY DEF QueueInv, OneWriter, Reserved
<1>3. wgrants' = {}
  BY DEF QueueInv, OneWriter, CommitInner
<1>4. write_in_progress' = FALSE
  BY <1>2 DEF CommitInner
<1>5. OneWriter'
  BY <1>3, <1>4 DEF OneWriter
<1> DEFINE x == Pending(w)
           q == Append(messages, x)
<1>6. x \in Header /\ x.start = w.start /\ x.len = w.size
  BY <1>1, PendingIsHeader
<1>7. Layout(q)
  BY <1>2
<1> HIDE DEF x
<1>8. /\ q \in Seq(Header) /\ Len(q) = Len(messages) + 1
      /\ \A i \in 1..Len(messages) : q[i] = messages[i]
      /\ q[Len(messages) + 1] = x
  BY <1>1, <1>6, AppendProperties
<1> HIDE DEF q
<1>9. Sized(messages) /\ Sized(q)
  BY <1>1, <1>8, QueueSized
<1>10. CASE subscriber_count = 0
  <2>1. messages' = messages /\ next_message_id' = next_message_id
    BY <1>2, <1>10 DEF CommitInner
  <2>2. Layout(messages)
    BY <1>7, <1>8, <1>9, LayoutButLast
  <2>3. Reserved' /\ IdsContiguous' /\ (Len(messages) <= next_message_id)'
    BY <1>3, <2>1, <2>2 DEF Reserved, QueueInv, IdsContiguous, StartId
  <2> QED
    BY <1>1, <1>3, <1>4, <1>5, <2>1, <2>3 DEF QueueInv
<1>11. CASE subscriber_count # 0
  <2> DEFINE h == NewHeader(w, used)
             p == Append(messages, h)
  <2>1. ~DequeFull(messages)
    BY <1>1, <1>2, MaxMessagesAssumption DEF DequeFull
  <2>2. messages' = p /\ next_message_id' = next_message_id + 1
    BY <1>2, <1>11, <2>1 DEF CommitInner
  <2>3. /\ h \in Header /\ h.message_id = next_message_id
        /\ h.start = w.start /\ h.len <= w.size
    BY <1>1, NewHeaderProperties
  <2> HIDE DEF h
  <2>4. /\ p \in Seq(Header) /\ Len(p) = Len(messages) + 1
        /\ \A i \in 1..Len(messages) : p[i] = messages[i]
        /\ p[Len(messages) + 1] = h
    BY <1>1, <2>3, AppendProperties
  <2> HIDE DEF p
  <2>5. Sized(p)
    BY <2>4, QueueSized
  <2>6. ASSUME NEW i \in 1..Len(p)
        PROVE  p[i].start = q[i + 0].start /\ p[i].len <= q[i + 0].len
    <3>1. CASE i \in 1..Len(messages)
      <4>1. p[i] = q[i + 0] /\ p[i].len \in Nat
        BY <1>1, <1>8, <2>4, <2>5, <3>1 DEF Sized
      <4> QED
        BY <4>1
    <3>2. CASE i = Len(messages) + 1
      <4>1. i + 0 = i
        BY <1>1, <3>2
      <4> QED
        BY <1>6, <1>8, <2>3, <2>4, <3>2, <4>1
    <3> QED
      BY <1>1, <2>4, <3>1, <3>2
  <2>7. 0 \in 0..Len(q) /\ Len(p) = Len(q) - 0
    BY <1>1, <1>8, <2>4
  <2>8. Layout(p)
    BY <1>7, <1>9, <2>5, <2>6, <2>7, LayoutWeakens
  <2>9. Reserved'
    BY <1>3, <2>2, <2>8 DEF Reserved
  <2>10. IdsContiguous'
    <3> SUFFICES ASSUME NEW i \in 1..Len(p)
                 PROVE  p[i].message_id =
                          (next_message_id + 1) - Len(p) + i - 1
      BY <2>2 DEF IdsContiguous, StartId
    <3>1. CASE i \in 1..Len(messages)
      <4>1. messages[i].message_id = next_message_id - Len(messages) + i - 1
        BY <3>1 DEF QueueInv, IdsContiguous, StartId
      <4> QED
        BY <1>1, <2>4, <3>1, <4>1
    <3>2. CASE i = Len(messages) + 1
      BY <1>1, <2>3, <2>4, <3>2
    <3> QED
      BY <1>1, <2>4, <3>1, <3>2
  <2>11. (Len(messages) <= next_message_id)' /\ next_message_id' \in Nat
    BY <1>1, <2>2, <2>4 DEF QueueInv
  <2> QED
    BY <1>3, <1>4, <1>5, <2>2, <2>4, <2>9, <2>10, <2>11 DEF QueueInv
<1> QED
  BY <1>10, <1>11

\* The common case: the write grants are left alone.
LEMMA ShrinkStep ==
  ASSUME TypeOK, QueueInv, Shrunk(messages', messages),
         UNCHANGED <<next_message_id, write_in_progress, wgrants>>
  PROVE  QueueInv'
<1>1. /\ wgrants' = wgrants /\ next_message_id' = next_message_id
      /\ write_in_progress' = write_in_progress
  OBVIOUS
<1>2. wgrants' \subseteq GrantW /\ \A w1, w2 \in wgrants' : w1 = w2
  BY DEF TypeOK, QueueInv, OneWriter
<1>3. \A w \in wgrants' :
        \E v \in wgrants : w.start = v.start /\ w.size = v.size
  BY <1>1
<1> QED
  BY <1>1, <1>2, <1>3, ShrinkingKeepsQueueInv

\* Steps that leave the queue alone keep QueueInv.
LEMMA QueueUntouched ==
  ASSUME TypeOK, QueueInv,
         UNCHANGED <<messages, next_message_id, write_in_progress, wgrants>>
  PROVE  QueueInv'
<1>1. Shrunk(messages', messages)
  BY ShrunkItself DEF TypeOK
<1> QED
  BY <1>1, ShrinkStep

-----------------------------------------------------------------------------
(* Types of what the steps assign *)

\* Waking and parking keep the types of tasks and wakers.
LEMMA WakeTypes ==
  ASSUME TypeOK
  PROVE  /\ WakePublisher =>
              /\ publisher_waker' \in BOOLEAN
              /\ pub_task' \in [state : TaskState, size : Nat]
         /\ WakeSubscribers =>
              /\ subscriber_wakers' \subseteq Subscribers
              /\ sub_task' \in [Subscribers -> TaskState]
         /\ \A s \in Subscribers : ParkSubscriber(s) =>
              /\ subscriber_wakers' \subseteq Subscribers
              /\ sub_task' \in [Subscribers -> TaskState]
<1>1. \A t \in TaskState : Resume(t) \in TaskState
  BY DEF Resume, TaskState
<1>2. WakePublisher =>
        /\ publisher_waker' \in BOOLEAN
        /\ pub_task' \in [state : TaskState, size : Nat]
  <2> SUFFICES ASSUME WakePublisher
               PROVE  /\ publisher_waker' \in BOOLEAN
                      /\ pub_task' \in [state : TaskState, size : Nat]
    OBVIOUS
  <2>1. pub_task \in [state : TaskState, size : Nat]
    BY DEF TypeOK
  <2> QED
    BY <1>1, <2>1 DEF WakePublisher
<1>3. WakeSubscribers =>
        /\ subscriber_wakers' \subseteq Subscribers
        /\ sub_task' \in [Subscribers -> TaskState]
  BY <1>1 DEF TypeOK, WakeSubscribers
<1>4. ASSUME NEW s \in Subscribers, ParkSubscriber(s)
      PROVE  /\ subscriber_wakers' \subseteq Subscribers
             /\ sub_task' \in [Subscribers -> TaskState]
  <2>1. "parked" \in TaskState
    BY DEF TaskState
  <2> QED
    BY <1>1, <1>4, <2>1 DEF TypeOK, ParkSubscriber
<1> QED
  BY <1>2, <1>3, <1>4

\* What a write overwrites are frames, known by their ids.
LEMMA OverwrittenType ==
  ASSUME NEW q \in Seq(Header), rgrants \subseteq GrantR, NEW from, NEW to
  PROVE  Overwritten(q, from, to) \subseteq Nat
<1>1. \A i \in 1..Len(q) : q[i].message_id \in Nat
  <2>1. \A i \in 1..Len(q) : q[i] \in Header
    BY ElementOfSeq
  <2> QED
    BY <2>1 DEF Header
<1>2. \A r \in rgrants : r.message_id \in Nat
  BY DEF GrantR
<1> QED
  BY <1>1, <1>2 DEF Overwritten

\* A frame that is taken stays where it is; the cursor moves past it.
LEMMA TakeFrameEffect ==
  ASSUME TypeOK, NEW s \in Subscribers, CanRead(s), TakeFrame(s)
  PROVE  /\ Shrunk(messages', messages)
         /\ cursor' \in [Subscribers -> Nat]
         /\ rgrants' \subseteq GrantR
<1> DEFINE i == ReadIndex(s)
           m == messages[i]
           h == [m EXCEPT !.subscriber_count = @ - 1, !.read_in_progress = TRUE]
<1>1. /\ messages \in Seq(Header) /\ Len(messages) \in Nat
      /\ next_message_id \in Nat /\ cursor[s] \in Nat
  BY LenProperties DEF TypeOK
<1>2. ReadId(s) \in Nat /\ ReadId(s) >= StartId /\ StartId \in Int
  BY <1>1 DEF ReadId, Larger, StartId
<1>3. i \in 1..Len(messages)
  BY <1>1, <1>2 DEF CanRead, Available, ReadIndex
<1> HIDE DEF i
<1>4. m \in Header
  BY <1>1, <1>3, ElementOfSeq
<1>5. messages' = [messages EXCEPT ![i] = h]
  BY DEF TakeFrame, i
<1> HIDE DEF m
<1>6. /\ h \in Header /\ h.start = m.start /\ h.len = m.len
      /\ h.message_id = m.message_id
  <2> DEFINE g == [m EXCEPT !.subscriber_count = @ - 1]
  <2>1. /\ g \in Header /\ g.start = m.start /\ g.len = m.len
        /\ g.message_id = m.message_id
    <3>1. m.subscriber_count - 1 \in Int
      BY <1>4 DEF Header
    <3> QED
      BY <1>4, <3>1 DEF Header
  <2>2. h = [g EXCEPT !.read_in_progress = TRUE]
    OBVIOUS
  <2> HIDE DEF g, h
  <2> QED
    BY <2>1, <2>2 DEF Header
<1>7. Shrunk(messages', messages)
  <2> HIDE DEF h
  <2> QED
    BY <1>1, <1>3, <1>5, <1>6, FlagsShrink DEF m
<1>8. cursor' \in [Subscribers -> Nat]
  BY <1>2 DEF TakeFrame, TypeOK
<1>9. [sub |-> s, message_id |-> m.message_id, start |-> m.start,
       len |-> m.len, auto_release |-> TRUE] \in GrantR
  BY <1>4 DEF Header, GrantR
<1>10. rgrants' \subseteq GrantR
  BY <1>9 DEF TakeFrame, TypeOK, m, i
<1> QED
  BY <1>7, <1>8, <1>10

\* Releasing takes the frame off the front or clears its mark, and wakes.
LEMMA ReleaseEffect ==
  ASSUME TypeOK, IdsContiguous, NEW r \in rgrants, ReleaseInner(r)
  PROVE  /\ Shrunk(messages', messages)
         /\ publisher_waker' \in BOOLEAN
         /\ subscriber_wakers' \subseteq Subscribers
         /\ pub_task' \in [state : TaskState, size : Nat]
         /\ sub_task' \in [Subscribers -> TaskState]
<1> DEFINE i == Position(r)
<1>1. messages \in Seq(Header) /\ Len(messages) \in Nat
  BY LenProperties DEF TypeOK
<1>2. i = 0 \/ i \in 1..Len(messages)
  <2> DEFINE at == { n \in 1..Len(messages) :
                       messages[n].message_id = r.message_id }
  <2>1. CASE at = {}
    BY <2>1 DEF Position
  <2>2. CASE at # {}
    <3>1. \E n \in at : \A j \in at : n <= j
      <4>1. PICK n \in at : TRUE
        BY <2>2
      <4>2. ASSUME NEW j \in at
            PROVE  n <= j
        <5>1. /\ messages[n].message_id = StartId + n - 1
              /\ messages[j].message_id = StartId + j - 1
              /\ messages[n].message_id = messages[j].message_id
          BY DEF IdsContiguous
        <5>2. StartId \in Int /\ n \in Int /\ j \in Int
          BY <1>1 DEF StartId, TypeOK
        <5> HIDE DEF at
        <5> QED
          BY <5>1, <5>2
      <4> QED
        BY <4>1, <4>2
    <3>2. i \in at
      BY <2>2, <3>1 DEF Position
    <3> QED
      BY <3>2
  <2> QED
    BY <2>1, <2>2
<1> HIDE DEF i
<1>3. CASE i = 0 \/ ~messages[i].read_in_progress
  <2>1. UNCHANGED <<messages, wakerVars, taskVars>>
    BY <1>3 DEF ReleaseInner, i
  <2> QED
    BY <1>1, <2>1, ShrunkItself DEF TypeOK, wakerVars, taskVars
<1>4. CASE ~(i = 0 \/ ~messages[i].read_in_progress)
  <2>1. /\ i \in 1..Len(messages)
        /\ WakeSubscribers
        /\ \/ messages' = PopFront(messages, 1) /\ WakePublisher
           \/ /\ messages' = [messages EXCEPT ![i].read_in_progress = FALSE]
              /\ UNCHANGED <<publisher_waker, pub_task>>
    BY <1>2, <1>4 DEF ReleaseInner, i
  <2>2. /\ subscriber_wakers' \subseteq Subscribers
        /\ sub_task' \in [Subscribers -> TaskState]
    BY <2>1, WakeTypes
  <2>3. /\ publisher_waker' \in BOOLEAN
        /\ pub_task' \in [state : TaskState, size : Nat]
    BY <2>1, WakeTypes DEF TypeOK
  <2>4. CASE messages' = PopFront(messages, 1)
    <3>1. 1 \in 0..Len(messages)
      BY <1>1, <2>1
    <3> QED
      BY <1>1, <2>2, <2>3, <2>4, <3>1, PopFrontShrinks
  <2>5. CASE messages' = [messages EXCEPT ![i].read_in_progress = FALSE]
    <3> DEFINE m == messages[i]
               h == [m EXCEPT !.read_in_progress = FALSE]
    <3>1. m \in Header
      BY <1>1, <2>1, ElementOfSeq
    <3>2. messages' = [messages EXCEPT ![i] = h]
      BY <2>5
    <3> HIDE DEF m
    <3>3. /\ h \in Header /\ h.start = m.start /\ h.len = m.len
          /\ h.message_id = m.message_id
      BY <3>1 DEF Header
    <3> HIDE DEF h
    <3>4. Shrunk(messages', messages)
      BY <1>1, <2>1, <3>2, <3>3, FlagsShrink DEF m
    <3> QED
      BY <2>2, <2>3, <3>4
  <2> QED
    BY <2>1, <2>4, <2>5
<1> QED
  BY <1>3, <1>4
\* What Drop for FrameSubscriber leaves of the queue.
LEMMA UncountedShrinks ==
  ASSUME TypeOK, NEW s \in Subscribers, NEW n \in 0..Len(messages)
  PROVE  Shrunk(PopFront(Uncounted(s), n), messages)
<1> DEFINE u == Uncounted(s)
<1>1. /\ messages \in Seq(Header) /\ Len(messages) \in Nat
      /\ \A i \in 1..Len(messages) : messages[i] \in Header
  BY ElementOfSeq, LenProperties DEF TypeOK
<1>2. ASSUME NEW i \in 1..Len(messages)
      PROVE  /\ u[i] \in Header
             /\ u[i].start = messages[i].start
             /\ u[i].len = messages[i].len
             /\ u[i].message_id = messages[i].message_id
  <2> DEFINE m == messages[i]
             h == [m EXCEPT !.subscriber_count = @ - 1]
  <2>1. m \in Header
    BY <1>1
  <2>2. u[i] = h \/ u[i] = m
    BY DEF Uncounted
  <2> HIDE DEF m
  <2>3. /\ h \in Header /\ h.start = m.start /\ h.len = m.len
        /\ h.message_id = m.message_id
    <3>1. m.subscriber_count - 1 \in Int
      BY <2>1 DEF Header
    <3> QED
      BY <2>1, <3>1 DEF Header
  <2> HIDE DEF h, u
  <2> QED
    BY <2>1, <2>2, <2>3 DEF m
<1>3. u = [i \in 1..Len(messages) |-> u[i]]
  BY DEF Uncounted
<1> HIDE DEF u
<1>4. u \in Seq(Header) /\ Len(u) = Len(messages)
  <2>1. u \in [1..Len(messages) -> Header]
    BY <1>2, <1>3
  <2> QED
    BY <1>1, <2>1, LenProperties
<1> DEFINE p == PopFront(u, n)
<1>5. /\ p \in Seq(Header)
      /\ Len(p) = Len(messages) - n
      /\ \A i \in 1..(Len(messages) - n) : p[i] = u[i + n]
  BY <1>4, PopFrontProperties
<1> HIDE DEF p
<1>6. \A i \in 1..Len(p) : /\ p[i].start = messages[i + n].start
                           /\ p[i].len = messages[i + n].len
                           /\ p[i].message_id = messages[i + n].message_id
  <2> SUFFICES ASSUME NEW i \in 1..Len(p)
               PROVE  /\ p[i].start = messages[i + n].start
                      /\ p[i].len = messages[i + n].len
                      /\ p[i].message_id = messages[i + n].message_id
    OBVIOUS
  <2>1. i + n \in 1..Len(messages) /\ p[i] = u[i + n]
    BY <1>1, <1>5
  <2> QED
    BY <1>2, <2>1
<1>7. Shrunk(p, messages)
  BY <1>5, <1>6 DEF Shrunk
<1> QED
  BY <1>7 DEF p, u

\* A shrunk queue is a queue.
LEMMA ShrunkType ==
  ASSUME NEW p, NEW q, Shrunk(p, q)
  PROVE  p \in Seq(Header)
BY DEF Shrunk

\* A subscriber reads a frame by its id.
LEMMA ReadIdType ==
  ASSUME TypeOK, NEW s \in Subscribers
  PROVE  ReadId(s) \in Nat
<1>1. cursor[s] \in Nat /\ StartId \in Int
  BY LenProperties DEF TypeOK, StartId
<1> QED
  BY <1>1 DEF ReadId, Larger

-----------------------------------------------------------------------------
(* The invariant *)

\* subscriber_count counts the FrameSubscribers.
Counted == subscriber_count = Cardinality(live)

\* The parts of the invariant.
LEMMA ChannelInvParts == ChannelInv <=> TypeOK /\ Counted /\ QueueInv
BY DEF ChannelInv, Counted, QueueInv

\* The channel starts empty.
LEMMA InitEstablishes == Init => ChannelInv
<1> SUFFICES ASSUME Init PROVE ChannelInv
  OBVIOUS
<1>1. messages \in Seq(Header) /\ Len(messages) = 0
  BY EmptySeq DEF Init
<1>2. TypeOK
  BY <1>1 DEF Init, TypeOK, TaskState
<1>3. Counted
  BY FS_EmptySet DEF Init, Counted
<1>4. Layout(messages)
  BY <1>1 DEF Layout
<1>5. QueueInv
  <2>1. OneWriter /\ Reserved
    BY <1>4 DEF Init, OneWriter, Reserved
  <2>2. Len(messages) <= next_message_id /\ IdsContiguous
    BY <1>1 DEF Init, IdsContiguous
  <2> QED
    BY <2>1, <2>2 DEF QueueInv
<1> QED
  BY <1>2, <1>3, <1>5, ChannelInvParts

\* The subscribers come and go one at a time.
LEMMA SubscriberCount ==
  ASSUME TypeOK, Counted, NEW s \in Subscribers
  PROVE  /\ IsFiniteSet(live) /\ Cardinality(live) \in Nat
         /\ s \notin live =>
              Cardinality(live \cup {s}) = subscriber_count + 1
         /\ s \in live =>
              /\ Cardinality(live \ {s}) = subscriber_count - 1
              /\ subscriber_count - 1 \in Nat
<1>1. IsFiniteSet(live)
  BY SubscribersAssumption, FS_Subset DEF TypeOK
<1>2. Cardinality(live) \in Nat
  BY <1>1, FS_CardinalityType
<1>3. s \notin live => Cardinality(live \cup {s}) = subscriber_count + 1
  BY <1>1, FS_AddElement DEF Counted
<1>4. s \in live => /\ Cardinality(live \ {s}) = subscriber_count - 1
                    /\ subscriber_count - 1 \in Nat
  <2> SUFFICES ASSUME s \in live
               PROVE  /\ Cardinality(live \ {s}) = subscriber_count - 1
                      /\ subscriber_count - 1 \in Nat
    OBVIOUS
  <2>1. /\ IsFiniteSet(live \ {s})
        /\ Cardinality(live \ {s}) = Cardinality(live) - 1
    BY <1>1, FS_RemoveElement
  <2>2. Cardinality(live \ {s}) \in Nat
    BY <2>1, FS_CardinalityType
  <2> QED
    BY <2>1, <2>2 DEF Counted
<1> QED
  BY <1>1, <1>2, <1>3, <1>4
\* One critical section keeps the invariant: types, the count of subscribers
\* and the queue, action by action.
LEMMA StepPreserves ==
  ASSUME ChannelInv, [Next]_vars
  PROVE  ChannelInv'
<1>1. TypeOK /\ Counted /\ QueueInv
  BY ChannelInvParts
<1>2. SUFFICES TypeOK' /\ Counted' /\ QueueInv'
  BY DEF ChannelInv, Counted, QueueInv
<1> USE DEF wakerVars, taskVars
<1>3. Sizes \subseteq Nat /\ {"idle", "ready", "parked", "granting"} = TaskState
  BY SizesAssumption DEF TaskState
<1>4. messages \in Seq(Header) /\ rgrants \subseteq GrantR /\ wgrants \subseteq GrantW
  BY <1>1 DEF TypeOK
<1>5. CASE TakePublisher
  <2>1. Overwritten(messages, 0, Capacity) \subseteq Nat
    BY <1>4, OverwrittenType
  <2>2. TypeOK'
    BY <1>1, <1>5, <2>1 DEF TakePublisher, TypeOK
  <2>3. Counted' /\ QueueInv'
    BY <1>1, <1>5, QueueUntouched DEF TakePublisher, Counted
  <2> QED
    BY <2>2, <2>3
<1>6. CASE DropPublisher
  BY <1>1, <1>6, QueueUntouched DEF DropPublisher, TypeOK, Counted
<1>7. CASE Clear
  <2>1. PopFront(messages, Len(messages)) = messages'
    <3>1. /\ Len(messages) \in 0..Len(messages)
          /\ Len(messages) - Len(messages) = 0
      BY <1>4, LenProperties
    <3>2. /\ PopFront(messages, Len(messages)) \in Seq(Header)
          /\ Len(PopFront(messages, Len(messages))) = 0
      BY <1>4, <3>1, PopFrontProperties
    <3>3. PopFront(messages, Len(messages)) = <<>>
      BY <3>2, EmptySeq
    <3> QED
      BY <1>7, <3>3 DEF Clear
  <2>2. Shrunk(messages', messages)
    BY <1>4, <2>1, PopFrontShrinks, LenProperties
  <2>3. QueueInv'
    BY <1>1, <1>7, <2>2, ShrinkStep DEF Clear
  <2>4. TypeOK' /\ Counted'
    BY <1>1, <1>7, <2>2, ShrunkType DEF Clear, TypeOK, Counted
  <2> QED
    BY <2>3, <2>4
\* A grant given on the queue as it is, by any of the three calls.
<1>8. ASSUME NEW sz \in Nat, CanGrant(messages, sz), TakeGrant(messages, sz),
             messages' = messages, next_message_id' = next_message_id
      PROVE  /\ QueueInv' /\ wgrants' \subseteq GrantW
             /\ write_in_progress' \in BOOLEAN /\ torn' \subseteq Nat
  <2>1. torn' \subseteq Nat
    BY <1>1, <1>4, <1>8, OverwrittenType DEF TakeGrant, TypeOK
  <2> QED
    BY <1>1, <1>8, <2>1, GrantKeepsQueueInv DEF TakeGrant
<1>9. ASSUME NEW sz \in Sizes, Grant(sz)
      PROVE  TypeOK' /\ Counted' /\ QueueInv'
  <2>1. /\ QueueInv' /\ wgrants' \subseteq GrantW
        /\ write_in_progress' \in BOOLEAN /\ torn' \subseteq Nat
    BY <1>3, <1>8, <1>9 DEF Grant
  <2>2. TypeOK' /\ Counted'
    BY <1>1, <1>9, <2>1 DEF Grant, TypeOK, Counted
  <2> QED
    BY <2>1, <2>2
<1>10. ASSUME NEW sz \in Sizes, GrantImmediate(sz)
       PROVE  TypeOK' /\ Counted' /\ QueueInv'
  <2>1. PICK n \in 0..Len(messages) :
          /\ messages' = PopFront(messages, n)
          /\ \/ pub_task' = [state |-> "granting", size |-> sz]
             \/ pub_task' = pub_task
    BY <1>10 DEF GrantImmediate
  <2>2. Shrunk(messages', messages)
    BY <1>4, <2>1, PopFrontShrinks
  <2>3. QueueInv'
    BY <1>1, <1>10, <2>2, ShrinkStep DEF GrantImmediate
  <2>4. pub_task' \in [state : TaskState, size : Nat]
    BY <1>1, <1>3, <2>1 DEF TypeOK
  <2>5. messages' \in Seq(Header)
    BY <2>2, ShrunkType
  <2>6. TypeOK' /\ Counted'
    BY <1>1, <1>10, <2>4, <2>5 DEF GrantImmediate, TypeOK, Counted
  <2> QED
    BY <2>3, <2>6
<1>11. ASSUME FinishImmediate
       PROVE  TypeOK' /\ Counted' /\ QueueInv'
  <2>1. pub_task.size \in Nat /\ pub_task' \in [state : TaskState, size : Nat]
    BY <1>1, <1>3, <1>11 DEF FinishImmediate, TypeOK
  <2>2. /\ QueueInv' /\ wgrants' \subseteq GrantW
        /\ write_in_progress' \in BOOLEAN /\ torn' \subseteq Nat
    <3>1. CASE /\ CanGrant(messages, pub_task.size)
               /\ TakeGrant(messages, pub_task.size)
      BY <1>8, <1>11, <2>1, <3>1 DEF FinishImmediate
    <3>2. CASE UNCHANGED <<write_in_progress, wgrants, torn>>
      BY <1>1, <1>11, <3>2, QueueUntouched DEF FinishImmediate, TypeOK
    <3> QED
      BY <1>11, <3>1, <3>2 DEF FinishImmediate
  <2>3. TypeOK' /\ Counted'
    BY <1>1, <1>11, <2>1, <2>2 DEF FinishImmediate, TypeOK, Counted
  <2> QED
    BY <2>2, <2>3
<1>12. ASSUME NEW sz \in Sizes, GrantAsync(sz)
       PROVE  TypeOK' /\ Counted' /\ QueueInv'
  <2>1. pub_task' \in [state : TaskState, size : Nat]
    BY <1>3, <1>12 DEF GrantAsync
  <2>2. TypeOK' /\ Counted'
    BY <1>1, <1>12, <2>1 DEF GrantAsync, TypeOK, Counted
  <2> QED
    BY <1>1, <1>12, <2>2, QueueUntouched DEF GrantAsync
<1>13. ASSUME PollGrant
       PROVE  TypeOK' /\ Counted' /\ QueueInv'
  <2>1. pub_task \in [state : TaskState, size : Nat] /\ pub_task.size \in Nat
    BY <1>1 DEF TypeOK
  <2>2. pub_task' \in [state : TaskState, size : Nat]
    BY <1>3, <1>13, <2>1 DEF PollGrant
  <2>3. /\ QueueInv' /\ wgrants' \subseteq GrantW
        /\ write_in_progress' \in BOOLEAN /\ torn' \subseteq Nat
    <3>1. CASE /\ CanGrant(messages, pub_task.size)
               /\ TakeGrant(messages, pub_task.size)
      BY <1>8, <1>13, <2>1, <3>1 DEF PollGrant
    <3>2. CASE UNCHANGED <<write_in_progress, wgrants, torn>>
      BY <1>1, <1>13, <3>2, QueueUntouched DEF PollGrant, TypeOK
    <3> QED
      BY <1>13, <3>1, <3>2 DEF PollGrant
  <2>4. publisher_waker' \in BOOLEAN
    BY <1>1, <1>13 DEF PollGrant, TypeOK
  <2>5. TypeOK' /\ Counted'
    BY <1>1, <1>13, <2>2, <2>3, <2>4 DEF PollGrant, TypeOK, Counted
  <2> QED
    BY <2>3, <2>5
<1>14. ASSUME CancelGrant
       PROVE  TypeOK' /\ Counted' /\ QueueInv'
  <2>1. pub_task' \in [state : TaskState, size : Nat]
    BY <1>3, <1>14 DEF CancelGrant
  <2>2. TypeOK' /\ Counted'
    BY <1>1, <1>14, <2>1 DEF CancelGrant, TypeOK, Counted
  <2> QED
    BY <1>1, <1>14, <2>2, QueueUntouched DEF CancelGrant
<1>15. ASSUME NEW w \in wgrants, NEW used \in Nat, Commit(w, used)
       PROVE  TypeOK' /\ Counted' /\ QueueInv'
  <2>1. CommitInner(w, used)
    BY <1>15 DEF Commit
  <2>2. /\ QueueInv' /\ messages' \in Seq(Header) /\ next_message_id' \in Nat
        /\ write_in_progress' = FALSE /\ wgrants' = {}
    BY <1>1, <2>1, CommitKeepsQueueInv
  <2>3. /\ subscriber_wakers' \subseteq Subscribers
        /\ sub_task' \in [Subscribers -> TaskState]
    BY <1>1, <2>1, WakeTypes DEF CommitInner, TypeOK
  <2>4. TypeOK' /\ Counted'
    BY <1>1, <1>15, <2>2, <2>3 DEF Commit, TypeOK, Counted
  <2> QED
    BY <2>2, <2>4
<1>16. ASSUME NEW w \in wgrants, DropWriteGrant(w)
       PROVE  TypeOK' /\ Counted' /\ QueueInv'
  <2>1. w.to_commit \in Nat
    BY <1>4 DEF GrantW
  <2> QED
    BY <1>15, <1>16, <2>1 DEF DropWriteGrant
<1>17. ASSUME NEW w \in wgrants, NEW used \in Sizes, ToCommit(w, used)
       PROVE  TypeOK' /\ Counted' /\ QueueInv'
  <2> DEFINE v == [w EXCEPT !.to_commit = used]
  <2>1. /\ wgrants' = (wgrants \ {w}) \cup {v}
        /\ v \in GrantW /\ v.start = w.start /\ v.size = w.size
    <3>1. w \in GrantW /\ used \in Nat
      BY <1>3, <1>4
    <3>2. v \in GrantW /\ v.start = w.start /\ v.size = w.size
      BY <3>1 DEF GrantW
    <3> QED
      BY <1>17, <3>2 DEF ToCommit
  <2> HIDE DEF v
  <2>2. wgrants = {w}
    BY <1>1 DEF QueueInv, OneWriter
  <2>3. wgrants' = {v} /\ wgrants' \subseteq GrantW
    BY <2>1, <2>2
  <2>4. Shrunk(messages', messages)
    BY <1>4, <1>17, ShrunkItself DEF ToCommit
  <2>5. /\ next_message_id' = next_message_id
        /\ write_in_progress' = write_in_progress
    BY <1>17 DEF ToCommit
  <2>6. QueueInv'
    BY <1>1, <2>1, <2>2, <2>3, <2>4, <2>5, ShrinkingKeepsQueueInv
  <2>7. TypeOK' /\ Counted'
    BY <1>1, <1>17, <2>3 DEF ToCommit, TypeOK, Counted
  <2> QED
    BY <2>6, <2>7
<1>18. ASSUME NEW s \in Subscribers, NewSubscriber(s)
       PROVE  TypeOK' /\ Counted' /\ QueueInv'
  <2>1. Counted' /\ subscriber_count' \in Nat
    BY <1>1, <1>18, SubscriberCount DEF NewSubscriber, Counted, TypeOK
  <2>2. TypeOK'
    BY <1>1, <1>18, <2>1 DEF NewSubscriber, TypeOK
  <2> QED
    BY <1>1, <1>18, <2>1, <2>2, QueueUntouched DEF NewSubscriber
\* What a read does to the queue and to the cursor, whether it succeeds or not.
<1>19. ASSUME NEW s \in Subscribers,
              \/ CanRead(s) /\ TakeFrame(s)
              \/ /\ cursor' = [cursor EXCEPT ![s] = ReadId(s)]
                 /\ UNCHANGED <<messages, rgrants>>
       PROVE  /\ Shrunk(messages', messages)
              /\ messages' \in Seq(Header)
              /\ cursor' \in [Subscribers -> Nat]
              /\ rgrants' \subseteq GrantR
  <2>1. CASE CanRead(s) /\ TakeFrame(s)
    BY <1>1, <2>1, TakeFrameEffect, ShrunkType
  <2>2. CASE /\ cursor' = [cursor EXCEPT ![s] = ReadId(s)]
             /\ UNCHANGED <<messages, rgrants>>
    BY <1>1, <1>4, <2>2, ReadIdType, ShrunkItself DEF TypeOK
  <2> QED
    BY <1>19, <2>1, <2>2
<1>20. ASSUME NEW s \in Subscribers, Read(s)
       PROVE  TypeOK' /\ Counted' /\ QueueInv'
  <2>1. /\ Shrunk(messages', messages)
        /\ messages' \in Seq(Header)
        /\ cursor' \in [Subscribers -> Nat]
        /\ rgrants' \subseteq GrantR
    BY <1>19, <1>20 DEF Read
  <2>2. TypeOK' /\ Counted'
    BY <1>1, <1>20, <2>1 DEF Read, TypeOK, Counted
  <2> QED
    BY <1>1, <1>20, <2>1, <2>2, ShrinkStep DEF Read
<1>21. ASSUME NEW s \in Subscribers, ReadAsync(s)
       PROVE  TypeOK' /\ Counted' /\ QueueInv'
  <2>1. sub_task' \in [Subscribers -> TaskState]
    BY <1>1, <1>3, <1>21 DEF ReadAsync, TypeOK
  <2>2. TypeOK' /\ Counted'
    BY <1>1, <1>21, <2>1 DEF ReadAsync, TypeOK, Counted
  <2> QED
    BY <1>1, <1>21, <2>2, QueueUntouched DEF ReadAsync
<1>22. ASSUME NEW s \in Subscribers, PollRead(s)
       PROVE  TypeOK' /\ Counted' /\ QueueInv'
  <2>1. /\ Shrunk(messages', messages)
        /\ messages' \in Seq(Header)
        /\ cursor' \in [Subscribers -> Nat]
        /\ rgrants' \subseteq GrantR
    BY <1>19, <1>22 DEF PollRead
  <2>2. /\ subscriber_wakers' \subseteq Subscribers
        /\ sub_task' \in [Subscribers -> TaskState]
    <3>1. CASE /\ sub_task' = [sub_task EXCEPT ![s] = "idle"]
               /\ UNCHANGED subscriber_wakers
      BY <1>1, <1>3, <3>1 DEF TypeOK
    <3>2. CASE ParkSubscriber(s)
      BY <1>1, <3>2, WakeTypes
    <3> QED
      BY <1>22, <3>1, <3>2 DEF PollRead
  <2>3. TypeOK' /\ Counted'
    BY <1>1, <1>22, <2>1, <2>2 DEF PollRead, TypeOK, Counted
  <2> QED
    BY <1>1, <1>22, <2>1, <2>3, ShrinkStep DEF PollRead
<1>23. ASSUME NEW s \in Subscribers, CancelRead(s)
       PROVE  TypeOK' /\ Counted' /\ QueueInv'
  <2>1. sub_task' \in [Subscribers -> TaskState]
    BY <1>1, <1>3, <1>23 DEF CancelRead, TypeOK
  <2>2. TypeOK' /\ Counted'
    BY <1>1, <1>23, <2>1 DEF CancelRead, TypeOK, Counted
  <2> QED
    BY <1>1, <1>23, <2>2, QueueUntouched DEF CancelRead
<1>24. ASSUME NEW s \in Subscribers, DropSubscriber(s)
       PROVE  TypeOK' /\ Counted' /\ QueueInv'
  <2>1. Counted' /\ subscriber_count' \in Nat
    BY <1>1, <1>24, SubscriberCount DEF DropSubscriber, Counted, TypeOK
  <2>2. Shrunk(messages', messages)
    <3>1. CASE messages' = messages
      BY <1>4, <3>1, ShrunkItself
    <3>2. CASE \E n \in 0..Len(messages) : messages' = PopFront(Uncounted(s), n)
      BY <1>1, <3>2, UncountedShrinks
    <3> QED
      BY <1>24, <3>1, <3>2 DEF DropSubscriber
  <2>3. /\ publisher_waker' \in BOOLEAN
        /\ pub_task' \in [state : TaskState, size : Nat]
    <3>1. WakePublisher \/ UNCHANGED <<publisher_waker, pub_task>>
      BY <1>24 DEF DropSubscriber, WakeIfFreed
    <3> QED
      BY <1>1, <3>1, WakeTypes DEF TypeOK
  <2>4. messages' \in Seq(Header)
    BY <2>2, ShrunkType
  <2>5. TypeOK'
    BY <1>1, <1>24, <2>1, <2>3, <2>4 DEF DropSubscriber, TypeOK
  <2> QED
    BY <1>1, <1>24, <2>1, <2>2, <2>5, ShrinkStep DEF DropSubscriber
<1>25. ASSUME NEW r \in rgrants, Release(r)
       PROVE  TypeOK' /\ Counted' /\ QueueInv'
  <2>1. /\ Shrunk(messages', messages)
        /\ publisher_waker' \in BOOLEAN
        /\ subscriber_wakers' \subseteq Subscribers
        /\ pub_task' \in [state : TaskState, size : Nat]
        /\ sub_task' \in [Subscribers -> TaskState]
    BY <1>1, <1>25, ReleaseEffect DEF Release, QueueInv
  <2>2. messages' \in Seq(Header)
    BY <2>1, ShrunkType
  <2>3. TypeOK' /\ Counted'
    BY <1>1, <1>25, <2>1, <2>2 DEF Release, TypeOK, Counted
  <2> QED
    BY <1>1, <1>25, <2>1, <2>3, ShrinkStep DEF Release
<1>26. ASSUME NEW r \in rgrants, DropReadGrant(r)
       PROVE  TypeOK' /\ Counted' /\ QueueInv'
  <2>1. CASE Release(r)
    BY <1>25, <2>1
  <2>2. CASE ~r.auto_release
    BY <1>1, <1>26, <2>2, QueueUntouched DEF DropReadGrant, TypeOK, Counted
  <2> QED
    BY <1>26, <2>1, <2>2 DEF DropReadGrant
<1>27. ASSUME NEW r \in rgrants, NEW b \in BOOLEAN, AutoRelease(r, b)
       PROVE  TypeOK' /\ Counted' /\ QueueInv'
  <2>1. rgrants' \subseteq GrantR
    BY <1>4, <1>27 DEF AutoRelease, GrantR
  <2>2. TypeOK' /\ Counted'
    BY <1>1, <1>27, <2>1 DEF AutoRelease, TypeOK, Counted
  <2> QED
    BY <1>1, <1>27, <2>2, QueueUntouched DEF AutoRelease
<1>28. CASE UNCHANGED vars
  BY <1>1, <1>28, QueueUntouched DEF vars, TypeOK, Counted
<1> QED
  BY <1>3, <1>5, <1>6, <1>7, <1>9, <1>10, <1>11, <1>12, <1>13, <1>14, <1>15,
     <1>16, <1>17, <1>18, <1>20, <1>21, <1>22, <1>23, <1>24, <1>25, <1>26,
     <1>27, <1>28 DEF Next

-----------------------------------------------------------------------------
(* Theorems *)

\* Every critical section of the channel, in any interleaving of any number of
\* subscribers with the publisher, keeps the ring laid out in order, the ids
\* without a gap and the subscribers counted.
THEOREM ChannelInvariance == Spec => []ChannelInv
<1>1. ChannelInv /\ [Next]_vars => ChannelInv'
  BY StepPreserves
<1> QED
  BY InitEstablishes, <1>1, PTL DEF Spec

\* The variables of the channel keep their types: no start or length is ever
\* computed below zero.
THEOREM TypeCorrect == Spec => []TypeOK
<1>1. ChannelInv => TypeOK
  BY DEF ChannelInv
<1> QED
  BY <1>1, ChannelInvariance, PTL

\* The distance from start_id finds a frame, in every queue the channel
\* reaches.
THEOREM IdsNeverGap == Spec => []IdsContiguous
<1>1. ChannelInv => IdsContiguous
  BY DEF ChannelInv
<1> QED
  BY <1>1, ChannelInvariance, PTL

\* The regions of a queue in order, and of what is pending, are disjoint.
LEMMA RegionsFollow == ChannelInv => RegionsDisjoint
<1> SUFFICES ASSUME ChannelInv PROVE RegionsDisjoint
  OBVIOUS
<1>1. /\ messages \in Seq(Header) /\ Len(messages) \in Nat
      /\ wgrants \subseteq GrantW /\ next_message_id \in Nat
  BY LenProperties DEF ChannelInv, TypeOK
<1>2. Sized(messages)
  BY <1>1, QueueSized
\* What a pending grant promises, the queue alone keeps.
<1>3. ASSUME NEW w \in wgrants
      PROVE  /\ Layout(messages)
             /\ w.start + w.size <= Capacity
             /\ \A i \in 1..Len(messages) :
                  Apart(messages[i].start, End(messages[i]),
                        w.start, w.start + w.size)
  <2> DEFINE x == Pending(w)
             q == Append(messages, x)
             last == Len(messages) + 1
  <2>1. /\ x \in Header /\ x.start = w.start /\ x.len = w.size
        /\ End(x) = w.start + w.size
    BY <1>1, PendingIsHeader DEF End
  <2>2. Layout(q)
    BY DEF ChannelInv, Reserved
  <2> HIDE DEF x
  <2>3. /\ q \in Seq(Header) /\ Len(q) = Len(messages) + 1
        /\ \A i \in 1..Len(messages) : q[i] = messages[i]
        /\ q[Len(messages) + 1] = x
    BY <1>1, <2>1, AppendProperties
  <2> HIDE DEF q
  <2>4. Sized(q)
    BY <2>3, QueueSized
  <2>5. Layout(messages)
    BY <1>2, <2>2, <2>3, <2>4, LayoutButLast
  <2>6. last \in 1..Len(q) /\ q[last] = x
    BY <1>1, <2>3
  <2>7. End(q[last]) <= Capacity
    BY <2>2, <2>6 DEF Layout
  <2>8. ASSUME NEW i \in 1..Len(messages)
        PROVE  Apart(messages[i].start, End(messages[i]),
                     w.start, w.start + w.size)
    <3>1. i \in 1..Len(q) /\ i < last /\ q[i] = messages[i]
      BY <1>1, <2>3
    <3> HIDE DEF last
    <3>2. Apart(q[i].start, End(q[i]), q[last].start, End(q[last]))
      BY <2>2, <2>4, <2>6, <3>1, LayoutApart
    <3> QED
      BY <2>1, <2>6, <3>1, <3>2
  <2> QED
    BY <2>1, <2>5, <2>6, <2>7, <2>8
<1>4. Layout(messages)
  BY <1>3 DEF ChannelInv, Reserved
<1>5. \A i \in 1..Len(messages) : End(messages[i]) <= Capacity
  BY <1>4 DEF Layout
<1>6. ASSUME NEW i \in 1..Len(messages), NEW j \in (i + 1)..Len(messages)
      PROVE  Apart(messages[i].start, End(messages[i]),
                   messages[j].start, End(messages[j]))
  <2>1. j \in 1..Len(messages) /\ i < j
    BY <1>1
  <2> QED
    BY <1>2, <1>4, <2>1, LayoutApart
<1> QED
  BY <1>3, <1>5, <1>6 DEF RegionsDisjoint

\* free_space() and grant_with_context() never hand out a byte that a queued
\* frame occupies, nor one beyond the buffer, whatever the capacity and the
\* sizes.
THEOREM RegionsNeverOverlap == Spec => []RegionsDisjoint
BY RegionsFollow, ChannelInvariance, PTL
=============================================================================
