----------------------------- MODULE WireProofs -----------------------------
(***************************************************************************)
(* What Wire promises for any scripts that the reader can frame, any requests, *)
(* any number of dropped receives and lost connections.                    *)
(*                                                                         *)
(* The streams are cut where no receive is dropped behind a header (~AnyCut): *)
(* without that, InSync is false.                                          *)
(***************************************************************************)
EXTENDS Wire, CodecProofs

-----------------------------------------------------------------------------
(* Packets in the stream *)

\* What the reader needs of a packet to parse its header fits the buffer.
LEMMA FramedHeader ==
  ASSUME NEW p, Framed(p)
  PROVE  /\ Headed(p) /\ (flags(p) % 8) \div 2 # 3
         /\ HeaderLen(p) \in Nat /\ 2 <= HeaderLen(p) /\ Fixed(p) <= HeaderLen(p)
         /\ HeaderLen(p) <= READ_BUF_LEN /\ READ_BUF_LEN \in Nat
         /\ HeaderLen(p) <= Len(Encode(p))
         /\ p.typ # "Publish" => /\ HeaderLen(p) = Fixed(p) /\ Len(Encode(p)) <= READ_BUF_LEN
         /\ p.typ = "Publish" =>
              /\ HeaderLen(p) = Fixed(p) + 2 + Len(p.topic_name) + 2
              /\ (flags(p) % 8) \div 2 = p.qos
              /\ (flags(p) >= 8) = p.dup /\ (flags(p) % 2 = 1) = p.retain
<1>1. /\ p.typ = "Publish" =>
              /\ (flags(p) % 8) \div 2 = p.qos
              /\ (flags(p) >= 8) = p.dup /\ (flags(p) % 2 = 1) = p.retain
      /\ (flags(p) % 8) \div 2 # 3
  BY WellFormedHeader DEF Framed
<1>2. Headed(p)
  BY WellFormedHeader DEF Framed
<1>3. /\ Fixed(p) \in 2..5 /\ Len(Body(p)) \in Nat /\ Len(Encode(p)) = Fixed(p) + Len(Body(p))
  BY <1>2, Encoded
<1>4. Len(Encode(p)) - Len(Body(p)) = Fixed(p)
  BY <1>3
<1>5. /\ READ_BUF_LEN \in Nat /\ READ_BUF_LEN >= 9 /\ READ_BUF_LEN = 9 + MAX_TOPIC_LEN
  BY TopicLenAssumption DEF READ_BUF_LEN, MAX_MQTT_HEADER_LEN
<1>6. CASE p.typ = "Publish"
  <2>1. HeaderLen(p) = Fixed(p) + 2 + Len(p.topic_name) + 2
    BY <1>4, <1>6 DEF HeaderLen
  <2>2. /\ p.topic_name \in Seq(Byte) /\ Len(p.topic_name) <= MAX_TOPIC_LEN
        /\ HeaderLen(p) <= Len(Encode(p))
    BY <1>6 DEF Framed, WellFormed
  <2>3. Len(p.topic_name) \in Nat
    BY <2>2, LenProperties
  <2>5. Len(p.topic_name) <= MAX_TOPIC_LEN
    BY <2>2
  <2>6. /\ HeaderLen(p) \in Nat /\ 2 <= HeaderLen(p)
        /\ Fixed(p) <= HeaderLen(p) /\ HeaderLen(p) <= READ_BUF_LEN
    <3> DEFINE t == Len(p.topic_name)
               h == HeaderLen(p)
               x == Fixed(p)
               r == READ_BUF_LEN
    <3>1. x \in 2..5 /\ t \in Nat /\ t <= MAX_TOPIC_LEN /\ h = x + 2 + t + 2 /\ r = 9 + MAX_TOPIC_LEN
      BY <1>3, <1>5, <2>1, <2>3, <2>5
    <3> HIDE DEF t, h, x, r
    <3>2. h \in Nat /\ 2 <= h /\ x <= h /\ h <= r
      BY <3>1, TopicLenAssumption
    <3> QED
      BY <3>2 DEF h, x, r
  <2> QED
    BY <1>1, <1>2, <1>5, <1>6, <2>1, <2>2, <2>6
<1>7. CASE p.typ # "Publish"
  <2>1. HeaderLen(p) = Fixed(p)
    BY <1>4, <1>7 DEF HeaderLen
  <2>2. Len(Encode(p)) <= READ_BUF_LEN
    BY <1>7 DEF Framed
  <2> QED
    BY <1>1, <1>2, <1>3, <1>5, <1>7, <2>1, <2>2
<1> QED
  BY <1>6, <1>7

\* Where the packet after the n-th begins.
Start(s, n) == Len(Bytes(SubSeq(s, 1, n)))

\* The stream of two scripts is one stream behind the other.
LEMMA BytesConcat ==
  ASSUME NEW P, NEW s \in Seq(P), NEW t \in Seq(P), \A p \in P : Encode(p) \in Seq(Byte)
  PROVE  Bytes(s) \in Seq(Byte) /\ Bytes(s \o t) = Bytes(s) \o Bytes(t)
<1> DEFINE B(q) == [i \in DOMAIN q |-> Encode(q[i])]
<1>1. ASSUME NEW q \in Seq(P)
      PROVE  /\ B(q) \in Seq(Seq(Byte)) /\ Len(B(q)) = Len(q)
             /\ \A i \in 1..Len(q) : B(q)[i] = Encode(q[i])
  <2>1. Len(q) \in Nat /\ DOMAIN q = 1..Len(q) /\ \A i \in 1..Len(q) : q[i] \in P
    BY LenProperties, ElementOfSeq
  <2>2. \A i \in 1..Len(q) : Encode(q[i]) \in Seq(Byte)
    BY <2>1
  <2> QED
    BY <2>1, <2>2
<1>2. /\ s \o t \in Seq(P) /\ Len(s \o t) = Len(s) + Len(t)
      /\ \A i \in 1..Len(s) : (s \o t)[i] = s[i]
      /\ \A i \in 1..Len(t) : (s \o t)[Len(s) + i] = t[i]
  <2>1. Concats(P)
    BY Concatenation
  <2> QED
    BY <2>1, Zenon DEF Concats
<1>3. Len(s) \in Nat /\ Len(t) \in Nat
  BY LenProperties
<1> DEFINE u == s \o t
           x == B(s)
           y == B(t)
           z == B(u)
<1>4. /\ x \in Seq(Seq(Byte)) /\ Len(x) = Len(s) /\ \A i \in 1..Len(s) : x[i] = Encode(s[i])
      /\ y \in Seq(Seq(Byte)) /\ Len(y) = Len(t) /\ \A i \in 1..Len(t) : y[i] = Encode(t[i])
      /\ z \in Seq(Seq(Byte)) /\ Len(z) = Len(u) /\ \A i \in 1..Len(u) : z[i] = Encode(u[i])
  BY <1>1, <1>2
<1>5. Bytes(s) = FlattenSeq(x) /\ Bytes(t) = FlattenSeq(y) /\ Bytes(u) = FlattenSeq(z)
  BY DEF Bytes
<1> HIDE DEF x, y, z, B
<1>6. /\ x \o y \in Seq(Seq(Byte)) /\ Len(x \o y) = Len(x) + Len(y)
      /\ \A i \in 1..Len(x) : (x \o y)[i] = x[i]
      /\ \A i \in 1..Len(y) : (x \o y)[Len(x) + i] = y[i]
  <2>1. Concats(Seq(Byte))
    BY Concatenation
  <2> QED
    BY <1>4, <2>1, Zenon DEF Concats
<1>7. ASSUME NEW i \in 1..Len(z) PROVE z[i] = (x \o y)[i]
  <2>1. CASE i <= Len(s)
    <3>1. i \in 1..Len(s) /\ i \in 1..Len(x) /\ i \in 1..Len(u)
      BY <1>2, <1>3, <1>4, <2>1
    <3>2. z[i] = Encode(u[i]) /\ u[i] = s[i] /\ x[i] = Encode(s[i]) /\ (x \o y)[i] = x[i]
      BY <1>2, <1>4, <1>6, <3>1, Zenon
    <3> QED
      BY <3>2, Zenon
  <2>2. CASE ~(i <= Len(s))
    <3>1. PICK j \in 1..Len(t) : i = Len(s) + j
      <4>1. i - Len(s) \in 1..Len(t) /\ i = Len(s) + (i - Len(s))
        BY <1>2, <1>3, <1>4, <2>2
      <4> QED
        BY <4>1
    <3>2. j \in 1..Len(y) /\ i \in 1..Len(u)
      BY <1>2, <1>4
    <3>3. z[i] = Encode(u[i]) /\ u[i] = t[j] /\ y[j] = Encode(t[j]) /\ (x \o y)[i] = y[j]
      BY <1>2, <1>4, <1>6, <3>1, <3>2, Zenon
    <3> QED
      BY <3>3, Zenon
  <2> QED
    BY <2>1, <2>2
<1>8. z = x \o y
  <2> DEFINE w == x \o y
  <2>1. w \in Seq(Seq(Byte)) /\ Len(w) = Len(z) /\ \A i \in 1..Len(z) : z[i] = w[i]
    BY <1>2, <1>4, <1>6, <1>7
  <2> HIDE DEF w
  <2>2. z = w
    BY <1>4, <2>1, SeqEqual
  <2> QED
    BY <2>2 DEF w
<1>9. FlattenSeq(x) \in Seq(Byte) /\ FlattenSeq(x \o y) = FlattenSeq(x) \o FlattenSeq(y)
  BY <1>4, FlattenConcat
<1> QED
  BY <1>5, <1>8, <1>9, Zenon

\* The packets of a script lie one behind the other in its stream.
LEMMA Starts ==
  ASSUME NEW P, NEW s \in Seq(P), \A p \in P : Encode(p) \in Seq(Byte)
  PROVE  /\ Bytes(s) \in Seq(Byte) /\ Start(s, 0) = 0 /\ Start(s, Len(s)) = Len(Bytes(s))
         /\ \A n \in 0..Len(s) :
              /\ Start(s, n) \in Nat /\ Start(s, n) <= Len(Bytes(s))
              /\ \A m \in 0..n : Start(s, m) <= Start(s, n)
         /\ \A n \in 1..Len(s) :
              /\ Start(s, n) = Start(s, n - 1) + Len(Encode(s[n]))
              /\ \A i \in 1..Len(Encode(s[n])) :
                   Bytes(s)[Start(s, n - 1) + i] = Encode(s[n])[i]
<1> DEFINE L == Len(s)
<1>1. L \in Nat /\ \A i \in 1..L : s[i] \in P
  BY LenProperties, ElementOfSeq
<1>2. \A t \in Seq(P) : Bytes(t) \in Seq(Byte) /\ Len(Bytes(t)) \in Nat
  BY BytesConcat, LenProperties
<1>3. SubSeq(s, 1, 0) = <<>> /\ SubSeq(s, 1, L) = s
  BY SubSeqEmpty, SubSeqFull
<1>4. Start(s, 0) = 0
  <2>1. Bytes(<<>>) = <<>>
    BY DEF Bytes, FlattenSeq
  <2>2. Len(<<>>) = 0
    OBVIOUS
  <2> QED
    BY <1>3, <2>1, <2>2, Zenon DEF Start
<1>5. Start(s, L) = Len(Bytes(s))
  BY <1>3 DEF Start
\* One prefix of s and a longer one.
<1>6. ASSUME NEW t \in Seq(P), NEW n \in 0..Len(t)
      PROVE  /\ Start(t, n) \in Nat /\ Start(t, n) <= Len(Bytes(t))
             /\ \A i \in 1..Start(t, n) : Bytes(t)[i] = Bytes(SubSeq(t, 1, n))[i]
  <2> DEFINE a == SubSeq(t, 1, n)
             b == SubSeq(t, n + 1, Len(t))
  <2>1. a \in Seq(P) /\ b \in Seq(P) /\ t = a \o b
    BY Cut
  <2> HIDE DEF a, b
  <2>2. Bytes(a) \in Seq(Byte) /\ Bytes(b) \in Seq(Byte) /\ Bytes(t) = Bytes(a) \o Bytes(b)
    BY <2>1, BytesConcat
  <2>3. Concats(Byte)
    BY Concatenation
  <2>4. /\ Len(Bytes(a)) \in Nat /\ Len(Bytes(b)) \in Nat
        /\ Len(Bytes(t)) = Len(Bytes(a)) + Len(Bytes(b))
        /\ \A i \in 1..Len(Bytes(a)) : Bytes(t)[i] = Bytes(a)[i]
    <3> DEFINE x == Bytes(a)
               y == Bytes(b)
    <3>1. x \in Seq(Byte) /\ y \in Seq(Byte) /\ Bytes(t) = x \o y
      BY <2>2
    <3> HIDE DEF x, y
    <3>2. /\ Len(x) \in Nat /\ Len(y) \in Nat /\ Len(x \o y) = Len(x) + Len(y)
          /\ \A i \in 1..Len(x) : (x \o y)[i] = x[i]
      BY <2>3, <3>1, Zenon DEF Concats
    <3> QED
      BY <3>1, <3>2, Zenon DEF x, y
  <2> QED
    BY <2>4 DEF Start, a
<1>7. ASSUME NEW n \in 0..L, NEW m \in 0..n
      PROVE  Start(s, m) <= Start(s, n)
  <2> DEFINE t == SubSeq(s, 1, n)
  <2>1. t \in Seq(P) /\ Len(t) = n
    BY Cut
  <2>2. SubSeq(t, 1, m) = SubSeq(s, 1, m)
    <3>1. /\ \A i \in 1..m : s[i] \in P /\ t[i] = s[i]
      <4>1. \A i \in 1..n : t[i] = s[1 + i - 1]
        BY <1>1, SubSeqProperties
      <4> QED
        BY <1>1, <4>1
    <3> DEFINE x == SubSeq(t, 1, m)
               y == SubSeq(s, 1, m)
    <3>2. x \in Seq(P) /\ Len(x) = m /\ \A i \in 1..m : x[i] = t[i]
      <4>1. \A i \in 1..m : t[i] \in P
        BY <3>1
      <4> HIDE DEF t
      <4> QED
        BY <4>1, SubSeqProperties
    <3>3. y \in Seq(P) /\ Len(y) = m /\ \A i \in 1..m : y[i] = s[i]
      BY <3>1, SubSeqProperties
    <3> HIDE DEF x, y, t
    <3>4. x = y
      BY <3>1, <3>2, <3>3, SeqEqual
    <3> QED
      BY <3>4 DEF x, y
  <2>3. Start(t, m) <= Len(Bytes(t))
    BY <1>6, <2>1
  <2> QED
    BY <2>2, <2>3 DEF Start
<1>8. ASSUME NEW n \in 1..L
      PROVE  /\ Start(s, n) = Start(s, n - 1) + Len(Encode(s[n]))
             /\ \A i \in 1..Len(Encode(s[n])) :
                  Bytes(s)[Start(s, n - 1) + i] = Encode(s[n])[i]
  <2> DEFINE t == SubSeq(s, 1, n - 1)
             u == <<s[n]>>
             e == Encode(s[n])
             v == SubSeq(s, 1, n)
  <2>1. t \in Seq(P) /\ v \in Seq(P) /\ s[n] \in P /\ u \in Seq(P)
    <3>1. n - 1 \in 0..L /\ n \in 0..L
      BY <1>1
    <3> QED
      BY <1>1, <3>1, Cut
  <2>2. v = t \o u
    <3>1. 1 \in 1..L /\ n \in 1..L
      BY <1>1
    <3> QED
      BY <3>1, SubSeqRecursiveSecond
  <2>3. Bytes(u) = e /\ e \in Seq(Byte)
    <3>1. e \in Seq(Byte)
      BY <2>1
    <3>2. [i \in DOMAIN u |-> Encode(u[i])] = <<e>>
      OBVIOUS
    <3> QED
      BY <3>1, <3>2, FlattenFew DEF Bytes
  <2>7. n \in 0..L /\ Start(s, n) = Len(Bytes(v)) /\ Start(s, n - 1) = Len(Bytes(t))
    BY <1>1 DEF Start
  <2> HIDE DEF t, u, e, v
  <2>4. Bytes(t) \in Seq(Byte) /\ Bytes(v) = Bytes(t) \o e
    BY <2>1, <2>2, <2>3, BytesConcat
  <2>5. Concats(Byte)
    BY Concatenation
  <2>6. /\ Len(Bytes(t)) \in Nat /\ Len(e) \in Nat /\ Len(Bytes(v)) = Len(Bytes(t)) + Len(e)
        /\ \A i \in 1..Len(e) : Bytes(v)[Len(Bytes(t)) + i] = e[i]
    <3> DEFINE x == Bytes(t)
               y == Bytes(v)
    <3>1. x \in Seq(Byte) /\ e \in Seq(Byte) /\ y = x \o e
      BY <2>3, <2>4
    <3> HIDE DEF x, y
    <3>2. /\ Len(x) \in Nat /\ Len(e) \in Nat /\ Len(x \o e) = Len(x) + Len(e)
          /\ \A i \in 1..Len(e) : (x \o e)[Len(x) + i] = e[i]
      BY <2>5, <3>1, Zenon DEF Concats
    <3> QED
      BY <3>1, <3>2, Zenon DEF x, y
  <2>8. \A i \in 1..Start(s, n) : Bytes(s)[i] = Bytes(v)[i]
    BY <1>6, <2>7 DEF v
  <2>9. ASSUME NEW i \in 1..Len(e) PROVE Bytes(s)[Start(s, n - 1) + i] = e[i]
    <3>1. Start(s, n - 1) + i \in 1..Start(s, n)
      BY <2>6, <2>7
    <3> QED
      BY <2>6, <2>7, <2>8, <3>1
  <2> QED
    BY <2>6, <2>7, <2>9 DEF e
<1> QED
  BY <1>2, <1>4, <1>5, <1>6, <1>7, <1>8 DEF L

\* The hypotheses about the scripts, as the other lemmas use them.
LEMMA ScriptBytes ==
  ASSUME FramedScripts, NEW s \in Scripts
  PROVE  /\ Len(s) \in Nat /\ DOMAIN s = 1..Len(s) /\ \A i \in 1..Len(s) : Framed(s[i])
         /\ StreamOf[s] = Bytes(s)
         /\ Bytes(s) \in Seq(Byte) /\ Len(Bytes(s)) \in Nat
         /\ Start(s, 0) = 0 /\ Start(s, Len(s)) = Len(Bytes(s))
         /\ \A n \in 0..Len(s) :
              /\ Start(s, n) \in Nat /\ Start(s, n) <= Len(Bytes(s))
              /\ \A m \in 0..n : Start(s, m) <= Start(s, n)
         /\ \A n \in 1..Len(s) :
              /\ Start(s, n) = Start(s, n - 1) + Len(Encode(s[n]))
              /\ \A i \in 1..Len(Encode(s[n])) :
                   Bytes(s)[Start(s, n - 1) + i] = Encode(s[n])[i]
<1> DEFINE P == Range(s)
<1>1. s \in Seq(P) /\ \A i \in DOMAIN s : Framed(s[i])
  BY DEF FramedScripts
<1>2. Len(s) \in Nat /\ DOMAIN s = 1..Len(s)
  BY <1>1, LenProperties
<1>3. \A p \in P : Framed(p)
  BY <1>1 DEF Range
<1>4. \A p \in P : Encode(p) \in Seq(Byte)
  BY <1>3, FramedHeader, Encoded
<1> HIDE DEF P
<1>5. /\ Bytes(s) \in Seq(Byte) /\ Start(s, 0) = 0 /\ Start(s, Len(s)) = Len(Bytes(s))
      /\ \A n \in 0..Len(s) :
           /\ Start(s, n) \in Nat /\ Start(s, n) <= Len(Bytes(s))
           /\ \A m \in 0..n : Start(s, m) <= Start(s, n)
      /\ \A n \in 1..Len(s) :
           /\ Start(s, n) = Start(s, n - 1) + Len(Encode(s[n]))
           /\ \A i \in 1..Len(Encode(s[n])) :
                Bytes(s)[Start(s, n - 1) + i] = Encode(s[n])[i]
  BY <1>1, <1>4, Starts
<1>6. StreamOf[s] = Bytes(s)
  BY DEF StreamOf
<1>7. Len(Bytes(s)) \in Nat
  BY <1>5, LenProperties
<1> QED
  BY <1>1, <1>2, <1>5, <1>6, <1>7

\* Where a segment ends, when none ends where it does harm.
LEMMA CutsSafe ==
  ASSUME FramedScripts, ~AnyCut, NEW s \in Scripts, NEW c \in CutsOf[s]
  PROVE  /\ c \in Nat /\ c <= Len(Bytes(s))
         /\ \A j \in 1..Len(s) :
              LET o == Start(s, j - 1)
                  p == s[j]
              IN  /\ o + HeaderLen(p) <= c /\ c < Start(s, j) =>
                       p.typ = "Publish" /\ o + HeaderLen(p) < c
                  /\ p.typ = "ConnAck" /\ o < c => Start(s, j) <= c
<1>0. PICK i \in 1..Len(s) : \E n \in 1..Len(Encode(s[i])) :
        /\ c = Len(Bytes(SubSeq(s, 1, i - 1))) + n
        /\ n = Len(Encode(s[i])) \/ SafeCut(s[i], n)
  <2>1. DOMAIN s = 1..Len(s)
    BY ScriptBytes
  <2> QED
    BY <2>1, Zenon DEF CutsOf
<1>1. PICK n \in 1..Len(Encode(s[i])) :
        /\ c = Len(Bytes(SubSeq(s, 1, i - 1))) + n
        /\ n = Len(Encode(s[i])) \/ SafeCut(s[i], n)
  BY <1>0
<1> DEFINE E(j) == Len(Encode(s[j]))
           S(j) == Start(s, j)
           H(j) == HeaderLen(s[j])
<1>2. /\ Len(s) \in Nat
      /\ \A j \in 0..Len(s) : S(j) \in Nat /\ S(j) <= Len(Bytes(s)) /\ \A m \in 0..j : S(m) <= S(j)
      /\ \A j \in 1..Len(s) : S(j) = S(j - 1) + E(j)
  BY ScriptBytes
<1>3. \A j \in 1..Len(s) : H(j) \in Nat /\ 2 <= H(j) /\ H(j) <= E(j) /\ E(j) \in Nat
  <2> TAKE j \in 1..Len(s)
  <2>1. Framed(s[j])
    BY ScriptBytes
  <2>2. H(j) \in Nat /\ 2 <= H(j) /\ H(j) <= E(j) /\ Headed(s[j])
    BY <2>1, FramedHeader
  <2>3. E(j) \in Nat
    BY <2>2, Encoded, LenProperties
  <2> QED
    BY <2>2, <2>3
<1>4. c = S(i - 1) + n
  BY <1>1 DEF Start
<1>5. Len(Bytes(s)) \in Nat
  BY ScriptBytes
<1>9. n = E(i) \/ SafeCut(s[i], n)
  BY <1>1
<1>10. n \in Nat /\ 1 <= n /\ n <= E(i)
  BY <1>3
<1> HIDE DEF E, S, H
<1>6. /\ S(i - 1) \in Nat /\ S(i) = S(i - 1) + E(i) /\ S(i) <= Len(Bytes(s)) /\ S(i) \in Nat
  <2>1. i \in 0..Len(s) /\ i - 1 \in 0..Len(s)
    BY <1>2
  <2> QED
    BY <1>2, <2>1
<1>7. c \in Nat /\ c <= Len(Bytes(s)) /\ c <= S(i) /\ S(i - 1) < c
  BY <1>3, <1>4, <1>5, <1>6, <1>10
<1>8. ASSUME NEW j \in 1..Len(s)
      PROVE  /\ S(j - 1) + H(j) <= c /\ c < S(j) => s[j].typ = "Publish" /\ S(j - 1) + H(j) < c
             /\ s[j].typ = "ConnAck" /\ S(j - 1) < c => S(j) <= c
  <2>1. S(j - 1) \in Nat /\ S(j) = S(j - 1) + E(j) /\ S(j) \in Nat /\ H(j) \in Nat /\ 2 <= H(j)
    <3>1. j \in 0..Len(s) /\ j - 1 \in 0..Len(s)
      BY <1>2
    <3> QED
      BY <1>2, <1>3, <3>1
  <2>2. CASE i < j
    <3>1. S(i) <= S(j - 1)
      <4>1. j - 1 \in 0..Len(s) /\ i \in 0..(j - 1)
        BY <1>2, <2>2
      <4> QED
        BY <1>2, <4>1
    <3>2. c <= S(j - 1)
      BY <1>6, <1>7, <2>1, <3>1
    <3> QED
      BY <1>7, <2>1, <3>2
  <2>3. CASE i > j
    <3>1. S(j) <= S(i - 1)
      <4>1. i - 1 \in 0..Len(s) /\ j \in 0..(i - 1)
        BY <1>2, <2>3
      <4> QED
        BY <1>2, <4>1
    <3>2. S(j) < c
      BY <1>6, <1>7, <2>1, <3>1
    <3> QED
      BY <1>7, <2>1, <3>2
  <2>4. CASE i = j
    <3>1. CASE n = E(i)
      <4>1. c = S(j)
        BY <1>4, <1>6, <2>4, <3>1
      <4> QED
        BY <2>1, <4>1
    <3>2. CASE SafeCut(s[i], n)
      <4>1. \/ s[j].typ # "ConnAck" /\ n < H(j)
            \/ s[j].typ = "Publish" /\ n > H(j)
        BY <2>4, <3>2 DEF SafeCut, H
      <4>2. c = S(j - 1) + n
        BY <1>4, <2>4
      <4>3. CASE s[j].typ # "ConnAck" /\ n < H(j)
        BY <1>10, <2>1, <4>2, <4>3
      <4>4. CASE s[j].typ = "Publish" /\ n > H(j)
        BY <1>10, <2>1, <4>2, <4>4
      <4> QED
        BY <4>1, <4>3, <4>4
    <3> QED
      BY <1>9, <3>1, <3>2
  <2> QED
    BY <2>2, <2>3, <2>4
<1> QED
  BY <1>7, <1>8 DEF S, H

-----------------------------------------------------------------------------
(* Beginnings of packets *)

\* Where each byte of a PUBLISH is on the wire.
LEMMA PublishLayout ==
  ASSUME NEW p, Framed(p), p.typ = "Publish"
  PROVE  LET e == Encode(p)
             f == Fixed(p)
             t == Len(p.topic_name)
         IN  /\ t \in Nat /\ Len(PropBytes(p)) \in Nat /\ Len(p.payload) \in Nat
             /\ Len(e) = PropAt(p) + Len(PropBytes(p)) + Len(p.payload)
             /\ e[f + 1] = t \div 256 /\ e[f + 2] = t % 256
             /\ \A i \in 1..t : e[f + 2 + i] = p.topic_name[i]
             /\ p.qos # 0 => e[PidAt(p) + 1] = p.pid \div 256 /\ e[PidAt(p) + 2] = p.pid % 256
             /\ \A i \in 1..Len(PropBytes(p)) : e[PropAt(p) + i] = PropBytes(p)[i]
             /\ \A i \in 1..Len(p.payload) :
                  e[PropAt(p) + Len(PropBytes(p)) + i] = p.payload[i]
<1> DEFINE e == Encode(p)
           f == Fixed(p)
           t == Len(p.topic_name)
           a == TopicBytes(p)
           b == PidBytes(p)
           c == PropBytes(p)
           d == p.payload
           z == Body(p)
<1>1. /\ a \in Seq(Byte) /\ b \in Seq(Byte) /\ c \in Seq(Byte) /\ d \in Seq(Byte)
      /\ z = a \o b \o c \o d
  BY PublishBody DEF Framed
<1>2. /\ Len(a) \in Nat /\ Len(b) \in Nat /\ Len(c) \in Nat /\ Len(d) \in Nat
      /\ z \in Seq(Byte) /\ Len(z) = Len(a) + Len(b) + Len(c) + Len(d)
      /\ \A i \in 1..Len(a) : z[i] = a[i]
      /\ \A i \in 1..Len(b) : z[Len(a) + i] = b[i]
      /\ \A i \in 1..Len(c) : z[Len(a) + Len(b) + i] = c[i]
      /\ \A i \in 1..Len(d) : z[Len(a) + Len(b) + Len(c) + i] = d[i]
  <2> HIDE DEF a, b, c, d, z
  <2> QED
    BY <1>1, ConcatFour, SMTT(30)
<1>3. /\ f \in 2..5 /\ Len(e) = f + Len(z) /\ \A i \in 1..Len(z) : e[f + i] = z[i]
  BY FramedHeader, Encoded
<1>4. /\ t \in Nat /\ Len(a) = 2 + t /\ a[1] = t \div 256 /\ a[2] = t % 256
      /\ \A i \in 1..t : a[2 + i] = p.topic_name[i]
  <2>1. p.topic_name \in Seq(Byte) /\ t < 256 * 256
    BY DEF Framed, WellFormed
  <2>2. t \in Nat
    BY <2>1, LenProperties
  <2>3. t \div 256 \in Byte /\ t % 256 \in Byte
    <3> HIDE DEF t
    <3> QED
      BY <2>1, <2>2, TwoBytes, SMT
  <2> DEFINE h == <<t \div 256, t % 256>>
  <2>4. h \in Seq(Byte) /\ Len(h) = 2 /\ h[1] = t \div 256 /\ h[2] = t % 256
    <3>1. PICK x, y : x = t \div 256 /\ y = t % 256
      OBVIOUS
    <3>2. x \in Byte /\ y \in Byte
      BY <2>3, <3>1
    <3>3. <<x, y>> \in Seq(Byte) /\ Len(<<x, y>>) = 2 /\ <<x, y>>[1] = x /\ <<x, y>>[2] = y
      BY <3>2, PairOfBytes
    <3> QED
      BY <3>1, <3>3
  <2>5. a = h \o p.topic_name
    BY DEF TopicBytes
  <2> HIDE DEF h, a
  <2>6. Concats(Byte)
    BY Concatenation
  <2> DEFINE w == p.topic_name
  <2>7. w \in Seq(Byte) /\ a = h \o w /\ t = Len(w)
    BY <2>1, <2>5
  <2> HIDE DEF w, t
  <2>8. /\ Len(h \o w) = Len(h) + Len(w)
        /\ \A i \in 1..Len(h) : (h \o w)[i] = h[i]
        /\ \A i \in 1..Len(w) : (h \o w)[Len(h) + i] = w[i]
    <3>1. h \in Seq(Byte) /\ w \in Seq(Byte)
      BY <2>4, <2>7
    <3> QED
      BY <2>6, <3>1, Zenon DEF Concats
  <2>9. /\ Len(a) = 2 + t /\ a[1] = h[1] /\ a[2] = h[2]
        /\ \A i \in 1..t : a[2 + i] = w[i]
    BY <2>2, <2>4, <2>7, <2>8
  <2> QED
    BY <2>2, <2>4, <2>9 DEF w
<1>5. /\ Len(b) = (IF p.qos = 0 THEN 0 ELSE 2)
      /\ p.qos # 0 => b[1] = p.pid \div 256 /\ b[2] = p.pid % 256
  BY DEF PidBytes
<1>6. PidAt(p) = f + Len(a) /\ PropAt(p) = f + Len(a) + Len(b)
  <2>1. PidAt(p) = f + 2 + t /\ PropAt(p) = PidAt(p) + (IF p.qos = 0 THEN 0 ELSE 2)
    BY DEF PidAt, PropAt
  <2> HIDE DEF f, t, a, b
  <2> QED
    BY <1>3, <1>4, <1>5, <2>1
<1>7. t \in Nat /\ Len(c) \in Nat /\ Len(d) \in Nat
  BY <1>2, <1>4
<1> HIDE DEF e, f, t, a, b, c, d, z
<1>8. Len(e) = PropAt(p) + Len(c) + Len(d)
  BY <1>2, <1>3, <1>6
<1>9. e[f + 1] = t \div 256 /\ e[f + 2] = t % 256
  <2>1. 1 \in 1..Len(z) /\ 2 \in 1..Len(z) /\ 1 \in 1..Len(a) /\ 2 \in 1..Len(a)
    BY <1>2, <1>4
  <2> QED
    BY <1>2, <1>3, <1>4, <2>1
<1>10. ASSUME NEW i \in 1..t PROVE e[f + 2 + i] = p.topic_name[i]
  <2>1. 2 + i \in 1..Len(z) /\ 2 + i \in 1..Len(a) /\ f + 2 + i = f + (2 + i)
    BY <1>2, <1>3, <1>4
  <2>2. e[f + (2 + i)] = z[2 + i] /\ z[2 + i] = a[2 + i]
    BY <1>2, <1>3, <2>1
  <2> QED
    BY <1>4, <2>1, <2>2
<1>11. ASSUME p.qos # 0
       PROVE  e[PidAt(p) + 1] = p.pid \div 256 /\ e[PidAt(p) + 2] = p.pid % 256
  <2>1. Len(b) = 2
    BY <1>5, <1>11
  <2>2. /\ 1 \in 1..Len(b) /\ 2 \in 1..Len(b)
        /\ Len(a) + 1 \in 1..Len(z) /\ Len(a) + 2 \in 1..Len(z)
        /\ PidAt(p) + 1 = f + (Len(a) + 1) /\ PidAt(p) + 2 = f + (Len(a) + 2)
    BY <1>2, <1>3, <1>6, <2>1
  <2>3. /\ e[f + (Len(a) + 1)] = z[Len(a) + 1] /\ z[Len(a) + 1] = b[1]
        /\ e[f + (Len(a) + 2)] = z[Len(a) + 2] /\ z[Len(a) + 2] = b[2]
    BY <1>2, <1>3, <2>2
  <2> QED
    BY <1>5, <1>11, <2>2, <2>3
<1>12. ASSUME NEW i \in 1..Len(c) PROVE e[PropAt(p) + i] = c[i]
  <2>1. Len(a) + Len(b) + i \in 1..Len(z) /\ PropAt(p) + i = f + (Len(a) + Len(b) + i)
    BY <1>2, <1>3, <1>6
  <2> QED
    BY <1>2, <1>3, <2>1
<1>13. ASSUME NEW i \in 1..Len(d) PROVE e[PropAt(p) + Len(c) + i] = d[i]
  <2>1. /\ Len(a) + Len(b) + Len(c) + i \in 1..Len(z)
        /\ PropAt(p) + Len(c) + i = f + (Len(a) + Len(b) + Len(c) + i)
    BY <1>2, <1>3, <1>6
  <2> QED
    BY <1>2, <1>3, <2>1
<1> QED
  BY <1>7, <1>8, <1>9, <1>10, <1>11, <1>12, <1>13 DEF e, f, t, c, d

\* read_str() on a beginning of a PUBLISH: the topic if it is there, and
\* InsufficientBytes until it is.
LEMMA TopicRead ==
  ASSUME NEW p, Framed(p), p.typ = "Publish",
         NEW b, Begins(b, Encode(p)), Fixed(p) <= Len(b)
  PROVE  /\ PidAt(p) \in Nat /\ PidAt(p) = Fixed(p) + 2 + Len(p.topic_name)
         /\ Len(b) >= PidAt(p) => read_str(b, Fixed(p)) = Ok(p.topic_name, PidAt(p))
         /\ Len(b) < PidAt(p) => read_str(b, Fixed(p)).err = "InsufficientBytes"
<1> DEFINE f == Fixed(p)
           t == Len(p.topic_name)
           w == p.topic_name
           e == Encode(p)
<1>1. /\ t \in Nat /\ e[f + 1] = t \div 256 /\ e[f + 2] = t % 256
      /\ \A i \in 1..t : e[f + 2 + i] = w[i]
  BY PublishLayout, ZenonT(30)
<1>2. /\ w \in Seq(Byte) /\ t < 256 * 256 /\ \A i \in DOMAIN w : w[i] < 128
  BY DEF Framed, WellFormed
<1>3. /\ b \in Seq(Byte) /\ Len(b) \in Nat /\ \A i \in 1..Len(b) : b[i] = e[i]
  BY LenProperties DEF Begins
<1>4. f \in 2..5
  BY FramedHeader, Encoded
<1>5. PidAt(p) = f + 2 + t /\ PidAt(p) \in Nat
  BY <1>1, <1>4 DEF PidAt
<1> DEFINE u == read_u16(b, f)
           s == read_slice(b, f)
<1>6. CASE Len(b) < f + 2
  <2>1. u = Fail("InsufficientBytes", f)
    BY <1>3, <1>4, <1>6, ReadU16
  <2>2. u.err = "InsufficientBytes"
    BY <2>1 DEF Fail
  <2>3. s = u
    BY <2>2 DEF read_slice, Try
  <2>4. read_str(b, f) = s
    BY <2>2, <2>3 DEF read_str, Try
  <2>5. Len(b) < PidAt(p) /\ ~(Len(b) >= PidAt(p))
    BY <1>1, <1>3, <1>4, <1>5, <1>6
  <2> QED
    BY <1>5, <2>2, <2>3, <2>4, <2>5
<1>7. CASE ~(Len(b) < f + 2)
  <2>1. f + 1 \in 1..Len(b) /\ f + 2 \in 1..Len(b) /\ f + 2 <= Len(b) /\ f \in Nat
    BY <1>3, <1>4, <1>7
  <2>2. b[f + 1] = t \div 256 /\ b[f + 2] = t % 256
    BY <1>1, <1>3, <2>1
  <2>3. u = Ok(t, f + 2)
    BY <1>1, <1>2, <1>3, <2>1, <2>2, ReadU16
  <2>4. u.err = "none" /\ u.val = t /\ u.at = f + 2
    BY <2>3 DEF Ok
  <2>5. s = IF check_remaining(b, f + 2, t)
            THEN Ok(SubSeq(b, (f + 2) + 1, (f + 2) + t), (f + 2) + t)
            ELSE Fail("InsufficientBytes", f + 2)
    BY <2>4 DEF read_slice, Try
  <2>6. check_remaining(b, f + 2, t) <=> Len(b) >= PidAt(p)
    BY <1>1, <1>3, <1>4, <1>5 DEF check_remaining
  <2>7. CASE Len(b) >= PidAt(p)
    <3>1. ASSUME NEW i \in 1..t PROVE b[(f + 2) + i] = w[i]
      <4>1. (f + 2) + i \in 1..Len(b)
        BY <1>1, <1>3, <1>4, <1>5, <2>7
      <4> QED
        BY <1>1, <1>3, <4>1
    <3>2. SubSeq(b, (f + 2) + 1, (f + 2) + t) = w
      <4>1. f + 2 \in Nat /\ (f + 2) + t <= Len(b)
        BY <1>1, <1>3, <1>4, <1>5, <2>7
      <4> QED
        BY <1>2, <1>3, <3>1, <4>1, SliceIs
    <3>3. s = Ok(w, PidAt(p))
      BY <1>5, <2>5, <2>6, <2>7, <3>2
    <3>4. s.err = "none" /\ s.val = w /\ s.at = PidAt(p)
      BY <3>3 DEF Ok
    <3>5. read_str(b, f) = IF \A k \in DOMAIN w : w[k] < 128 THEN Ok(w, PidAt(p))
                           ELSE Fail("InvalidString", PidAt(p))
      BY <3>4, Zenon DEF read_str, Try
    <3>6. ~(Len(b) < PidAt(p))
      BY <1>3, <1>5, <2>7
    <3> QED
      BY <1>2, <1>5, <2>7, <3>5, <3>6
  <2>8. CASE ~(Len(b) >= PidAt(p))
    <3>1. s = Fail("InsufficientBytes", f + 2)
      BY <2>5, <2>6, <2>8
    <3>2. s.err = "InsufficientBytes"
      BY <3>1 DEF Fail
    <3>3. read_str(b, f) = s
      BY <3>2 DEF read_str, Try
    <3> QED
      BY <1>5, <2>8, <3>2, <3>3
  <2> QED
    BY <2>7, <2>8
<1> QED
  BY <1>6, <1>7

\* read_pid() behind the topic of a PUBLISH.
LEMMA PidRead ==
  ASSUME NEW p, Framed(p), p.typ = "Publish", p.qos # 0,
         NEW b, Begins(b, Encode(p)), PidAt(p) + 2 <= Len(b)
  PROVE  read_pid(b, PidAt(p)) = Ok(p.pid, PidAt(p) + 2)
<1> DEFINE j == PidAt(p)
           e == Encode(p)
           u == read_u16(b, j)
<1>1. e[j + 1] = p.pid \div 256 /\ e[j + 2] = p.pid % 256 /\ Len(p.topic_name) \in Nat
  BY PublishLayout
<1>2. p.pid \in Nat /\ p.pid # 0 /\ p.pid < 256 * 256
  BY DEF Framed, WellFormed
<1>3. /\ b \in Seq(Byte) /\ Len(b) \in Nat /\ \A i \in 1..Len(b) : b[i] = e[i]
  BY LenProperties DEF Begins
<1>4. j \in Nat
  <2>1. Fixed(p) \in 2..5
    BY FramedHeader, Encoded
  <2> QED
    BY <1>1, <2>1 DEF PidAt
<1> HIDE DEF j
<1>5. j + 1 \in 1..Len(b) /\ j + 2 \in 1..Len(b) /\ j + 2 <= Len(b)
  BY <1>3, <1>4 DEF j
<1>6. b[j + 1] = p.pid \div 256 /\ b[j + 2] = p.pid % 256
  BY <1>1, <1>3, <1>5
<1>7. u = Ok(p.pid, j + 2)
  BY <1>2, <1>3, <1>4, <1>5, <1>6, ReadU16
<1>8. u.err = "none" /\ u.val = p.pid /\ u.at = j + 2
  BY <1>7 DEF Ok
<1>9. read_pid(b, j) = Ok(p.pid, j + 2)
  BY <1>2, <1>8 DEF read_pid, Try
<1> QED
  BY <1>9 DEF j

\* try_parse_header() on what the buffer holds of a packet.
LEMMA ParseHeader ==
  ASSUME NEW p, Framed(p), Begins(buf, Encode(p))
  PROVE  /\ Len(buf) < HeaderLen(p) => try_parse_header.err = "InsufficientBytes"
         /\ Len(buf) >= HeaderLen(p) =>
              try_parse_header.err = "none" /\ try_parse_header.val = Len(Encode(p))
<1> DEFINE f == Fixed(p)
           n == try_new(buf)
           h == try_parse_header
<1>1. /\ Headed(p) /\ (flags(p) % 8) \div 2 # 3 /\ HeaderLen(p) \in Nat /\ f <= HeaderLen(p)
      /\ p.typ # "Publish" => HeaderLen(p) = f
      /\ p.typ = "Publish" => HeaderLen(p) = f + 2 + Len(p.topic_name) + 2
  BY FramedHeader
<1>2. f \in 2..5
  BY <1>1, Encoded
<1>3. Len(buf) \in Nat
  BY LenProperties DEF Begins
<1>4. CASE Len(buf) < f
  <2>1. n.err = "InsufficientBytes"
    BY <1>1, <1>4, HeaderRead
  <2>2. h = n
    BY <2>1 DEF try_parse_header, Try
  <2>3. Len(buf) < HeaderLen(p) /\ ~(Len(buf) >= HeaderLen(p))
    BY <1>1, <1>2, <1>3, <1>4
  <2> QED
    BY <2>1, <2>2, <2>3
<1>5. CASE ~(Len(buf) < f)
  <2>1. Len(buf) >= f
    BY <1>2, <1>3, <1>5
  <2>2. n = Ok([typ |-> p.typ, dup |-> flags(p) >= 8, qos |-> (flags(p) % 8) \div 2,
                retain |-> flags(p) % 2 = 1, remaining_len |-> Len(Body(p)),
                packet_len |-> Len(Encode(p))], f)
    BY <1>1, <2>1, HeaderRead
  <2>3. /\ n.err = "none" /\ n.at = f /\ n.val.typ = p.typ /\ n.val.packet_len = Len(Encode(p))
    BY <2>2 DEF Ok
  <2>4. h = IF p.typ # "Publish" THEN Ok(Len(Encode(p)), f)
            ELSE IF read_str(buf, f).err = "none"
                 THEN IF check_remaining(buf, read_str(buf, f).at, 2)
                      THEN Ok(Len(Encode(p)), read_str(buf, f).at)
                      ELSE Fail("InsufficientBytes", read_str(buf, f).at)
                 ELSE read_str(buf, f)
    BY <2>3 DEF try_parse_header, Try
  <2> HIDE DEF h, n
  <2>5. CASE p.typ # "Publish"
    <3>1. h = Ok(Len(Encode(p)), f)
      BY <2>4, <2>5
    <3>2. h.err = "none" /\ h.val = Len(Encode(p))
      BY <3>1 DEF Ok
    <3> QED
      BY <1>1, <1>2, <1>3, <2>1, <2>5, <3>2 DEF h
  <2>6. CASE p.typ = "Publish"
    <3> DEFINE r == read_str(buf, f)
               j == PidAt(p)
    <3>1. /\ j \in Nat /\ HeaderLen(p) = j + 2
          /\ Len(buf) >= j => r = Ok(p.topic_name, j)
          /\ Len(buf) < j => r.err = "InsufficientBytes"
      <4>1. /\ j \in Nat /\ j = f + 2 + Len(p.topic_name)
            /\ Len(buf) >= j => r = Ok(p.topic_name, j)
            /\ Len(buf) < j => r.err = "InsufficientBytes"
        BY <2>1, <2>6, TopicRead
      <4> QED
        BY <1>1, <2>6, <4>1
    <3>2. check_remaining(buf, j, 2) <=> Len(buf) >= HeaderLen(p)
      BY <1>3, <3>1 DEF check_remaining
    <3> HIDE DEF r, j
    <3>3. h = IF r.err = "none" THEN IF check_remaining(buf, r.at, 2)
                                     THEN Ok(Len(Encode(p)), r.at)
                                     ELSE Fail("InsufficientBytes", r.at)
              ELSE r
      BY <2>4, <2>6 DEF r
    <3>4. CASE Len(buf) < j
      <4>1. r.err = "InsufficientBytes" /\ h = r
        BY <3>1, <3>3, <3>4
      <4>2. ~(Len(buf) >= HeaderLen(p))
        BY <1>3, <3>1, <3>4
      <4> QED
        BY <4>1, <4>2 DEF h
    <3>5. CASE Len(buf) >= j
      <4>1. r.err = "none" /\ r.at = j
        BY <3>1, <3>5 DEF Ok
      <4>2. CASE Len(buf) >= HeaderLen(p)
        <5>1. h = Ok(Len(Encode(p)), j)
          BY <3>2, <3>3, <4>1, <4>2
        <5>2. h.err = "none" /\ h.val = Len(Encode(p)) /\ ~(Len(buf) < HeaderLen(p))
          BY <1>3, <3>1, <4>2, <5>1 DEF Ok
        <5> QED
          BY <5>2 DEF h
      <4>3. CASE ~(Len(buf) >= HeaderLen(p))
        <5>1. h = Fail("InsufficientBytes", j)
          BY <3>2, <3>3, <4>1, <4>3
        <5>2. h.err = "InsufficientBytes"
          BY <5>1 DEF Fail
        <5> QED
          BY <4>3, <5>2 DEF h
      <4> QED
        BY <4>2, <4>3
    <3> QED
      BY <1>3, <3>1, <3>4, <3>5
  <2> QED
    BY <2>5, <2>6
<1> QED
  BY <1>4, <1>5

\* What from_buffer() makes of the beginning of a PUBLISH.
LEMMA DecodePublish ==
  ASSUME NEW p, Framed(p), p.typ = "Publish",
         NEW b, Begins(b, Encode(p)), HeaderLen(p) <= Len(b)
  PROVE  LET r == from_buffer(b)
         IN  /\ r.err = "none" /\ r.val.typ = "PartialPublish"
             /\ r.val.buf = b /\ r.val.packet_len = Len(Encode(p))
<1> DEFINE f == Fixed(p)
           n == try_new(b)
           r == from_buffer(b)
           j == PidAt(p)
           E == Len(Encode(p))
<1>1. /\ Headed(p) /\ (flags(p) % 8) \div 2 # 3 /\ HeaderLen(p) \in Nat /\ f <= HeaderLen(p)
      /\ HeaderLen(p) = f + 2 + Len(p.topic_name) + 2
      /\ (flags(p) % 8) \div 2 = p.qos
  BY FramedHeader
<1>2. f \in 2..5 /\ E \in Nat
  BY <1>1, Encoded, LenProperties
<1>3. Len(b) \in Nat /\ b \in Seq(Byte) /\ Len(b) <= E
  BY LenProperties DEF Begins
<1>4. Len(b) >= f /\ f <= Len(b)
  BY <1>1, <1>2, <1>3
<1>5. n = Ok([typ |-> p.typ, dup |-> flags(p) >= 8, qos |-> (flags(p) % 8) \div 2,
              retain |-> flags(p) % 2 = 1, remaining_len |-> Len(Body(p)),
              packet_len |-> E], f)
  BY <1>1, <1>4, HeaderRead
<1> DEFINE d == n.val
<1>6. /\ n.err = "none" /\ n.at = f /\ d.typ = "Publish" /\ d.packet_len = E /\ d.qos = p.qos
  BY <1>1, <1>5 DEF Ok
<1>7. r = PartialPublish(d, b, f)
  BY <1>6 DEF from_buffer, Try
<1>8. /\ j \in Nat /\ HeaderLen(p) = j + 2 /\ read_str(b, f) = Ok(p.topic_name, j)
  <2>1. /\ j \in Nat /\ j = f + 2 + Len(p.topic_name)
        /\ Len(b) >= j => read_str(b, f) = Ok(p.topic_name, j)
    BY <1>4, TopicRead
  <2>2. HeaderLen(p) = j + 2
    BY <1>1, <2>1
  <2>3. Len(b) >= j
    BY <1>3, <2>1, <2>2
  <2> QED
    BY <2>1, <2>2, <2>3
<1> DEFINE s == read_str(b, f)
           q == read_pid(b, j)
<1>9. s.err = "none" /\ s.val = p.topic_name /\ s.at = j
  BY <1>8 DEF Ok
<1>10. p.qos # 0 => q.err = "none" /\ q.val = p.pid
  <2> SUFFICES ASSUME p.qos # 0 PROVE q.err = "none" /\ q.val = p.pid
    OBVIOUS
  <2>1. j + 2 <= Len(b)
    BY <1>8
  <2>2. q = Ok(p.pid, j + 2)
    BY <2>1, PidRead
  <2> QED
    BY <2>2 DEF Ok
<1> DEFINE part_(pid) ==
         [typ |-> "PartialPublish", qos |-> d.qos, pid |-> pid,
          topic_name |-> s.val, packet_len |-> d.packet_len,
          buf |-> SubSeq(b, 1, Min({d.packet_len, Len(b)}))]
<1>11. r = IF p.qos = 0 THEN Ok(part_(NoPid), j) ELSE Ok(part_(q.val), q.at)
  <2> HIDE DEF n
  <2> QED
    BY <1>6, <1>7, <1>9, <1>10 DEF PartialPublish, Try
<1>12. SubSeq(b, 1, Min({E, Len(b)})) = b
  <2>1. Min({E, Len(b)}) = Len(b)
    BY <1>2, <1>3, MinOfTwo
  <2> QED
    BY <1>3, <2>1, SubSeqFull
<1>13. \A pid : /\ part_(pid).typ = "PartialPublish" /\ part_(pid).packet_len = E
                /\ part_(pid).buf = b
  BY <1>6, <1>12
<1> HIDE DEF part_
<1> QED
  BY <1>11, <1>13 DEF Ok

\* from_buffer() makes a PartialPublish of a PUBLISH only.
LEMMA DecodeOther ==
  ASSUME NEW p, Framed(p), p.typ # "Publish"
  PROVE  LET r == from_buffer(Encode(p)) IN r.err = "none" => r.val.typ # "PartialPublish"
<1> DEFINE b == Encode(p)
           n == try_new(b)
           d == n.val
           f == Fixed(p)
<1>1. /\ Headed(p) /\ (flags(p) % 8) \div 2 # 3
  BY FramedHeader
<1>2. b \in Seq(Byte) /\ Len(b) \in Nat /\ Len(b) >= f /\ Begins(b, b)
  <2>1. b \in Seq(Byte) /\ f \in 2..5 /\ Len(Body(p)) \in Nat /\ Len(b) = f + Len(Body(p))
    BY <1>1, Encoded
  <2>2. Len(b) \in Nat /\ Len(b) >= f
    BY <2>1
  <2> QED
    BY <2>1, <2>2 DEF Begins
<1>3. n = Ok([typ |-> p.typ, dup |-> flags(p) >= 8, qos |-> (flags(p) % 8) \div 2,
              retain |-> flags(p) % 2 = 1, remaining_len |-> Len(Body(p)),
              packet_len |-> Len(b)], f)
  BY <1>1, <1>2, HeaderRead
<1>4. n.err = "none" /\ d.typ = p.typ
  BY <1>3 DEF Ok
<1> DEFINE r == from_buffer(b)
<1>5. r = CASE d.typ = "Disconnect" -> DisconnectFromDecoder(d, b, n.at)
            [] d.typ = "PingResp"   -> Ok(PingResp, n.at)
            [] d.typ = "ConnAck"    -> ConnAckFromDecoder(d, b, n.at)
            [] d.typ = "Publish"    -> PartialPublish(d, b, n.at)
            [] d.typ = "PubAck"     -> PubAckFromDecoder(d, b, n.at)
            [] d.typ = "PubRec"     -> PubRecFromDecoder(d, b, n.at)
            [] d.typ = "PubRel"     -> PubRelFromDecoder(d, b, n.at)
            [] d.typ = "PubComp"    -> PubCompFromDecoder(d, b, n.at)
            [] d.typ = "SubAck"     -> SubAckFromDecoder(d, b, n.at)
            [] d.typ = "UnsubAck"   -> UnsubAckFromDecoder(d, b, n.at)
            [] OTHER                -> Fail("InvalidHeader", n.at)
  BY <1>4 DEF from_buffer, Try
<1> HIDE DEF r, n
<1>6. r.err = "none" => r.val.typ # "PartialPublish"
  <2>1. CASE d.typ \in {"Disconnect", "ConnAck", "SubAck", "UnsubAck"}
    BY <1>5, <2>1, DecodersType
  <2>2. CASE d.typ \in {"PubAck", "PubRec", "PubRel", "PubComp"}
    <3>1. CASE d.typ = "PubAck"
      <4>1. r = AckFromDecoder("PubAck", PubAckReasonCode, d, b, n.at)
        BY <1>5, <3>1 DEF PubAckFromDecoder
      <4>2. r.err = "none" => r.val.typ = "PubAck"
        BY <4>1, AckType
      <4> QED
        BY <4>2
    <3>2. CASE d.typ = "PubRec"
      <4>1. r = AckFromDecoder("PubRec", PubRecReasonCode, d, b, n.at)
        BY <1>5, <3>2 DEF PubRecFromDecoder
      <4>2. r.err = "none" => r.val.typ = "PubRec"
        BY <4>1, AckType
      <4> QED
        BY <4>2
    <3>3. CASE d.typ = "PubRel"
      <4>1. r = AckFromDecoder("PubRel", PubRelReasonCode, d, b, n.at)
        BY <1>5, <3>3 DEF PubRelFromDecoder
      <4>2. r.err = "none" => r.val.typ = "PubRel"
        BY <4>1, AckType
      <4> QED
        BY <4>2
    <3>4. CASE d.typ = "PubComp"
      <4>1. r = AckFromDecoder("PubComp", PubCompReasonCode, d, b, n.at)
        BY <1>5, <3>4 DEF PubCompFromDecoder
      <4>2. r.err = "none" => r.val.typ = "PubComp"
        BY <4>1, AckType
      <4> QED
        BY <4>2
    <3> QED
      BY <2>2, <3>1, <3>2, <3>3, <3>4
  <2>3. CASE d.typ = "PingResp"
    BY <1>5, <2>3 DEF PingResp, Ok
  <2>4. CASE d.typ \notin {"Disconnect", "ConnAck", "SubAck", "UnsubAck", "PubAck",
                          "PubRec", "PubRel", "PubComp", "PingResp"}
    BY <1>4, <1>5, <2>4 DEF Fail
  <2> QED
    BY <2>1, <2>2, <2>3, <2>4
<1> QED
  BY <1>6 DEF r

-----------------------------------------------------------------------------
(* The inductive invariant *)

\* Where the packet begins that is being received, and that packet.
Handled == Start(script, Len(rx))
Current == script[Len(rx) + 1]

\* b holds what was read of it.
Inside(b) ==
  Len(rx) < Len(script) /\ Begins(b, Encode(Current)) /\ taken = Handled + Len(b)

\* The types, with the stream cut only where it is allowed and a connection
\* that was not yet accepted without any packet received.
Static ==
  /\ script \in Scripts /\ arrived \in CutsOf[script] \cup {0}
  /\ taken \in Nat /\ taken <= arrived
  /\ rx \in Seq(Range(rx)) /\ Len(rx) <= Len(script)
  /\ buf \in Seq(Byte) /\ Len(buf) <= READ_BUF_LEN
  /\ packet_len = None \/ \E n \in Nat : packet_len = Some(n)
  /\ pc \in {"idle", "read", "wait", "pending", "decode", "copy", "discard",
             "panic", "stopped"}
  /\ connected \in BOOLEAN /\ (~connected => rx = <<>>)

\* Between two packets.
Between == (pc = "idle" /\ packet_len # None) => taken = Handled

\* In a header, or at its end when read_chunk() is about to look at it.
InHeader ==
  (pc \in {"idle", "read", "wait", "pending"} /\ packet_len = None) =>
    \/ buf = <<>> /\ taken = Handled
    \/ /\ Inside(buf)
       /\ Len(buf) < HeaderLen(Current) \/ (pc = "read" /\ Len(buf) = HeaderLen(Current))

\* A receive that is dropped has not yet seen a length.
NoLength == pc \in {"read", "pending"} => packet_len = None

\* Behind the header, with more bytes to come: the socket has some.
BehindHeader ==
  (pc = "wait" /\ packet_len # None) =>
    /\ Inside(buf) /\ packet_len = Some(Len(Encode(Current)))
    /\ Len(buf) = HeaderLen(Current)
    /\ Len(buf) < Len(Encode(Current)) /\ Len(buf) < READ_BUF_LEN
    /\ taken < arrived

\* What is decoded is a whole packet, or the PUBLISH up to its packet id.
Decodes ==
  pc = "decode" =>
    /\ Inside(buf) /\ packet_len = Some(Len(Encode(Current)))
    /\ IF Current.typ = "Publish" THEN HeaderLen(Current) <= Len(buf)
                                  ELSE Len(buf) = Len(Encode(Current))

\* What copy_all() has is a beginning of the PUBLISH.
Copies ==
  pc \in {"copy", "discard"} =>
    /\ connected /\ packet_len # None
    /\ part \in [buf : Seq(Byte), packet_len : Nat]
    /\ Inside(part.buf) /\ Current.typ = "Publish"
    /\ part.packet_len = Len(Encode(Current))

\* The inductive invariant: one conjunct for every place the reader may be at.
IInv == Static /\ Between /\ InHeader /\ NoLength /\ BehindHeader /\ Decodes /\ Copies

\* The facts about the stream that hold in every state.  Whoever is between
\* two packets and sees a byte has a packet to read.
LEMMA Always ==
  ASSUME FramedScripts, ~AnyCut, Static
  PROVE  /\ arrived \in Nat /\ taken \in Nat /\ arrived <= Len(Stream)
         /\ Stream \in Seq(Byte) /\ Len(Stream) \in Nat
         /\ Len(rx) \in Nat /\ Len(script) \in Nat /\ Len(buf) \in Nat
         /\ READ_BUF_LEN \in Nat /\ READ_BUF_LEN > 0
         /\ Handled \in Nat
         /\ (taken = Handled /\ taken < arrived) => Len(rx) < Len(script)
<1>1. /\ script \in Scripts /\ arrived \in CutsOf[script] \cup {0} /\ taken \in Nat
      /\ rx \in Seq(Range(rx)) /\ Len(rx) <= Len(script) /\ buf \in Seq(Byte)
  BY DEF Static
<1>2. /\ Len(script) \in Nat /\ Stream = Bytes(script) /\ Stream \in Seq(Byte) /\ Len(Stream) \in Nat
      /\ Start(script, Len(script)) = Len(Stream)
      /\ \A n \in 0..Len(script) : Start(script, n) \in Nat
  BY <1>1, ScriptBytes DEF Stream
<1>3. Len(rx) \in Nat /\ Len(buf) \in Nat
  BY <1>1, LenProperties
<1>4. arrived \in Nat /\ arrived <= Len(Stream)
  <2>1. CASE arrived = 0
    BY <1>2, <2>1
  <2>2. CASE arrived \in CutsOf[script]
    BY <1>1, <1>2, <2>2, CutsSafe
  <2> QED
    BY <1>1, <2>1, <2>2
<1>5. READ_BUF_LEN \in Nat /\ READ_BUF_LEN > 0
  BY TopicLenAssumption DEF READ_BUF_LEN, MAX_MQTT_HEADER_LEN
<1>6. Handled \in Nat
  BY <1>1, <1>2, <1>3 DEF Handled
<1>7. ASSUME taken = Handled, taken < arrived PROVE Len(rx) < Len(script)
  <2> SUFFICES ASSUME Len(rx) = Len(script) PROVE FALSE
    BY <1>1, <1>2, <1>3
  <2>1. Handled = Len(Stream)
    BY <1>2 DEF Handled
  <2> QED
    BY <1>1, <1>2, <1>4, <1>7, <2>1
<1> QED
  BY <1>1, <1>2, <1>3, <1>4, <1>5, <1>6, <1>7

\* The facts about the packet that is being received.  What has arrived of it
\* ends in the header, at the end, or in the payload of a PUBLISH.
LEMMA Here ==
  ASSUME FramedScripts, ~AnyCut, Static, Len(rx) < Len(script)
  PROVE  LET p == Current
             E == Len(Encode(p))
             H == HeaderLen(p)
         IN  /\ Framed(p) /\ E \in Nat /\ H \in Nat /\ 2 <= H /\ H <= E /\ H <= READ_BUF_LEN
             /\ p.typ # "Publish" => E <= READ_BUF_LEN
             /\ Start(script, Len(rx) + 1) = Handled + E
             /\ Handled + E <= Len(Stream)
             /\ \A i \in 1..E : Stream[Handled + i] = Encode(p)[i]
             /\ Handled + H <= arrived /\ arrived < Handled + E =>
                  p.typ = "Publish" /\ Handled + H < arrived
             /\ p.typ = "ConnAck" /\ Handled < arrived => Handled + E <= arrived
<1> DEFINE p == Current
           E == Len(Encode(p))
           H == HeaderLen(p)
           k == Len(rx) + 1
<1>1. /\ arrived \in Nat /\ Len(rx) \in Nat /\ Len(script) \in Nat /\ Handled \in Nat
      /\ script \in Scripts /\ arrived \in CutsOf[script] \cup {0}
  BY Always DEF Static
<1>2. k \in 1..Len(script) /\ k \in 0..Len(script) /\ k - 1 = Len(rx) /\ p = script[k]
  BY <1>1 DEF Current
<1>3. Framed(p)
  BY <1>1, <1>2, ScriptBytes
<1>4. /\ H \in Nat /\ 2 <= H /\ H <= E /\ H <= READ_BUF_LEN /\ Headed(p)
      /\ p.typ # "Publish" => E <= READ_BUF_LEN
  BY <1>3, FramedHeader
<1>5. E \in Nat
  BY <1>4, Encoded, LenProperties
<1>6. /\ Start(script, k) = Start(script, k - 1) + E /\ Start(script, k) <= Len(Bytes(script))
      /\ \A i \in 1..E : Bytes(script)[Start(script, k - 1) + i] = Encode(p)[i]
      /\ StreamOf[script] = Bytes(script)
  BY <1>1, <1>2, ScriptBytes
<1>7. Start(script, k - 1) = Handled
  BY <1>2 DEF Handled
<1>8. /\ Handled + H <= arrived /\ arrived < Handled + E => p.typ = "Publish" /\ Handled + H < arrived
      /\ p.typ = "ConnAck" /\ Handled < arrived => Handled + E <= arrived
  <2>1. CASE arrived = 0
    BY <1>1, <1>4, <2>1
  <2>2. CASE arrived \in CutsOf[script]
    <3>1. /\ Start(script, k - 1) + HeaderLen(script[k]) <= arrived /\ arrived < Start(script, k) =>
               script[k].typ = "Publish" /\ Start(script, k - 1) + HeaderLen(script[k]) < arrived
          /\ script[k].typ = "ConnAck" /\ Start(script, k - 1) < arrived => Start(script, k) <= arrived
      BY <1>1, <1>2, <2>2, CutsSafe
    <3>2. Start(script, k) = Handled + E
      BY <1>6, <1>7
    <3> QED
      BY <1>2, <1>7, <3>1, <3>2
  <2> QED
    BY <1>1, <2>1, <2>2
<1> QED
  BY <1>3, <1>4, <1>5, <1>6, <1>7, <1>8 DEF Stream

\* What the socket returns goes on where the buffer ends.
LEMMA TakeMore ==
  ASSUME FramedScripts, ~AnyCut, Static, NEW b, Inside(b), NEW n \in Nat,
         n <= arrived - taken, Len(b) + n <= Len(Encode(Current))
  PROVE  /\ Begins(b \o Taken(n), Encode(Current)) /\ Len(b \o Taken(n)) = Len(b) + n
         /\ b \o Taken(n) \in Seq(Byte) /\ Len(b) \in Nat
<1> DEFINE e == Encode(Current)
           c == Taken(n)
<1>1. /\ arrived \in Nat /\ taken \in Nat /\ arrived <= Len(Stream) /\ Handled \in Nat
      /\ Stream \in Seq(Byte) /\ Len(Stream) \in Nat
  BY Always
<1>2. /\ Len(rx) < Len(script) /\ Begins(b, e) /\ taken = Handled + Len(b)
  BY DEF Inside
<1>3. /\ Len(e) \in Nat /\ \A i \in 1..Len(e) : Stream[Handled + i] = e[i]
  BY <1>2, Here
<1>4. Len(b) \in Nat
  BY <1>2, LenProperties DEF Begins
<1>5. \A i \in (taken + 1)..(taken + n) : Stream[i] \in Byte
  <2>1. \A i \in 1..Len(Stream) : Stream[i] \in Byte
    BY <1>1, ElementOfSeq
  <2> QED
    BY <1>1, <2>1
<1>6. /\ c \in Seq(Byte)
      /\ Len(c) = IF taken + 1 <= taken + n THEN (taken + n) - (taken + 1) + 1 ELSE 0
      /\ \A i \in 1..((taken + n) - (taken + 1) + 1) : c[i] = Stream[(taken + 1) + i - 1]
  BY <1>1, <1>5, SubSeqProperties DEF Taken
<1> HIDE DEF c
<1>7. Len(c) = n
  BY <1>1, <1>6
<1>8. ASSUME NEW i \in 1..n PROVE c[i] = e[Len(b) + i]
  <2>1. c[i] = Stream[taken + i]
    <3>1. i \in 1..((taken + n) - (taken + 1) + 1) /\ (taken + 1) + i - 1 = taken + i
      BY <1>1
    <3> QED
      BY <1>6, <3>1
  <2>2. Len(b) + i \in 1..Len(e) /\ taken + i = Handled + (Len(b) + i)
    BY <1>1, <1>2, <1>3, <1>4
  <2> QED
    BY <1>3, <2>1, <2>2
<1> HIDE DEF e
<1>9. Begins(b \o c, e) /\ Len(b \o c) = Len(b) + n
  <2>1. Len(b) + n <= Len(e)
    BY DEF e
  <2> QED
    BY <1>2, <1>3, <1>6, <1>7, <1>8, <2>1, BeginsMore
<1> QED
  BY <1>4, <1>9 DEF Begins, c, e

-----------------------------------------------------------------------------
(* The steps of the reader *)

\* A segment arrives.
LEMMA ArriveStep ==
  ASSUME FramedScripts, ~AnyCut, IInv, Arrive
  PROVE  IInv'
<1>1. /\ Static /\ arrived \in Nat /\ taken \in Nat
  BY Always DEF IInv
<1>2. PICK n \in CutsOf[script] : n > arrived /\ arrived' = n
  BY DEF Arrive
<1>3. n \in Nat
  BY <1>1, CutsSafe DEF Static
<1>4. UNCHANGED <<script, taken, buf, packet_len, pc, part, connected, rx>>
  BY DEF Arrive, reader
<1>5. arrived' \in CutsOf[script] \cup {0} /\ taken <= arrived'
  BY <1>1, <1>2, <1>3 DEF Static
<1>6. Static'
  BY <1>1, <1>4, <1>5 DEF Static
<1>7. taken < arrived => taken < arrived'
  BY <1>1, <1>2, <1>3
<1>8. \A b : Inside(b) => Inside(b)'
  BY <1>4 DEF Inside, Handled, Current
<1>9. (Between /\ InHeader /\ NoLength /\ Decodes /\ Copies)'
  BY <1>4, <1>8 DEF IInv, Between, InHeader, NoLength, Decodes, Copies, Handled, Current, Inside
<1>10. BehindHeader'
  BY <1>4, <1>7 DEF IInv, BehindHeader, Handled, Current, Inside
<1> QED
  BY <1>6, <1>9, <1>10 DEF IInv

\* recv() starts: it drops a buffer whose packet was handled, and only such a
\* one.
LEMMA RecvStep ==
  ASSUME FramedScripts, ~AnyCut, IInv, recv
  PROVE  IInv'
<1>1. /\ pc = "idle" /\ pc' = "read"
      /\ UNCHANGED <<script, arrived, taken, part, connected, rx>>
      /\ IF packet_len # None THEN buf' = <<>> /\ packet_len' = None
         ELSE UNCHANGED <<buf, packet_len>>
  BY DEF recv, stream, reader, reset
<1>2. READ_BUF_LEN \in Nat /\ READ_BUF_LEN > 0
  BY Always DEF IInv
<1>3. CASE packet_len # None
  <2>1. buf' = <<>> /\ packet_len' = None
    BY <1>1, <1>3
  <2>2. taken = Handled
    BY <1>1, <1>3 DEF IInv, Between
  <2>3. buf' \in Seq(Byte) /\ Len(buf') <= READ_BUF_LEN
    <3>1. <<>> \in Seq(Byte) /\ Len(<<>>) = 0
      OBVIOUS
    <3> QED
      BY <1>2, <2>1, <3>1
  <2>4. Static'
    BY <1>1, <2>1, <2>3 DEF IInv, Static
  <2>5. InHeader'
    BY <1>1, <2>1, <2>2 DEF InHeader, Handled
  <2> QED
    BY <1>1, <2>1, <2>4, <2>5 DEF IInv, Between, NoLength, BehindHeader, Decodes, Copies
<1>4. CASE packet_len = None
  <2>1. buf' = buf /\ packet_len' = packet_len
    BY <1>1, <1>4
  <2>2. Static'
    BY <1>1, <2>1 DEF IInv, Static
  <2>3. InHeader'
    BY <1>1, <1>4, <2>1 DEF IInv, InHeader, Handled, Current, Inside
  <2> QED
    BY <1>1, <1>4, <2>1, <2>2, <2>3 DEF IInv, Between, NoLength, BehindHeader, Decodes, Copies
<1> QED
  BY <1>3, <1>4

\* The reader waits for a byte: it is at a cut, so it is not behind a header.
LEMMA PendStep ==
  ASSUME FramedScripts, ~AnyCut, IInv, Pend
  PROVE  IInv'
<1>1. /\ pc = "wait" /\ pc' = "pending" /\ arrived - taken = 0
      /\ UNCHANGED <<script, arrived, taken, buf, packet_len, part, connected, rx>>
  BY DEF Pend, stream, reader, Available
<1>2. arrived \in Nat /\ taken \in Nat
  BY Always DEF IInv
<1>3. packet_len = None
  <2>1. ~(taken < arrived)
    BY <1>1, <1>2
  <2> QED
    BY <1>1, <2>1 DEF IInv, BehindHeader
<1>4. Static'
  BY <1>1 DEF IInv, Static
<1>5. InHeader'
  BY <1>1, <1>3 DEF IInv, InHeader, Handled, Current, Inside
<1> QED
  BY <1>1, <1>3, <1>4, <1>5 DEF IInv, Between, NoLength, BehindHeader, Decodes, Copies

\* A pending receive is dropped: it has not seen a length.
LEMMA CancelStep ==
  ASSUME FramedScripts, ~AnyCut, IInv, Cancel
  PROVE  IInv'
<1>1. /\ pc = "pending" /\ pc' = "idle"
      /\ UNCHANGED <<script, arrived, taken, buf, packet_len, part, connected, rx>>
  BY DEF Cancel, stream, reader
<1>2. packet_len = None
  BY <1>1 DEF IInv, NoLength
<1>3. Static'
  BY <1>1 DEF IInv, Static
<1>4. InHeader'
  BY <1>1, <1>2 DEF IInv, InHeader, Handled, Current, Inside
<1> QED
  BY <1>1, <1>2, <1>3, <1>4 DEF IInv, Between, NoLength, BehindHeader, Decodes, Copies

\* What read_chunk() finds in the buffer.
LEMMA ReadChunkStep ==
  ASSUME FramedScripts, ~AnyCut, IInv, read_chunk
  PROVE  IInv'
<1> DEFINE head == try_parse_header
           len  == IF head.err = "none" THEN Some(head.val) ELSE None
           end  == Min({IF len = None THEN Len(buf) + 1 ELSE len[1], READ_BUF_LEN})
<1>1. /\ pc = "read" /\ UNCHANGED <<script, arrived, taken, part, connected, rx>>
      /\ IF head.err \notin {"none", "InsufficientBytes"} THEN reset /\ pc' = "broken"
         ELSE /\ packet_len' = len
              /\ buf' = buf
              /\ pc' = CASE end > Len(buf) -> "wait"
                         [] end < Len(buf) -> "panic"
                         [] end = Len(buf) /\ len # None -> "decode"
                         [] OTHER -> "read"
  BY DEF read_chunk, stream
<1>2. /\ READ_BUF_LEN \in Nat /\ READ_BUF_LEN > 0 /\ Len(buf) \in Nat
      /\ Len(rx) \in Nat /\ Len(script) \in Nat /\ Handled \in Nat /\ taken \in Nat
      /\ arrived \in Nat /\ taken <= arrived
  BY Always DEF IInv, Static
<1>3. packet_len = None
  BY <1>1 DEF IInv, NoLength
<1>4. Len(rx) <= Len(script) /\ Static
  BY DEF IInv, Static
\* Nothing read yet, and nothing to come.
<1>5. CASE ~(Len(rx) < Len(script))
  <2>1. buf = <<>> /\ taken = Handled
    BY <1>1, <1>3, <1>5 DEF IInv, InHeader, Inside
  <2>2. head.err = "InsufficientBytes"
    <3>1. Len(buf) < 2
      BY <2>1
    <3>2. try_new(buf) = Fail("InsufficientBytes", 0)
      BY <3>1, Zenon DEF try_new
    <3>3. try_new(buf).err = "InsufficientBytes"
      BY <3>2 DEF Fail
    <3> QED
      BY <3>3 DEF try_parse_header, Try
  <2> HIDE DEF head
  <2>3. len = None
    BY <2>2
  <2>4. end > Len(buf) /\ ~(end < Len(buf)) /\ ~(end = Len(buf))
    <3>1. Len(buf) = 0
      BY <2>1
    <3>2. end = Min({1, READ_BUF_LEN})
      BY <2>3, <3>1
    <3>3. end = IF 1 <= READ_BUF_LEN THEN 1 ELSE READ_BUF_LEN
      BY <1>2, <3>2, MinOfTwo
    <3> QED
      BY <1>2, <3>1, <3>3
  <2>5. packet_len' = None /\ buf' = buf /\ pc' = "wait"
    <3> HIDE DEF end, len
    <3> QED
      BY <1>1, <2>2, <2>3, <2>4
  <2>6. Static'
    BY <1>1, <1>4, <2>5 DEF Static
  <2>7. InHeader'
    BY <1>1, <2>1, <2>5 DEF InHeader, Handled
  <2> QED
    BY <2>5, <2>6, <2>7 DEF IInv, Between, NoLength, BehindHeader, Decodes, Copies
<1>6. CASE Len(rx) < Len(script)
  <2> DEFINE p == Current
             E == Len(Encode(p))
             H == HeaderLen(p)
  <2>1. /\ Framed(p) /\ E \in Nat /\ H \in Nat /\ 2 <= H /\ H <= E /\ H <= READ_BUF_LEN
        /\ p.typ # "Publish" => E <= READ_BUF_LEN
        /\ Handled + H <= arrived /\ arrived < Handled + E =>
             p.typ = "Publish" /\ Handled + H < arrived
    BY <1>4, <1>6, Here
  <2>2. Inside(buf) /\ (Len(buf) < H \/ Len(buf) = H)
    <3>1. CASE buf = <<>> /\ taken = Handled
      <4>1. Len(buf) = 0 /\ buf \in Seq(Byte)
        BY <3>1
      <4>2. Begins(buf, Encode(p))
        BY <2>1, <4>1 DEF Begins
      <4> QED
        BY <1>2, <1>6, <2>1, <3>1, <4>1, <4>2 DEF Inside
    <3>2. CASE Inside(buf) /\ (Len(buf) < H \/ Len(buf) = H)
      BY <3>2
    <3> QED
      BY <1>1, <1>3, <3>1, <3>2 DEF IInv, InHeader
  <2>3. Begins(buf, Encode(p)) /\ taken = Handled + Len(buf)
    BY <2>2 DEF Inside
  <2>4. /\ Len(buf) < H => head.err = "InsufficientBytes"
        /\ Len(buf) >= H => head.err = "none" /\ head.val = E
    BY <2>1, <2>3, ParseHeader
  <2>10. /\ head.err \in {"none", "InsufficientBytes"}
    BY <1>2, <2>1, <2>4
  <2> HIDE DEF head
  <2>5. /\ packet_len' = len /\ buf' = buf
        /\ pc' = CASE end > Len(buf) -> "wait"
                   [] end < Len(buf) -> "panic"
                   [] end = Len(buf) /\ len # None -> "decode"
                   [] OTHER -> "read"
    BY <1>1, <2>10
  <2> HIDE DEF p, E, H
  <2>6. CASE Len(buf) < H
    <3>1. len = None
      BY <2>4, <2>6
    <3>2. end > Len(buf) /\ ~(end < Len(buf)) /\ ~(end = Len(buf))
      <4>1. end = Min({Len(buf) + 1, READ_BUF_LEN})
        BY <3>1
      <4>2. Min({Len(buf) + 1, READ_BUF_LEN})
              = IF Len(buf) + 1 <= READ_BUF_LEN THEN Len(buf) + 1 ELSE READ_BUF_LEN
        BY <1>2, MinOfTwo
      <4> HIDE DEF end
      <4> QED
        BY <1>2, <2>1, <2>6, <4>1, <4>2
    <3>3. packet_len' = None /\ buf' = buf /\ pc' = "wait"
      <4> HIDE DEF end, len
      <4> QED
        BY <2>5, <3>1, <3>2
    <3>4. Static'
      BY <1>1, <1>4, <3>3 DEF Static
    <3>5. InHeader'
      BY <1>1, <2>2, <2>6, <3>3 DEF InHeader, Inside, Handled, Current, p, H
    <3> QED
      BY <3>3, <3>4, <3>5 DEF IInv, Between, NoLength, BehindHeader, Decodes, Copies
  <2>7. CASE Len(buf) = H
    <3>1. len = Some(E) /\ len # None /\ len[1] = E
      <4>1. head.err = "none" /\ head.val = E
        BY <1>2, <2>1, <2>4, <2>7
      <4>2. len = Some(E)
        BY <4>1
      <4> QED
        BY <4>2 DEF Some, None
    <3>2. end = IF E <= READ_BUF_LEN THEN E ELSE READ_BUF_LEN
      <4>1. end = Min({E, READ_BUF_LEN})
        BY <3>1
      <4> QED
        BY <1>2, <2>1, <4>1, MinOfTwo
    <3> HIDE DEF len, end
    <3>3. ~(end < Len(buf)) /\ end \in Nat
      BY <1>2, <2>1, <2>7, <3>2
    <3>4. CASE end > Len(buf)
      <4>1. packet_len' = Some(E) /\ buf' = buf /\ pc' = "wait"
        <5>1. ~(end = Len(buf))
          BY <1>2, <3>3, <3>4
        <5> QED
          BY <2>5, <3>1, <3>3, <3>4, <5>1
      <4>2. Len(buf) < E /\ Len(buf) < READ_BUF_LEN
        BY <1>2, <2>1, <3>2, <3>4
      <4>3. taken < arrived
        BY <1>2, <2>1, <2>3, <2>7, <4>2
      <4>4. Static'
        BY <1>1, <1>4, <2>1, <4>1 DEF Static
      <4>5. BehindHeader'
        BY <1>1, <2>2, <2>7, <4>1, <4>2, <4>3 DEF BehindHeader, Inside, Handled, Current, p, E, H
      <4>6. packet_len' # None
        BY <4>1 DEF Some, None
      <4> QED
        BY <4>1, <4>4, <4>5, <4>6 DEF IInv, Between, NoLength, InHeader, Decodes, Copies
    <3>5. CASE ~(end > Len(buf))
      <4>1. end = Len(buf)
        BY <1>2, <3>3, <3>5
      <4>2. packet_len' = Some(E) /\ buf' = buf /\ pc' = "decode"
        BY <2>5, <3>1, <3>3, <3>5, <4>1
      <4>3. p.typ # "Publish" => Len(buf) = E
        BY <2>1, <3>2, <4>1
      <4>4. H <= Len(buf)
        BY <2>1, <2>7
      <4>5. Static'
        BY <1>1, <1>4, <2>1, <4>2 DEF Static
      <4>6. Decodes'
        BY <1>1, <2>2, <4>2, <4>3, <4>4 DEF Decodes, Inside, Handled, Current, p, E, H
      <4> QED
        BY <4>2, <4>5, <4>6 DEF IInv, Between, NoLength, InHeader, BehindHeader, Copies
    <3> QED
      BY <3>4, <3>5
  <2> QED
    BY <2>2, <2>6, <2>7 DEF H
<1> QED
  BY <1>5, <1>6

\* read() takes what the socket has and the buffer has room for.
LEMMA ReadStep ==
  ASSUME FramedScripts, ~AnyCut, IInv, read
  PROVE  IInv'
<1> DEFINE end == Min({IF packet_len = None THEN Len(buf) + 1 ELSE packet_len[1], READ_BUF_LEN})
           n   == Min({end - Len(buf), arrived - taken})
<1>1. /\ pc \in {"wait", "pending"} /\ arrived - taken > 0
      /\ buf' = buf \o Taken(n) /\ taken' = taken + n
      /\ pc' = (IF packet_len = None THEN "read" ELSE "decode")
      /\ UNCHANGED <<script, arrived, packet_len, part, connected, rx>>
  BY DEF read, Available
<1>2. /\ READ_BUF_LEN \in Nat /\ READ_BUF_LEN > 0 /\ Len(buf) \in Nat
      /\ Len(rx) \in Nat /\ Len(script) \in Nat /\ Handled \in Nat /\ taken \in Nat
      /\ arrived \in Nat /\ taken <= arrived /\ Static
      /\ (taken = Handled /\ taken < arrived) => Len(rx) < Len(script)
  BY Always DEF IInv, Static
<1>3. Len(rx) < Len(script)
  <2>1. CASE packet_len = None
    <3>1. taken < arrived
      BY <1>1, <1>2
    <3>2. (buf = <<>> /\ taken = Handled) \/ Inside(buf)
      BY <1>1, <2>1 DEF IInv, InHeader
    <3> QED
      BY <1>2, <3>1, <3>2 DEF Inside
  <2>2. CASE packet_len # None
    <3>1. pc = "wait"
      BY <1>1, <2>2 DEF IInv, NoLength
    <3> QED
      BY <2>2, <3>1 DEF IInv, BehindHeader, Inside
  <2> QED
    BY <2>1, <2>2
<1> DEFINE p == Current
           E == Len(Encode(p))
           H == HeaderLen(p)
<1>4. /\ Framed(p) /\ E \in Nat /\ H \in Nat /\ 2 <= H /\ H <= E /\ H <= READ_BUF_LEN
      /\ p.typ # "Publish" => E <= READ_BUF_LEN
      /\ Handled + H <= arrived /\ arrived < Handled + E =>
           p.typ = "Publish" /\ Handled + H < arrived
  BY <1>2, <1>3, Here
\* Whatever is read goes on where the buffer ends.
<1>5. ASSUME n \in Nat, n <= arrived - taken, Inside(buf), Len(buf) + n <= E,
             Len(buf) + n <= READ_BUF_LEN
      PROVE  Static' /\ Inside(buf)' /\ Len(buf') = Len(buf) + n
  <2> HIDE DEF n
  <2>1. /\ Begins(buf', Encode(Current)) /\ Len(buf') = Len(buf) + n /\ buf' \in Seq(Byte)
    BY <1>1, <1>2, <1>5, TakeMore
  <2>2. taken' = Handled + Len(buf')
    BY <1>1, <1>2, <1>5, <2>1 DEF Inside
  <2>3. taken' \in Nat /\ taken' <= arrived'
    BY <1>1, <1>2, <1>5
  <2>4. Len(buf') <= READ_BUF_LEN
    BY <1>5, <2>1
  <2>5. pc' \in {"read", "decode"}
    BY <1>1
  <2>6. Static'
    BY <1>1, <1>2, <2>1, <2>3, <2>4, <2>5 DEF Static
  <2>7. Inside(buf)'
    BY <1>1, <1>3, <2>1, <2>2 DEF Inside, Handled, Current
  <2> QED
    BY <2>1, <2>6, <2>7
<1>6. CASE packet_len = None
  <2>1. Inside(buf) /\ Len(buf) < H
    <3>1. CASE buf = <<>> /\ taken = Handled
      <4>1. Len(buf) = 0 /\ buf \in Seq(Byte)
        BY <3>1
      <4>2. Begins(buf, Encode(p))
        BY <1>4, <4>1 DEF Begins
      <4> QED
        BY <1>2, <1>3, <1>4, <3>1, <4>1, <4>2 DEF Inside
    <3>2. CASE Inside(buf) /\ Len(buf) < H
      BY <3>2
    <3> QED
      BY <1>1, <1>6, <3>1, <3>2 DEF IInv, InHeader
  <2>2. n = 1
    <3>1. end = Min({Len(buf) + 1, READ_BUF_LEN})
      BY <1>6
    <3>2. Min({Len(buf) + 1, READ_BUF_LEN})
            = IF Len(buf) + 1 <= READ_BUF_LEN THEN Len(buf) + 1 ELSE READ_BUF_LEN
      BY <1>2, MinOfTwo
    <3> HIDE DEF end, E, H
    <3>3. end = Len(buf) + 1
      BY <1>2, <1>4, <2>1, <3>1, <3>2
    <3>4. end - Len(buf) \in Int /\ arrived - taken \in Int /\ end - Len(buf) = 1
      BY <1>2, <3>3
    <3>5. n = IF 1 <= arrived - taken THEN 1 ELSE arrived - taken
      BY <3>4, MinOfTwo
    <3> QED
      BY <1>1, <1>2, <3>5
  <2> HIDE DEF n, end, E, H, p
  <2>3. /\ n \in Nat /\ n <= arrived - taken /\ Len(buf) + n <= E /\ Len(buf) + n <= READ_BUF_LEN
    BY <1>1, <1>2, <1>4, <2>1, <2>2
  <2>4. Static' /\ Inside(buf)' /\ Len(buf') = Len(buf) + 1
    BY <1>5, <2>1, <2>2, <2>3
  <2>5. pc' = "read" /\ packet_len' = None
    BY <1>1, <1>6
  <2>6. Len(buf') < H \/ Len(buf') = H
    BY <1>2, <1>4, <2>1, <2>4
  <2>7. InHeader'
    BY <1>1, <2>4, <2>5, <2>6 DEF InHeader, Current, p, H
  <2> QED
    BY <2>4, <2>5, <2>7 DEF IInv, Between, NoLength, BehindHeader, Decodes, Copies
<1>7. CASE packet_len # None
  <2>1. pc = "wait"
    BY <1>1, <1>7 DEF IInv, NoLength
  <2>2. /\ Inside(buf) /\ packet_len = Some(E) /\ Len(buf) = H
        /\ Len(buf) < E /\ Len(buf) < READ_BUF_LEN /\ taken < arrived
    BY <1>7, <2>1 DEF IInv, BehindHeader
  <2>3. taken = Handled + H
    BY <2>2 DEF Inside
  <2>4. end = IF E <= READ_BUF_LEN THEN E ELSE READ_BUF_LEN
    <3>1. packet_len[1] = E
      BY <2>2 DEF Some
    <3>2. end = Min({E, READ_BUF_LEN})
      BY <1>7, <3>1
    <3> QED
      BY <1>2, <1>4, <3>2, MinOfTwo
  <2> HIDE DEF end, E, H, p
  <2>5. end \in Nat /\ end > Len(buf) /\ end <= E /\ end <= READ_BUF_LEN
    BY <1>2, <1>4, <2>2, <2>4
  <2>6. n = IF end - Len(buf) <= arrived - taken THEN end - Len(buf) ELSE arrived - taken
    <3>1. end - Len(buf) \in Int /\ arrived - taken \in Int
      BY <1>2, <2>5
    <3> QED
      BY <3>1, MinOfTwo
  <2> HIDE DEF n
  <2>7. /\ n \in Nat /\ n <= arrived - taken /\ Len(buf) + n <= E /\ Len(buf) + n <= READ_BUF_LEN
    BY <1>1, <1>2, <1>4, <2>5, <2>6
  <2>8. Static' /\ Inside(buf)' /\ Len(buf') = Len(buf) + n
    BY <1>5, <2>2, <2>7
  <2>9. p.typ # "Publish" => Len(buf) + n = E
    <3> SUFFICES ASSUME p.typ # "Publish" PROVE Len(buf) + n = E
      OBVIOUS
    <3>1. end = E /\ arrived >= Handled + E
      BY <1>2, <1>4, <2>2, <2>3, <2>4
    <3> QED
      BY <1>2, <1>4, <2>2, <2>3, <2>6, <3>1
  <2>10. H <= Len(buf')
    BY <1>2, <1>4, <2>2, <2>7, <2>8
  <2>11. pc' = "decode" /\ packet_len' = Some(E)
    BY <1>1, <1>7, <2>2
  <2>12. Decodes'
    BY <1>1, <2>8, <2>9, <2>10, <2>11 DEF Decodes, Current, p, E, H
  <2> QED
    BY <2>8, <2>11, <2>12 DEF IInv, Between, NoLength, InHeader, BehindHeader, Copies
<1> QED
  BY <1>6, <1>7

\* What PacketReader::decode() hands to from_buffer().
LEMMA DecodeIs ==
  ASSUME FramedScripts, ~AnyCut, IInv, pc = "decode"
  PROVE  /\ Len(rx) < Len(script) /\ Framed(Current) /\ packet_len # None
         /\ taken = Handled + Len(buf) /\ Begins(buf, Encode(Current))
         /\ Start(script, Len(rx) + 1) = Handled + Len(Encode(Current))
         /\ decode = from_buffer(buf)
         /\ Current.typ = "Publish" =>
              /\ decode.err = "none" /\ decode.val.typ = "PartialPublish"
              /\ decode.val.buf = buf /\ decode.val.packet_len = Len(Encode(Current))
         /\ Current.typ # "Publish" =>
              /\ buf = Encode(Current) /\ Len(buf) = Len(Encode(Current))
              /\ ~(decode.err = "none" /\ decode.val.typ = "PartialPublish")
<1> DEFINE p == Current
           e == Encode(p)
           E == Len(e)
<1>1. /\ Static /\ Len(rx) < Len(script) /\ packet_len = Some(E) /\ Begins(buf, e)
      /\ taken = Handled + Len(buf)
      /\ IF p.typ = "Publish" THEN HeaderLen(p) <= Len(buf) ELSE Len(buf) = E
  BY DEF IInv, Decodes, Inside
<1>2. Framed(p) /\ E \in Nat /\ Start(script, Len(rx) + 1) = Handled + E
  BY <1>1, Here
<1>3. packet_len[1] = E /\ packet_len # None
  BY <1>1 DEF Some, None
<1>4. buf \in Seq(Byte) /\ Len(buf) \in Nat /\ Len(buf) <= E /\ \A i \in 1..Len(buf) : buf[i] = e[i]
  BY <1>1, LenProperties DEF Begins
<1>5. decode = from_buffer(buf)
  <2>1. Min({E, Len(buf)}) = Len(buf)
    BY <1>2, <1>4, MinOfTwo
  <2>2. SubSeq(buf, 1, Len(buf)) = buf
    BY <1>4, SubSeqFull
  <2> QED
    BY <1>3, <2>1, <2>2 DEF decode
<1>6. CASE p.typ = "Publish"
  BY <1>1, <1>2, <1>3, <1>5, <1>6, DecodePublish
<1>7. CASE p.typ # "Publish"
  <2>1. e \in Seq(Byte)
    BY <1>2, FramedHeader, Encoded
  <2>2. buf = e
    BY <1>1, <1>4, <1>7, <2>1, SeqEqual
  <2>3. decode.err = "none" => decode.val.typ # "PartialPublish"
    BY <1>2, <1>5, <1>7, <2>2, DecodeOther
  <2> QED
    BY <1>1, <1>2, <1>3, <1>5, <1>7, <2>2, <2>3
<1> QED
  BY <1>6, <1>7

\* The next packet begins where this one ends.
LEMMA NextPacket ==
  ASSUME FramedScripts, ~AnyCut, IInv, Len(rx) < Len(script), NEW x, rx' = Append(rx, x),
         taken = Handled + Len(Encode(Current)),
         UNCHANGED <<script, arrived, taken, buf, packet_len, connected>>,
         connected, packet_len # None, pc' \in {"idle", "panic"}
  PROVE  IInv'
<1>1. /\ Static /\ Len(rx) \in Nat /\ Len(script) \in Nat
  BY Always DEF IInv
<1>2. rx \in Seq(Range(rx))
  BY <1>1 DEF Static
<1>3. rx' \in Seq(Range(rx')) /\ Len(rx') = Len(rx) + 1
  BY <1>2, AppendIs
<1>4. Len(rx') <= Len(script)
  BY <1>1, <1>3
<1>5. Static'
  BY <1>1, <1>3, <1>4 DEF Static
<1>6. taken = Start(script, Len(rx) + 1)
  BY <1>1, Here
<1>7. Between'
  BY <1>3, <1>6 DEF Between, Handled
<1> QED
  BY <1>5, <1>7 DEF IInv, NoLength, InHeader, BehindHeader, Decodes, Copies

\* connect_mqtt() takes the CONNACK, the first packet.
LEMMA ConnectedStep ==
  ASSUME FramedScripts, ~AnyCut, IInv, Connected
  PROVE  IInv'
<1>1. /\ pc = "decode" /\ ~connected /\ connected' = TRUE /\ pc' = "idle"
      /\ rx' = <<View(decode.val)>>
      /\ UNCHANGED <<script, arrived, taken, buf, packet_len, part>>
  BY DEF Connected, stream, reader
<1>2. /\ Len(rx) < Len(script) /\ packet_len # None /\ taken = Handled + Len(buf)
      /\ Start(script, Len(rx) + 1) = Handled + Len(Encode(Current))
      /\ Current.typ # "Publish" => Len(buf) = Len(Encode(Current))
  BY <1>1, DecodeIs
<1>3. rx = <<>> /\ script \in Scripts /\ Static
  BY <1>1 DEF IInv, Static
<1>4. Len(script) \in Nat /\ Len(rx) = 0 /\ Len(rx) + 1 = 1
  BY <1>3, Always
<1>5. Current.typ = "ConnAck"
  <2>1. script # <<>>
    BY <1>2, <1>4
  <2> QED
    BY <1>3, <1>4, <2>1, ScriptsAssumption DEF Current
<1>6. taken = Start(script, 1)
  BY <1>2, <1>4, <1>5
<1>7. rx' \in Seq(Range(rx')) /\ Len(rx') = 1
  <2>1. PICK v : v = View(decode.val)
    OBVIOUS
  <2>2. <<v>> \in Seq({v}) /\ Len(<<v>>) = 1 /\ Range(<<v>>) = {v}
    BY DEF Range
  <2> QED
    BY <1>1, <2>1, <2>2
<1>8. Static'
  BY <1>1, <1>2, <1>3, <1>4, <1>7 DEF Static
<1>9. Between'
  BY <1>1, <1>6, <1>7 DEF Between, Handled
<1> QED
  BY <1>1, <1>2, <1>8, <1>9 DEF IInv, NoLength, InHeader, BehindHeader, Decodes, Copies

\* A new connection begins at the first byte of its script.
LEMMA NewConnectionStep ==
  ASSUME FramedScripts, ~AnyCut, IInv, NewConnection,
         \/ packet_len # None /\ UNCHANGED <<buf, packet_len>>
         \/ buf' = <<>> /\ packet_len' = None
  PROVE  IInv'
<1>1. /\ script' \in Again /\ arrived' = 0 /\ taken' = 0 /\ pc' = "idle"
      /\ connected' = FALSE /\ rx' = <<>>
  BY DEF NewConnection
<1>2. script' \in Scripts
  BY <1>1, ScriptsAssumption
<1>3. Len(script') \in Nat /\ Start(script', 0) = 0
  BY <1>2, ScriptBytes
<1>4. rx' \in Seq(Range(rx')) /\ Len(rx') = 0
  BY <1>1
<1>5. buf' \in Seq(Byte) /\ Len(buf') <= READ_BUF_LEN
  <2>1. READ_BUF_LEN \in Nat /\ buf \in Seq(Byte) /\ Len(buf) <= READ_BUF_LEN
    BY Always DEF IInv, Static
  <2>2. <<>> \in Seq(Byte) /\ Len(<<>>) = 0
    OBVIOUS
  <2>3. buf' = buf \/ buf' = <<>>
    OBVIOUS
  <2>4. CASE buf' = buf
    BY <2>1, <2>4
  <2>5. CASE buf' = <<>>
    <3>1. 0 <= READ_BUF_LEN
      BY <2>1
    <3> QED
      BY <2>2, <2>5, <3>1
  <2> QED
    BY <2>3, <2>4, <2>5
<1>6. packet_len' = None \/ \E n \in Nat : packet_len' = Some(n)
  BY DEF IInv, Static
<1>7. Static'
  <2>1. taken' \in Nat /\ taken' <= arrived' /\ Len(rx') <= Len(script')
    BY <1>1, <1>3, <1>4
  <2>2. arrived' \in CutsOf[script'] \cup {0}
    BY <1>1
  <2> QED
    BY <1>1, <1>2, <1>4, <1>5, <1>6, <2>1, <2>2 DEF Static
<1>8. taken' = Handled'
  BY <1>1, <1>3, <1>4 DEF Handled
<1>9. packet_len' # None \/ buf' = <<>>
  OBVIOUS
<1> QED
  BY <1>1, <1>7, <1>8, <1>9 DEF IInv, Between, NoLength, InHeader, BehindHeader, Decodes, Copies

\* connect_mqtt() fails: run() goes on with a new connection, or stops.
LEMMA ConnectFailsStep ==
  ASSUME FramedScripts, ~AnyCut, IInv, ConnectFails
  PROVE  IInv'
<1>1. pc = "decode" /\ UNCHANGED <<buf, packet_len>>
  BY DEF ConnectFails, reader
<1>2. packet_len # None
  BY <1>1, DecodeIs
<1>3. CASE losses < MaxLosses
  <2>1. NewConnection
    BY <1>3 DEF ConnectFails
  <2> QED
    BY <1>1, <1>2, <2>1, NewConnectionStep
<1>4. CASE ~(losses < MaxLosses)
  <2>1. pc' = "stopped" /\ UNCHANGED <<script, arrived, taken, part, connected, rx>>
    BY <1>4 DEF ConnectFails, stream
  <2>2. Static'
    BY <1>1, <2>1 DEF IInv, Static
  <2> QED
    BY <2>1, <2>2 DEF IInv, Between, NoLength, InHeader, BehindHeader, Decodes, Copies
<1> QED
  BY <1>3, <1>4

\* select() handles a packet other than a PUBLISH, and recv() may start again.
LEMMA HandleStep ==
  ASSUME FramedScripts, ~AnyCut, IInv, Handle
  PROVE  IInv'
<1>1. /\ pc = "decode" /\ connected /\ pc' \in {"idle", "panic"}
      /\ ~(decode.err = "none" /\ decode.val.typ = "PartialPublish")
      /\ UNCHANGED <<script, arrived, taken, buf, packet_len, part, connected>>
  BY DEF Handle, stream, reader
<1>2. PICK x : rx' = Append(rx, x)
  BY DEF Handle
<1>3. /\ Len(rx) < Len(script) /\ packet_len # None
      /\ taken = Handled + Len(Encode(Current))
  BY <1>1, DecodeIs
<1> QED
  BY <1>1, <1>2, <1>3, NextPacket

\* select() finds a PUBLISH: copy_all() or discard() begins with what is in
\* the buffer.
LEMMA HandlePublishStep ==
  ASSUME FramedScripts, ~AnyCut, IInv, HandlePublish
  PROVE  IInv'
<1>1. /\ pc = "decode" /\ connected /\ pc' \in {"copy", "discard"}
      /\ decode.err = "none" /\ decode.val.typ = "PartialPublish"
      /\ part' = [buf |-> decode.val.buf, packet_len |-> decode.val.packet_len]
      /\ UNCHANGED <<script, arrived, taken, buf, packet_len, connected, rx>>
  BY DEF HandlePublish, stream, reader
<1>2. /\ Len(rx) < Len(script) /\ Framed(Current) /\ packet_len # None
      /\ taken = Handled + Len(buf) /\ Begins(buf, Encode(Current))
      /\ Current.typ = "Publish"
      /\ decode.val.buf = buf /\ decode.val.packet_len = Len(Encode(Current))
  BY <1>1, DecodeIs
<1>3. Static
  BY DEF IInv
<1>4. Static'
  BY <1>1, <1>3 DEF Static
<1>5. Len(Encode(Current)) \in Nat /\ buf \in Seq(Byte)
  BY <1>2, <1>3, Here DEF Begins
<1>6. part' = [buf |-> buf, packet_len |-> Len(Encode(Current))]
  BY <1>1, <1>2
<1>7. /\ part' \in [buf : Seq(Byte), packet_len : Nat]
      /\ part'.buf = buf /\ part'.packet_len = Len(Encode(Current))
  BY <1>5, <1>6
<1>8. Copies'
  BY <1>1, <1>2, <1>7 DEF Copies, Inside, Handled, Current
<1> QED
  BY <1>1, <1>4, <1>8 DEF IInv, Between, NoLength, InHeader, BehindHeader, Decodes

\* copy_all() and discard() read on, and not past the end of the packet.
LEMMA ReadExactStep ==
  ASSUME FramedScripts, ~AnyCut, IInv, ReadExact
  PROVE  IInv'
<1> DEFINE n == Min({part.packet_len - Len(part.buf), arrived - taken})
           E == Len(Encode(Current))
<1>1. /\ pc \in {"copy", "discard"} /\ arrived - taken > 0
      /\ Len(part.buf) < part.packet_len
      /\ part' = [part EXCEPT !.buf = @ \o Taken(n)] /\ taken' = taken + n
      /\ UNCHANGED <<script, arrived, buf, packet_len, pc, connected, rx>>
  BY DEF ReadExact, Available, reader
<1>2. /\ connected /\ packet_len # None /\ part \in [buf : Seq(Byte), packet_len : Nat]
      /\ Inside(part.buf) /\ Current.typ = "Publish" /\ part.packet_len = E
  BY <1>1 DEF IInv, Copies
<1>3. /\ Static /\ arrived \in Nat /\ taken \in Nat /\ Handled \in Nat
  BY Always DEF IInv
<1>4. Len(part.buf) \in Nat /\ E \in Nat /\ taken = Handled + Len(part.buf)
      /\ Len(rx) < Len(script)
  BY <1>2, LenProperties DEF Inside
<1>5. n \in Nat /\ n <= arrived - taken /\ Len(part.buf) + n <= E
  <2>1. E - Len(part.buf) \in Int /\ arrived - taken \in Int
    BY <1>3, <1>4
  <2>2. n = IF E - Len(part.buf) <= arrived - taken THEN E - Len(part.buf) ELSE arrived - taken
    BY <1>2, <2>1, MinOfTwo
  <2> DEFINE L == Len(part.buf)
             A == arrived - taken
  <2>3. L < E /\ A > 0 /\ L \in Nat /\ E \in Nat /\ A \in Int
        /\ n = IF E - L <= A THEN E - L ELSE A
    BY <1>1, <1>2, <1>4, <2>1, <2>2
  <2> HIDE DEF n, E, L, A
  <2>4. n \in Nat /\ n <= A /\ L + n <= E
    BY <2>3
  <2> QED
    BY <2>4 DEF L, A
<1> HIDE DEF n
<1> DEFINE b == part.buf \o Taken(n)
<1>6. Begins(b, Encode(Current)) /\ Len(b) = Len(part.buf) + n /\ b \in Seq(Byte)
  BY <1>2, <1>3, <1>5, TakeMore
<1>7. part'.buf = b /\ part'.packet_len = part.packet_len
      /\ part' \in [buf : Seq(Byte), packet_len : Nat]
  BY <1>1, <1>2, <1>6
<1>8. taken' = Handled + Len(b) /\ taken' \in Nat /\ taken' <= arrived
  <2> DEFINE L == Len(part.buf)
  <2>1. taken' = taken + n /\ taken = Handled + L /\ Len(b) = L + n /\ L \in Nat
    BY <1>1, <1>4, <1>6
  <2> HIDE DEF b, E, L
  <2> QED
    BY <1>3, <1>5, <2>1
<1> HIDE DEF b
<1>9. Static'
  BY <1>1, <1>3, <1>8 DEF Static
<1>10. Copies'
  BY <1>1, <1>2, <1>4, <1>6, <1>7, <1>8 DEF Copies, Inside, Handled, Current
<1> QED
  BY <1>1, <1>9, <1>10 DEF IInv, Between, NoLength, InHeader, BehindHeader, Decodes

\* The whole PUBLISH was copied or discarded.
LEMMA CopyAllStep ==
  ASSUME FramedScripts, ~AnyCut, IInv, copy_all
  PROVE  IInv'
<1>1. /\ pc \in {"copy", "discard"} /\ Len(part.buf) = part.packet_len /\ pc' = "idle"
      /\ UNCHANGED <<script, arrived, taken, buf, packet_len, connected>>
  BY DEF copy_all, stream, reader
<1>2. PICK x : rx' = Append(rx, x)
  BY DEF copy_all
<1>3. /\ connected /\ packet_len # None /\ Len(rx) < Len(script)
      /\ taken = Handled + Len(Encode(Current))
  BY <1>1 DEF IInv, Copies, Inside
<1> QED
  BY <1>1, <1>2, <1>3, NextPacket

\* The connection is lost in the middle of anything.
LEMMA LoseStep ==
  ASSUME FramedScripts, ~AnyCut, IInv, Lose
  PROVE  IInv'
<1>1. /\ pc \in (IF arrived - taken > 0 THEN {"broken"}
                 ELSE {"broken", "idle", "pending", "copy", "discard"})
      /\ script # <<>> /\ NewConnection
      /\ IF connected THEN buf' = <<>> /\ packet_len' = None
         ELSE UNCHANGED <<buf, packet_len>>
  BY DEF Lose, Available, reset, reader
<1>2. /\ Static /\ arrived \in Nat /\ taken \in Nat /\ taken <= arrived /\ pc # "broken"
      /\ script \in Scripts
  BY Always DEF IInv, Static
<1>3. pc \in {"idle", "pending", "copy", "discard"} /\ ~(arrived - taken > 0)
  BY <1>1, <1>2
<1>4. CASE connected
  BY <1>1, <1>4, NewConnectionStep
<1>5. CASE ~connected
  <2>1. UNCHANGED <<buf, packet_len>> /\ rx = <<>>
    BY <1>1, <1>2, <1>5 DEF Static
  <2>2. CASE packet_len # None
    BY <1>1, <2>1, <2>2, NewConnectionStep
  <2>3. CASE packet_len = None
    <3>1. pc \in {"idle", "pending"}
      BY <1>3, <1>5 DEF IInv, Copies
    <3>2. buf = <<>>
      <4>1. (buf = <<>> /\ taken = Handled) \/ (Inside(buf) /\ Len(buf) < HeaderLen(Current))
        BY <2>3, <3>1 DEF IInv, InHeader
      <4>2. CASE Inside(buf) /\ Len(buf) < HeaderLen(Current)
        <5>1. Len(rx) < Len(script) /\ taken = Handled + Len(buf)
          BY <4>2 DEF Inside
        <5>2. Current.typ = "ConnAck"
          <6>1. Len(rx) + 1 = 1
            BY <2>1
          <6> QED
            BY <1>1, <1>2, <6>1, ScriptsAssumption DEF Current
        <5>3. /\ Len(Encode(Current)) \in Nat /\ HeaderLen(Current) \in Nat
              /\ HeaderLen(Current) <= Len(Encode(Current))
              /\ Handled < arrived => Handled + Len(Encode(Current)) <= arrived
          BY <1>2, <5>1, <5>2, Here
        <5>4. Handled \in Nat /\ Len(buf) \in Nat /\ buf \in Seq(Byte)
          BY <1>2, Always DEF Static
        <5>5. Len(buf) = 0
          BY <1>2, <1>3, <4>2, <5>1, <5>3, <5>4
        <5> QED
          BY <5>4, <5>5, EmptySeq
      <4> QED
        BY <4>1, <4>2
    <3> QED
      BY <1>1, <2>1, <2>3, <3>2, NewConnectionStep
  <2> QED
    BY <2>2, <2>3
<1> QED
  BY <1>4, <1>5

\* encode_packet() and stuttering leave the reader alone.
LEMMA SameStep ==
  ASSUME IInv, UNCHANGED <<script, arrived, taken, buf, packet_len, pc, part, connected, rx>>
  PROVE  IInv'
<1>1. Static'
  BY DEF IInv, Static
<1> QED
  BY <1>1 DEF IInv, Between, InHeader, NoLength, BehindHeader, Decodes, Copies, Inside,
     Handled, Current

\* The invariant holds when the first connection begins.
LEMMA InitIInv ==
  ASSUME FramedScripts, Init
  PROVE  IInv
<1>1. /\ script \in Scripts /\ arrived = 0 /\ taken = 0 /\ buf = <<>> /\ packet_len = None
      /\ pc = "idle" /\ connected = FALSE /\ rx = <<>>
  BY DEF Init
<1>2. Len(script) \in Nat /\ Start(script, 0) = 0
  BY <1>1, ScriptBytes
<1>3. rx \in Seq(Range(rx)) /\ Len(rx) = 0 /\ buf \in Seq(Byte) /\ Len(buf) = 0
  BY <1>1
<1>4. READ_BUF_LEN \in Nat
  BY TopicLenAssumption DEF READ_BUF_LEN, MAX_MQTT_HEADER_LEN
<1>5. Static
  <2>1. taken \in Nat /\ taken <= arrived /\ Len(rx) <= Len(script) /\ Len(buf) <= READ_BUF_LEN
    BY <1>1, <1>2, <1>3, <1>4
  <2>2. arrived \in CutsOf[script] \cup {0}
    BY <1>1
  <2> QED
    BY <1>1, <1>3, <2>1, <2>2 DEF Static
<1>6. taken = Handled
  BY <1>1, <1>2, <1>3 DEF Handled
<1> QED
  BY <1>1, <1>5, <1>6 DEF IInv, Between, InHeader, NoLength, BehindHeader, Decodes, Copies

\* Every step keeps the invariant.
LEMMA NextIInv ==
  ASSUME FramedScripts, ~AnyCut, IInv, [Next]_vars
  PROVE  IInv'
<1>1. CASE Next
  <2>1. ASSUME NEW p \in Requests, encode_packet(p) PROVE IInv'
    BY <2>1, SameStep DEF encode_packet, stream, reader
  <2> QED
    BY <1>1, <2>1, ArriveStep, RecvStep, ReadChunkStep, ReadStep, PendStep, CancelStep,
       ConnectedStep, ConnectFailsStep, HandleStep, HandlePublishStep, ReadExactStep,
       CopyAllStep, LoseStep DEF Next
<1>2. CASE UNCHANGED vars
  BY <1>2, SameStep DEF vars, stream, reader
<1> QED
  BY <1>1, <1>2

\* The reader is in step with the stream: whenever recv() drops its buffer, and
\* whenever it starts with an empty one, what was read from the socket is exactly
\* the packets handled, on every connection.  That is so while no receive is
\* dropped behind a header, which ~AnyCut says.
THEOREM ReaderInSync ==
  ASSUME FramedScripts, ~AnyCut
  PROVE  Spec => []InSync
<1>1. Init => IInv
  BY InitIInv
<1>2. IInv /\ [Next]_vars => IInv'
  BY NextIInv
<1>3. IInv => InSync
  <2> SUFFICES ASSUME IInv, pc = "idle", packet_len # None \/ buf = <<>> PROVE taken = Handled
    BY DEF InSync, Handled, Start
  <2>1. CASE packet_len # None
    BY <2>1 DEF IInv, Between
  <2>2. CASE packet_len = None
    <3>1. buf = <<>> /\ Len(buf) = 0
      BY <2>2
    <3>2. Handled \in Nat
      BY Always DEF IInv
    <3> QED
      BY <2>2, <3>1, <3>2 DEF IInv, InHeader, Inside
  <2> QED
    BY <2>1, <2>2
<1> QED
  BY <1>1, <1>2, <1>3, PTL DEF Spec

-----------------------------------------------------------------------------
(* What is received *)

\* What was received so far is what was sent so far.
Received == \A k \in 1..Len(rx) : Known(rx[k], script[k])

\* A packet that is read back is what was received.
LEMMA ViewKnown ==
  ASSUME NEW p, Readable(p), p.typ # "Publish"
  PROVE  Known(View(p), p)
<1> SUFFICES View(p).typ \notin {"dropped", "Message"}
  BY DEF Known
<1>1. CASE p.typ = "PingResp"
  BY <1>1 DEF Readable, PingResp, View
<1>2. CASE p.typ = "ConnAck"
  <2>1. PICK s, c, ps : p = ConnAck(s, c, ps)
    BY <1>2 DEF Readable
  <2> QED
    BY <2>1 DEF ConnAck, View
<1>3. CASE p.typ \in {"PubAck", "PubRec", "PubRel", "PubComp"}
  <2>1. PICK n, c, ps : p = Ack(p.typ, n, c, ps)
    BY <1>3 DEF Readable
  <2>2. PICK t : t = p.typ
    OBVIOUS
  <2>3. View(Ack(t, n, c, ps)).typ = t
    BY DEF Ack, View
  <2> QED
    BY <1>3, <2>1, <2>2, <2>3
<1>4. CASE p.typ = "SubAck"
  <2>1. PICK n, c, ps : p = SubAck(n, ps, c)
    BY <1>4 DEF Readable
  <2> QED
    BY <2>1 DEF SubAck, View
<1>5. CASE p.typ = "UnsubAck"
  <2>1. PICK n, c, ps : p = UnsubAck(n, ps, c)
    BY <1>5 DEF Readable
  <2> QED
    BY <2>1 DEF UnsubAck, View
<1>6. CASE p.typ = "Disconnect"
  <2>1. PICK c, ps : p = Disconnect(c, ps)
    BY <1>6 DEF Readable
  <2> QED
    BY <2>1 DEF Disconnect, View
<1>7. p.typ \in {"PubAck", "PubRec", "PubRel", "PubComp", "PingResp", "ConnAck",
                 "SubAck", "UnsubAck", "Disconnect"}
  BY DEF Readable
<1> QED
  BY <1>1, <1>2, <1>3, <1>4, <1>5, <1>6, <1>7

\* The packet that is being received can be framed and read.
LEMMA CurrentReadable ==
  ASSUME FramedScripts, ReadableScripts, ~AnyCut, Static, Len(rx) < Len(script)
  PROVE  Framed(Current) /\ Readable(Current) /\ Len(rx) + 1 \in 1..Len(script)
<1>1. script \in Scripts /\ Len(rx) \in Nat /\ Len(script) \in Nat
  BY Always DEF Static
<1>2. Len(rx) + 1 \in 1..Len(script)
  BY <1>1
<1>3. DOMAIN script = 1..Len(script) /\ \A i \in 1..Len(script) : Framed(script[i])
  BY <1>1, ScriptBytes
<1> QED
  BY <1>1, <1>2, <1>3 DEF ReadableScripts, Current

\* One more packet, if it is the one that was sent.
LEMMA ReceivedMore ==
  ASSUME Static, Received, NEW x, rx' = Append(rx, x), script' = script, Known(x, Current)
  PROVE  Received'
<1>1. rx \in Seq(Range(rx))
  BY DEF Static
<1>2. /\ Len(rx) \in Nat /\ Len(rx') = Len(rx) + 1
      /\ \A i \in 1..Len(rx) : rx'[i] = rx[i]
      /\ rx'[Len(rx) + 1] = x
  BY <1>1, AppendIs
<1>3. ASSUME NEW k \in 1..Len(rx') PROVE Known(rx'[k], script[k])
  <2>1. CASE k \in 1..Len(rx)
    BY <1>2, <2>1 DEF Received
  <2>2. CASE k = Len(rx) + 1
    BY <1>2, <2>2 DEF Current
  <2> QED
    BY <1>2, <2>1, <2>2
<1> QED
  BY <1>3 DEF Received

\* What decode() returns of anything but a PUBLISH.
LEMMA DecodesCurrent ==
  ASSUME FramedScripts, ReadableScripts, ~AnyCut, IInv, pc = "decode",
         Current.typ # "Publish"
  PROVE  decode.err = "none" /\ View(decode.val) = View(Current) /\ Known(View(Current), Current)
<1>1. Len(rx) < Len(script) /\ decode = from_buffer(Encode(Current))
  BY DecodeIs
<1>2. Framed(Current) /\ Readable(Current)
  BY <1>1, CurrentReadable DEF IInv
<1> QED
  BY <1>1, <1>2, PacketsReadBack, ViewKnown DEF Framed

\* connect_mqtt() receives the CONNACK.
LEMMA ReceivedConnected ==
  ASSUME FramedScripts, ReadableScripts, ~AnyCut, IInv, Connected
  PROVE  Received'
<1>1. /\ pc = "decode" /\ ~connected /\ rx' = <<View(decode.val)>> /\ script' = script
  BY DEF Connected, stream
<1>2. rx = <<>> /\ script \in Scripts
  BY <1>1 DEF IInv, Static
<1>3. Len(rx) = 0 /\ Current = script[1]
  BY <1>2 DEF Current
<1>4. Len(rx) < Len(script)
  BY <1>1, DecodeIs
<1>5. Current.typ = "ConnAck"
  <2>1. script # <<>>
    BY <1>3, <1>4
  <2> QED
    BY <1>2, <1>3, <2>1, ScriptsAssumption
<1>6. View(decode.val) = View(Current) /\ Known(View(Current), Current)
  BY <1>1, <1>5, DecodesCurrent
<1>7. Len(rx') = 1 /\ rx'[1] = View(Current)
  BY <1>1, <1>6
<1> QED
  BY <1>1, <1>3, <1>6, <1>7 DEF Received

\* select() receives the packet that decode() read.
LEMMA ReceivedHandle ==
  ASSUME FramedScripts, ReadableScripts, ~AnyCut, IInv, Received, Handle
  PROVE  Received'
<1>1. /\ pc = "decode" /\ ~(decode.err = "none" /\ decode.val.typ = "PartialPublish")
      /\ script' = script
      /\ rx' = Append(rx, IF decode.err = "none" THEN View(decode.val)
                          ELSE [typ |-> "error", err |-> decode.err])
  BY DEF Handle, stream
<1>2. Current.typ # "Publish"
  BY <1>1, DecodeIs
<1>3. decode.err = "none" /\ View(decode.val) = View(Current) /\ Known(View(Current), Current)
  BY <1>1, <1>2, DecodesCurrent
<1>4. rx' = Append(rx, View(Current))
  BY <1>1, <1>3
<1> QED
  BY <1>1, <1>3, <1>4, ReceivedMore DEF IInv

\* copy_all() has the whole PUBLISH in the frame, or dropped it.
LEMMA ReceivedCopy ==
  ASSUME FramedScripts, ReadableScripts, ~AnyCut, IInv, Received, copy_all
  PROVE  Received'
<1>1. /\ pc \in {"copy", "discard"} /\ Len(part.buf) = part.packet_len /\ script' = script
      /\ rx' = Append(rx, IF pc = "copy" THEN [typ |-> "Message", frame |-> part.buf]
                          ELSE [typ |-> "dropped"])
  BY DEF copy_all, stream
<1>2. /\ Len(rx) < Len(script) /\ Begins(part.buf, Encode(Current))
      /\ Current.typ = "Publish" /\ part.packet_len = Len(Encode(Current))
  BY <1>1 DEF IInv, Copies, Inside
<1>3. Framed(Current) /\ Readable(Current)
  BY <1>2, CurrentReadable DEF IInv
<1>4. part.buf = Encode(Current)
  <2>1. /\ part.buf \in Seq(Byte) /\ \A i \in 1..Len(part.buf) : part.buf[i] = Encode(Current)[i]
    BY <1>2 DEF Begins
  <2>2. Encode(Current) \in Seq(Byte)
    BY <1>3, FramedHeader, Encoded
  <2> QED
    BY <1>1, <1>2, <2>1, <2>2, SeqEqual
<1>5. CASE pc = "copy"
  <2>1. rx' = Append(rx, [typ |-> "Message", frame |-> Encode(Current)])
    BY <1>1, <1>4, <1>5
  <2>2. Known([typ |-> "Message", frame |-> Encode(Current)], Current)
    BY <1>2, <1>3, PacketsReadBack DEF Framed
  <2> QED
    BY <1>1, <2>1, <2>2, ReceivedMore DEF IInv
<1>6. CASE pc # "copy"
  <2>1. rx' = Append(rx, [typ |-> "dropped"])
    BY <1>1, <1>6
  <2>2. Known([typ |-> "dropped"], Current)
    BY <1>2 DEF Known
  <2> QED
    BY <1>1, <2>1, <2>2, ReceivedMore DEF IInv
<1> QED
  BY <1>5, <1>6

\* Every step keeps what was received, and a new connection has received
\* nothing.
LEMMA NextReceived ==
  ASSUME FramedScripts, ReadableScripts, ~AnyCut, IInv, Received, [Next]_vars
  PROVE  Received'
<1>1. CASE UNCHANGED <<script, rx>>
  BY <1>1 DEF Received
<1>2. CASE rx' = <<>>
  <2>1. Len(rx') = 0
    BY <1>2
  <2> QED
    BY <2>1 DEF Received
<1>3. NewConnection => rx' = <<>>
  BY DEF NewConnection
<1>4. CASE Arrive
  BY <1>1, <1>4 DEF Arrive
<1>5. CASE recv
  BY <1>1, <1>5 DEF recv, stream
<1>6. CASE read_chunk
  BY <1>1, <1>6 DEF read_chunk, stream
<1>7. CASE read
  BY <1>1, <1>7 DEF read
<1>8. CASE Pend
  BY <1>1, <1>8 DEF Pend, stream
<1>9. CASE Cancel
  BY <1>1, <1>9 DEF Cancel, stream
<1>10. CASE ConnectFails
  <2>1. NewConnection \/ UNCHANGED <<script, rx>>
    BY <1>10 DEF ConnectFails, stream
  <2> QED
    BY <1>1, <1>2, <1>3, <2>1
<1>11. CASE HandlePublish
  BY <1>1, <1>11 DEF HandlePublish, stream
<1>12. CASE ReadExact
  BY <1>1, <1>12 DEF ReadExact
<1>13. CASE Lose
  BY <1>2, <1>3, <1>13 DEF Lose
<1>14. ASSUME NEW p \in Requests, encode_packet(p) PROVE Received'
  BY <1>1, <1>14 DEF encode_packet, stream
<1>15. CASE UNCHANGED vars
  BY <1>1, <1>15 DEF vars, stream
<1> QED
  BY <1>4, <1>5, <1>6, <1>7, <1>8, <1>9, <1>10, <1>11, <1>12, <1>13, <1>14, <1>15,
     ReceivedConnected, ReceivedHandle, ReceivedCopy DEF Next

\* The k-th receive of recv() and copy_all() on a connection is the k-th packet
\* that the broker sent on it, with all of its fields, however the stream is cut,
\* receives are dropped and connections lost: RxInOrder.
THEOREM ReceivesInOrder ==
  ASSUME FramedScripts, ReadableScripts, ~AnyCut
  PROVE  Spec => []RxInOrder
<1>1. Init => IInv /\ Received
  <2> SUFFICES ASSUME Init PROVE IInv /\ Received
    OBVIOUS
  <2>1. rx = <<>>
    BY DEF Init
  <2>2. Len(rx) = 0
    BY <2>1
  <2> QED
    BY <2>2, InitIInv DEF Received
<1>2. IInv /\ Received /\ [Next]_vars => IInv' /\ Received'
  BY NextIInv, NextReceived
<1>3. IInv /\ Received => RxInOrder
  <2> SUFFICES ASSUME IInv, Received PROVE RxInOrder
    OBVIOUS
  <2>1. Static
    BY DEF IInv
  <2>2. arrived <= Len(Stream) /\ Len(rx) \in Nat
    BY <2>1, Always
  <2>3. packet_len = None \/ packet_len[1] \in Nat
    BY <2>1 DEF Static, Some
  <2>4. TypeOK
    BY <2>1, <2>2, <2>3 DEF Static, TypeOK
  <2>5. Len(rx) <= Len(script) /\ DOMAIN rx = 1..Len(rx)
    BY <2>1, SeqIs DEF Static
  <2> QED
    BY <2>4, <2>5 DEF RxInOrder, Received
<1> QED
  BY <1>1, <1>2, <1>3, PTL DEF Spec

-----------------------------------------------------------------------------
(* What is sent *)

\* The room that max_packet_size() of a PUBLISH asks for is enough, but for its
\* properties.
LEMMA PublishFits ==
  ASSUME NEW p, Encodable(p), ~RoomLeavesOut(p), p.typ = "Publish"
  PROVE  MAX_MQTT_HEADER_LEN + Len(Body(p)) <= Room(p) /\ Room(p) \in Nat
<1> DEFINE t == Len(p.topic_name)
           y == Len(p.payload)
           ps == p.properties
           v == V5Len(varint_len(size(ps)))
           q == IF p.qos = 0 THEN 0 ELSE 2
<1>1. WellFormed(p) /\ TypedProperties(ps) /\ (mqttv5 => size(ps) <= 0)
  BY DEF Encodable, RoomLeavesOut
<1>2. /\ TopicBytes(p) \in Seq(Byte) /\ PidBytes(p) \in Seq(Byte)
      /\ PropBytes(p) \in Seq(Byte) /\ p.payload \in Seq(Byte)
      /\ Body(p) = ((TopicBytes(p) \o PidBytes(p)) \o PropBytes(p)) \o p.payload
  BY <1>1, PublishBody
<1>3. Len(PropBytes(p)) = v /\ v \in Nat
  BY <1>1, NoPropsLen DEF PropBytes, PropsOf
<1>4. Len(TopicBytes(p)) = 2 + t /\ t \in Nat
  <2>1. p.topic_name \in Seq(Byte) /\ t < 256 * 256
    BY <1>1 DEF WellFormed
  <2>2. TopicBytes(p) = Counted(p.topic_name)
    BY DEF TopicBytes, Counted, U16
  <2> QED
    BY <2>1, <2>2, PutsSlice, LenProperties
<1>5. Len(PidBytes(p)) = q
  <2>1. CASE p.qos = 0
    BY <2>1 DEF PidBytes
  <2>2. CASE p.qos # 0
    <3>1. p.pid \in Nat /\ p.pid < 256 * 256
      BY <1>1, <2>2 DEF WellFormed
    <3>2. PidBytes(p) = U16(p.pid)
      BY <2>2 DEF PidBytes, U16
    <3> QED
      BY <2>2, <3>1, <3>2, U16Is
  <2> QED
    BY <2>1, <2>2
<1>6. Len(Body(p)) = (((2 + t) + q) + v) + y /\ y \in Nat
  <2> DEFINE A == TopicBytes(p)
             I == PidBytes(p)
             P == PropBytes(p)
             Y == p.payload
  <2>1. A \in Seq(Byte) /\ I \in Seq(Byte) /\ P \in Seq(Byte) /\ Y \in Seq(Byte)
    BY <1>2
  <2> HIDE DEF A, I, P, Y
  <2>2. A \o I \in Seq(Byte) /\ Len(A \o I) = Len(A) + Len(I)
    BY <2>1, ConcatLen
  <2>3. (A \o I) \o P \in Seq(Byte) /\ Len((A \o I) \o P) = Len(A \o I) + Len(P)
    BY <2>1, <2>2, ConcatLen
  <2>4. Len(((A \o I) \o P) \o Y) = Len((A \o I) \o P) + Len(Y) /\ Len(Y) \in Nat
    BY <2>1, <2>3, ConcatLen
  <2> QED
    BY <1>2, <1>3, <1>4, <1>5, <2>2, <2>3, <2>4 DEF A, I, P, Y
<1>7. Room(p) = 2 + t + q + 5 + v + y
  BY DEF Room, max_packet_size, PublishMaxSize, MAX_MQTT_HEADER_LEN
<1>8. q \in Nat
  OBVIOUS
<1> HIDE DEF t, y, v, q
<1>9. 5 + Len(Body(p)) <= Room(p) /\ Room(p) \in Nat
  BY <1>3, <1>4, <1>6, <1>7, <1>8
<1> QED
  BY <1>9 DEF MAX_MQTT_HEADER_LEN

\* The id, the properties and the topics of a SUBSCRIBE or an UNSUBSCRIBE.
LEMMA TopicsFit ==
  ASSUME NEW p, NEW pid \in Nat, pid < 256 * 256, NEW ps, TypedProperties(ps),
         mqttv5 => size(ps) <= 0, NEW w, NEW F, Puts(w, F),
         to_buffer(p) = (write_u16(PidOrDefault(pid)) \o V5(write_properties(ps))) \o w,
         Room(p) = 2 + MAX_MQTT_HEADER_LEN + V5Len(varint_len(size(ps))) + Len(F)
  PROVE  MAX_MQTT_HEADER_LEN + Len(Body(p)) <= Room(p) /\ Room(p) \in Nat
<1> DEFINE m == PidOrDefault(pid)
           v == V5Len(varint_len(size(ps)))
           a == U16(m) \o PropsOf(ps)
<1>1. m \in Nat /\ m < 256 * 256
  BY DEF PidOrDefault
<1> HIDE DEF m
<1>2. Puts(write_u16(m), U16(m)) /\ U16(m) \in Seq(Byte) /\ Len(U16(m)) = 2
  BY <1>1, PutsU16, U16Is
<1>3. /\ Puts(V5(write_properties(ps)), PropsOf(ps)) /\ PropsOf(ps) \in Seq(Byte)
      /\ Len(PropsOf(ps)) = v /\ v \in Nat
  BY PropsLen, NoPropsLen
<1>4. Puts(write_u16(m) \o V5(write_properties(ps)), a)
  BY <1>2, <1>3, PutsConcat
<1>5. a \in Seq(Byte) /\ Len(a) = 2 + v
  <2>1. a \in Seq(Byte) /\ Len(a) = Len(U16(m)) + Len(PropsOf(ps))
    BY <1>2, <1>3, ConcatLen
  <2> QED
    BY <1>2, <1>3, <2>1
<1> HIDE DEF a
<1>6. Puts(to_buffer(p), a \o F) /\ F \in Seq(Byte)
  BY <1>4, PutsConcat, PutsIs DEF m
<1>7. Len(Body(p)) = Len(a) + Len(F) /\ Len(F) \in Nat
  BY <1>5, <1>6, ConcatLen DEF Puts, Body
<1> DEFINE f == Len(F)
           l == Len(Body(p))
           r == Room(p)
<1>8. v \in Nat /\ f \in Nat /\ l = (2 + v) + f /\ r = 2 + 5 + v + f
  BY <1>3, <1>5, <1>7 DEF MAX_MQTT_HEADER_LEN
<1> HIDE DEF v, f, l, r
<1>9. 5 + l <= r /\ r \in Nat
  BY <1>8
<1> QED
  BY <1>9 DEF MAX_MQTT_HEADER_LEN, l, r

\* The room that max_packet_size() of a SUBSCRIBE asks for is enough.
LEMMA SubscribeFits ==
  ASSUME NEW p, Encodable(p), ~RoomLeavesOut(p), p.typ = "Subscribe"
  PROVE  MAX_MQTT_HEADER_LEN + Len(Body(p)) <= Room(p) /\ Room(p) \in Nat
<1> DEFINE ps == p.properties
           T == p.topics
           n == Len(T)
           o(t) == (IF mqttv5 THEN t.retain_handling * 16 + Bit(t.retain_as_published, 8)
                                   + Bit(t.no_local, 4) ELSE 0) + t.maximum_qos
           ws == [i \in DOMAIN T |-> write_str(T[i].topic_path) \o write_u8(o(T[i]))]
           ts == [i \in 1..n |-> Counted(T[i].topic_path) \o <<o(T[i])>>]
<1>1. /\ TypedProperties(ps) /\ (mqttv5 => size(ps) <= 0)
      /\ p.pid \in Nat /\ p.pid < 256 * 256 /\ T \in Seq(Range(T))
      /\ \A i \in DOMAIN T :
           /\ T[i].topic_path \in Seq(Byte) /\ Len(T[i].topic_path) < 256 * 256
           /\ T[i].maximum_qos \in 0..2 /\ T[i].retain_handling \in 0..2
           /\ T[i].retain_as_published \in BOOLEAN /\ T[i].no_local \in BOOLEAN
  BY DEF Encodable, RoomLeavesOut
<1>2. n \in Nat /\ DOMAIN T = 1..n
  BY <1>1, SeqIs
<1>3. ASSUME NEW i \in 1..n PROVE o(T[i]) \in Byte
  <2> DEFINE q == T[i].maximum_qos
             h == T[i].retain_handling
             x == Bit(T[i].retain_as_published, 8)
             y == Bit(T[i].no_local, 4)
  <2>1. q \in 0..2 /\ h \in 0..2
    BY <1>1, <1>2
  <2>2. x \in 0..8 /\ y \in 0..4
    BY <1>1, <1>2 DEF Bit
  <2>3. o(T[i]) = (IF mqttv5 THEN h * 16 + x + y ELSE 0) + q
    OBVIOUS
  <2> HIDE DEF q, h, x, y, o
  <2>4. h * 16 \in 0..32
    BY <2>1
  <2>5. o(T[i]) \in Nat /\ o(T[i]) < 256
    BY <2>1, <2>2, <2>3, <2>4
  <2> QED
    BY <2>5, ByteIs
<1>4. to_buffer(p) = (write_u16(PidOrDefault(p.pid)) \o V5(write_properties(ps))) \o FlattenSeq(ws)
  BY DEF to_buffer, SubscribeToBuffer
<1> HIDE DEF o
<1>5. ASSUME NEW i \in 1..n
      PROVE  /\ Puts(ws[i], ts[i]) /\ Len(ts[i]) = 2 + Len(T[i].topic_path) + 1
  <2> DEFINE c == T[i].topic_path
             k == o(T[i])
  <2>1. c \in Seq(Byte) /\ Len(c) < 256 * 256 /\ k \in Byte
    BY <1>1, <1>2, <1>3
  <2>2. ws[i] = write_str(c) \o write_u8(k) /\ ts[i] = Counted(c) \o <<k>>
    BY <1>2
  <2> HIDE DEF c, k
  <2>3. Puts(write_str(c), Counted(c)) /\ Puts(write_u8(k), <<k>>) /\ Len(Counted(c)) = 2 + Len(c)
    BY <2>1, PutsSlice, PutsU8
  <2>4. Puts(write_str(c) \o write_u8(k), Counted(c) \o <<k>>)
    BY <2>3, PutsConcat
  <2>5. Counted(c) \in Seq(Byte) /\ <<k>> \in Seq(Byte) /\ Len(<<k>>) = 1
    BY <2>1, <2>3, OneByte DEF Puts
  <2>6. Len(Counted(c) \o <<k>>) = 2 + Len(c) + 1
    BY <2>3, <2>5, ConcatLen
  <2> QED
    BY <2>2, <2>4, <2>6 DEF c
<1> DEFINE ns == [i \in 1..n |-> Len(ts[i])]
<1>6. ws = [i \in 1..n |-> ws[i]] /\ ts = [i \in 1..n |-> ts[i]]
  BY <1>2
<1>7. Room(p) = 2 + MAX_MQTT_HEADER_LEN + V5Len(varint_len(size(ps))) + Total(ns)
  <2>1. [i \in DOMAIN T |-> 2 + Len(T[i].topic_path) + 1] = ns
    BY <1>2, <1>5
  <2> HIDE DEF ns
  <2>2. Room(p) = 2 + MAX_MQTT_HEADER_LEN + V5Len(varint_len(size(ps)))
                  + Total([i \in DOMAIN T |-> 2 + Len(T[i].topic_path) + 1])
    BY DEF Room, max_packet_size, SubscribeMaxSize
  <2> QED
    BY <2>1, <2>2
<1> HIDE DEF ws, ts, ns, n, T
<1>8. \A i \in 1..n : Puts(ws[i], ts[i])
  BY <1>5
<1>9. Puts(FlattenSeq(ws), FlattenSeq(ts)) /\ ts \in Seq(Seq(Byte)) /\ Len(ts) = n
  BY <1>2, <1>6, <1>8, PutsFlatten
<1>10. Total(ns) = Len(FlattenSeq(ts))
  BY <1>9, TotalFlatten DEF ns
<1> QED
  BY <1>1, <1>4, <1>7, <1>9, <1>10, TopicsFit

\* That of an UNSUBSCRIBE too.
LEMMA UnsubscribeFits ==
  ASSUME NEW p, Encodable(p), ~RoomLeavesOut(p), p.typ = "Unsubscribe"
  PROVE  MAX_MQTT_HEADER_LEN + Len(Body(p)) <= Room(p) /\ Room(p) \in Nat
<1> DEFINE ps == p.properties
           T == p.topics
           n == Len(T)
           ws == [i \in DOMAIN T |-> write_str(T[i])]
           ts == [i \in 1..n |-> Counted(T[i])]
<1>1. /\ TypedProperties(ps) /\ (mqttv5 => size(ps) <= 0)
      /\ p.pid \in Nat /\ p.pid < 256 * 256 /\ T \in Seq(Range(T))
      /\ \A i \in DOMAIN T : T[i] \in Seq(Byte) /\ Len(T[i]) < 256 * 256
  BY DEF Encodable, RoomLeavesOut
<1>2. n \in Nat /\ DOMAIN T = 1..n
  BY <1>1, SeqIs
<1>3. to_buffer(p) = (write_u16(PidOrDefault(p.pid)) \o V5(write_properties(ps))) \o FlattenSeq(ws)
  BY DEF to_buffer, UnsubscribeToBuffer
<1>4. ASSUME NEW i \in 1..n PROVE Puts(ws[i], ts[i]) /\ Len(ts[i]) = Len(T[i]) + 2
  <2>1. T[i] \in Seq(Byte) /\ Len(T[i]) < 256 * 256 /\ Len(T[i]) \in Nat
    BY <1>1, <1>2, LenProperties
  <2>2. Puts(write_str(T[i]), Counted(T[i])) /\ Len(Counted(T[i])) = 2 + Len(T[i])
    BY <2>1, PutsSlice
  <2>3. ws[i] = write_str(T[i]) /\ ts[i] = Counted(T[i])
    BY <1>2
  <2>4. Len(Counted(T[i])) = Len(T[i]) + 2
    BY <2>1, <2>2
  <2> QED
    BY <2>2, <2>3, <2>4
<1> DEFINE ns == [i \in 1..n |-> Len(ts[i])]
<1>5. ws = [i \in 1..n |-> ws[i]] /\ ts = [i \in 1..n |-> ts[i]]
  BY <1>2
<1>6. Room(p) = 2 + MAX_MQTT_HEADER_LEN + V5Len(varint_len(size(ps))) + Total(ns)
  <2>1. [i \in DOMAIN T |-> Len(T[i]) + 2] = ns
    BY <1>2, <1>4
  <2> HIDE DEF ns
  <2>2. Room(p) = 2 + MAX_MQTT_HEADER_LEN + V5Len(varint_len(size(ps)))
                  + Total([i \in DOMAIN T |-> Len(T[i]) + 2])
    BY DEF Room, max_packet_size, UnsubscribeMaxSize
  <2> QED
    BY <2>1, <2>2
<1> HIDE DEF ws, ts, ns, n, T
<1>7. \A i \in 1..n : Puts(ws[i], ts[i])
  BY <1>4
<1>8. Puts(FlattenSeq(ws), FlattenSeq(ts)) /\ ts \in Seq(Seq(Byte)) /\ Len(ts) = n
  BY <1>2, <1>5, <1>7, PutsFlatten
<1>9. Total(ns) = Len(FlattenSeq(ts))
  BY <1>8, TotalFlatten DEF ns
<1> QED
  BY <1>1, <1>3, <1>6, <1>8, <1>9, TopicsFit

\* write_buf has room for every answer with few properties.
LEMMA AnswerFits ==
  ASSUME NEW p, Encodable(p), p.typ \in {"PubAck", "PubRec", "PubRel", "PubComp", "Disconnect"}
  PROVE  MAX_MQTT_HEADER_LEN + Len(Body(p)) <= Room(p) /\ Room(p) \in Nat
<1> DEFINE ps == p.properties
           c == p.reason_code
           V == V5(write_properties(ps))
           P == PropsOf(ps)
<1>1. WellFormed(p) /\ Readable(p) /\ TypedProperties(ps) /\ (mqttv5 => size(ps) <= 23)
  BY DEF Encodable
<1>2. Puts(V, P) /\ P \in Seq(Byte) /\ Len(P) \in Nat /\ Len(P) <= 24 /\ (~mqttv5 => V = <<>>)
  <2>1. CASE mqttv5
    <3>1. /\ size(ps) \in Nat /\ size(ps) <= 23
          /\ size(ps) <= 127 => varint_len(size(ps)) = 1
          /\ Len(P) = varint_len(size(ps)) + size(ps)
      BY <1>1, <2>1, PropsLen
    <3>2. varint_len(size(ps)) = 1
      BY <3>1
    <3>3. Len(P) <= 24
      BY <3>1, <3>2
    <3> QED
      BY <1>1, <2>1, <3>3, PropsLen
  <2>2. CASE ~mqttv5
    <3>1. Len(P) <= 24
      BY <1>1, <2>2, PropsLen
    <3> QED
      BY <1>1, <2>2, <3>1, PropsLen DEF V5
  <2> QED
    BY <2>1, <2>2, FeatureAssumption
<1>3. c \in Byte
  <2>1. c \in PubAckReasonCode \cup PubRecReasonCode \cup PubRelReasonCode \cup PubCompReasonCode
             \cup DisconnectReasonCode \cup {0}
    BY <1>1 DEF Readable
  <2> QED
    BY <2>1, SMT DEF PubAckReasonCode, PubRecReasonCode, PubRelReasonCode, PubCompReasonCode,
       DisconnectReasonCode, DisconnectReasonCodeV5, DisconnectReasonCodeV3, Byte
<1>4. Room(p) = 32
  BY DEF Room
<1> SUFFICES Len(Body(p)) \in Nat /\ Len(Body(p)) <= 27
  BY <1>4 DEF MAX_MQTT_HEADER_LEN
<1> HIDE DEF P
<1> DEFINE w == write_u8(c) \o V
<1>5. /\ Puts(w, <<c>> \o P) /\ <<c>> \o P \in Seq(Byte)
      /\ Len(<<c>> \o P) \in Nat /\ Len(<<c>> \o P) <= 25
  <2>1. Puts(write_u8(c), <<c>>) /\ <<c>> \in Seq(Byte) /\ Len(<<c>>) = 1
    BY <1>3, PutsU8, OneByte
  <2>2. Puts(w, <<c>> \o P)
    BY <1>2, <2>1, PutsConcat
  <2>3. <<c>> \o P \in Seq(Byte) /\ Len(<<c>> \o P) = 1 + Len(P)
    BY <1>2, <2>1, ConcatLen
  <2>4. Len(<<c>> \o P) \in Nat /\ Len(<<c>> \o P) <= 25
    BY <1>2, <2>3
  <2> QED
    BY <2>2, <2>3, <2>4
<1>6. CASE p.typ = "Disconnect"
  <2>1. to_buffer(p) = w \/ to_buffer(p) = <<>> \o V
    BY <1>6 DEF to_buffer, DisconnectToBuffer
  <2>2. CASE to_buffer(p) = w
    BY <1>5, <2>2 DEF Body, Puts
  <2>3. CASE to_buffer(p) = <<>> \o V
    <3>1. Puts(<<>> \o V, <<>> \o P)
      BY <1>2, PutsNone, PutsConcat
    <3>2. <<>> \o P = P
      BY <1>2, ConcatEmptySeq
    <3>3. Len(Body(p)) = Len(P)
      BY <2>3, <3>1, <3>2 DEF Body, Puts
    <3> QED
      BY <1>2, <3>3
  <2> QED
    BY <2>1, <2>2, <2>3
<1>7. CASE p.typ # "Disconnect"
  <2> DEFINE n == p.pid
  <2>1. n \in Nat /\ n < 256 * 256
    BY <1>1, <1>7 DEF Readable
  <2>2. Puts(write_u16(n), U16(n)) /\ U16(n) \in Seq(Byte) /\ Len(U16(n)) = 2
    BY <2>1, PutsU16, U16Is
  <2>3. to_buffer(p) = PubAckToBuffer(p)
    BY <1>7 DEF to_buffer, PubRecToBuffer, PubRelToBuffer, PubCompToBuffer
  <2>4. to_buffer(p) = write_u16(n) \o w \/ to_buffer(p) = write_u16(n) \o <<>>
    BY <2>3 DEF PubAckToBuffer, V5
  <2> HIDE DEF n, w
  <2>5. CASE to_buffer(p) = write_u16(n) \o w
    <3>1. Puts(to_buffer(p), U16(n) \o (<<c>> \o P))
      BY <1>5, <2>2, <2>5, PutsConcat
    <3>2. Len(U16(n) \o (<<c>> \o P)) = Len(U16(n)) + Len(<<c>> \o P)
      BY <1>5, <2>2, ConcatLen
    <3>3. Len(Body(p)) = 2 + Len(<<c>> \o P)
      BY <2>2, <3>1, <3>2 DEF Body, Puts
    <3> QED
      BY <1>5, <3>3
  <2>6. CASE to_buffer(p) = write_u16(n) \o <<>>
    <3>1. Puts(to_buffer(p), U16(n) \o <<>>)
      BY <2>2, <2>6, PutsNone, PutsConcat
    <3>2. U16(n) \o <<>> = U16(n)
      BY <2>2, ConcatEmptySeq
    <3>3. Len(Body(p)) = 2
      BY <2>2, <3>1, <3>2 DEF Body, Puts
    <3> QED
      BY <3>3
  <2> QED
    BY <2>4, <2>5, <2>6
<1> QED
  BY <1>6, <1>7

\* The room that the client reserves is enough for every packet that it does not
\* leave the properties of out.
LEMMA RequestFits ==
  ASSUME NEW p, Encodable(p), ~RoomLeavesOut(p)
  PROVE  EncodeOutcome(p, Room(p)) = "ok"
<1>1. WellFormed(p) /\ to_buffer(p) \in Seq(Writes)
  BY DEF Encodable, WellFormed
<1>2. MAX_MQTT_HEADER_LEN + Len(Body(p)) <= Room(p) /\ Room(p) \in Nat
  <2>1. CASE p.typ \in {"Publish", "Subscribe", "Unsubscribe"}
    BY <2>1, PublishFits, SubscribeFits, UnsubscribeFits
  <2>2. CASE p.typ \in {"PubAck", "PubRec", "PubRel", "PubComp", "Disconnect"}
    BY <2>2, AnswerFits
  <2>3. CASE /\ p.typ \notin {"Publish", "Subscribe", "Unsubscribe"}
             /\ p.typ \notin {"PubAck", "PubRec", "PubRel", "PubComp", "Disconnect"}
    <3>1. CASE p.typ = "Connect"
      <4>1. MAX_MQTT_HEADER_LEN + Len(Body(p)) <= Room(p)
        BY <3>1 DEF Encodable
      <4>2. Room(p) = 1024
        BY <3>1 DEF Room
      <4> QED
        BY <4>1, <4>2
    <3>2. CASE p.typ # "Connect"
      <4>1. p = PingReq
        BY <2>3, <3>2 DEF Encodable
      <4>2. to_buffer(p) = <<>> /\ Room(p) = 32
        BY <4>1 DEF PingReq, to_buffer, Room
      <4>3. Len(Body(p)) = 0
        BY <4>2, WrittenNone DEF Body
      <4> QED
        BY <4>2, <4>3 DEF MAX_MQTT_HEADER_LEN
    <3> QED
      BY <3>1, <3>2
  <2> QED
    BY <2>1, <2>2, <2>3
<1> QED
  BY <1>1, <1>2, RoomEnough

\* What encode_packet() wrote, if it wrote anything.
Written ==
  wrote = NoRequest \/ \E p \in Requests :
    wrote = [typ |-> "some", packet |-> p,
             outcome |-> EncodeOutcome(p, Room(p)), bytes |-> Encode(p)]

\* encode_packet() is the only step that writes.
LEMMA NextWritten ==
  ASSUME Written, [Next]_vars
  PROVE  Written'
<1>1. CASE UNCHANGED wrote
  BY <1>1 DEF Written
<1>2. ASSUME NEW p \in Requests, encode_packet(p) PROVE Written'
  BY <1>2 DEF encode_packet, Written
<1>3. Next => UNCHANGED wrote \/ \E p \in Requests : encode_packet(p)
  BY DEF Next, Arrive, recv, read_chunk, read, Pend, Cancel, Connected, ConnectFails, Handle,
         HandlePublish, ReadExact, copy_all, Lose
<1>4. UNCHANGED vars => UNCHANGED wrote
  BY DEF vars
<1> QED
  BY <1>1, <1>2, <1>3, <1>4

\* encode_packet() runs out of room, and panics, only for a PUBLISH, SUBSCRIBE or
\* UNSUBSCRIBE with properties: for all other packets, of any length and number of
\* topics, max_packet_size(), write_buf and connect_buf offer enough.  What is
\* written, with properties or without, is one packet that the decoder reads back
\* as it was.
THEOREM RequestsFit ==
  ASSUME \A p \in Requests : Encodable(p)
  PROVE  Spec => []RequestsReadBack
<1>1. Init => Written
  BY DEF Init, Written
<1>2. Written /\ [Next]_vars => Written'
  BY NextWritten
<1>3. Written => RequestsReadBack
  <2> SUFFICES ASSUME Written, wrote # NoRequest PROVE RequestsReadBack
    BY DEF RequestsReadBack
  <2>1. PICK p \in Requests :
          wrote = [typ |-> "some", packet |-> p,
                   outcome |-> EncodeOutcome(p, Room(p)), bytes |-> Encode(p)]
    BY DEF Written
  <2>2. wrote.packet = p /\ wrote.outcome = EncodeOutcome(p, Room(p)) /\ wrote.bytes = Encode(p)
    BY <2>1
  <2>3. Encodable(p) /\ WellFormed(p)
    BY DEF Encodable
  <2>4. PICK d : /\ try_new(Encode(p)) = Ok(d, Fixed(p)) /\ d.typ = p.typ
                 /\ d.packet_len = Len(Encode(p))
    BY <2>3, Dispatch
  <2>5. try_new(Encode(p)).err = "none" /\ try_new(Encode(p)).val = d
    BY <2>4, OkIs
  <2>6. EncodeOutcome(p, Room(p)) # "ok" => RoomLeavesOut(p)
    BY <2>3, RequestFits
  <2>7. p.typ = "Publish" => Known([typ |-> "Message", frame |-> Encode(p)], p)
    <3>1. p.typ = "Publish" => Readable(p)
      BY <2>3 DEF Encodable
    <3> QED
      BY <2>3, <3>1, PacketsReadBack
  <2>8. p.typ \in {"PubAck", "PubRec", "PubRel", "PubComp", "Disconnect"} =>
          /\ from_buffer(Encode(p)).err = "none"
          /\ View(from_buffer(Encode(p)).val) = View(p)
    <3>1. p.typ \in {"PubAck", "PubRec", "PubRel", "PubComp", "Disconnect"} =>
            Readable(p) /\ p.typ # "Publish"
      BY <2>3 DEF Encodable
    <3> QED
      BY <2>3, <3>1, PacketsReadBack
  <2> QED
    BY <2>2, <2>4, <2>5, <2>6, <2>7, <2>8 DEF RequestsReadBack
<1> QED
  BY <1>1, <1>2, <1>3, PTL DEF Spec
=============================================================================
