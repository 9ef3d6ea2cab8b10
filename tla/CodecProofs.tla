---------------------------- MODULE CodecProofs -----------------------------
(***************************************************************************)
(* What an encoder writes, a decoder reads: for every property, every string *)
(* and every type of packet that a client receives, of any length that the *)
(* wire format has room for.                                               *)
(***************************************************************************)
EXTENDS Codec, SequenceFacts

-----------------------------------------------------------------------------
(* Varints *)

\* The bytes that write_varint() writes.
VarintBytes(n) == [i \in 1..varint_len(n) |-> write_varint(n)[i].bytes[1]]

\* The lengths that fit the four bytes of a varint.
LengthRange == {n \in Nat : n < Weight[5]}

\* The smaller of two numbers, as Min computes it.
LEMMA MinOfTwo ==
  ASSUME NEW a \in Int, NEW b \in Int
  PROVE  Min({a, b}) = IF a <= b THEN a ELSE b
<1> DEFINE m == IF a <= b THEN a ELSE b
<1>1. m \in {a, b} /\ \A y \in {a, b} : m <= y
  OBVIOUS
<1>2. \A x \in {a, b} : (\A y \in {a, b} : x <= y) => x = m
  OBVIOUS
<1> HIDE DEF m
<1> QED
  BY <1>1, <1>2 DEF Min, m

\* How many bytes varint_len() counts, from the limits.
LEMMA VarintLen ==
  ASSUME NEW n \in LengthRange
  PROVE  /\ varint_len(n) \in 1..4 /\ n \in Nat /\ n <= 268435455
         /\ varint_len(n) = 1 <=> n <= 127
         /\ varint_len(n) = 2 <=> 128 <= n /\ n <= 16383
         /\ varint_len(n) = 3 <=> 16384 <= n /\ n <= 2097151
         /\ varint_len(n) = 4 <=> 2097152 <= n
BY SMT DEF varint_len, LengthRange, Weight

\* What a varint looks like: every byte but the last has the high bit set.
LEMMA VarintWritten ==
  ASSUME NEW n \in LengthRange
  PROVE  /\ varint_len(n) \in 1..4
         /\ VarintBytes(n) \in Seq(Byte) /\ Len(VarintBytes(n)) = varint_len(n)
         /\ \A i \in 1..varint_len(n) :
              /\ VarintBytes(n)[i] \in Byte
              /\ VarintBytes(n)[i] < 128 <=> i = varint_len(n)
              /\ VarintBytes(n)[i] % 128 = (n \div Weight[i]) % 128
<1> DEFINE V == varint_len(n)
<1>1. /\ V \in 1..4
      /\ V = 1 <=> n <= 127
      /\ V = 2 <=> 128 <= n /\ n <= 16383
      /\ V = 3 <=> 16384 <= n /\ n <= 2097151
      /\ V = 4 <=> 2097152 <= n
  BY VarintLen, SMT
<1> HIDE DEF V
<1>2. ASSUME NEW i \in 1..V
      PROVE  /\ VarintBytes(n)[i] \in Byte
             /\ VarintBytes(n)[i] < 128 <=> i = V
             /\ VarintBytes(n)[i] % 128 = (n \div Weight[i]) % 128
  <2>1. VarintBytes(n)[i] = ((n \div Weight[i]) % 128) + Bit(n >= Weight[i+1], 128)
    BY DEF VarintBytes, write_varint, V
  <2>2. n \in Nat /\ n <= 268435455
    BY SMT DEF LengthRange, Weight
  <2>3. (n \div Weight[i]) % 128 \in 0..127 /\ i \in 1..4
    BY <1>1, <2>2, SMT DEF Weight
  <2>4. n >= Weight[i+1] <=> i # V
    BY <1>1, <2>2, SMT DEF Weight
  <2> DEFINE d == (n \div Weight[i]) % 128
  <2>5. d \in 0..127
    BY <2>3
  <2> HIDE DEF d
  <2>6. VarintBytes(n)[i] = IF i # V THEN d + 128 ELSE d
    BY <2>1, <2>4, <2>5 DEF Bit, d
  <2> QED
    BY <2>5, <2>6 DEF Byte, d
<1>3. VarintBytes(n) = [i \in 1..V |-> VarintBytes(n)[i]]
  BY DEF VarintBytes, V
<1>4. VarintBytes(n) \in Seq(Byte) /\ Len(VarintBytes(n)) = V
  BY <1>1, <1>2, <1>3
<1> QED
  BY <1>1, <1>2, <1>4 DEF V

\* The digits of a number in base 128 add up to it.
LEMMA DigitsAdd ==
  ASSUME NEW n \in Nat
  PROVE  /\ n <= 127 => n = ((n \div 1) % 128) * 1
         /\ n <= 16383 => n = ((n \div 1) % 128) * 1 + ((n \div 128) % 128) * 128
         /\ n <= 2097151 => n = ((n \div 1) % 128) * 1 + ((n \div 128) % 128) * 128
                                + ((n \div 16384) % 128) * 16384
         /\ n <= 268435455 => n = ((n \div 1) % 128) * 1 + ((n \div 128) % 128) * 128
                                  + ((n \div 16384) % 128) * 16384
                                  + ((n \div 2097152) % 128) * 2097152
BY SMT

\* A byte, by comparison.
LEMMA ByteIs == \A b : b \in Byte <=> b \in Nat /\ b < 256
BY DEF Byte

\* What write_varint() wrote, read_varint() reads, and it takes no prefix of it
\* for the whole.
LEMMA VarintRead ==
  ASSUME NEW n \in LengthRange, NEW b \in Seq(Byte), NEW at \in 0..Len(b),
         \A i \in 1..varint_len(n) : at + i <= Len(b) => b[at + i] = VarintBytes(n)[i]
  PROVE  /\ at + varint_len(n) <= Len(b) => read_varint(b, at) = Ok(n, at + varint_len(n))
         /\ at + varint_len(n) > Len(b) =>
              read_varint(b, at) = Fail("InsufficientBytes", at)
<1> DEFINE V == varint_len(n)
           k == Min({4, Len(b) - at})
           last == {i \in 1..k : b[at+i] < 128}
           digit(i) == IF i <= Min(last) THEN (b[at+i] % 128) * Weight[i] ELSE 0
<1>1. /\ V \in 1..4 /\ Len(b) \in Nat /\ at \in Nat /\ at <= Len(b)
      /\ \A i \in 1..V : at + i <= Len(b) =>
           /\ b[at + i] < 128 <=> i = V
           /\ b[at + i] % 128 = (n \div Weight[i]) % 128
  BY VarintWritten, LenProperties
<1>2. k = IF 4 <= Len(b) - at THEN 4 ELSE Len(b) - at
  BY <1>1, MinOfTwo
<1>3. read_varint(b, at) =
        IF last # {} THEN Ok(digit(1) + digit(2) + digit(3) + digit(4), at + Min(last))
        ELSE Fail(IF k = 4 THEN "MalformedPacket" ELSE "InsufficientBytes", at)
  BY DEF read_varint
<1> HIDE DEF V, k
<1>4. k \in 0..4 /\ \A i \in 1..k : i \in Nat /\ at + i <= Len(b)
  BY <1>1, <1>2
<1>5. CASE at + V <= Len(b)
  <2>1. V \in 1..k
    BY <1>1, <1>2, <1>5
  <2>2. V \in last /\ \A i \in last : V <= i
    <3>1. b[at + V] < 128
      BY <1>1, <1>5
    <3>2. ASSUME NEW i \in 1..k, b[at + i] < 128 PROVE V <= i
      <4>1. i < V => i \in 1..V /\ at + i <= Len(b) /\ i # V
        BY <1>1, <1>4
      <4>2. ~(i < V)
        BY <1>1, <3>2, <4>1
      <4> QED
        BY <1>1, <1>4, <4>2
    <3> QED
      BY <2>1, <3>1, <3>2
  <2>3. Min(last) = V
    <3>1. \A x \in last : (\A y \in last : x <= y) => x = V
      BY <1>1, <2>2
    <3> HIDE DEF last
    <3> QED
      BY <2>2, <3>1 DEF Min
  <2> HIDE DEF last
  <2>4. \A i \in 1..4 : digit(i) = IF i <= V THEN ((n \div Weight[i]) % 128) * Weight[i] ELSE 0
    BY <1>1, <1>5, <2>3
  <2> HIDE DEF digit
  <2>5. digit(1) + digit(2) + digit(3) + digit(4) = n
    <3>1. /\ V = 1 <=> n <= 127
          /\ V = 2 <=> 128 <= n /\ n <= 16383
          /\ V = 3 <=> 16384 <= n /\ n <= 2097151
          /\ V = 4 <=> 2097152 <= n
          /\ n \in Nat /\ n <= 268435455
      BY VarintLen, SMT DEF V
    <3>3. /\ digit(1) = ((n \div 1) % 128) * 1
          /\ digit(2) = IF 2 <= V THEN ((n \div 128) % 128) * 128 ELSE 0
          /\ digit(3) = IF 3 <= V THEN ((n \div 16384) % 128) * 16384 ELSE 0
          /\ digit(4) = IF 4 <= V THEN ((n \div 2097152) % 128) * 2097152 ELSE 0
      BY <1>1, <2>4, SMT DEF Weight
    <3> QED
      <4>1. CASE V = 1
        BY <3>1, <3>3, <4>1, SMT
      <4>2. CASE V = 2
        BY <3>1, <3>3, <4>2, SMT
      <4>3. CASE V = 3
        <5>1. n = ((n \div 1) % 128) * 1 + ((n \div 128) % 128) * 128
                  + ((n \div 16384) % 128) * 16384
          BY <3>1, <4>3, DigitsAdd, SMT
        <5> QED
          BY <3>1, <3>3, <4>3, <5>1, SMT
      <4>4. CASE V = 4
        <5>1. n = ((n \div 1) % 128) * 1 + ((n \div 128) % 128) * 128
                  + ((n \div 16384) % 128) * 16384 + ((n \div 2097152) % 128) * 2097152
          BY <3>1, <4>4, DigitsAdd, SMT
        <5> QED
          BY <3>1, <3>3, <4>4, <5>1, SMT
      <4> QED
        BY <1>1, <4>1, <4>2, <4>3, <4>4
  <2> QED
    <3>1. read_varint(b, at) = Ok(n, at + V)
      BY <1>3, <2>2, <2>3, <2>5
    <3> QED
      BY <1>1, <1>5, <3>1 DEF V
<1>6. CASE ~(at + V <= Len(b))
  <2>1. k < V /\ k # 4
    BY <1>1, <1>2, <1>6
  <2>2. last = {}
    BY <1>1, <1>4, <2>1
  <2> HIDE DEF last
  <2> QED
    BY <1>1, <1>3, <1>6, <2>1, <2>2 DEF V
<1> QED
  BY <1>5, <1>6

-----------------------------------------------------------------------------
(* The fixed header *)

\* A packet with a header: its body is bytes, and short enough for a varint.
Headed(p) ==
  /\ p.typ \in DOMAIN PacketType
  /\ flags(p) \in 0..15
  /\ Body(p) \in Seq(Byte) /\ Len(Body(p)) \in LengthRange

\* The length of the fixed header.
Fixed(p) == 1 + varint_len(Len(Body(p)))

\* The first byte of a packet tells its type from its flags, and no two types
\* have the same.
LEMMA TypeBytes ==
  ASSUME NEW t \in DOMAIN PacketType, NEW f \in 0..15
  PROVE  /\ PacketType[t] + f \in Byte
         /\ (PacketType[t] + f) - ((PacketType[t] + f) % 16) = PacketType[t]
         /\ (PacketType[t] + f) % 16 = f /\ (PacketType[t] + f) % 8 = f % 8
         /\ (PacketType[t] + f) % 2 = f % 2
         /\ \A u \in DOMAIN PacketType : PacketType[u] = PacketType[t] => u = t
<1>1. \E k \in 1..15 : PacketType[t] = 16 * k
  BY DEF PacketType
<1>2. \A u \in DOMAIN PacketType : PacketType[u] = PacketType[t] => u = t
  BY DEF PacketType
<1>3. f \in Nat /\ f < 16
  OBVIOUS
<1>4. PICK k \in 1..15 : PacketType[t] = 16 * k
  BY <1>1
<1>5. /\ 16 * k + f \in Nat /\ 16 * k + f < 256
      /\ (16 * k + f) - ((16 * k + f) % 16) = 16 * k
      /\ (16 * k + f) % 16 = f /\ (16 * k + f) % 8 = f % 8
      /\ (16 * k + f) % 2 = f % 2
  BY <1>3
<1> QED
  BY <1>2, <1>4, <1>5, ByteIs

\* A packet on the wire: type and flags, length, body.
LEMMA Encoded ==
  ASSUME NEW p, Headed(p)
  PROVE  /\ Encode(p) \in Seq(Byte)
         /\ Fixed(p) \in 2..5 /\ Len(Body(p)) \in Nat
         /\ Len(Encode(p)) = Fixed(p) + Len(Body(p))
         /\ Encode(p)[1] = PacketType[p.typ] + flags(p)
         /\ \A i \in 1..varint_len(Len(Body(p))) :
              Encode(p)[1 + i] = VarintBytes(Len(Body(p)))[i]
         /\ \A i \in 1..Len(Body(p)) : Encode(p)[Fixed(p) + i] = Body(p)[i]
<1> DEFINE n == Len(Body(p))
           V == varint_len(n)
           t == PacketType[p.typ] + flags(p)
           h == <<t>> \o VarintBytes(n)
<1>1. /\ n \in LengthRange /\ Body(p) \in Seq(Byte) /\ n \in Nat
  BY LenProperties DEF Headed
<1>2. V \in 1..4 /\ VarintBytes(n) \in Seq(Byte) /\ Len(VarintBytes(n)) = V
  BY <1>1, VarintWritten
<1>3. t \in Byte
  BY TypeBytes DEF Headed
<1>4. Encode(p) = h \o Body(p)
  <2>1. DOMAIN write_varint(n) = 1..V
    BY DEF write_varint
  <2> QED
    BY <2>1 DEF Encode, finalize_fixed_header, VarintBytes
<1> HIDE DEF n, V, t
<1>5. <<t>> \in Seq(Byte) /\ Len(<<t>>) = 1 /\ <<t>>[1] = t
  BY <1>3
<1>6. /\ h \in Seq(Byte) /\ Len(h) = 1 + V
      /\ \A i \in 1..(1 + V) : h[i] = IF i <= 1 THEN <<t>>[i] ELSE VarintBytes(n)[i - 1]
  BY <1>2, <1>5, ConcatProperties
<1> HIDE DEF h
<1>7. /\ Encode(p) \in Seq(Byte) /\ Len(Encode(p)) = (1 + V) + n
      /\ \A i \in 1..((1 + V) + n) :
           Encode(p)[i] = IF i <= 1 + V THEN h[i] ELSE Body(p)[i - (1 + V)]
  BY <1>1, <1>4, <1>6, ConcatProperties DEF n
<1>8. Encode(p)[1] = t
  <2>1. 1 \in 1..((1 + V) + n) /\ 1 \in 1..(1 + V) /\ 1 <= 1 + V
    BY <1>1, <1>2
  <2> QED
    BY <1>5, <1>6, <1>7, <2>1
<1>9. \A i \in 1..V : Encode(p)[1 + i] = VarintBytes(n)[i]
  BY <1>1, <1>2, <1>6, <1>7
<1>10. \A i \in 1..n : Encode(p)[(1 + V) + i] = Body(p)[i]
  BY <1>1, <1>2, <1>7
<1> QED
  BY <1>1, <1>2, <1>7, <1>8, <1>9, <1>10 DEF n, V, t, Fixed

\* b is a beginning of e.
Begins(b, e) ==
  /\ b \in Seq(Byte) /\ Len(b) <= Len(e)
  /\ \A i \in 1..Len(b) : b[i] = e[i]

\* A beginning with the bytes that follow it is a beginning.
LEMMA BeginsMore ==
  ASSUME NEW b, NEW e, Begins(b, e), NEW c \in Seq(Byte), Len(e) \in Nat,
         Len(b) + Len(c) <= Len(e), \A i \in 1..Len(c) : c[i] = e[Len(b) + i]
  PROVE  Begins(b \o c, e) /\ Len(b \o c) = Len(b) + Len(c)
<1>1. b \in Seq(Byte) /\ Len(b) <= Len(e) /\ \A i \in 1..Len(b) : b[i] = e[i]
  BY DEF Begins
<1>2. Concats(Byte)
  BY Concatenation
<1>3. /\ b \o c \in Seq(Byte) /\ Len(b) \in Nat /\ Len(c) \in Nat
      /\ Len(b \o c) = Len(b) + Len(c)
      /\ \A i \in 1..Len(b) : (b \o c)[i] = b[i]
      /\ \A i \in 1..Len(c) : (b \o c)[Len(b) + i] = c[i]
  BY <1>1, <1>2, Zenon DEF Concats
<1> DEFINE z == b \o c
<1> HIDE DEF z
<1>4. ASSUME NEW i \in 1..(Len(b) + Len(c)) PROVE z[i] = e[i]
  <2>1. CASE i <= Len(b)
    BY <1>1, <1>3, <2>1 DEF z
  <2>2. CASE ~(i <= Len(b))
    <3>1. PICK j \in 1..Len(c) : i = Len(b) + j
      <4>1. i - Len(b) \in 1..Len(c) /\ i = Len(b) + (i - Len(b))
        BY <1>3, <2>2
      <4> QED
        BY <4>1
    <3>2. z[i] = c[j] /\ e[i] = c[j]
      BY <1>3, <3>1 DEF z
    <3> QED
      BY <3>2
  <2> QED
    BY <2>1, <2>2
<1> QED
  BY <1>3, <1>4 DEF Begins, z

\* MqttDecoder::try_new() on a beginning of a packet.
LEMMA HeaderRead ==
  ASSUME NEW p, Headed(p), NEW b, Begins(b, Encode(p)), (flags(p) % 8) \div 2 # 3
  PROVE  /\ Len(b) < Fixed(p) => try_new(b).err = "InsufficientBytes"
         /\ Len(b) >= Fixed(p) =>
              try_new(b) = Ok([typ |-> p.typ,
                               dup |-> flags(p) >= 8, qos |-> (flags(p) % 8) \div 2,
                               retain |-> flags(p) % 2 = 1,
                               remaining_len |-> Len(Body(p)),
                               packet_len |-> Len(Encode(p))], Fixed(p))
<1> DEFINE n == Len(Body(p))
           V == varint_len(n)
           t == PacketType[p.typ] + flags(p)
<1>1. /\ n \in LengthRange /\ n \in Nat /\ V \in 1..4 /\ Fixed(p) = 1 + V
      /\ Len(b) \in Nat /\ b \in Seq(Byte) /\ Len(b) <= Len(Encode(p))
      /\ Len(Encode(p)) = Fixed(p) + n
  BY Encoded, VarintLen, LenProperties DEF Headed, Begins, Fixed
<1>2. CASE Len(b) < 2
  <2>1. try_new(b) = Fail("InsufficientBytes", 0)
    BY <1>2, Zenon DEF try_new
  <2> QED
    BY <1>1, <1>2, <2>1 DEF Fail
<1>3. CASE Len(b) >= 2
  <2>1. b[1] = t
    BY <1>1, <1>3, Encoded DEF Begins
  <2>2. ASSUME NEW i \in 1..V, 1 + i <= Len(b) PROVE b[1 + i] = VarintBytes(n)[i]
    <3>1. 1 + i \in 1..Len(b)
      BY <1>1, <2>2
    <3> QED
      BY <3>1, Encoded DEF Begins
  <2>3. /\ 1 + V <= Len(b) => read_len(b) = Ok(n, 1 + V)
        /\ 1 + V > Len(b) => read_len(b) = Fail("InsufficientBytes", 1)
    <3>1. 1 \in 0..Len(b)
      BY <1>1, <1>3
    <3> QED
      BY <1>1, <2>2, <3>1, VarintRead DEF read_len
  <2> DEFINE typs == {u \in DOMAIN PacketType : PacketType[u] = b[1] - (b[1] % 16)}
  <2>4. p.typ \in DOMAIN PacketType /\ flags(p) \in 0..15
    BY DEF Headed
  <2>5. typs = {p.typ}
    BY <2>1, <2>4, TypeBytes
  <2>6. b[1] % 16 = flags(p) /\ b[1] % 8 = flags(p) % 8 /\ b[1] % 2 = flags(p) % 2
    BY <2>1, <2>4, TypeBytes
  <2>7. (CHOOSE u \in typs : TRUE) = p.typ
    BY <2>5
  <2> DEFINE d(len, i) ==
         [typ |-> CHOOSE u \in typs : TRUE, dup |-> b[1] % 16 >= 8, qos |-> (b[1] % 8) \div 2,
          retain |-> b[1] % 2 = 1, remaining_len |-> len, packet_len |-> i + len]
  <2>8. try_new(b) = IF typs = {} THEN Fail("InvalidHeader", 0)
                     ELSE IF read_len(b).err = "none"
                          THEN IF (b[1] % 8) \div 2 = 3 THEN Fail("WrongQos", read_len(b).at)
                               ELSE Ok(d(read_len(b).val, read_len(b).at), read_len(b).at)
                          ELSE read_len(b)
    BY <1>1, <1>3 DEF try_new, Try
  <2> HIDE DEF typs
  <2>9. CASE 1 + V <= Len(b)
    <3>1. /\ read_len(b).err = "none" /\ read_len(b).val = n /\ read_len(b).at = 1 + V
      BY <2>3, <2>9 DEF Ok
    <3>2. try_new(b) = Ok(d(n, 1 + V), 1 + V)
      BY <2>5, <2>6, <2>8, <3>1
    <3> QED
      <4>1. (1 + V) + n = Len(Encode(p)) /\ Len(b) >= Fixed(p) /\ ~(Len(b) < Fixed(p))
        BY <1>1, <2>9
      <4>2. d(n, 1 + V) = [typ |-> p.typ, dup |-> flags(p) >= 8,
                           qos |-> (flags(p) % 8) \div 2, retain |-> flags(p) % 2 = 1,
                           remaining_len |-> n, packet_len |-> Len(Encode(p))]
        BY <2>6, <2>7, <4>1, Zenon
      <4> QED
        BY <1>1, <3>2, <4>1, <4>2, Zenon
  <2>10. CASE ~(1 + V <= Len(b))
    <3>1. read_len(b) = Fail("InsufficientBytes", 1) /\ Len(b) < Fixed(p) /\ ~(Len(b) >= Fixed(p))
      BY <1>1, <2>3, <2>10
    <3>2. read_len(b).err = "InsufficientBytes"
      BY <3>1 DEF Fail
    <3>3. try_new(b) = read_len(b)
      BY <2>5, <2>8, <3>2
    <3> QED
      BY <3>1, <3>2, <3>3
  <2> QED
    BY <2>9, <2>10
<1> QED
  BY <1>1, <1>2, <1>3

-----------------------------------------------------------------------------
(* Writes *)

\* The kinds of writes of an encoder.
Kinds == {"checked", "unchecked"}

\* The bytes of writes one after the other.
LEMMA WrittenConcat ==
  ASSUME NEW ws \in Seq(Writes), NEW vs \in Seq(Writes)
  PROVE  /\ ws \o vs \in Seq(Writes)
         /\ WrittenBytes(ws) \in Seq(Byte)
         /\ WrittenBytes(ws \o vs) = WrittenBytes(ws) \o WrittenBytes(vs)
<1> DEFINE B(q) == [i \in DOMAIN q |-> q[i].bytes]
<1>1. ASSUME NEW q \in Seq(Writes)
      PROVE  /\ B(q) \in Seq(Seq(Byte)) /\ Len(B(q)) = Len(q)
             /\ \A i \in 1..Len(q) : B(q)[i] = q[i].bytes
  <2>1. Len(q) \in Nat /\ DOMAIN q = 1..Len(q) /\ \A i \in 1..Len(q) : q[i] \in Writes
    BY LenProperties, ElementOfSeq
  <2>2. \A i \in 1..Len(q) : q[i].bytes \in Seq(Byte)
    BY <2>1 DEF Writes, Kinds
  <2> QED
    BY <2>1, <2>2
<1>2. /\ ws \o vs \in Seq(Writes) /\ Len(ws \o vs) = Len(ws) + Len(vs)
      /\ \A i \in 1..Len(ws) : (ws \o vs)[i] = ws[i]
      /\ \A i \in 1..Len(vs) : (ws \o vs)[Len(ws) + i] = vs[i]
  <2>1. Concats(Writes)
    BY Concatenation
  <2> QED
    BY <2>1, Zenon DEF Concats
<1>3. Len(ws) \in Nat /\ Len(vs) \in Nat
  BY LenProperties
<1> DEFINE u == ws \o vs
           x == B(ws)
           y == B(vs)
           z == B(u)
<1>4. /\ x \in Seq(Seq(Byte)) /\ Len(x) = Len(ws) /\ \A i \in 1..Len(ws) : x[i] = ws[i].bytes
      /\ y \in Seq(Seq(Byte)) /\ Len(y) = Len(vs) /\ \A i \in 1..Len(vs) : y[i] = vs[i].bytes
      /\ z \in Seq(Seq(Byte)) /\ Len(z) = Len(u) /\ \A i \in 1..Len(u) : z[i] = u[i].bytes
  BY <1>1, <1>2
<1>5. /\ WrittenBytes(ws) = FlattenSeq(x) /\ WrittenBytes(vs) = FlattenSeq(y)
      /\ WrittenBytes(u) = FlattenSeq(z)
  BY DEF WrittenBytes
<1> HIDE DEF x, y, z, B
<1>6. /\ x \o y \in Seq(Seq(Byte)) /\ Len(x \o y) = Len(x) + Len(y)
      /\ \A i \in 1..Len(x) : (x \o y)[i] = x[i]
      /\ \A i \in 1..Len(y) : (x \o y)[Len(x) + i] = y[i]
  <2>1. Concats(Seq(Byte))
    BY Concatenation
  <2> QED
    BY <1>4, <2>1, Zenon DEF Concats
<1>7. ASSUME NEW i \in 1..Len(z) PROVE z[i] = (x \o y)[i]
  <2>1. CASE i <= Len(ws)
    <3>1. i \in 1..Len(ws) /\ i \in 1..Len(x) /\ i \in 1..Len(u)
      BY <1>2, <1>3, <1>4, <2>1
    <3>2. z[i] = u[i].bytes /\ u[i] = ws[i] /\ x[i] = ws[i].bytes /\ (x \o y)[i] = x[i]
      BY <1>2, <1>4, <1>6, <3>1, Zenon
    <3> QED
      BY <3>2
  <2>2. CASE ~(i <= Len(ws))
    <3>1. PICK j \in 1..Len(vs) : i = Len(ws) + j
      <4>1. i - Len(ws) \in 1..Len(vs) /\ i = Len(ws) + (i - Len(ws))
        BY <1>2, <1>3, <1>4, <2>2
      <4> QED
        BY <4>1
    <3>2. j \in 1..Len(y) /\ i \in 1..Len(u)
      BY <1>2, <1>4
    <3>3. z[i] = u[i].bytes /\ u[i] = vs[j] /\ y[j] = vs[j].bytes /\ (x \o y)[i] = y[j]
      BY <1>2, <1>4, <1>6, <3>1, <3>2, Zenon
    <3> QED
      BY <3>3
  <2> QED
    BY <2>1, <2>2
<1>8. z = x \o y
  <2> DEFINE w == x \o y
  <2>1. w \in Seq(Seq(Byte)) /\ Len(w) = Len(z) /\ \A i \in 1..Len(z) : z[i] = w[i]
    BY <1>2, <1>4, <1>6, <1>7
  <2> HIDE DEF w
  <2>2. z = w
    BY <1>4, <2>1, SeqEqual
  <2> QED
    BY <2>2 DEF w
<1> QED
  BY <1>2, <1>4, <1>5, <1>8, FlattenConcat

\* A write, by its fields.
LEMMA WriteIs ==
  ASSUME NEW k \in Kinds, NEW b \in Seq(Byte)
  PROVE  [kind |-> k, bytes |-> b] \in Writes
BY DEF Writes, Kinds

\* No write puts no byte.
LEMMA WrittenNone == WrittenBytes(<<>>) = <<>> /\ <<>> \in Seq(Writes)
BY DEF WrittenBytes, FlattenSeq

\* A single write puts its bytes.
LEMMA WrittenOne ==
  ASSUME NEW k \in Kinds, NEW b \in Seq(Byte)
  PROVE  Write(k, b) \in Seq(Writes) /\ WrittenBytes(Write(k, b)) = b
<1> DEFINE w == [kind |-> k, bytes |-> b]
<1>1. w \in Writes /\ w.bytes = b
  BY DEF Writes, Kinds
<1> HIDE DEF w
<1>2. <<w>> \in Seq(Writes) /\ [i \in DOMAIN <<w>> |-> <<w>>[i].bytes] = <<b>>
  BY <1>1
<1>3. WrittenBytes(<<w>>) = b
  BY <1>2, FlattenFew DEF WrittenBytes
<1> QED
  BY <1>2, <1>3 DEF Write, w

\* write_varint() writes a byte at a time.
LEMMA WrittenVarint ==
  ASSUME NEW n \in LengthRange
  PROVE  write_varint(n) \in Seq(Writes) /\ WrittenBytes(write_varint(n)) = VarintBytes(n)
<1> DEFINE V == varint_len(n)
           w == write_varint(n)
           x == [i \in DOMAIN w |-> w[i].bytes]
<1>1. V \in 1..4 /\ \A i \in 1..V : VarintBytes(n)[i] \in Byte
  BY VarintWritten
<1>2. /\ DOMAIN w = 1..V /\ w = [i \in 1..V |-> w[i]]
      /\ \A i \in 1..V : w[i] = [kind |-> "unchecked", bytes |-> <<VarintBytes(n)[i]>>]
  BY DEF write_varint, VarintBytes
<1>3. VarintBytes(n) = [i \in 1..V |-> VarintBytes(n)[i]]
  BY DEF VarintBytes
<1> HIDE DEF V, w
<1>4. ASSUME NEW i \in 1..V
      PROVE  /\ w[i] \in Writes /\ w[i].bytes = <<VarintBytes(n)[i]>>
             /\ <<VarintBytes(n)[i]>> \in Seq(Byte) /\ Len(<<VarintBytes(n)[i]>>) = 1
  <2> DEFINE v == VarintBytes(n)[i]
  <2>1. w[i] = [kind |-> "unchecked", bytes |-> <<v>>] /\ v \in Byte
    BY <1>1, <1>2
  <2> HIDE DEF v
  <2>2. <<v>> \in Seq(Byte) /\ Len(<<v>>) = 1
    BY <2>1
  <2>3. [kind |-> "unchecked", bytes |-> <<v>>] \in Writes
    <3>1. "unchecked" \in Kinds
      BY Zenon DEF Kinds
    <3> QED
      BY <2>2, <3>1, WriteIs, Zenon
  <2> QED
    BY <2>1, <2>2, <2>3 DEF v
<1>5. w \in Seq(Writes)
  <2>1. w \in [1..V -> Writes]
    BY <1>2, <1>4
  <2> QED
    BY <1>1, <2>1
<1>6. /\ x \in Seq(Seq(Byte)) /\ Len(x) = V
      /\ \A i \in 1..V : x[i] = <<VarintBytes(n)[i]>>
  <2>1. \A i \in 1..V : w[i].bytes \in Seq(Byte)
    BY <1>4
  <2>2. x = [i \in 1..V |-> w[i].bytes]
    BY <1>2
  <2>3. x \in [1..V -> Seq(Byte)]
    BY <2>1, <2>2
  <2> HIDE DEF x
  <2> QED
    BY <1>1, <1>4, <2>2, <2>3
<1>7. WrittenBytes(w) = FlattenSeq(x)
  BY DEF WrittenBytes
<1> HIDE DEF x
<1>8. FlattenSeq(x) = [i \in 1..V |-> x[i][1]]
  <2>1. \A i \in 1..Len(x) : Len(x[i]) = 1
    BY <1>4, <1>6
  <2>2. FlattenSeq(x) = [i \in 1..Len(x) |-> x[i][1]]
    BY <1>6, <2>1, FlattenSingles
  <2> QED
    BY <1>6, <2>2
<1>9. \A i \in 1..V : x[i][1] = VarintBytes(n)[i]
  BY <1>6
<1> QED
  BY <1>3, <1>5, <1>7, <1>8, <1>9 DEF w

-----------------------------------------------------------------------------
(* What a packet looks like *)

\* The flags of a PUBLISH tell its QoS, dup and retain.
LEMMA PublishFlagsRead ==
  ASSUME NEW q \in 0..2, NEW d \in BOOLEAN, NEW r \in BOOLEAN,
         NEW f, f = q * 2 + Bit(d, 8) + Bit(r, 1)
  PROVE  /\ f \in 0..15 /\ (f % 8) \div 2 = q
         /\ (f >= 8) = d /\ (f % 2 = 1) = r
<1>1. CASE d /\ r
  <2>1. f = q * 2 + 8 + 1
    BY <1>1 DEF Bit
  <2>2. f \in 0..15 /\ (f % 8) \div 2 = q /\ f >= 8 /\ f % 2 = 1
    BY <2>1
  <2> QED
    BY <1>1, <2>2, Zenon
<1>2. CASE d /\ ~r
  <2>1. f = q * 2 + 8
    BY <1>2 DEF Bit
  <2>2. f \in 0..15 /\ (f % 8) \div 2 = q /\ f >= 8 /\ ~(f % 2 = 1)
    BY <2>1
  <2> QED
    BY <1>2, <2>2, Zenon
<1>3. CASE ~d /\ r
  <2>1. f = q * 2 + 1
    BY <1>3 DEF Bit
  <2>2. f \in 0..15 /\ (f % 8) \div 2 = q /\ ~(f >= 8) /\ f % 2 = 1
    BY <2>1
  <2> QED
    <3>1. (f >= 8) = FALSE /\ (f % 2 = 1) = TRUE
      BY <2>2, SMT
    <3>2. d = FALSE /\ r = TRUE
      BY <1>3
    <3> QED
      BY <2>2, <3>1, <3>2, Zenon
<1>4. CASE ~d /\ ~r
  <2>1. f = q * 2
    BY <1>4 DEF Bit
  <2>2. f \in 0..15 /\ (f % 8) \div 2 = q /\ ~(f >= 8) /\ ~(f % 2 = 1)
    BY <2>1
  <2> QED
    <3>1. (f >= 8) = FALSE /\ (f % 2 = 1) = FALSE
      BY <2>2, SMT
    <3>2. d = FALSE /\ r = FALSE
      BY <1>4
    <3> QED
      BY <2>2, <3>1, <3>2, Zenon
<1> QED
  BY <1>1, <1>2, <1>3, <1>4

\* The fixed header of a packet that can be written, and the flags that
\* try_new() reads in it: never the QoS 3 that it refuses.
LEMMA WellFormedHeader ==
  ASSUME NEW p, WellFormed(p)
  PROVE  /\ Headed(p) /\ (flags(p) % 8) \div 2 # 3
         /\ p.typ = "Publish" =>
              /\ (flags(p) % 8) \div 2 = p.qos
              /\ (flags(p) >= 8) = p.dup /\ (flags(p) % 2 = 1) = p.retain
<1>1. /\ p.typ = "Publish" =>
              /\ (flags(p) % 8) \div 2 = p.qos /\ p.qos \in 0..2 /\ p.qos # 3
              /\ (flags(p) >= 8) = p.dup /\ (flags(p) % 2 = 1) = p.retain
      /\ flags(p) \in 0..15
      /\ (flags(p) % 8) \div 2 # 3
  <2>1. CASE p.typ = "Publish"
    <3>1. flags(p) = p.qos * 2 + Bit(p.dup, 8) + Bit(p.retain, 1)
      BY <2>1 DEF flags, PublishFlags
    <3>2. p.qos \in 0..2 /\ p.dup \in BOOLEAN /\ p.retain \in BOOLEAN
      BY <2>1 DEF WellFormed
    <3>3. p.qos # 3
      BY <3>2
    <3> HIDE DEF flags
    <3> QED
      BY <3>1, <3>2, <3>3, PublishFlagsRead
  <2>2. CASE p.typ # "Publish"
    <3>1. flags(p) = 2 \/ flags(p) = 0
      BY <2>2 DEF flags
    <3> QED
      BY <2>2, <3>1
  <2> QED
    BY <2>1, <2>2
<1>2. Headed(p)
  <2>1. p.typ \in DOMAIN PacketType /\ to_buffer(p) \in Seq(Writes) /\ Len(Body(p)) < Weight[5]
    BY DEF WellFormed
  <2>2. Body(p) \in Seq(Byte) /\ Len(Body(p)) \in Nat
    BY <2>1, WrittenConcat, LenProperties DEF Body
  <2> QED
    BY <1>1, <2>1, <2>2 DEF Headed, LengthRange
<1> QED
  BY <1>1, <1>2

\* Two bytes and what read_u16() makes of them.
LEMMA TwoBytes ==
  ASSUME NEW n \in Nat, n < 256 * 256
  PROVE  /\ n \div 256 \in Byte /\ n % 256 \in Byte
         /\ (n \div 256) * 256 + (n % 256) = n
         /\ (n \div 256) % 256 = n \div 256
<1>1. n \div 256 \in Nat /\ n \div 256 < 256
  BY SMT
<1>2. n % 256 \in Nat /\ n % 256 < 256
  BY SMT
<1>3. (n \div 256) * 256 + (n % 256) = n
  BY SMT
<1>4. (n \div 256) % 256 = n \div 256
  BY <1>1, SMT
<1>5. n \div 256 \in Byte /\ n % 256 \in Byte
  <2>1. \A b : b \in Nat /\ b < 256 => b \in Byte
    BY ByteIs, SMT
  <2> QED
    BY <1>1, <1>2, <2>1, SMT
<1> QED
  BY <1>3, <1>4, <1>5, SMT

\* Two bytes as a sequence.
LEMMA PairOfBytes ==
  ASSUME NEW a \in Byte, NEW b \in Byte
  PROVE  <<a, b>> \in Seq(Byte) /\ Len(<<a, b>>) = 2 /\ <<a, b>>[1] = a /\ <<a, b>>[2] = b
OBVIOUS

\* The parts of the body of a PUBLISH.
TopicBytes(p) == <<Len(p.topic_name) \div 256, Len(p.topic_name) % 256>> \o p.topic_name
PidBytes(p)   == IF p.qos = 0 THEN <<>> ELSE <<p.pid \div 256, p.pid % 256>>
PropBytes(p)  == WrittenBytes(V5(write_properties(p.properties)))

\* The bytes of the properties of a PUBLISH: their length and their block.
LEMMA PublishWrites ==
  ASSUME NEW p, WellFormed(p), p.typ = "Publish"
  PROVE  /\ V5(write_properties(p.properties)) \in Seq(Writes)
         /\ mqttv5 => /\ size(p.properties) \in LengthRange
                      /\ WrittenBytes(write_block(p.properties)) \in Seq(Byte)
                      /\ PropBytes(p) = VarintBytes(size(p.properties))
                                         \o WrittenBytes(write_block(p.properties))
         /\ ~mqttv5 => PropBytes(p) = <<>>
<1> DEFINE n == size(p.properties)
           b == write_block(p.properties)
<1>1. CASE mqttv5
  <2>1. b \in Seq(Writes) /\ n \in LengthRange
    BY <1>1 DEF WellFormed, LengthRange
  <2>2. write_varint(n) \in Seq(Writes) /\ WrittenBytes(write_varint(n)) = VarintBytes(n)
    BY <2>1, WrittenVarint
  <2>3. V5(write_properties(p.properties)) = write_varint(n) \o b
    BY <1>1 DEF V5, write_properties
  <2> HIDE DEF n, b
  <2>4. /\ write_varint(n) \o b \in Seq(Writes) /\ WrittenBytes(b) \in Seq(Byte)
        /\ WrittenBytes(write_varint(n) \o b) = WrittenBytes(write_varint(n)) \o WrittenBytes(b)
    BY <2>1, <2>2, WrittenConcat
  <2> QED
    BY <1>1, <2>1, <2>2, <2>3, <2>4 DEF PropBytes, n, b
<1>2. CASE ~mqttv5
  BY <1>2, WrittenNone DEF PropBytes, V5
<1> QED
  BY <1>1, <1>2, FeatureAssumption

\* The body of a PUBLISH is topic, packet id, properties and payload.
LEMMA PublishBody ==
  ASSUME NEW p, WellFormed(p), p.typ = "Publish"
  PROVE  /\ TopicBytes(p) \in Seq(Byte) /\ PidBytes(p) \in Seq(Byte)
         /\ PropBytes(p) \in Seq(Byte) /\ p.payload \in Seq(Byte)
         /\ Body(p) = TopicBytes(p) \o PidBytes(p) \o PropBytes(p) \o p.payload
<1> DEFINE T == Len(p.topic_name)
<1>1. /\ p.qos \in 0..2 /\ p.topic_name \in Seq(Byte) /\ T < 256 * 256 /\ p.payload \in Seq(Byte)
      /\ p.qos # 0 => p.pid \in Nat \ {0} /\ p.pid < 256 * 256
      /\ V5(write_properties(p.properties)) \in Seq(Writes)
  BY PublishWrites DEF WellFormed
<1>2. T \in Nat
  BY <1>1, LenProperties
<1> DEFINE A == write_str(p.topic_name)
           X == IF p.qos = 0 THEN <<>>
                ELSE IF p.pid = NoPid THEN Write("PidMissing", <<>>)
                ELSE write_u16(p.pid)
           Y == V5(write_properties(p.properties))
           Z == write_payload(p.payload)
<1>3. to_buffer(p) = A \o X \o Y \o Z
  BY DEF to_buffer, PublishToBuffer
<1>4. TopicBytes(p) \in Seq(Byte) /\ A \in Seq(Writes) /\ WrittenBytes(A) = TopicBytes(p)
  <2>1. T \div 256 \in Byte /\ T % 256 \in Byte /\ (T \div 256) % 256 = T \div 256
    <3> HIDE DEF T
    <3> QED
      BY <1>1, <1>2, TwoBytes, SMT
  <2> DEFINE h == <<T \div 256, T % 256>>
  <2>2. h \in Seq(Byte)
    <3>1. PICK x, y : x = T \div 256 /\ y = T % 256
      OBVIOUS
    <3>2. x \in Byte /\ y \in Byte
      BY <2>1, <3>1
    <3>3. <<x, y>> \in Seq(Byte)
      BY <3>2, PairOfBytes
    <3> QED
      BY <3>1, <3>3
  <2>3. TopicBytes(p) = h \o p.topic_name
    BY DEF TopicBytes
  <2> HIDE DEF h
  <2>4. TopicBytes(p) \in Seq(Byte)
    BY <1>1, <2>2, <2>3, ConcatProperties
  <2>5. A = Write("checked", TopicBytes(p))
    <3>1. A = Write("checked", <<(T \div 256) % 256, T % 256>> \o p.topic_name)
      BY DEF write_str, write_slice
    <3> QED
      BY <2>1, <2>3, <3>1 DEF h
  <2>6. "checked" \in Kinds
    BY DEF Kinds
  <2> HIDE DEF A
  <2> QED
    BY <2>4, <2>5, <2>6, WrittenOne
<1>5. PidBytes(p) \in Seq(Byte) /\ X \in Seq(Writes) /\ WrittenBytes(X) = PidBytes(p)
  <2>1. CASE p.qos = 0
    <3>1. X = <<>> /\ PidBytes(p) = <<>>
      BY <2>1 DEF PidBytes
    <3>2. <<>> \in Seq(Byte)
      OBVIOUS
    <3> HIDE DEF X
    <3> QED
      BY <3>1, <3>2, WrittenNone
  <2>2. CASE p.qos # 0
    <3>1. p.pid \in Nat /\ p.pid # 0 /\ p.pid < 256 * 256
      BY <1>1, <2>2
    <3> DEFINE q == <<p.pid \div 256, p.pid % 256>>
    <3>2. X = Write("checked", q) /\ PidBytes(p) = q
      BY <2>2, <3>1 DEF PidBytes, write_u16, NoPid
    <3>3. p.pid \div 256 \in Byte /\ p.pid % 256 \in Byte
      BY <3>1, TwoBytes
    <3>4. q \in Seq(Byte)
      BY <3>3, PairOfBytes
    <3>6. "checked" \in Kinds
      BY DEF Kinds
    <3> HIDE DEF q, X
    <3> QED
      BY <3>2, <3>4, <3>6, WrittenOne
  <2> QED
    BY <2>1, <2>2
<1>6. PropBytes(p) \in Seq(Byte) /\ Y \in Seq(Writes) /\ WrittenBytes(Y) = PropBytes(p)
  BY <1>1, WrittenConcat DEF PropBytes
<1>7. Z \in Seq(Writes) /\ WrittenBytes(Z) = p.payload
  <2>1. "checked" \in Kinds
    BY DEF Kinds
  <2> QED
    BY <1>1, <2>1, WrittenOne DEF write_payload
<1> HIDE DEF A, X, Y, Z
<1>8. A \o X \in Seq(Writes) /\ WrittenBytes(A \o X) = TopicBytes(p) \o PidBytes(p)
  BY <1>4, <1>5, WrittenConcat
<1>9. /\ (A \o X) \o Y \in Seq(Writes)
      /\ WrittenBytes((A \o X) \o Y) = (TopicBytes(p) \o PidBytes(p)) \o PropBytes(p)
  <2>1. /\ (A \o X) \o Y \in Seq(Writes)
        /\ WrittenBytes((A \o X) \o Y) = WrittenBytes(A \o X) \o WrittenBytes(Y)
    BY <1>6, <1>8, WrittenConcat
  <2> QED
    BY <1>6, <1>8, <2>1
<1>10. WrittenBytes(((A \o X) \o Y) \o Z)
         = ((TopicBytes(p) \o PidBytes(p)) \o PropBytes(p)) \o p.payload
  <2>1. WrittenBytes(((A \o X) \o Y) \o Z) = WrittenBytes((A \o X) \o Y) \o WrittenBytes(Z)
    BY <1>7, <1>9, WrittenConcat
  <2> QED
    BY <1>7, <1>9, <2>1
<1> QED
  BY <1>1, <1>3, <1>4, <1>5, <1>6, <1>10 DEF Body

\* Where a PUBLISH has its topic, its packet id, its properties, its payload.
PidAt(p) == Fixed(p) + 2 + Len(p.topic_name)
PropAt(p) == PidAt(p) + IF p.qos = 0 THEN 0 ELSE 2

\* A slice of a packet's bytes.
LEMMA SliceIs ==
  ASSUME NEW b \in Seq(Byte), NEW at \in Nat, NEW t \in Seq(Byte), at + Len(t) <= Len(b),
         \A i \in 1..Len(t) : b[at + i] = t[i]
  PROVE  SubSeq(b, at + 1, at + Len(t)) = t
<1> DEFINE n == Len(t)
           s == SubSeq(b, at + 1, at + n)
<1>1. n \in Nat /\ Len(b) \in Nat /\ \A i \in 1..Len(b) : b[i] \in Byte
  BY LenProperties, ElementOfSeq
<1>2. \A i \in (at + 1)..(at + n) : b[i] \in Byte
  BY <1>1
<1>3. /\ s \in Seq(Byte)
      /\ Len(s) = IF at + 1 <= at + n THEN (at + n) - (at + 1) + 1 ELSE 0
      /\ \A i \in 1..((at + n) - (at + 1) + 1) : s[i] = b[(at + 1) + i - 1]
  BY <1>1, <1>2, SubSeqProperties
<1> HIDE DEF s
<1>4. Len(s) = n
  BY <1>1, <1>3
<1>5. \A i \in 1..n : s[i] = b[at + i]
  BY <1>1, <1>3
<1>6. \A i \in 1..Len(s) : s[i] = t[i]
  BY <1>4, <1>5
<1>7. s = t
  BY <1>3, <1>4, <1>6, SeqEqual
<1> QED
  BY <1>7 DEF s

\* read_u16() on two bytes that are there.
LEMMA ReadU16 ==
  ASSUME NEW b \in Seq(Byte), NEW at \in Nat
  PROVE  /\ at + 2 > Len(b) => read_u16(b, at) = Fail("InsufficientBytes", at)
         /\ \A n \in Nat :
              at + 2 <= Len(b) /\ n < 256 * 256 /\ b[at + 1] = n \div 256 /\ b[at + 2] = n % 256
                => read_u16(b, at) = Ok(n, at + 2)
<1>1. Len(b) \in Nat
  BY LenProperties
<1>2. check_remaining(b, at, 2) <=> at + 2 <= Len(b)
  BY <1>1 DEF check_remaining
<1>3. at + 2 > Len(b) <=> ~(at + 2 <= Len(b))
  BY <1>1
<1>4. ASSUME NEW n \in Nat, n < 256 * 256, b[at + 1] = n \div 256, b[at + 2] = n % 256
      PROVE  b[at + 1] * 256 + b[at + 2] = n
  BY <1>4, TwoBytes
<1> QED
  BY <1>2, <1>3, <1>4 DEF read_u16

\* The other decoders make packets of their own type.
LEMMA DecodersType ==
  ASSUME NEW d, NEW b, NEW at
  PROVE  /\ DisconnectFromDecoder(d, b, at).err = "none" =>
              DisconnectFromDecoder(d, b, at).val.typ = "Disconnect"
         /\ ConnAckFromDecoder(d, b, at).err = "none" =>
              ConnAckFromDecoder(d, b, at).val.typ = "ConnAck"
         /\ SubAckFromDecoder(d, b, at).err = "none" =>
              SubAckFromDecoder(d, b, at).val.typ = "SubAck"
         /\ UnsubAckFromDecoder(d, b, at).err = "none" =>
              UnsubAckFromDecoder(d, b, at).val.typ = "UnsubAck"
<1>1. DisconnectFromDecoder(d, b, at).err = "none" =>
        DisconnectFromDecoder(d, b, at).val.typ = "Disconnect"
  BY DEF DisconnectFromDecoder, Try, Ok, Disconnect
<1>2. ConnAckFromDecoder(d, b, at).err = "none" =>
        ConnAckFromDecoder(d, b, at).val.typ = "ConnAck"
  BY DEF ConnAckFromDecoder, Try, Ok, Fail, ConnAck
<1>3. SubAckFromDecoder(d, b, at).err = "none" =>
        SubAckFromDecoder(d, b, at).val.typ = "SubAck"
  BY DEF SubAckFromDecoder, Try, Ok, SubAck
<1>4. UnsubAckFromDecoder(d, b, at).err = "none" =>
        UnsubAckFromDecoder(d, b, at).val.typ = "UnsubAck"
  BY DEF UnsubAckFromDecoder, Try, Ok, UnsubAck
<1> QED
  BY <1>1, <1>2, <1>3, <1>4

\* AckFromDecoder() makes a packet of the type it is called for.
LEMMA AckType ==
  ASSUME NEW t, NEW c, NEW d, NEW b, NEW at, NEW r, r = AckFromDecoder(t, c, d, b, at)
  PROVE  r.err = "none" => r.val.typ = t
BY DEF AckFromDecoder, Try, Ok, Ack

-----------------------------------------------------------------------------
(* What a write puts and a read finds *)

\* The bytes t stand in b behind the offset at.
Holds(b, at, t) ==
  /\ b \in Seq(Byte) /\ at \in Nat /\ t \in Seq(Byte) /\ at + Len(t) <= Len(b)
  /\ \A i \in 1..Len(t) : b[at + i] = t[i]

\* The writes w put the bytes t.
Puts(w, t) == w \in Seq(Writes) /\ t \in Seq(Byte) /\ WrittenBytes(w) = t

\* Of two sequences that stand in a buffer each stands there.
LEMMA HoldsSplit ==
  ASSUME NEW b, NEW at, NEW s \in Seq(Byte), NEW t \in Seq(Byte), Holds(b, at, s \o t)
  PROVE  Holds(b, at, s) /\ Holds(b, at + Len(s), t) /\ Len(s) \in Nat /\ Len(t) \in Nat
<1> DEFINE z == s \o t
<1>1. /\ z \in Seq(Byte) /\ Len(s) \in Nat /\ Len(t) \in Nat /\ Len(z) = Len(s) + Len(t)
      /\ \A i \in 1..Len(s) : z[i] = s[i]
      /\ \A i \in 1..Len(t) : z[Len(s) + i] = t[i]
  <2>1. Concats(Byte)
    BY Concatenation
  <2> QED
    BY <2>1, Zenon DEF Concats
<1>2. /\ b \in Seq(Byte) /\ at \in Nat /\ at + Len(z) <= Len(b) /\ Len(b) \in Nat
      /\ \A i \in 1..Len(z) : b[at + i] = z[i]
  BY LenProperties DEF Holds
<1> HIDE DEF z
<1>3. at + Len(s) <= Len(b) /\ at + Len(s) \in Nat /\ (at + Len(s)) + Len(t) <= Len(b)
  BY <1>1, <1>2
<1>4. ASSUME NEW i \in 1..Len(s) PROVE b[at + i] = s[i]
  <2>1. i \in 1..Len(z)
    BY <1>1
  <2> QED
    BY <1>1, <1>2, <2>1
<1>5. ASSUME NEW i \in 1..Len(t) PROVE b[(at + Len(s)) + i] = t[i]
  <2>1. Len(s) + i \in 1..Len(z) /\ (at + Len(s)) + i = at + (Len(s) + i)
    BY <1>1, <1>2
  <2> QED
    BY <1>1, <1>2, <2>1
<1> QED
  BY <1>1, <1>2, <1>3, <1>4, <1>5 DEF Holds

\* A packet holds its body behind the fixed header, to its end.
LEMMA HoldsBody ==
  ASSUME NEW p, WellFormed(p)
  PROVE  /\ Holds(Encode(p), Fixed(p), Body(p)) /\ Fixed(p) \in 2..5
         /\ Fixed(p) + Len(Body(p)) = Len(Encode(p)) /\ Len(Body(p)) \in Nat
<1>1. Headed(p)
  BY WellFormedHeader
<1>2. /\ Encode(p) \in Seq(Byte) /\ Fixed(p) \in 2..5 /\ Len(Body(p)) \in Nat
      /\ Len(Encode(p)) = Fixed(p) + Len(Body(p)) /\ Body(p) \in Seq(Byte)
      /\ \A i \in 1..Len(Body(p)) : Encode(p)[Fixed(p) + i] = Body(p)[i]
  BY <1>1, Encoded DEF Headed
<1> QED
  BY <1>2 DEF Holds

\* One byte as a sequence.
LEMMA OneByte ==
  ASSUME NEW v \in Byte
  PROVE  <<v>> \in Seq(Byte) /\ Len(<<v>>) = 1 /\ <<v>>[1] = v
OBVIOUS

\* Puts, spelled out.
LEMMA PutsIs ==
  ASSUME NEW w, NEW t, Puts(w, t)
  PROVE  w \in Seq(Writes) /\ t \in Seq(Byte) /\ WrittenBytes(w) = t
BY DEF Puts

\* One write after the other puts its bytes behind the other's.
LEMMA PutsConcat ==
  ASSUME NEW w, NEW v, NEW t, NEW u, Puts(w, t), Puts(v, u)
  PROVE  Puts(w \o v, t \o u)
<1>1. w \in Seq(Writes) /\ v \in Seq(Writes) /\ t \in Seq(Byte) /\ u \in Seq(Byte)
      /\ WrittenBytes(w) = t /\ WrittenBytes(v) = u
  BY DEF Puts
<1>2. w \o v \in Seq(Writes) /\ WrittenBytes(w \o v) = WrittenBytes(w) \o WrittenBytes(v)
  BY <1>1, WrittenConcat
<1>3. t \o u \in Seq(Byte)
  BY <1>1, ConcatProperties
<1> QED
  BY <1>1, <1>2, <1>3 DEF Puts

\* An encoder that writes nothing.
LEMMA PutsNone == Puts(<<>>, <<>>)
<1>1. <<>> \in Seq(Byte)
  OBVIOUS
<1> QED
  BY <1>1, WrittenNone DEF Puts

\* write_u8() puts the byte.
LEMMA PutsU8 ==
  ASSUME NEW v \in Byte
  PROVE  Puts(write_u8(v), <<v>>)
<1>1. <<v>> \in Seq(Byte)
  BY OneByte
<1>2. "unchecked" \in Kinds
  BY DEF Kinds
<1>3. Write("unchecked", <<v>>) \in Seq(Writes) /\ WrittenBytes(Write("unchecked", <<v>>)) = <<v>>
  BY <1>1, <1>2, WrittenOne
<1> QED
  BY <1>1, <1>3 DEF Puts, write_u8

\* The two bytes of a number.
U16(n) == <<n \div 256, n % 256>>

\* They are bytes, the high one first.
LEMMA U16Is ==
  ASSUME NEW n \in Nat, n < 256 * 256
  PROVE  /\ U16(n) \in Seq(Byte) /\ Len(U16(n)) = 2
         /\ U16(n)[1] = n \div 256 /\ U16(n)[2] = n % 256
<1>1. n \div 256 \in Byte /\ n % 256 \in Byte
  BY TwoBytes
<1>2. PICK x, y : x = n \div 256 /\ y = n % 256
  OBVIOUS
<1>3. <<x, y>> \in Seq(Byte) /\ Len(<<x, y>>) = 2 /\ <<x, y>>[1] = x /\ <<x, y>>[2] = y
  BY <1>1, <1>2, PairOfBytes
<1>4. U16(n) = <<x, y>>
  BY <1>2 DEF U16
<1> QED
  BY <1>2, <1>3, <1>4

\* write_u16() puts them.
LEMMA PutsU16 ==
  ASSUME NEW n \in Nat, n < 256 * 256
  PROVE  Puts(write_u16(n), U16(n))
<1>1. U16(n) \in Seq(Byte)
  BY U16Is
<1>2. "checked" \in Kinds
  BY DEF Kinds
<1>3. Write("checked", U16(n)) \in Seq(Writes) /\ WrittenBytes(Write("checked", U16(n))) = U16(n)
  BY <1>1, <1>2, WrittenOne
<1>4. write_u16(n) = Write("checked", U16(n))
  BY DEF write_u16, U16
<1> QED
  BY <1>1, <1>3, <1>4 DEF Puts

\* A string or a slice with its length in front.
Counted(v) == U16(Len(v)) \o v

\* write_slice() and write_str() put the length in front.
LEMMA PutsSlice ==
  ASSUME NEW v \in Seq(Byte), Len(v) < 256 * 256
  PROVE  /\ Puts(write_slice(v), Counted(v)) /\ Puts(write_str(v), Counted(v))
         /\ Len(Counted(v)) = 2 + Len(v)
<1> DEFINE n == Len(v)
<1>1. n \in Nat
  BY LenProperties
<1>2. U16(n) \in Seq(Byte) /\ Len(U16(n)) = 2
  BY <1>1, U16Is
<1>3. Counted(v) \in Seq(Byte) /\ Len(Counted(v)) = Len(U16(n)) + n
  BY <1>2, ConcatProperties DEF Counted
<1>4. "checked" \in Kinds
  BY DEF Kinds
<1>5. /\ Write("checked", Counted(v)) \in Seq(Writes)
      /\ WrittenBytes(Write("checked", Counted(v))) = Counted(v)
  BY <1>3, <1>4, WrittenOne
<1>6. write_slice(v) = Write("checked", Counted(v))
  <2>1. (n \div 256) % 256 = n \div 256
    BY <1>1, TwoBytes
  <2>2. write_slice(v) = Write("checked", <<(n \div 256) % 256, n % 256>> \o v)
    BY DEF write_slice
  <2> HIDE DEF n
  <2>3. <<(n \div 256) % 256, n % 256>> = U16(n)
    BY <2>1 DEF U16
  <2> QED
    BY <2>2, <2>3 DEF Counted, n
<1>7. Len(Counted(v)) = 2 + n
  BY <1>2, <1>3
<1> QED
  BY <1>3, <1>5, <1>6, <1>7 DEF Puts, write_str

\* write_varint() puts the bytes of the varint.
LEMMA PutsVarint ==
  ASSUME NEW n \in LengthRange
  PROVE  Puts(write_varint(n), VarintBytes(n)) /\ Len(VarintBytes(n)) = varint_len(n)
BY WrittenVarint, VarintWritten DEF Puts

\* read_u8() reads the byte that is there.
LEMMA ReadsU8 ==
  ASSUME NEW b, NEW at, NEW v \in Byte, Holds(b, at, <<v>>)
  PROVE  read_u8(b, at) = Ok(v, at + 1)
<1>1. Len(<<v>>) = 1 /\ <<v>>[1] = v
  BY OneByte
<1>2. b \in Seq(Byte) /\ at \in Nat /\ at + 1 <= Len(b) /\ Len(b) \in Nat /\ b[at + 1] = v
  BY <1>1, LenProperties DEF Holds
<1>3. check_remaining(b, at, 1)
  BY <1>2 DEF check_remaining
<1> QED
  BY <1>2, <1>3 DEF read_u8

\* read_u16() reads the number whose bytes are there.
LEMMA ReadsU16 ==
  ASSUME NEW b, NEW at, NEW n \in Nat, n < 256 * 256, Holds(b, at, U16(n))
  PROVE  read_u16(b, at) = Ok(n, at + 2)
<1>1. Len(U16(n)) = 2 /\ U16(n)[1] = n \div 256 /\ U16(n)[2] = n % 256
  BY U16Is
<1>2. /\ b \in Seq(Byte) /\ at \in Nat /\ at + 2 <= Len(b)
      /\ \A i \in 1..2 : b[at + i] = U16(n)[i]
  BY <1>1 DEF Holds
<1>3. b[at + 1] = n \div 256 /\ b[at + 2] = n % 256
  BY <1>1, <1>2
<1> QED
  BY <1>2, <1>3, ReadU16

\* So does read_pid(), unless the number is 0.
LEMMA ReadsPid ==
  ASSUME NEW b, NEW at, NEW n \in Nat \ {0}, n < 256 * 256, Holds(b, at, U16(n))
  PROVE  read_pid(b, at) = Ok(n, at + 2)
<1>1. n \in Nat /\ n # 0
  OBVIOUS
<1>2. read_u16(b, at) = Ok(n, at + 2)
  BY <1>1, ReadsU16
<1>3. Ok(n, at + 2).err = "none" /\ Ok(n, at + 2).val = n /\ Ok(n, at + 2).at = at + 2
  BY DEF Ok
<1> QED
  BY <1>1, <1>2, <1>3 DEF read_pid, Try

\* read_varint() reads the number whose varint is there.
LEMMA ReadsVarint ==
  ASSUME NEW b, NEW at, NEW n \in LengthRange, Holds(b, at, VarintBytes(n))
  PROVE  read_varint(b, at) = Ok(n, at + varint_len(n))
<1>1. Len(VarintBytes(n)) = varint_len(n) /\ varint_len(n) \in 1..4
  BY VarintWritten
<1>2. /\ b \in Seq(Byte) /\ at \in Nat /\ at + varint_len(n) <= Len(b) /\ Len(b) \in Nat
      /\ \A i \in 1..varint_len(n) : b[at + i] = VarintBytes(n)[i]
  BY <1>1, LenProperties DEF Holds
<1>3. at \in 0..Len(b)
  BY <1>1, <1>2
<1> QED
  BY <1>2, <1>3, VarintRead

\* What stands in a buffer is the slice of it at that place.
LEMMA HoldsSlice ==
  ASSUME NEW b, NEW at, NEW t, Holds(b, at, t)
  PROVE  /\ SubSeq(b, at + 1, at + Len(t)) = t /\ check_remaining(b, at, Len(t))
         /\ Len(t) \in Nat /\ Len(b) \in Nat /\ at \in Nat
<1>1. /\ b \in Seq(Byte) /\ at \in Nat /\ t \in Seq(Byte) /\ at + Len(t) <= Len(b)
      /\ \A i \in 1..Len(t) : b[at + i] = t[i]
  BY DEF Holds
<1>2. Len(t) \in Nat /\ Len(b) \in Nat
  BY <1>1, LenProperties
<1>3. SubSeq(b, at + 1, at + Len(t)) = t
  BY <1>1, SliceIs
<1> QED
  BY <1>1, <1>2, <1>3 DEF check_remaining

\* read_slice() and read_str() read what is behind the length.
LEMMA ReadsSlice ==
  ASSUME NEW b, NEW at, NEW v \in Seq(Byte), Len(v) < 256 * 256, Holds(b, at, Counted(v))
  PROVE  /\ read_slice(b, at) = Ok(v, at + 2 + Len(v))
         /\ (\A i \in DOMAIN v : v[i] < 128) => read_str(b, at) = Ok(v, at + 2 + Len(v))
<1> DEFINE n == Len(v)
           i == at + 2
<1>1. n \in Nat
  BY LenProperties
<1>2. U16(n) \in Seq(Byte) /\ Len(U16(n)) = 2
  BY <1>1, U16Is
<1>3. Holds(b, at, U16(n)) /\ Holds(b, i, v)
  <2>1. Holds(b, at, U16(n)) /\ Holds(b, at + Len(U16(n)), v)
    BY <1>2, HoldsSplit DEF Counted
  <2> QED
    BY <1>2, <2>1
<1>4. read_u16(b, at) = Ok(n, i)
  BY <1>1, <1>3, ReadsU16
<1>5. SubSeq(b, i + 1, i + n) = v /\ check_remaining(b, i, n)
  BY <1>3, HoldsSlice
<1>6. Ok(n, i).err = "none" /\ Ok(n, i).val = n /\ Ok(n, i).at = i
  BY DEF Ok
<1> HIDE DEF i, n
<1>7. read_slice(b, at) = Ok(v, i + n)
  BY <1>4, <1>5, <1>6 DEF read_slice, Try
<1>8. Ok(v, i + n).err = "none" /\ Ok(v, i + n).val = v /\ Ok(v, i + n).at = i + n
  BY DEF Ok
<1>9. ASSUME \A k \in DOMAIN v : v[k] < 128 PROVE read_str(b, at) = Ok(v, i + n)
  <2>1. read_str(b, at) = IF \A k \in DOMAIN v : v[k] < 128 THEN Ok(v, i + n)
                          ELSE Fail("InvalidString", i + n)
    BY <1>7, <1>8, Zenon DEF read_str, Try
  <2> QED
    BY <1>9, <2>1, Zenon
<1> QED
  BY <1>7, <1>9 DEF i, n

\* read_payload() reads to the end of the packet.
LEMMA ReadsPayload ==
  ASSUME NEW b, NEW at, NEW t, Holds(b, at, t), NEW n, n = at + Len(t)
  PROVE  read_payload(b, at, n) = Ok(t, n)
<1>1. /\ SubSeq(b, at + 1, at + Len(t)) = t /\ check_remaining(b, at, Len(t))
      /\ Len(t) \in Nat /\ at \in Nat
  BY HoldsSlice
<1>2. n - at = Len(t)
  BY <1>1
<1> QED
  BY <1>1, <1>2 DEF read_payload

\* The fields of a result.
LEMMA OkIs ==
  ASSUME NEW v, NEW at
  PROVE  Ok(v, at).err = "none" /\ Ok(v, at).val = v /\ Ok(v, at).at = at
BY DEF Ok

\* The fields of an error.
LEMMA FailIs ==
  ASSUME NEW e, NEW at
  PROVE  Fail(e, at).err = e /\ Fail(e, at).at = at
BY DEF Fail

\* The length of a concatenation of bytes.
LEMMA ConcatLen ==
  ASSUME NEW s \in Seq(Byte), NEW t \in Seq(Byte)
  PROVE  s \o t \in Seq(Byte) /\ Len(s \o t) = Len(s) + Len(t) /\ Len(s) \in Nat /\ Len(t) \in Nat
BY Concatenation, Zenon DEF Concats

-----------------------------------------------------------------------------
(* Sums, and writes one after the other *)

\* The sum, from its partial sums.
LEMMA TotalIs ==
  ASSUME NEW ns \in Seq(Nat), NEW f, f[0] = 0,
         \A i \in 1..Len(ns) : f[i] = f[i - 1] + ns[i]
  PROVE  Total(ns) = f[Len(ns)]
<1> DEFINE n == Len(ns)
           B(g, i) == IF i = 0 THEN 0 ELSE g[i - 1] + ns[i]
           P(g) == g = [i \in 0..n |-> B(g, i)]
           g == CHOOSE x : P(x)
           h == [i \in 0..n |-> f[i]]
<1>1. n \in Nat
  BY LenProperties
<1>2. Total(ns) = g[n]
  BY DEF Total
<1>3. P(h)
  <2>1. ASSUME NEW i \in 0..n PROVE f[i] = B(h, i)
    <3>1. CASE i = 0
      BY <3>1
    <3>2. CASE i # 0
      <4>1. i \in 1..n /\ i - 1 \in 0..n
        BY <1>1, <3>2
      <4> QED
        BY <3>2, <4>1
    <3> QED
      BY <3>1, <3>2
  <2> HIDE DEF B
  <2> QED
    BY <2>1
<1>4. P(g)
  <2> HIDE DEF P
  <2> QED
    BY <1>3
<1> HIDE DEF g, n
<1>5. \A i \in 0..n : g[i] = B(g, i)
  BY <1>4
<1> DEFINE G == {i \in 0..n : g[i] = f[i]}
<1>6. 0 \in G
  BY <1>1, <1>5
<1>7. ASSUME NEW k \in 0..n, k \in G, k < n PROVE k + 1 \in G
  <2>1. k + 1 \in 0..n /\ k + 1 \in 1..n /\ (k + 1) - 1 = k /\ k + 1 # 0
    BY <1>1, <1>7
  <2>2. g[k + 1] = g[k] + ns[k + 1] /\ f[k + 1] = f[k] + ns[k + 1]
    BY <1>5, <2>1 DEF n
  <2> QED
    BY <1>7, <2>1, <2>2
<1> HIDE DEF G
<1>8. \A k \in 0..n : k \in G
  BY <1>1, <1>6, <1>7, CountUp
<1> QED
  BY <1>1, <1>2, <1>8 DEF G, n

\* The length of sequences one after the other.
LEMMA TotalFlatten ==
  ASSUME NEW S, NEW ss \in Seq(Seq(S)), NEW ns, ns = [i \in 1..Len(ss) |-> Len(ss[i])]
  PROVE  Total(ns) = Len(FlattenSeq(ss)) /\ FlattenSeq(ss) \in Seq(S) /\ ns \in Seq(Nat)
<1> DEFINE n == Len(ss)
<1>1. PICK f \in [0..n -> Seq(S)] : Joined(f, ss, n) /\ FlattenSeq(ss) = f[n]
  BY FlattenPrefixes
<1>2. n \in Nat /\ \A i \in 1..n : ss[i] \in Seq(S) /\ Len(ss[i]) \in Nat
  BY SeqIs, LenProperties
<1> DEFINE g == [i \in 0..n |-> Len(f[i])]
<1> HIDE DEF n
<1>3. ns \in Seq(Nat) /\ Len(ns) = n /\ \A i \in 1..n : ns[i] = Len(ss[i])
  <2>1. ns = [i \in 1..n |-> Len(ss[i])]
    BY DEF n
  <2>2. ns \in [1..n -> Nat]
    BY <1>2, <2>1
  <2> QED
    BY <1>2, <2>1, <2>2, FunSeq
<1>4. g[0] = 0
  <2>1. f[0] = <<>>
    BY <1>1 DEF Joined
  <2> QED
    BY <1>2, <2>1
<1>5. ASSUME NEW i \in 1..n PROVE g[i] = g[i - 1] + ns[i]
  <2>1. i \in 0..n /\ i - 1 \in 0..n
    BY <1>2
  <2>2. f[i] = f[i - 1] \o ss[i] /\ f[i - 1] \in Seq(S) /\ ss[i] \in Seq(S)
    BY <1>1, <1>2, <2>1 DEF Joined
  <2>3. Len(f[i]) = Len(f[i - 1]) + Len(ss[i])
    BY <2>2, ConcatProperties
  <2> QED
    BY <1>3, <2>1, <2>3
<1>6. Total(ns) = g[n]
  <2> HIDE DEF g
  <2> QED
    BY <1>3, <1>4, <1>5, TotalIs
<1> QED
  BY <1>1, <1>2, <1>3, <1>6 DEF n

\* The bytes of writes one after the other.
LEMMA PutsFlatten ==
  ASSUME NEW n \in Nat, NEW ws, NEW ts, ws = [i \in 1..n |-> ws[i]], ts = [i \in 1..n |-> ts[i]],
         \A i \in 1..n : Puts(ws[i], ts[i])
  PROVE  /\ Puts(FlattenSeq(ws), FlattenSeq(ts)) /\ ts \in Seq(Seq(Byte)) /\ Len(ts) = n
<1>1. \A i \in 1..n : ws[i] \in Seq(Writes) /\ ts[i] \in Seq(Byte)
  BY PutsIs
<1>2. ws \in Seq(Seq(Writes)) /\ Len(ws) = n /\ ts \in Seq(Seq(Byte)) /\ Len(ts) = n
  <2>1. ws \in [1..n -> Seq(Writes)] /\ ts \in [1..n -> Seq(Byte)]
    BY <1>1
  <2> QED
    BY <2>1, FunSeq
<1>3. PICK f \in [0..n -> Seq(Writes)] : Joined(f, ws, n) /\ FlattenSeq(ws) = f[n]
  BY <1>2, FlattenPrefixes
<1>4. PICK g \in [0..n -> Seq(Byte)] : Joined(g, ts, n) /\ FlattenSeq(ts) = g[n]
  BY <1>2, FlattenPrefixes
<1> DEFINE G == {i \in 0..n : Puts(f[i], g[i])}
<1>5. 0 \in G
  BY <1>3, <1>4, PutsNone DEF Joined
<1>6. ASSUME NEW k \in 0..n, k \in G, k < n PROVE k + 1 \in G
  <2>1. k + 1 \in 0..n /\ k + 1 \in 1..n /\ (k + 1) - 1 = k
    BY <1>6
  <2>2. f[k + 1] = f[k] \o ws[k + 1] /\ g[k + 1] = g[k] \o ts[k + 1]
    BY <1>3, <1>4, <2>1 DEF Joined
  <2>3. Puts(f[k], g[k]) /\ Puts(ws[k + 1], ts[k + 1])
    BY <1>6, <2>1
  <2>4. Puts(f[k] \o ws[k + 1], g[k] \o ts[k + 1])
    BY <2>3, PutsConcat
  <2> QED
    BY <2>1, <2>2, <2>4
<1> HIDE DEF G
<1>7. \A k \in 0..n : k \in G
  BY <1>5, <1>6, CountUp
<1> QED
  BY <1>2, <1>3, <1>4, <1>7 DEF G

-----------------------------------------------------------------------------
(* A property *)

\* The types that the values of properties have.
PropertyKinds == {"u8", "u16", "u32", "varint", "slice", "str", "pair"}

\* Each property has an id and a type, and no two the same id.
LEMMA PropertyIds ==
  /\ DOMAIN PropertyIdentifier = DOMAIN Property
  /\ \A p \in DOMAIN Property :
       /\ PropertyIdentifier[p] \in Byte /\ Property[p] \in PropertyKinds
       /\ \A q \in DOMAIN Property : PropertyIdentifier[q] = PropertyIdentifier[p] => q = p
<1>1. DOMAIN PropertyIdentifier = DOMAIN Property
  BY DEF PropertyIdentifier, Property
<1>2. ASSUME NEW p \in DOMAIN Property
      PROVE  PropertyIdentifier[p] \in Byte /\ Property[p] \in PropertyKinds
  BY DEF PropertyIdentifier, Property, Byte, PropertyKinds
<1>3. ASSUME NEW p \in DOMAIN Property, NEW q \in DOMAIN Property,
             PropertyIdentifier[q] = PropertyIdentifier[p]
      PROVE  q = p
  BY <1>3 DEF PropertyIdentifier, Property
<1> QED
  BY <1>1, <1>2, <1>3

\* The four bytes of a number.
U32(n) == <<n \div (256 * 256 * 256), (n \div (256 * 256)) % 256, (n \div 256) % 256, n % 256>>

\* A number of 32 bits from its bytes.
LEMMA FourBytes ==
  ASSUME NEW n \in Nat, n \div (256 * 256 * 256) < 256
  PROVE  \E a, b, c, d \in Byte :
           /\ a = n \div (256 * 256 * 256) /\ b = (n \div (256 * 256)) % 256
           /\ c = (n \div 256) % 256 /\ d = n % 256
           /\ ((a * 256 + b) * 256 + c) * 256 + d = n
<1> DEFINE m == n \div 256
           l == m \div 256
           a == n \div (256 * 256 * 256)
           b == (n \div (256 * 256)) % 256
           c == (n \div 256) % 256
           d == n % 256
<1>1. m \in Nat /\ d \in Nat /\ d < 256 /\ n = 256 * m + d
  BY SMT
<1>2. l \in Nat /\ c \in Nat /\ c < 256 /\ m = 256 * l + c
  BY <1>1, SMT
<1>3. n \div (256 * 256) = l
  <2> HIDE DEF l, m, c, d
  <2> SUFFICES (256 * 256) * l <= n /\ n < (256 * 256) * (l + 1)
    BY <1>2, SMT
  <2> QED
    BY <1>1, <1>2, SMT
<1>4. a = l \div 256 /\ b = l % 256
  <2>1. b = l % 256
    BY <1>3
  <2> HIDE DEF l, m, b, c, d
  <2>2. PICK h \in Nat : h = l \div 256 /\ l = 256 * h + b /\ b \in 0..255
    BY <1>2, <2>1, SMT
  <2>3. (256 * 256 * 256) * h <= n /\ n < (256 * 256 * 256) * (h + 1)
    BY <1>1, <1>2, <2>2, SMT
  <2>4. n \div (256 * 256 * 256) = h
    BY <2>2, <2>3, SMT
  <2> QED
    BY <2>1, <2>2, <2>4
<1>5. a < 256
  OBVIOUS
<1> HIDE DEF l, m, a, b, c, d
<1>6. a \in Nat /\ b \in Nat /\ b < 256 /\ l = 256 * a + b
  BY <1>2, <1>4, SMT
<1>7. ((a * 256 + b) * 256 + c) * 256 + d = n
  BY <1>1, <1>2, <1>6, SMT
<1>8. a \in Byte /\ b \in Byte /\ c \in Byte /\ d \in Byte
  BY <1>1, <1>2, <1>5, <1>6, ByteIs
<1> USE <1>8
<1> WITNESS a \in Byte, b \in Byte, c \in Byte, d \in Byte
<1> QED
  BY <1>7 DEF a, b, c, d

\* They are bytes and make the number.
LEMMA U32Is ==
  ASSUME NEW n \in Nat, n \div (256 * 256 * 256) < 256
  PROVE  /\ U32(n) \in Seq(Byte) /\ Len(U32(n)) = 4
         /\ ((U32(n)[1] * 256 + U32(n)[2]) * 256 + U32(n)[3]) * 256 + U32(n)[4] = n
<1>1. PICK a, b, c, d \in Byte :
        /\ a = n \div (256 * 256 * 256) /\ b = (n \div (256 * 256)) % 256
        /\ c = (n \div 256) % 256 /\ d = n % 256
        /\ ((a * 256 + b) * 256 + c) * 256 + d = n
  BY FourBytes
<1>2. U32(n) = <<a, b, c, d>>
  BY <1>1, SMT DEF U32
<1>3. /\ <<a, b, c, d>> \in Seq(Byte) /\ Len(<<a, b, c, d>>) = 4
      /\ <<a, b, c, d>>[1] = a /\ <<a, b, c, d>>[2] = b
      /\ <<a, b, c, d>>[3] = c /\ <<a, b, c, d>>[4] = d
  OBVIOUS
<1> QED
  BY <1>1, <1>2, <1>3

\* write_u32() puts them.
LEMMA PutsU32 ==
  ASSUME NEW n \in Nat, n \div (256 * 256 * 256) < 256
  PROVE  Puts(write_u32(n), U32(n))
<1>1. U32(n) \in Seq(Byte)
  BY U32Is
<1>2. "checked" \in Kinds
  BY DEF Kinds
<1>3. Write("checked", U32(n)) \in Seq(Writes) /\ WrittenBytes(Write("checked", U32(n))) = U32(n)
  BY <1>1, <1>2, WrittenOne
<1>4. write_u32(n) = Write("checked", U32(n))
  BY Zenon DEF write_u32, U32
<1> QED
  BY <1>1, <1>3, <1>4 DEF Puts

\* read_u32() reads the number whose bytes are there.
LEMMA ReadsU32 ==
  ASSUME NEW b, NEW at, NEW n \in Nat, n \div (256 * 256 * 256) < 256, Holds(b, at, U32(n))
  PROVE  read_u32(b, at) = Ok(n, at + 4)
<1> DEFINE t == U32(n)
<1>1. Len(t) = 4 /\ ((t[1] * 256 + t[2]) * 256 + t[3]) * 256 + t[4] = n
  BY U32Is
<1> HIDE DEF t
<1>2. /\ b \in Seq(Byte) /\ at \in Nat /\ at + 4 <= Len(b) /\ Len(b) \in Nat
      /\ \A i \in 1..4 : b[at + i] = t[i]
  BY <1>1, LenProperties DEF Holds, t
<1>3. b[at + 1] = t[1] /\ b[at + 2] = t[2] /\ b[at + 3] = t[3] /\ b[at + 4] = t[4]
  BY <1>2
<1>4. check_remaining(b, at, 4)
  BY <1>2 DEF check_remaining
<1> QED
  BY <1>1, <1>3, <1>4 DEF read_u32

\* What read_property() reads behind the id.
ReadValue(kind, b, at) ==
  CASE kind = "u8"     -> read_u8(b, at)
    [] kind = "u16"    -> read_u16(b, at)
    [] kind = "u32"    -> read_u32(b, at)
    [] kind = "varint" -> read_varint(b, at)
    [] kind = "slice"  -> read_slice(b, at)
    [] kind = "str"    -> read_str(b, at)
    [] kind = "pair"   -> Try(read_str(b, at), LAMBDA k, j :
                            Try(read_str(b, j), LAMBDA v, l : Ok(<<k, v>>, l)))

\* The writes w of a value put bytes that are read as the value v.
Carries(kind, w, v, n) ==
  \E t : /\ Puts(w, t) /\ Len(t) = n
         /\ \A b, at : Holds(b, at, t) => ReadValue(kind, b, at) = Ok(v, at + n)

\* Values that are numbers.  Of the varints only 0: see Typed.
LEMMA CarriesNumber ==
  ASSUME NEW v
  PROVE  /\ v \in Byte => Carries("u8", write_u8(v), v, 1)
         /\ v \in Nat /\ v < 256 * 256 => Carries("u16", write_u16(v), v, 2)
         /\ v \in Nat /\ v \div (256 * 256 * 256) < 256 => Carries("u32", write_u32(v), v, 4)
         /\ v = 0 => Carries("varint", write_varint(v), v, varint_len(v)) /\ varint_len(v) = 1
<1>1. ASSUME v \in Byte PROVE Carries("u8", write_u8(v), v, 1)
  <2>1. Puts(write_u8(v), <<v>>) /\ Len(<<v>>) = 1
    BY <1>1, PutsU8, OneByte
  <2>2. ASSUME NEW b, NEW at, Holds(b, at, <<v>>)
        PROVE  ReadValue("u8", b, at) = Ok(v, at + 1)
    BY <1>1, <2>2, ReadsU8 DEF ReadValue
  <2> QED
    BY <2>1, <2>2 DEF Carries
<1>2. ASSUME v \in Nat, v < 256 * 256 PROVE Carries("u16", write_u16(v), v, 2)
  <2>1. Puts(write_u16(v), U16(v)) /\ Len(U16(v)) = 2
    BY <1>2, PutsU16, U16Is
  <2>2. ASSUME NEW b, NEW at, Holds(b, at, U16(v))
        PROVE  ReadValue("u16", b, at) = Ok(v, at + 2)
    BY <1>2, <2>2, ReadsU16 DEF ReadValue
  <2> QED
    BY <2>1, <2>2 DEF Carries
<1>3. ASSUME v \in Nat, v \div (256 * 256 * 256) < 256 PROVE Carries("u32", write_u32(v), v, 4)
  <2>1. Puts(write_u32(v), U32(v)) /\ Len(U32(v)) = 4
    BY <1>3, PutsU32, U32Is
  <2>2. ASSUME NEW b, NEW at, Holds(b, at, U32(v))
        PROVE  ReadValue("u32", b, at) = Ok(v, at + 4)
    BY <1>3, <2>2, ReadsU32 DEF ReadValue
  <2> QED
    BY <2>1, <2>2 DEF Carries
<1>4. ASSUME v = 0
      PROVE  Carries("varint", write_varint(v), v, varint_len(v)) /\ varint_len(v) = 1
  <2>1. v \in LengthRange /\ varint_len(v) = 1
    BY <1>4, VarintLen, SMT DEF LengthRange, Weight
  <2>2. Puts(write_varint(v), VarintBytes(v)) /\ Len(VarintBytes(v)) = varint_len(v)
    BY <2>1, PutsVarint
  <2>3. ASSUME NEW b, NEW at, Holds(b, at, VarintBytes(v))
        PROVE  ReadValue("varint", b, at) = Ok(v, at + varint_len(v))
    BY <2>1, <2>3, ReadsVarint DEF ReadValue
  <2> QED
    BY <2>1, <2>2, <2>3 DEF Carries
<1> QED
  BY <1>1, <1>2, <1>3, <1>4

\* What read_str() takes for UTF-8.
Ascii(v) == \A i \in DOMAIN v : v[i] < 128

\* Values that are strings or bytes.
LEMMA CarriesText ==
  ASSUME NEW v \in Seq(Byte), Len(v) < 256 * 256
  PROVE  /\ Carries("slice", write_slice(v), v, Len(v) + 2)
         /\ Ascii(v) => Carries("str", write_slice(v), v, Len(v) + 2)
<1>1. Len(v) \in Nat
  BY LenProperties
<1>2. Puts(write_slice(v), Counted(v)) /\ Len(Counted(v)) = 2 + Len(v)
  BY PutsSlice
<1>3. Len(Counted(v)) = Len(v) + 2
  BY <1>1, <1>2
<1>4. ASSUME NEW b, NEW at, Holds(b, at, Counted(v))
      PROVE  /\ ReadValue("slice", b, at) = Ok(v, at + (Len(v) + 2))
             /\ Ascii(v) => ReadValue("str", b, at) = Ok(v, at + (Len(v) + 2))
  <2>1. at \in Nat
    BY <1>4 DEF Holds
  <2>2. at + 2 + Len(v) = at + (Len(v) + 2)
    BY <1>1, <2>1
  <2>3. /\ read_slice(b, at) = Ok(v, at + 2 + Len(v))
        /\ Ascii(v) => read_str(b, at) = Ok(v, at + 2 + Len(v))
    BY <1>4, ReadsSlice DEF Ascii
  <2> QED
    BY <2>2, <2>3 DEF ReadValue
<1> QED
  BY <1>2, <1>3, <1>4 DEF Carries

\* The two strings of a UserProperty.
LEMMA CarriesPair ==
  ASSUME NEW k \in Seq(Byte), Len(k) < 256 * 256, Ascii(k),
         NEW v \in Seq(Byte), Len(v) < 256 * 256, Ascii(v)
  PROVE  Carries("pair", write_str(k) \o write_str(v), <<k, v>>, Len(k) + 2 + Len(v) + 2)
<1> DEFINE m == Len(k)
           n == Len(v)
           s == Counted(k)
           t == Counted(v)
<1>1. /\ m \in Nat /\ n \in Nat
      /\ Puts(write_str(k), s) /\ Len(s) = 2 + m /\ Puts(write_str(v), t) /\ Len(t) = 2 + n
  BY PutsSlice, LenProperties
<1>2. Puts(write_str(k) \o write_str(v), s \o t)
  BY <1>1, PutsConcat
<1>3. s \in Seq(Byte) /\ t \in Seq(Byte)
  BY <1>1, PutsIs
<1>4. Len(s \o t) = m + 2 + n + 2
  <2>1. Len(s \o t) = Len(s) + Len(t)
    BY <1>3, ConcatProperties
  <2> HIDE DEF m, n, s, t
  <2> QED
    BY <1>1, <2>1
<1>5. ASSUME NEW b, NEW at, Holds(b, at, s \o t)
      PROVE  ReadValue("pair", b, at) = Ok(<<k, v>>, at + (m + 2 + n + 2))
  <2> DEFINE i == at + 2 + m
             j == i + 2 + n
  <2>1. Holds(b, at, s) /\ Holds(b, at + Len(s), t) /\ at \in Nat
    <3>1. at \in Nat
      BY <1>5 DEF Holds
    <3> HIDE DEF s, t
    <3> QED
      BY <1>3, <1>5, <3>1, HoldsSplit
  <2>2. at + Len(s) = i
    BY <1>1, <2>1
  <2>3. read_str(b, at) = Ok(k, i)
    BY <2>1, ReadsSlice DEF Ascii
  <2>4. Holds(b, i, t)
    BY <2>1, <2>2
  <2>5. read_str(b, i) = Ok(v, j)
    BY <2>4, ReadsSlice DEF Ascii
  <2>6. j = at + (m + 2 + n + 2)
    BY <1>1, <2>1
  <2> HIDE DEF i, j
  <2>7. Ok(k, i).err = "none" /\ Ok(k, i).val = k /\ Ok(k, i).at = i
    BY OkIs
  <2>8. Ok(v, j).err = "none" /\ Ok(v, j).val = v /\ Ok(v, j).at = j
    BY OkIs
  <2>9. ReadValue("pair", b, at) = Ok(<<k, v>>, j)
    BY <2>3, <2>5, <2>7, <2>8 DEF ReadValue, Try
  <2> QED
    BY <2>6, <2>9
<1> QED
  BY <1>2, <1>4, <1>5 DEF Carries

\* write_property() writes the id and the value, and size() counts them.
LEMMA PropertyCarries ==
  ASSUME NEW q, Typed(q)
  PROVE  \E w, n : /\ write_property(q) = write_u8(PropertyIdentifier[q.id]) \o w
                   /\ Carries(Property[q.id], w, q.val, n) /\ property_size(q) = 1 + n
<1> DEFINE P == Property[q.id]
           v == q.val
           u == write_u8(PropertyIdentifier[q.id])
<1>1. P \in PropertyKinds
  BY PropertyIds DEF Typed
<1>2. CASE P = "u8"
  <2>1. v \in Byte
    BY <1>2 DEF Typed
  <2>2. write_property(q) = u \o write_u8(v) /\ property_size(q) = 1 + 1
    BY <1>2 DEF write_property, property_size
  <2> QED
    BY <1>2, <2>1, <2>2, CarriesNumber
<1>3. CASE P = "u16"
  <2>1. v \in Nat /\ v < 256 * 256
    BY <1>3 DEF Typed
  <2>2. write_property(q) = u \o write_u16(v) /\ property_size(q) = 1 + 2
    BY <1>3 DEF write_property, property_size
  <2> QED
    BY <1>3, <2>1, <2>2, CarriesNumber
<1>4. CASE P = "u32"
  <2>1. v \in Nat /\ v \div (256 * 256 * 256) < 256
    BY <1>4 DEF Typed
  <2>2. write_property(q) = u \o write_u32(v) /\ property_size(q) = 1 + 4
    BY <1>4 DEF write_property, property_size
  <2> QED
    BY <1>4, <2>1, <2>2, CarriesNumber
<1>5. CASE P = "varint"
  <2>1. v = 0 /\ Carries("varint", write_varint(v), v, varint_len(v)) /\ varint_len(v) = 1
    BY <1>5, CarriesNumber DEF Typed
  <2>2. write_property(q) = u \o write_varint(v) /\ property_size(q) = 1 + (varint_len(v) + v)
    BY <1>5 DEF write_property, property_size
  <2>3. property_size(q) = 1 + varint_len(v)
    BY <2>1, <2>2
  <2> QED
    BY <1>5, <2>1, <2>2, <2>3
<1>6. CASE P = "pair"
  <2>1. /\ v = <<v[1], v[2]>> /\ v[1] \in Seq(Byte) /\ v[2] \in Seq(Byte)
        /\ Len(v[1]) < 256 * 256 /\ Len(v[2]) < 256 * 256 /\ Ascii(v[1]) /\ Ascii(v[2])
    BY <1>6 DEF Typed, Ascii
  <2>2. /\ write_property(q) = u \o (write_str(v[1]) \o write_str(v[2]))
        /\ property_size(q) = 1 + (Len(v[1]) + 2 + Len(v[2]) + 2)
    BY <1>6 DEF write_property, property_size
  <2>3. Carries("pair", write_str(v[1]) \o write_str(v[2]), <<v[1], v[2]>>,
                Len(v[1]) + 2 + Len(v[2]) + 2)
    BY <2>1, CarriesPair
  <2> QED
    BY <1>6, <2>1, <2>2, <2>3
<1>7. CASE P \in {"str", "slice"}
  <2>1. v \in Seq(Byte) /\ Len(v) < 256 * 256 /\ (P = "str" => Ascii(v))
    BY <1>7 DEF Typed, Ascii
  <2>2. write_property(q) = u \o write_slice(v) /\ property_size(q) = 1 + (Len(v) + 2)
    BY <1>7 DEF write_property, property_size
  <2>3. Carries(P, write_slice(v), v, Len(v) + 2)
    BY <1>7, <2>1, CarriesText
  <2> QED
    BY <2>2, <2>3
<1> QED
  BY <1>1, <1>2, <1>3, <1>4, <1>5, <1>6, <1>7 DEF PropertyKinds

\* The bytes of a property.
PropertyBytes(q) == WrittenBytes(write_property(q))

\* read_property() is a read of the id and of the value.
LEMMA ReadPropertyIs ==
  ASSUME NEW b, NEW at, NEW p \in DOMAIN Property, NEW i,
         read_u8(b, at) = Ok(PropertyIdentifier[p], i), NEW r, r = ReadValue(Property[p], b, i)
  PROVE  read_property(b, at) = IF r.err = "none" THEN Ok([id |-> p, val |-> r.val], r.at) ELSE r
<1> DEFINE k == PropertyIdentifier[p]
           ids == {x \in DOMAIN PropertyIdentifier : PropertyIdentifier[x] = k}
<1>1. ids = {p}
  BY PropertyIds
<1>2. (CHOOSE x \in ids : TRUE) = p
  BY <1>1
<1>3. Property[p] \in PropertyKinds
  BY PropertyIds
<1>4. Ok(k, i).err = "none" /\ Ok(k, i).val = k /\ Ok(k, i).at = i
  BY OkIs
<1> HIDE DEF k
<1> DEFINE R == read_u8(b, at)
           J == {x \in DOMAIN PropertyIdentifier : PropertyIdentifier[x] = R.val}
           c == CHOOSE x \in J : TRUE
           T(z) == IF z.err = "none" THEN Ok([id |-> c, val |-> z.val], z.at) ELSE z
<1>5. R.err = "none" /\ R.val = k /\ R.at = i
  BY <1>4 DEF k
<1>6. J = {p} /\ c = p
  BY <1>1, <1>2, <1>5
<1>7. read_property(b, at) =
        CASE Property[c] = "u8"     -> T(read_u8(b, R.at))
          [] Property[c] = "u16"    -> T(read_u16(b, R.at))
          [] Property[c] = "u32"    -> T(read_u32(b, R.at))
          [] Property[c] = "varint" -> T(read_varint(b, R.at))
          [] Property[c] = "slice"  -> T(read_slice(b, R.at))
          [] Property[c] = "str"    -> T(read_str(b, R.at))
          [] Property[c] = "pair"   ->
               T(Try(read_str(b, R.at), LAMBDA x, j :
                   Try(read_str(b, j), LAMBDA v, l : Ok(<<x, v>>, l))))
  <2>1. J # {}
    BY <1>6
  <2> QED
    BY <1>5, <2>1, Zenon DEF read_property, Try
<1>8. T(r) = IF r.err = "none" THEN Ok([id |-> p, val |-> r.val], r.at) ELSE r
  BY <1>6
<1> HIDE DEF R, J, c, T
<1> SUFFICES read_property(b, at) = T(r)
  BY <1>8
<1> QED
  BY <1>3, <1>5, <1>6, <1>7 DEF ReadValue, PropertyKinds

\* A property is read as it was written.
LEMMA PropertyRead ==
  ASSUME NEW q, Typed(q)
  PROVE  /\ Puts(write_property(q), PropertyBytes(q)) /\ property_size(q) \in Nat \ {0}
         /\ Len(PropertyBytes(q)) = property_size(q)
         /\ \A b, at : Holds(b, at, PropertyBytes(q)) =>
                         read_property(b, at) = Ok(q, at + property_size(q))
<1> DEFINE p == q.id
           k == PropertyIdentifier[p]
<1>1. p \in DOMAIN Property /\ q = [id |-> p, val |-> q.val] /\ k \in Byte
  BY PropertyIds DEF Typed
<1>2. PICK w, n : /\ write_property(q) = write_u8(k) \o w
                  /\ Carries(Property[p], w, q.val, n) /\ property_size(q) = 1 + n
  BY PropertyCarries
<1>3. PICK t : /\ Puts(w, t) /\ Len(t) = n
               /\ \A b, at : Holds(b, at, t) => ReadValue(Property[p], b, at) = Ok(q.val, at + n)
  BY <1>2 DEF Carries
<1>4. t \in Seq(Byte) /\ n \in Nat
  BY <1>3, PutsIs, LenProperties
<1>5. Puts(write_u8(k), <<k>>) /\ <<k>> \in Seq(Byte) /\ Len(<<k>>) = 1
  BY <1>1, PutsU8, OneByte
<1>6. Puts(write_property(q), <<k>> \o t) /\ PropertyBytes(q) = <<k>> \o t
  <2>1. Puts(write_property(q), <<k>> \o t)
    BY <1>2, <1>3, <1>5, PutsConcat
  <2> QED
    BY <2>1, PutsIs DEF PropertyBytes
<1>7. Len(<<k>> \o t) = 1 + n
  BY <1>3, <1>4, <1>5, ConcatProperties
<1>8. ASSUME NEW b, NEW at, Holds(b, at, <<k>> \o t)
      PROVE  read_property(b, at) = Ok(q, at + property_size(q))
  <2> DEFINE r == ReadValue(Property[p], b, at + 1)
  <2>1. at \in Nat
    BY <1>8 DEF Holds
  <2>2. Holds(b, at, <<k>>) /\ Holds(b, at + 1, t)
    BY <1>4, <1>5, <1>8, HoldsSplit
  <2>3. read_u8(b, at) = Ok(k, at + 1)
    BY <1>1, <2>2, ReadsU8
  <2>4. r = Ok(q.val, (at + 1) + n)
    BY <1>3, <2>2
  <2>5. r.err = "none" /\ r.val = q.val /\ r.at = (at + 1) + n
    BY <2>4, OkIs
  <2> HIDE DEF r
  <2>6. read_property(b, at) = Ok([id |-> p, val |-> q.val], (at + 1) + n)
    BY <1>1, <2>3, <2>5, ReadPropertyIs DEF r
  <2>7. (at + 1) + n = at + property_size(q)
    BY <1>2, <1>4, <2>1
  <2> QED
    BY <1>1, <2>6, <2>7
<1> QED
  BY <1>2, <1>4, <1>6, <1>7, <1>8

-----------------------------------------------------------------------------
(* Iterating over properties *)

\* A read goes on in the buffer, whatever it finds there.
LEMMA ReadsFixed ==
  ASSUME NEW b \in Seq(Byte), NEW at \in 0..Len(b)
  PROVE  /\ read_u8(b, at).at \in at..Len(b) /\ read_u32(b, at).at \in at..Len(b)
         /\ read_u16(b, at).at \in at..Len(b)
         /\ read_u16(b, at).err = "none" => read_u16(b, at).val \in Nat
         /\ at < Len(b) => /\ read_u8(b, at) = Ok(b[at + 1], at + 1)
                           /\ b[at + 1] \in Byte
<1>1. Len(b) \in Nat /\ \A i \in 1..Len(b) : b[i] \in Byte
  BY SeqIs
<1>2. \A v, i, e : Ok(v, i).at = i /\ Ok(v, i).val = v /\ Fail(e, i).at = i /\ Fail(e, i).err = e
  BY OkIs, FailIs
<1>3. read_u8(b, at).at \in at..Len(b)
  BY <1>1, <1>2 DEF read_u8, check_remaining
<1>4. read_u32(b, at).at \in at..Len(b)
  <2> DEFINE v == ((b[at+1] * 256 + b[at+2]) * 256 + b[at+3]) * 256 + b[at+4]
  <2>1. read_u32(b, at) = IF check_remaining(b, at, 4) THEN Ok(v, at + 4)
                          ELSE Fail("InsufficientBytes", at)
    BY DEF read_u32
  <2> HIDE DEF v
  <2> QED
    BY <1>1, <1>2, <2>1 DEF check_remaining
<1>5. CASE check_remaining(b, at, 2)
  <2> DEFINE v == b[at+1] * 256 + b[at+2]
  <2>1. read_u16(b, at) = Ok(v, at + 2) /\ at + 2 <= Len(b)
    BY <1>1, <1>5 DEF read_u16, check_remaining
  <2>2. b[at + 1] \in Nat /\ b[at + 2] \in Nat
    BY <1>1, <2>1, ByteIs
  <2>3. v \in Nat
    BY <2>2
  <2> HIDE DEF v
  <2>4. read_u16(b, at).at = at + 2 /\ read_u16(b, at).val \in Nat
    BY <1>2, <2>1, <2>3
  <2>5. at + 2 \in at..Len(b)
    BY <1>1, <2>1
  <2>6. ASSUME at < Len(b) PROVE read_u8(b, at) = Ok(b[at + 1], at + 1) /\ b[at + 1] \in Byte
    BY <1>1, <2>6 DEF read_u8, check_remaining
  <2> QED
    BY <1>3, <1>4, <2>4, <2>5, <2>6
<1>6. CASE ~check_remaining(b, at, 2)
  <2>1. read_u16(b, at) = Fail("InsufficientBytes", at)
    BY <1>6 DEF read_u16
  <2>2. read_u16(b, at).at = at /\ read_u16(b, at).err # "none"
    BY <1>2, <2>1
  <2>3. ASSUME at < Len(b) PROVE read_u8(b, at) = Ok(b[at + 1], at + 1) /\ b[at + 1] \in Byte
    BY <1>1, <2>3 DEF read_u8, check_remaining
  <2>4. at \in at..Len(b)
    BY <1>1
  <2> QED
    BY <1>3, <1>4, <2>2, <2>3, <2>4
<1> QED
  BY <1>5, <1>6

\* So do the reads of strings.
LEMMA ReadsText ==
  ASSUME NEW b \in Seq(Byte), NEW at \in 0..Len(b)
  PROVE  read_slice(b, at).at \in at..Len(b) /\ read_str(b, at).at \in at..Len(b)
<1> DEFINE r == read_u16(b, at)
           s == read_slice(b, at)
<1>1. Len(b) \in Nat /\ at \in Nat
  BY LenProperties
<1>2. \A v, i, e : Ok(v, i).at = i /\ Fail(e, i).at = i
  BY OkIs, FailIs
<1>3. r.at \in at..Len(b) /\ (r.err = "none" => r.val \in Nat)
  BY ReadsFixed
<1>4. s.at \in at..Len(b)
  <2>1. CASE r.err # "none"
    <3>1. s = r
      BY <2>1 DEF read_slice, Try
    <3> QED
      BY <1>3, <3>1
  <2>2. CASE r.err = "none"
    <3> DEFINE v == SubSeq(b, r.at + 1, r.at + r.val)
    <3>1. s = IF check_remaining(b, r.at, r.val) THEN Ok(v, r.at + r.val)
              ELSE Fail("InsufficientBytes", r.at)
      BY <2>2 DEF read_slice, Try
    <3> HIDE DEF r, s, v
    <3> QED
      BY <1>1, <1>2, <1>3, <2>2, <3>1 DEF check_remaining
  <2> QED
    BY <2>1, <2>2
<1>5. read_str(b, at).at = s.at
  <2> DEFINE A == \A k \in DOMAIN s.val : s.val[k] < 128
  <2>1. read_str(b, at) = IF s.err = "none" THEN (IF A THEN Ok(s.val, s.at)
                                                  ELSE Fail("InvalidString", s.at))
                          ELSE s
    BY Zenon DEF read_str, Try
  <2> HIDE DEF A, s
  <2> QED
    BY <1>2, <2>1
<1> QED
  BY <1>4, <1>5

\* And so does the read of any value.
LEMMA ReadsOn ==
  ASSUME NEW b \in Seq(Byte), NEW at \in 0..Len(b), NEW kind \in PropertyKinds
  PROVE  ReadValue(kind, b, at).at \in at..Len(b)
<1>1. Len(b) \in Nat /\ at \in Nat
  BY LenProperties
<1>2. \A v, i, e : Ok(v, i).at = i /\ Fail(e, i).at = i
  BY OkIs, FailIs
<1>3. CASE kind \in {"u8", "u16", "u32"}
  BY <1>3, ReadsFixed DEF ReadValue
<1>4. CASE kind \in {"slice", "str"}
  BY <1>4, ReadsText DEF ReadValue
<1>5. CASE kind = "varint"
  <2> DEFINE n == Min({4, Len(b) - at})
             L == {i \in 1..n : b[at+i] < 128}
             r == read_varint(b, at)
  <2>1. n = IF 4 <= Len(b) - at THEN 4 ELSE Len(b) - at
    BY <1>1, MinOfTwo
  <2>2. n \in Nat /\ n <= Len(b) - at
    BY <1>1, <2>1
  <2>3. ReadValue(kind, b, at) = r
    BY <1>5 DEF ReadValue
  <2>4. CASE L = {}
    <3>1. r.at = at
      BY <1>2, <2>4 DEF read_varint
    <3> QED
      BY <1>1, <2>3, <3>1
  <2>5. CASE L # {}
    <3>1. r.at = at + Min(L)
      BY <1>2, <2>5 DEF read_varint
    <3>2. L \subseteq Nat
      BY <2>2
    <3>3. \E m \in L : \A k \in L : m <= k
      BY <2>5, <3>2, LeastNumber
    <3>4. Min(L) \in L
      BY <3>3 DEF Min
    <3>5. Min(L) \in 1..n
      BY <3>4
    <3> HIDE DEF L, n, r
    <3>6. at + Min(L) \in at..Len(b)
      BY <1>1, <2>2, <3>5
    <3> QED
      BY <2>3, <3>1, <3>6
  <2> QED
    BY <2>4, <2>5
<1>6. CASE kind = "pair"
  <2> DEFINE r == read_str(b, at)
             s == read_str(b, r.at)
  <2>1. ReadValue(kind, b, at)
          = IF r.err = "none" THEN (IF s.err = "none" THEN Ok(<<r.val, s.val>>, s.at) ELSE s) ELSE r
    BY <1>6, Zenon DEF ReadValue, Try
  <2>2. r.at \in at..Len(b)
    BY ReadsText
  <2>3. r.at \in 0..Len(b)
    BY <1>1, <2>2
  <2>4. s.at \in r.at..Len(b)
    BY <2>3, ReadsText
  <2> HIDE DEF r, s
  <2>5. s.at \in at..Len(b)
    BY <1>1, <2>2, <2>4
  <2>6. ReadValue(kind, b, at).at \in {r.at, s.at}
    BY <1>2, <2>1
  <2> QED
    BY <2>2, <2>5, <2>6
<1> QED
  BY <1>3, <1>4, <1>5, <1>6 DEF PropertyKinds

\* read_property() goes on by a byte at least.
LEMMA PropertyAdvances ==
  ASSUME NEW b \in Seq(Byte), NEW at \in 0..Len(b), at < Len(b)
  PROVE  read_property(b, at).at \in (at + 1)..Len(b)
<1> DEFINE k == b[at + 1]
           R == read_u8(b, at)
           J == {x \in DOMAIN PropertyIdentifier : PropertyIdentifier[x] = R.val}
<1>1. Len(b) \in Nat /\ at \in Nat
  BY LenProperties
<1>2. R = Ok(k, at + 1)
  BY ReadsFixed
<1>3. R.err = "none" /\ R.val = k /\ R.at = at + 1
  BY <1>2, OkIs
<1>4. at + 1 \in 0..Len(b) /\ at + 1 \in (at + 1)..Len(b)
  BY <1>1
<1>5. CASE J = {}
  <2>1. read_property(b, at) = Fail("InvalidProperty", R.at)
    BY <1>3, <1>5, Zenon DEF read_property, Try
  <2> QED
    BY <1>3, <1>4, <2>1, FailIs
<1>6. CASE J # {}
  <2>1. PICK p \in J : TRUE
    BY <1>6
  <2>2. p \in DOMAIN Property /\ k = PropertyIdentifier[p] /\ Property[p] \in PropertyKinds
    BY <1>3, <2>1, PropertyIds
  <2> DEFINE r == ReadValue(Property[p], b, at + 1)
  <2>3. r.at \in (at + 1)..Len(b)
    BY <1>4, <2>2, ReadsOn
  <2>4. read_property(b, at) = IF r.err = "none" THEN Ok([id |-> p, val |-> r.val], r.at) ELSE r
    BY <1>2, <2>2, ReadPropertyIs
  <2> HIDE DEF r
  <2>5. read_property(b, at).at = r.at
    BY <2>4, OkIs
  <2> QED
    BY <2>3, <2>5
<1> QED
  BY <1>5, <1>6

\* The function f collects h[at] on the way from at to L, which nx[at] leads.
Collects(f, L, h, nx) ==
  f = [at \in 0..L |-> IF at = L THEN <<>> ELSE <<h[at]>> \o f[nx[at]]]

\* There is one, if nx leads upwards.
LEMMA GoesUp ==
  ASSUME NEW L \in Nat, NEW h, NEW nx, \A at \in 0..(L - 1) : nx[at] \in (at + 1)..L
  PROVE  \E f : Collects(f, L, h, nx)
<1> DEFINE B(f, at) == IF at = L THEN <<>> ELSE <<h[at]>> \o f[nx[at]]
           Good(f, k) == \A at \in (L - k)..L : f[at] = B(f, at)
           G == {k \in 0..L : \E f : Good(f, k)}
<1>1. 0 \in G
  <2> DEFINE f == [at \in 0..L |-> <<>>]
  <2>1. Good(f, 0)
    OBVIOUS
  <2> QED
    BY <2>1
<1>2. ASSUME NEW k \in 0..L, k \in G, k < L PROVE k + 1 \in G
  <2>1. PICK f : Good(f, k)
    BY <1>2
  <2> DEFINE m == L - (k + 1)
             g == [at \in 0..L |-> IF at = m THEN B(f, m) ELSE f[at]]
  <2>2. m \in 0..(L - 1) /\ m # L /\ (m + 1) = L - k
    BY <1>2
  <2>3. ASSUME NEW at \in m..L PROVE g[at] = B(g, at)
    <3>1. CASE at = L
      <4>1. L \in (L - k)..L /\ L \in 0..L /\ L # m
        BY <1>2, <2>2
      <4>2. f[L] = B(f, L)
        BY <2>1, <4>1
      <4>3. g[L] = f[L]
        BY <4>1
      <4> QED
        BY <3>1, <4>2, <4>3
    <3>2. CASE at # L
      <4>1. at \in 0..(L - 1) /\ at \in 0..L
        BY <2>2, <3>2
      <4>2. nx[at] \in (at + 1)..L
        BY <4>1
      <4>3. nx[at] # m /\ nx[at] \in 0..L
        BY <2>2, <4>1, <4>2
      <4>4. g[nx[at]] = f[nx[at]]
        BY <4>3
      <4>5. B(g, at) = B(f, at)
        BY <4>4
      <4>6. CASE at = m
        <5>1. g[m] = B(f, m)
          BY <4>1, <4>6
        <5> HIDE DEF g, B, m
        <5> QED
          BY <4>5, <4>6, <5>1
      <4>7. CASE at # m
        <5>1. at \in (L - k)..L
          BY <2>2, <4>1, <4>7
        <5>2. f[at] = B(f, at)
          BY <2>1, <5>1
        <5>3. g[at] = f[at]
          BY <4>1, <4>7
        <5> HIDE DEF g, B
        <5> QED
          BY <4>5, <5>2, <5>3
      <4> QED
        BY <4>6, <4>7
    <3> QED
      BY <3>1, <3>2
  <2> HIDE DEF g, B
  <2>4. Good(g, k + 1)
    BY <2>3
  <2>5. k + 1 \in 0..L
    BY <1>2
  <2> HIDE DEF Good
  <2> QED
    BY <2>4, <2>5
<1> HIDE DEF G
<1>3. \A k \in 0..L : k \in G
  BY <1>1, <1>2, CountUp
<1>4. PICK f : Good(f, L)
  <2>1. L \in 0..L
    OBVIOUS
  <2>2. L \in G
    BY <1>3, <2>1
  <2> HIDE DEF Good
  <2> QED
    BY <2>2 DEF G
<1> DEFINE g == [at \in 0..L |-> f[at]]
<1>5. ASSUME NEW at \in 0..L PROVE g[at] = B(g, at)
  <2>1. at \in (L - L)..L
    OBVIOUS
  <2>2. f[at] = B(f, at)
    BY <1>4, <2>1
  <2>3. CASE at = L
    BY <2>2, <2>3
  <2>4. CASE at # L
    <3>1. nx[at] \in 0..L
      BY <2>4
    <3> QED
      BY <2>2, <2>4, <3>1
  <2> QED
    BY <2>3, <2>4
<1>6. g = [at \in 0..L |-> B(g, at)]
  <2> HIDE DEF B
  <2>1. DOMAIN g = 0..L
    OBVIOUS
  <2> QED
    BY <1>5
<1> QED
  BY <1>6 DEF Collects

\* What iter() is on received bytes.
LEMMA IterIs ==
  ASSUME NEW b \in Seq(Byte)
  PROVE  \E f : /\ iter(DataBlock(b)) = f[0] /\ f[Len(b)] = <<>>
                /\ \A at \in 0..Len(b) : at < Len(b) =>
                     LET r == read_property(b, at)
                     IN  f[at] = <<IF r.err = "none" THEN r.val
                                   ELSE [id |-> "error", val |-> r.err]>> \o f[r.at]
<1> DEFINE D == DataBlock(b)
           L == Len(D.data)
           R(at) == read_property(D.data, at)
           H(at) == IF R(at).err = "none" THEN R(at).val ELSE [id |-> "error", val |-> R(at).err]
           B(f, at) == IF at = L THEN <<>> ELSE <<H(at)>> \o f[R(at).at]
           P(f) == f = [at \in 0..L |-> B(f, at)]
           g == CHOOSE f : P(f)
           h == [at \in 0..L |-> H(at)]
           nx == [at \in 0..L |-> R(at).at]
<1>1. D.kind = "DataBlock" /\ D.data = b /\ L \in Nat
  BY LenProperties DEF DataBlock
<1>2. iter(D) = g[0]
  BY <1>1 DEF iter
<1> HIDE DEF L, D
<1>3. \E f : P(f)
  <2>1. ASSUME NEW at \in 0..(L - 1) PROVE nx[at] \in (at + 1)..L
    <3>1. at \in 0..L /\ at < L
      BY <1>1
    <3>2. R(at).at \in (at + 1)..L
      BY <1>1, <3>1, PropertyAdvances DEF L
    <3> HIDE DEF R
    <3> QED
      BY <3>1, <3>2
  <2>2. PICK f : Collects(f, L, h, nx)
    <3> HIDE DEF nx, h
    <3>1. \A at \in 0..(L - 1) : nx[at] \in (at + 1)..L
      BY <2>1
    <3> QED
      BY <1>1, <3>1, GoesUp
  <2>3. ASSUME NEW at \in 0..L
        PROVE  (IF at = L THEN <<>> ELSE <<h[at]>> \o f[nx[at]]) = B(f, at)
    <3> HIDE DEF H, R
    <3>1. h[at] = H(at) /\ nx[at] = R(at).at
      OBVIOUS
    <3> HIDE DEF h, nx
    <3> QED
      BY <3>1
  <2> HIDE DEF h, nx, B
  <2>4. [at \in 0..L |-> IF at = L THEN <<>> ELSE <<h[at]>> \o f[nx[at]]]
          = [at \in 0..L |-> B(f, at)]
    BY <2>3
  <2> QED
    BY <2>2, <2>4 DEF Collects
<1>4. P(g)
  <2> HIDE DEF P
  <2> QED
    BY <1>3
<1> HIDE DEF g
<1>5. ASSUME NEW at \in 0..L PROVE g[at] = B(g, at)
  <2> HIDE DEF B
  <2> QED
    BY <1>4
<1>6. g[L] = <<>>
  <2>1. L \in 0..L
    BY <1>1
  <2>2. g[L] = B(g, L)
    BY <1>5, <2>1
  <2> QED
    BY <2>2, Zenon
<1>7. ASSUME NEW at \in 0..L, at < L PROVE g[at] = <<H(at)>> \o g[R(at).at]
  <2>1. g[at] = B(g, at)
    BY <1>5
  <2>2. at # L
    BY <1>1, <1>7
  <2> QED
    BY <2>1, <2>2, Zenon
<1> QED
  BY <1>1, <1>2, <1>6, <1>7 DEF L, D

\* Each of the pieces stands in the whole, behind the pieces before it.
LEMMA PiecesHeld ==
  ASSUME NEW n \in Nat, NEW bs, NEW F \in [0..n -> Seq(Byte)], Joined(F, bs, n),
         \A i \in 1..n : bs[i] \in Seq(Byte)
  PROVE  \A k \in 1..n : /\ Holds(F[n], Len(F[k - 1]), bs[k])
                         /\ Len(F[k]) = Len(F[k - 1]) + Len(bs[k]) /\ Len(F[k - 1]) \in Nat
<1> DEFINE t == F[n]
           G == {k \in 0..n : Holds(t, 0, F[n - k])}
<1>1. \A k \in 0..n : F[k] \in Seq(Byte) /\ Len(F[k]) \in Nat
  BY LenProperties
<1>2. ASSUME NEW k \in 1..n
      PROVE  /\ k - 1 \in 0..n /\ k \in 0..n /\ bs[k] \in Seq(Byte) /\ F[k] = F[k - 1] \o bs[k]
             /\ F[k - 1] \in Seq(Byte) /\ Len(F[k - 1]) \in Nat
  <2>1. k - 1 \in 0..n /\ k \in 0..n
    OBVIOUS
  <2> QED
    BY <1>1, <2>1 DEF Joined
<1>3. 0 \in G
  <2>1. t \in Seq(Byte) /\ Len(t) \in Nat /\ n - 0 = n
    BY <1>1
  <2>2. Holds(t, 0, t)
    BY <2>1 DEF Holds
  <2> QED
    BY <2>1, <2>2
<1>4. ASSUME NEW k \in 0..n, k \in G, k < n PROVE k + 1 \in G
  <2> DEFINE m == n - k
  <2>1. m \in 1..n /\ n - (k + 1) = m - 1 /\ k + 1 \in 0..n
    BY <1>4
  <2>2. Holds(t, 0, F[m]) /\ F[m] = F[m - 1] \o bs[m]
    BY <1>2, <1>4, <2>1
  <2>3. Holds(t, 0, F[m - 1])
    BY <1>2, <2>1, <2>2, HoldsSplit
  <2> QED
    BY <2>1, <2>3
<1> HIDE DEF G
<1>5. \A k \in 0..n : k \in G
  BY <1>3, <1>4, CountUp
<1>6. ASSUME NEW k \in 1..n
      PROVE  Holds(t, Len(F[k - 1]), bs[k]) /\ Len(F[k]) = Len(F[k - 1]) + Len(bs[k])
  <2>1. n - k \in 0..n /\ n - (n - k) = k
    OBVIOUS
  <2>2. n - k \in G
    BY <1>5, <2>1
  <2>3. Holds(t, 0, F[k])
    BY <2>1, <2>2 DEF G
  <2>4. Holds(t, 0 + Len(F[k - 1]), bs[k])
    <3>1. Holds(t, 0, F[k - 1] \o bs[k]) /\ F[k - 1] \in Seq(Byte) /\ bs[k] \in Seq(Byte)
      BY <1>2, <2>3
    <3> QED
      BY <3>1, HoldsSplit
  <2>5. 0 + Len(F[k - 1]) = Len(F[k - 1])
    BY <1>2
  <2>6. Len(F[k]) = Len(F[k - 1]) + Len(bs[k])
    <3>1. Len(F[k - 1] \o bs[k]) = Len(F[k - 1]) + Len(bs[k])
      BY <1>2, ConcatProperties
    <3> QED
      BY <1>2, <3>1
  <2> QED
    BY <2>4, <2>5, <2>6
<1> QED
  BY <1>2, <1>6

\* Properties of their types take size() bytes, and iter() yields them.
LEMMA SliceRead ==
  ASSUME NEW items, items \in Seq(Range(items)), \A i \in DOMAIN items : Typed(items[i]),
         NEW w, w = FlattenSeq([i \in DOMAIN items |-> write_property(items[i])])
  PROVE  /\ w \in Seq(Writes) /\ WrittenBytes(w) \in Seq(Byte)
         /\ Len(WrittenBytes(w)) = Total([i \in DOMAIN items |-> property_size(items[i])])
         /\ iter(DataBlock(WrittenBytes(w))) = items
<1> DEFINE n == Len(items)
           ws == [i \in 1..n |-> write_property(items[i])]
           bs == [i \in 1..n |-> PropertyBytes(items[i])]
           ns == [i \in 1..n |-> Len(bs[i])]
           t == FlattenSeq(bs)
<1>1. n \in Nat /\ DOMAIN items = 1..n
  BY SeqIs
<1>2. ASSUME NEW i \in 1..n
      PROVE  /\ Puts(ws[i], bs[i]) /\ bs[i] \in Seq(Byte) /\ Len(bs[i]) = property_size(items[i])
             /\ property_size(items[i]) \in Nat \ {0}
             /\ \A b, at : Holds(b, at, bs[i]) =>
                             read_property(b, at) = Ok(items[i], at + Len(bs[i]))
  <2>1. Typed(items[i])
    BY <1>1
  <2>2. ws[i] = write_property(items[i]) /\ bs[i] = PropertyBytes(items[i])
    OBVIOUS
  <2> HIDE DEF ws, bs
  <2>3. /\ Puts(ws[i], bs[i]) /\ Len(bs[i]) = property_size(items[i])
        /\ property_size(items[i]) \in Nat \ {0}
        /\ \A b, at : Holds(b, at, bs[i]) =>
                        read_property(b, at) = Ok(items[i], at + property_size(items[i]))
    BY <2>1, <2>2, PropertyRead
  <2> QED
    BY <2>3, PutsIs
<1>3. w = FlattenSeq(ws) /\ ws = [i \in 1..n |-> ws[i]] /\ bs = [i \in 1..n |-> bs[i]]
  BY <1>1
<1>4. [i \in DOMAIN items |-> property_size(items[i])] = ns
  <2> HIDE DEF bs
  <2> QED
    BY <1>1, <1>2
<1> HIDE DEF ws, bs, n
<1>5. Puts(w, t) /\ bs \in Seq(Seq(Byte)) /\ Len(bs) = n
  <2>1. \A i \in 1..n : Puts(ws[i], bs[i])
    BY <1>2
  <2> QED
    BY <1>1, <1>3, <2>1, PutsFlatten
<1>6. w \in Seq(Writes) /\ t \in Seq(Byte) /\ WrittenBytes(w) = t
  BY <1>5, PutsIs
<1>7. Total(ns) = Len(t)
  BY <1>5, TotalFlatten
<1>8. PICK F \in [0..n -> Seq(Byte)] : Joined(F, bs, n) /\ t = F[n]
  BY <1>5, FlattenPrefixes
<1> HIDE DEF t
<1>9. ASSUME NEW k \in 1..n
      PROVE  /\ Holds(t, Len(F[k - 1]), bs[k]) /\ Len(F[k]) = Len(F[k - 1]) + Len(bs[k])
             /\ Len(F[k - 1]) \in Nat
  BY <1>1, <1>2, <1>8, PiecesHeld
<1>10. PICK f : /\ iter(DataBlock(t)) = f[0] /\ f[Len(t)] = <<>>
                /\ \A at \in 0..Len(t) : at < Len(t) =>
                     LET r == read_property(t, at)
                     IN  f[at] = <<IF r.err = "none" THEN r.val
                                   ELSE [id |-> "error", val |-> r.err]>> \o f[r.at]
  BY <1>6, IterIs
<1>11. ASSUME NEW k \in 1..n
       PROVE  f[Len(F[k - 1])] = <<items[k]>> \o f[Len(F[k])]
  <2> DEFINE at == Len(F[k - 1])
             l == Len(bs[k])
             r == read_property(t, at)
  <2>1. Holds(t, at, bs[k]) /\ Len(F[k]) = at + l /\ at \in Nat
    BY <1>9
  <2>2. l \in Nat \ {0}
    BY <1>2
  <2>3. at + l <= Len(t) /\ Len(t) \in Nat
    BY <1>6, <2>1, LenProperties DEF Holds
  <2>4. r = Ok(items[k], at + l)
    BY <1>2, <2>1
  <2> HIDE DEF at, l, r
  <2>5. r.err = "none" /\ r.val = items[k] /\ r.at = Len(F[k])
    BY <2>1, <2>4, OkIs
  <2>6. at \in 0..Len(t) /\ at < Len(t)
    BY <2>1, <2>2, <2>3
  <2>7. f[at] = <<IF r.err = "none" THEN r.val
                  ELSE [id |-> "error", val |-> r.err]>> \o f[r.at]
    BY <1>10, <2>6, Zenon DEF r
  <2> QED
    BY <2>5, <2>7 DEF at
<1> DEFINE G == {k \in 0..n : f[Len(F[n - k])] = SubSeq(items, (n - k) + 1, n)}
<1>12. 0 \in G
  <2>1. n - 0 = n /\ 0 \in 0..n /\ n + 1 \in Int /\ n \in Int /\ n + 1 > n
    BY <1>1
  <2>2. SubSeq(items, n + 1, n) = <<>>
    BY <2>1, SubSeqEmpty
  <2> QED
    BY <1>8, <1>10, <2>1, <2>2
<1>13. ASSUME NEW k \in 0..n, k \in G, k < n PROVE k + 1 \in G
  <2> DEFINE m == n - k
  <2>1. m \in 1..n /\ n - (k + 1) = m - 1 /\ k + 1 \in 0..n /\ (m - 1) + 1 = m
    BY <1>1, <1>13
  <2>2. f[Len(F[m])] = SubSeq(items, m + 1, n)
    BY <1>13
  <2> HIDE DEF m
  <2>3. f[Len(F[m - 1])] = <<items[m]>> \o SubSeq(items, m + 1, n)
    BY <1>11, <2>1, <2>2
  <2>4. m \in 1..Len(items) /\ n \in m..Len(items)
    BY <1>1, <2>1 DEF n
  <2>5. SubSeq(items, m, n) = <<items[m]>> \o SubSeq(items, m + 1, n)
    BY <2>4, SubSeqRecursiveFirst
  <2> QED
    BY <2>1, <2>3, <2>5
<1> HIDE DEF G
<1>14. \A k \in 0..n : k \in G
  BY <1>1, <1>12, <1>13, CountUp
<1>15. f[0] = items
  <2>1. n \in 0..n /\ n - n = 0 /\ 0 + 1 = 1
    BY <1>1
  <2>2. n \in G
    BY <1>14, <2>1
  <2>3. f[Len(F[0])] = SubSeq(items, 1, n)
    BY <2>1, <2>2 DEF G
  <2>4. Len(F[0]) = 0
    <3>1. F[0] = <<>>
      BY <1>8 DEF Joined
    <3> QED
      BY <3>1
  <2>5. SubSeq(items, 1, n) = items
    BY SubSeqFull DEF n
  <2> QED
    BY <2>3, <2>4, <2>5
<1> QED
  BY <1>4, <1>6, <1>7, <1>10, <1>15

\* write_properties() and PropertiesIter: properties of their types take as
\* many bytes as Properties::size() announces, and the iterator over the received
\* block yields the properties that were written, in their order.
THEOREM PropertiesReadBack ==
  ASSUME NEW ps, TypedProperties(ps), mqttv5
  PROVE  /\ write_block(ps) \in Seq(Writes)
         /\ Len(WrittenBytes(write_block(ps))) = size(ps)
         /\ iter(DataBlock(WrittenBytes(write_block(ps)))) = iter(ps)
<1> DEFINE items == ps.items
           w == FlattenSeq([i \in DOMAIN items |-> write_property(items[i])])
<1>1. ps.kind = "Slice"
  <2>1. ps = Slice(items)
    BY DEF TypedProperties
  <2> HIDE DEF items
  <2>2. Slice(items).kind = "Slice"
    BY DEF Slice
  <2> QED
    BY <2>1, <2>2
<1>2. items \in Seq(Range(items)) /\ \A i \in DOMAIN items : Typed(items[i])
  BY DEF TypedProperties
<1>3. /\ write_block(ps) = w /\ iter(ps) = items
      /\ size(ps) = Total([i \in DOMAIN items |-> property_size(items[i])])
  BY <1>1 DEF write_block, iter, size
<1> HIDE DEF items, w
<1>4. /\ w \in Seq(Writes) /\ iter(DataBlock(WrittenBytes(w))) = items
      /\ Len(WrittenBytes(w)) = Total([i \in DOMAIN items |-> property_size(items[i])])
  BY <1>2, SliceRead DEF w
<1> QED
  BY <1>3, <1>4

\* The bytes of the properties of a packet, with their length in front.
PropsOf(ps) == WrittenBytes(V5(write_properties(ps)))

\* What V5ReadProperties() makes of them.
ReadProps(ps) == IF mqttv5 THEN DataBlock(WrittenBytes(write_block(ps))) ELSE Slice(<<>>)

\* Nothing to iterate over.
LEMMA IterNone == iter(Slice(<<>>)) = <<>> /\ iter(DataBlock(<<>>)) = <<>>
<1>1. iter(Slice(<<>>)) = <<>>
  BY DEF iter, Slice
<1> DEFINE D == DataBlock(<<>>)
           B(f, at) == IF at = Len(D.data) THEN <<>>
                       ELSE LET r == read_property(D.data, at)
                            IN  <<IF r.err = "none" THEN r.val
                                  ELSE [id |-> "error", val |-> r.err]>> \o f[r.at]
           P(f) == f = [at \in 0..Len(D.data) |-> B(f, at)]
           g == CHOOSE f : P(f)
<1>2. D.kind = "DataBlock" /\ D.data = <<>>
  BY DEF DataBlock
<1>3. Len(D.data) = 0
  BY <1>2
<1>4. iter(D) = g[0]
  BY <1>2 DEF iter
<1>5. \A f : B(f, 0) = <<>>
  BY <1>3
<1> HIDE DEF B
<1>6. P([at \in 0..0 |-> <<>>])
  BY <1>3, <1>5
<1>7. P(g)
  BY <1>6
<1> HIDE DEF g
<1>8. g[0] = <<>>
  BY <1>3, <1>5, <1>7
<1> QED
  BY <1>1, <1>4, <1>8

\* write_properties() puts the length and the block, and the block is read as
\* the properties that were written.
LEMMA PropsPut ==
  ASSUME NEW ps, TypedProperties(ps)
  PROVE  /\ Puts(V5(write_properties(ps)), PropsOf(ps))
         /\ mqttv5 => /\ size(ps) \in LengthRange
                      /\ WrittenBytes(write_block(ps)) \in Seq(Byte)
                      /\ Len(WrittenBytes(write_block(ps))) = size(ps)
                      /\ PropsOf(ps) = VarintBytes(size(ps)) \o WrittenBytes(write_block(ps))
                      /\ Len(PropsOf(ps)) = varint_len(size(ps)) + size(ps)
         /\ ~mqttv5 => PropsOf(ps) = <<>>
         /\ iter(ReadProps(ps)) = iter(ps)
<1> DEFINE n == size(ps)
           w == write_block(ps)
           t == WrittenBytes(w)
<1>1. CASE mqttv5
  <2>1. w \in Seq(Writes) /\ Len(t) = n /\ n < Weight[5] /\ iter(DataBlock(t)) = iter(ps)
    BY <1>1, PropertiesReadBack DEF TypedProperties
  <2>2. t \in Seq(Byte)
    BY <2>1, WrittenConcat
  <2>3. n \in LengthRange
    BY <2>1, <2>2, LenProperties DEF LengthRange
  <2>4. Puts(w, t)
    BY <2>1, <2>2 DEF Puts
  <2> HIDE DEF w, t, n
  <2>5. Puts(write_varint(n) \o w, VarintBytes(n) \o t) /\ Len(VarintBytes(n)) = varint_len(n)
    BY <2>3, <2>4, PutsVarint, PutsConcat
  <2>6. V5(write_properties(ps)) = write_varint(n) \o w
    BY <1>1 DEF V5, write_properties, n, w
  <2>7. PropsOf(ps) = VarintBytes(n) \o t
    BY <2>5, <2>6 DEF PropsOf, Puts
  <2>8. Len(VarintBytes(n) \o t) = varint_len(n) + n
    <3>1. VarintBytes(n) \in Seq(Byte)
      BY <2>3, VarintWritten
    <3> QED
      BY <2>1, <2>2, <2>5, <3>1, ConcatProperties
  <2>9. iter(ReadProps(ps)) = iter(ps)
    BY <1>1, <2>1 DEF ReadProps, t, w
  <2> QED
    BY <1>1, <2>1, <2>2, <2>3, <2>5, <2>6, <2>7, <2>8, <2>9 DEF n, w, t
<1>2. CASE ~mqttv5
  <2>1. ps = Slice(<<>>) /\ ReadProps(ps) = Slice(<<>>)
    BY <1>2 DEF TypedProperties, ReadProps
  <2>2. V5(write_properties(ps)) = <<>> /\ PropsOf(ps) = <<>>
    BY <1>2, WrittenNone DEF V5, PropsOf
  <2> QED
    BY <1>2, <2>1, <2>2, PutsNone
<1> QED
  BY <1>1, <1>2, FeatureAssumption

\* read_properties() finds them.
LEMMA ReadsProps ==
  ASSUME NEW ps, TypedProperties(ps), NEW b, NEW at, Holds(b, at, PropsOf(ps))
  PROVE  V5ReadProperties(b, at) = Ok(ReadProps(ps), at + Len(PropsOf(ps)))
<1> DEFINE n == size(ps)
           t == WrittenBytes(write_block(ps))
           v == VarintBytes(n)
           i == at + varint_len(n)
<1>1. CASE mqttv5
  <2>1. /\ n \in LengthRange /\ t \in Seq(Byte) /\ Len(t) = n
        /\ PropsOf(ps) = v \o t /\ Len(PropsOf(ps)) = varint_len(n) + n
    BY <1>1, PropsPut
  <2>2. v \in Seq(Byte) /\ Len(v) = varint_len(n) /\ varint_len(n) \in 1..4
    BY <2>1, VarintWritten
  <2>3. Holds(b, at, v) /\ Holds(b, i, t)
    <3>1. Holds(b, at, v) /\ Holds(b, at + Len(v), t)
      BY <2>1, <2>2, HoldsSplit
    <3> QED
      BY <2>2, <3>1
  <2>4. read_varint(b, at) = Ok(n, i)
    BY <2>1, <2>3, ReadsVarint
  <2>5. SubSeq(b, i + 1, i + Len(t)) = t /\ check_remaining(b, i, Len(t))
    BY <2>3, HoldsSlice
  <2>6. SubSeq(b, i + 1, i + n) = t /\ check_remaining(b, i, n)
    BY <2>1, <2>5
  <2>7. Ok(n, i).err = "none" /\ Ok(n, i).val = n /\ Ok(n, i).at = i
    BY DEF Ok
  <2>8. i + n = at + Len(PropsOf(ps))
    <3>1. at \in Nat /\ n \in Nat
      BY <2>1 DEF Holds, LengthRange
    <3> QED
      BY <2>1, <2>2, <3>1
  <2> HIDE DEF i, n, t
  <2>9. read_properties(b, at) = Ok(DataBlock(t), i + n)
    BY <2>4, <2>6, <2>7 DEF read_properties, Try
  <2> QED
    BY <1>1, <2>8, <2>9 DEF V5ReadProperties, ReadProps, t
<1>2. CASE ~mqttv5
  <2>1. PropsOf(ps) = <<>> /\ at \in Nat
    BY <1>2, PropsPut DEF Holds
  <2>2. at + Len(PropsOf(ps)) = at
    BY <2>1
  <2> QED
    BY <1>2, <2>2 DEF V5ReadProperties, ReadProps
<1> QED
  BY <1>1, <1>2, FeatureAssumption

\* Without bytes there are no properties.
LEMMA NoProps ==
  ASSUME NEW ps, TypedProperties(ps), mqttv5 => size(ps) = 0
  PROVE  iter(ps) = iter(Slice(<<>>))
<1>1. CASE mqttv5
  <2> DEFINE t == WrittenBytes(write_block(ps))
  <2>1. t \in Seq(Byte) /\ Len(t) = 0 /\ iter(DataBlock(t)) = iter(ps)
    BY <1>1, PropsPut, PropertiesReadBack
  <2>2. t = <<>>
    BY <2>1, EmptySeq
  <2> HIDE DEF t
  <2> QED
    BY <2>1, <2>2, IterNone
<1>2. CASE ~mqttv5
  BY <1>2 DEF TypedProperties
<1> QED
  BY <1>1, <1>2, FeatureAssumption

-----------------------------------------------------------------------------
(* Packets *)

\* What is read of a packet, with its properties read out, is the packet.
ReadsBack(p) ==
  from_buffer(Encode(p)).err = "none" /\ View(from_buffer(Encode(p)).val) = View(p)

\* Packets whose properties are read alike look alike.
LEMMA Viewed ==
  ASSUME NEW ps, NEW qs, iter(ps) = iter(qs)
  PROVE  /\ \A s, c : View(ConnAck(s, c, ps)) = View(ConnAck(s, c, qs))
         /\ \A t, n, c : View(Ack(t, n, c, ps)) = View(Ack(t, n, c, qs))
         /\ \A n, c : View(SubAck(n, ps, c)) = View(SubAck(n, qs, c))
         /\ \A n, c : View(UnsubAck(n, ps, c)) = View(UnsubAck(n, qs, c))
         /\ \A c : View(Disconnect(c, ps)) = View(Disconnect(c, qs))
<1>1. \A s, c : View(ConnAck(s, c, ps)) = View(ConnAck(s, c, qs))
  BY DEF View, ConnAck
<1>2. \A t, n, c : View(Ack(t, n, c, ps)) = View(Ack(t, n, c, qs))
  BY DEF View, Ack
<1>3. \A n, c : View(SubAck(n, ps, c)) = View(SubAck(n, qs, c))
  BY DEF View, SubAck
<1>4. \A n, c : View(UnsubAck(n, ps, c)) = View(UnsubAck(n, qs, c))
  BY DEF View, UnsubAck
<1>5. \A c : View(Disconnect(c, ps)) = View(Disconnect(c, qs))
  BY DEF View, Disconnect
<1> QED
  BY <1>1, <1>2, <1>3, <1>4, <1>5

\* from_buffer() and Message() start with the header of the packet.
LEMMA Dispatch ==
  ASSUME NEW p, WellFormed(p)
  PROVE  \E d : /\ try_new(Encode(p)) = Ok(d, Fixed(p))
                /\ d.typ = p.typ /\ d.remaining_len = Len(Body(p))
                /\ d.packet_len = Len(Encode(p))
                /\ p.typ = "Publish" => d.dup = p.dup /\ d.qos = p.qos /\ d.retain = p.retain
<1> DEFINE e == Encode(p)
           d == [typ |-> p.typ, dup |-> flags(p) >= 8, qos |-> (flags(p) % 8) \div 2,
                 retain |-> flags(p) % 2 = 1, remaining_len |-> Len(Body(p)),
                 packet_len |-> Len(Encode(p))]
<1>1. /\ Headed(p) /\ (flags(p) % 8) \div 2 # 3
      /\ p.typ = "Publish" => /\ (flags(p) % 8) \div 2 = p.qos
                              /\ (flags(p) >= 8) = p.dup /\ (flags(p) % 2 = 1) = p.retain
  BY WellFormedHeader
<1>2. /\ e \in Seq(Byte) /\ Fixed(p) \in 2..5 /\ Len(Body(p)) \in Nat
      /\ Len(e) = Fixed(p) + Len(Body(p))
  BY <1>1, Encoded
<1>3. Begins(e, e) /\ Len(e) >= Fixed(p)
  BY <1>2 DEF Begins
<1>4. try_new(e) = Ok(d, Fixed(p))
  BY <1>1, <1>3, HeaderRead
<1>5. /\ d.typ = p.typ /\ d.remaining_len = Len(Body(p)) /\ d.packet_len = Len(Encode(p))
  OBVIOUS
<1>6. p.typ = "Publish" => d.dup = p.dup /\ d.qos = p.qos /\ d.retain = p.retain
  BY <1>1
<1> HIDE DEF d
<1> QED
  BY <1>4, <1>5, <1>6

\* A packet holds what to_buffer() put behind its fixed header.
LEMMA HoldsPut ==
  ASSUME NEW p, WellFormed(p), NEW t, Puts(to_buffer(p), t)
  PROVE  /\ Holds(Encode(p), Fixed(p), t) /\ Fixed(p) \in Nat /\ Len(t) \in Nat
         /\ Len(Body(p)) = Len(t) /\ Len(Encode(p)) = Fixed(p) + Len(t)
<1>1. Body(p) = t
  BY DEF Body, Puts
<1>2. /\ Holds(Encode(p), Fixed(p), Body(p)) /\ Fixed(p) \in 2..5
      /\ Fixed(p) + Len(Body(p)) = Len(Encode(p)) /\ Len(Body(p)) \in Nat
  BY HoldsBody
<1> QED
  BY <1>1, <1>2

\* A PINGRESP is its header.
LEMMA PingRespReadsBack ==
  ASSUME NEW p, WellFormed(p), p = PingResp
  PROVE  ReadsBack(p)
<1>1. p.typ = "PingResp"
  BY DEF PingResp
<1>2. PICK d : try_new(Encode(p)) = Ok(d, Fixed(p)) /\ d.typ = p.typ
  BY Dispatch
<1>3. from_buffer(Encode(p)) = Ok(PingResp, Fixed(p))
  BY <1>1, <1>2, OkIs DEF from_buffer, Try
<1> QED
  BY <1>3, OkIs DEF ReadsBack

\* A CONNACK is read back.
LEMMA ConnAckReadsBack ==
  ASSUME NEW s \in BOOLEAN, NEW c \in ConnAckReasonCode, NEW ps, TypedProperties(ps),
         NEW p, p = ConnAck(s, c, ps), WellFormed(p)
  PROVE  ReadsBack(p)
<1> DEFINE e == Encode(p)
           f == Fixed(p)
           v == Bit(s, 1)
<1>1. /\ p.typ = "ConnAck" /\ p.session_present = s /\ p.reason_code = c /\ p.properties = ps
  BY DEF ConnAck
<1>2. PICK d : try_new(e) = Ok(d, f) /\ d.typ = p.typ
  BY Dispatch
<1>3. from_buffer(e) = ConnAckFromDecoder(d, e, f)
  BY <1>1, <1>2, OkIs DEF from_buffer, Try
<1>4. c \in Byte
  BY SMT DEF ConnAckReasonCode, ConnAckReasonCodeV5, ConnAckReasonCodeV3, Byte
<1>5. v \in Byte /\ v <= 1 /\ (v = 1) = s
  BY DEF Bit, Byte
<1> HIDE DEF v
<1>6. to_buffer(p) = (write_u8(v) \o write_u8(c)) \o V5(write_properties(ps))
  BY <1>1 DEF to_buffer, ConnAckToBuffer, v
<1>7. Puts(to_buffer(p), (<<v>> \o <<c>>) \o PropsOf(ps))
  BY <1>4, <1>5, <1>6, PutsU8, PropsPut, PutsConcat
<1>8. Holds(e, f, (<<v>> \o <<c>>) \o PropsOf(ps)) /\ f \in Nat
  BY <1>7, HoldsPut
<1>9. /\ <<v>> \in Seq(Byte) /\ <<c>> \in Seq(Byte) /\ Len(<<v>>) = 1 /\ Len(<<c>>) = 1
      /\ PropsOf(ps) \in Seq(Byte) /\ <<v>> \o <<c>> \in Seq(Byte) /\ Len(<<v>> \o <<c>>) = 2
  BY <1>4, <1>5, PropsPut, ConcatProperties DEF Puts
<1>10. Holds(e, f, <<v>>) /\ Holds(e, f + 1, <<c>>) /\ Holds(e, f + 2, PropsOf(ps))
  <2>1. Holds(e, f, <<v>> \o <<c>>) /\ Holds(e, f + Len(<<v>> \o <<c>>), PropsOf(ps))
    BY <1>8, <1>9, HoldsSplit
  <2>2. Holds(e, f, <<v>>) /\ Holds(e, f + Len(<<v>>), <<c>>)
    BY <1>9, <2>1, HoldsSplit
  <2> QED
    BY <1>9, <2>1, <2>2
<1>11. read_u8(e, f) = Ok(v, f + 1)
  BY <1>5, <1>10, ReadsU8
<1>12. read_u8(e, f + 1) = Ok(c, f + 2)
  <2>1. read_u8(e, f + 1) = Ok(c, (f + 1) + 1)
    BY <1>4, <1>10, ReadsU8
  <2> QED
    BY <1>8, <2>1
<1>13. PICK k : V5ReadProperties(e, f + 2) = Ok(ReadProps(ps), k)
  BY <1>10, ReadsProps
<1>14. FromPrimitive(ConnAckReasonCode, Unknown, c) = c /\ ~(v > 1)
  BY <1>5 DEF FromPrimitive, Byte
<1> HIDE DEF e, f
<1>15. ConnAckFromDecoder(d, e, f) = Ok(ConnAck(v = 1, c, ReadProps(ps)), k)
  BY <1>11, <1>12, <1>13, <1>14, OkIs DEF ConnAckFromDecoder, Try
<1>16. from_buffer(e) = Ok(ConnAck(s, c, ReadProps(ps)), k)
  BY <1>3, <1>5, <1>15, Zenon
<1>17. iter(ReadProps(ps)) = iter(ps)
  BY PropsPut
<1>18. View(ConnAck(s, c, ReadProps(ps))) = View(p)
  BY <1>17, Viewed
<1> QED
  BY <1>16, <1>18, OkIs DEF ReadsBack, e

\* A PUBACK, PUBREC, PUBREL or PUBCOMP is read back: in its short form, and
\* with a reason code and properties behind the id.
LEMMA AckReadsBack ==
  ASSUME NEW t, NEW codes, codes \subseteq Byte, NEW n \in Nat \ {0}, n < 256 * 256,
         NEW c, c \in IF mqttv5 THEN codes ELSE {0}, NEW ps, TypedProperties(ps),
         NEW p, p = Ack(t, n, c, ps), WellFormed(p), to_buffer(p) = PubAckToBuffer(p),
         NEW d, d.remaining_len = Len(Body(p)),
         from_buffer(Encode(p)) = AckFromDecoder(t, codes, d, Encode(p), Fixed(p))
  PROVE  ReadsBack(p)
<1> DEFINE e == Encode(p)
           f == Fixed(p)
<1>1. /\ p.typ = t /\ p.pid = n /\ p.reason_code = c /\ p.properties = ps
  BY DEF Ack
<1>2. n \in Nat /\ U16(n) \in Seq(Byte) /\ Len(U16(n)) = 2 /\ Puts(write_u16(n), U16(n))
  BY U16Is, PutsU16
<1>3. CASE mqttv5 /\ AckIsLong(p)
  <2> DEFINE t1 == <<c>> \o PropsOf(ps)
  <2>1. c \in codes /\ c \in Byte
    BY <1>3
  <2>2. to_buffer(p) = write_u16(n) \o (write_u8(c) \o V5(write_properties(ps)))
    BY <1>1, <1>3 DEF PubAckToBuffer, V5
  <2>3. /\ Puts(to_buffer(p), U16(n) \o t1)
        /\ <<c>> \in Seq(Byte) /\ PropsOf(ps) \in Seq(Byte) /\ t1 \in Seq(Byte)
    <3>1. Puts(write_u8(c), <<c>>) /\ Puts(V5(write_properties(ps)), PropsOf(ps))
      BY <2>1, PutsU8, PropsPut
    <3>2. Puts(write_u8(c) \o V5(write_properties(ps)), t1)
      BY <3>1, PutsConcat
    <3> HIDE DEF t1
    <3>3. Puts(write_u16(n) \o (write_u8(c) \o V5(write_properties(ps))), U16(n) \o t1)
      BY <1>2, <3>2, PutsConcat
    <3> QED
      BY <2>2, <3>1, <3>2, <3>3 DEF Puts
  <2>4. /\ Holds(e, f, U16(n) \o t1) /\ f \in Nat /\ Len(Body(p)) = Len(U16(n) \o t1)
    BY <2>3, HoldsPut
  <2>5. Holds(e, f, U16(n)) /\ Holds(e, f + 2, t1)
    BY <1>2, <2>3, <2>4, HoldsSplit
  <2>6. Holds(e, f + 2, <<c>>) /\ Holds(e, (f + 2) + 1, PropsOf(ps))
    <3>1. Len(<<c>>) = 1
      BY <2>1
    <3> QED
      BY <2>3, <2>5, <3>1, HoldsSplit
  <2>7. d.remaining_len \notin {2, 3}
    <3>1. /\ Len(PropsOf(ps)) = varint_len(size(ps)) + size(ps) /\ size(ps) \in LengthRange
      BY <1>3, PropsPut
    <3>2. varint_len(size(ps)) \in 1..4 /\ size(ps) \in Nat
      BY <3>1, VarintLen
    <3>3. Len(t1) = 1 + Len(PropsOf(ps))
      <4>1. Len(<<c>>) = 1
        OBVIOUS
      <4> QED
        BY <2>3, <4>1, ConcatProperties
    <3> HIDE DEF t1
    <3>4. Len(U16(n) \o t1) = 2 + Len(t1)
      <4>1. Concats(Byte)
        BY Concatenation
      <4>2. Len(U16(n) \o t1) = Len(U16(n)) + Len(t1)
        BY <1>2, <2>3, <4>1, Zenon DEF Concats
      <4> QED
        BY <1>2, <4>2
    <3> QED
      BY <2>4, <3>1, <3>2, <3>3, <3>4
  <2>8. read_pid(e, f) = Ok(n, f + 2)
    BY <2>5, ReadsPid
  <2>9. read_u8(e, f + 2) = Ok(c, (f + 2) + 1)
    BY <2>1, <2>6, ReadsU8
  <2>10. PICK k : read_properties(e, (f + 2) + 1) = Ok(ReadProps(ps), k)
    BY <1>3, <2>6, ReadsProps DEF V5ReadProperties
  <2>11. FromPrimitive(codes, Unknown, c) = c
    BY <2>1 DEF FromPrimitive
  <2> HIDE DEF e, f
  <2>12. AckFromDecoder(t, codes, d, e, f) = Ok(Ack(t, n, c, ReadProps(ps)), k)
    BY <1>3, <2>7, <2>8, <2>9, <2>10, <2>11, OkIs DEF AckFromDecoder, Try
  <2>13. from_buffer(e) = Ok(Ack(t, n, c, ReadProps(ps)), k)
    BY <2>12 DEF e, f
  <2>14. View(Ack(t, n, c, ReadProps(ps))) = View(p)
    <3>1. iter(ReadProps(ps)) = iter(ps)
      BY PropsPut
    <3> QED
      BY <3>1, Viewed
  <2> QED
    BY <2>13, <2>14, OkIs DEF ReadsBack, e
<1>4. CASE ~(mqttv5 /\ AckIsLong(p))
  <2>1. c = 0 /\ (mqttv5 => size(ps) = 0)
    BY <1>1, <1>4 DEF AckIsLong
  <2>2. to_buffer(p) = write_u16(n) \o <<>>
    BY <1>1, <1>4 DEF PubAckToBuffer, V5
  <2>3. Puts(to_buffer(p), U16(n))
    <3>1. Puts(to_buffer(p), U16(n) \o <<>>)
      BY <1>2, <2>2, PutsNone, PutsConcat
    <3>2. U16(n) \o <<>> = U16(n)
      BY <1>2, ConcatEmptySeq
    <3> QED
      BY <3>1, <3>2
  <2>4. Holds(e, f, U16(n)) /\ Len(Body(p)) = 2
    BY <1>2, <2>3, HoldsPut
  <2>5. read_pid(e, f) = Ok(n, f + 2)
    BY <2>4, ReadsPid
  <2>6. d.remaining_len \in {2, 3}
    BY <2>4
  <2> HIDE DEF e, f
  <2>7. AckFromDecoder(t, codes, d, e, f) = Ok(Ack(t, n, 0, Slice(<<>>)), f + 2)
    BY <2>5, <2>6, OkIs DEF AckFromDecoder, Try
  <2>8. View(Ack(t, n, 0, Slice(<<>>))) = View(p)
    <3>1. iter(ps) = iter(Slice(<<>>))
      BY <2>1, NoProps
    <3> QED
      BY <2>1, <3>1, Viewed
  <2> QED
    BY <2>7, <2>8, OkIs DEF ReadsBack, e, f
<1> QED
  BY <1>3, <1>4

\* Each of the four with its own reason codes.
LEMMA AcksReadBack ==
  ASSUME NEW p, WellFormed(p), Readable(p), p.typ \in {"PubAck", "PubRec", "PubRel", "PubComp"}
  PROVE  ReadsBack(p)
<1> DEFINE n == p.pid
           c == p.reason_code
           ps == p.properties
<1>1. /\ TypedProperties(ps) /\ p = Ack(p.typ, n, c, ps) /\ n \in Nat \ {0} /\ n < 256 * 256
      /\ p.typ = "PubAck" => c \in IF mqttv5 THEN PubAckReasonCode ELSE {0}
      /\ p.typ = "PubRec" => c \in IF mqttv5 THEN PubRecReasonCode ELSE {0}
      /\ p.typ = "PubRel" => c \in IF mqttv5 THEN PubRelReasonCode ELSE {0}
      /\ p.typ = "PubComp" => c \in IF mqttv5 THEN PubCompReasonCode ELSE {0}
  BY DEF Readable
<1>2. PICK d : /\ try_new(Encode(p)) = Ok(d, Fixed(p))
               /\ d.typ = p.typ /\ d.remaining_len = Len(Body(p))
  BY Dispatch
<1>3. to_buffer(p) = PubAckToBuffer(p)
  BY DEF to_buffer, PubRecToBuffer, PubRelToBuffer, PubCompToBuffer
<1> HIDE DEF n, c, ps
<1>4. CASE p.typ = "PubAck"
  <2>1. from_buffer(Encode(p)) = AckFromDecoder(p.typ, PubAckReasonCode, d, Encode(p), Fixed(p))
    BY <1>2, <1>4, OkIs DEF from_buffer, Try, PubAckFromDecoder
  <2>2. PubAckReasonCode \subseteq Byte
    BY SMT DEF PubAckReasonCode, Byte
  <2> QED
    BY <1>1, <1>2, <1>3, <1>4, <2>1, <2>2, AckReadsBack
<1>5. CASE p.typ = "PubRec"
  <2>1. from_buffer(Encode(p)) = AckFromDecoder(p.typ, PubRecReasonCode, d, Encode(p), Fixed(p))
    BY <1>2, <1>5, OkIs DEF from_buffer, Try, PubRecFromDecoder
  <2>2. PubRecReasonCode \subseteq Byte
    BY SMT DEF PubRecReasonCode, Byte
  <2> QED
    BY <1>1, <1>2, <1>3, <1>5, <2>1, <2>2, AckReadsBack
<1>6. CASE p.typ = "PubRel"
  <2>1. from_buffer(Encode(p)) = AckFromDecoder(p.typ, PubRelReasonCode, d, Encode(p), Fixed(p))
    BY <1>2, <1>6, OkIs DEF from_buffer, Try, PubRelFromDecoder
  <2>2. PubRelReasonCode \subseteq Byte
    BY SMT DEF PubRelReasonCode, Byte
  <2> QED
    BY <1>1, <1>2, <1>3, <1>6, <2>1, <2>2, AckReadsBack
<1>7. CASE p.typ = "PubComp"
  <2>1. from_buffer(Encode(p)) = AckFromDecoder(p.typ, PubCompReasonCode, d, Encode(p), Fixed(p))
    BY <1>2, <1>7, OkIs DEF from_buffer, Try, PubCompFromDecoder
  <2>2. PubCompReasonCode \subseteq Byte
    BY SMT DEF PubCompReasonCode, Byte
  <2> QED
    BY <1>1, <1>2, <1>3, <1>7, <2>1, <2>2, AckReadsBack
<1> QED
  BY <1>4, <1>5, <1>6, <1>7

\* A DISCONNECT is read back, without a body too.
LEMMA DisconnectReadsBack ==
  ASSUME NEW c \in DisconnectReasonCode, NEW ps, TypedProperties(ps),
         NEW p, p = Disconnect(c, ps), WellFormed(p)
  PROVE  ReadsBack(p)
<1> DEFINE e == Encode(p)
           f == Fixed(p)
           R == c # 0 \/ (mqttv5 /\ size(ps) # 0)
<1>1. /\ p.typ = "Disconnect" /\ p.reason_code = c /\ p.properties = ps
  BY DEF Disconnect
<1>2. PICK d : try_new(e) = Ok(d, f) /\ d.typ = p.typ /\ d.remaining_len = Len(Body(p))
  BY Dispatch
<1>3. from_buffer(e) = DisconnectFromDecoder(d, e, f)
  BY <1>1, <1>2, OkIs DEF from_buffer, Try
<1>4. c \in Byte
  BY SMT DEF DisconnectReasonCode, DisconnectReasonCodeV5, DisconnectReasonCodeV3, Byte
<1>5. /\ ~mqttv5 => c = 0
      /\ Puts(V5(write_properties(ps)), PropsOf(ps)) /\ PropsOf(ps) \in Seq(Byte)
  BY PropsPut DEF Puts, DisconnectReasonCode, DisconnectReasonCodeV3
<1>6. CASE R
  <2>1. mqttv5
    BY <1>5, <1>6
  <2>2. to_buffer(p) = write_u8(c) \o V5(write_properties(ps))
    BY <1>1, <1>6 DEF to_buffer, DisconnectToBuffer
  <2>3. Puts(to_buffer(p), <<c>> \o PropsOf(ps)) /\ <<c>> \in Seq(Byte) /\ Len(<<c>>) = 1
    BY <1>4, <1>5, <2>2, PutsU8, PutsConcat, OneByte
  <2>4. /\ Holds(e, f, <<c>> \o PropsOf(ps)) /\ Len(Body(p)) = Len(<<c>> \o PropsOf(ps))
    BY <2>3, HoldsPut
  <2>5. Holds(e, f, <<c>>) /\ Holds(e, f + 1, PropsOf(ps))
    BY <1>5, <2>3, <2>4, HoldsSplit
  <2>6. ~(d.remaining_len < 2)
    <3>1. Len(PropsOf(ps)) = varint_len(size(ps)) + size(ps) /\ size(ps) \in LengthRange
      BY <2>1, PropsPut
    <3>2. varint_len(size(ps)) \in 1..4 /\ size(ps) \in Nat
      BY <3>1, VarintLen
    <3>3. Len(<<c>> \o PropsOf(ps)) = 1 + Len(PropsOf(ps))
      BY <1>5, <2>3, ConcatProperties
    <3> QED
      BY <1>2, <2>4, <3>1, <3>2, <3>3
  <2>7. read_u8(e, f) = Ok(c, f + 1)
    BY <1>4, <2>5, ReadsU8
  <2>8. PICK k : V5ReadProperties(e, f + 1) = Ok(ReadProps(ps), k)
    BY <2>5, ReadsProps
  <2>9. FromPrimitive(DisconnectReasonCode, 0, c) = c
    BY DEF FromPrimitive
  <2> HIDE DEF e, f
  <2>10. from_buffer(e) = Ok(Disconnect(c, ReadProps(ps)), k)
    BY <1>3, <2>6, <2>7, <2>8, <2>9, OkIs DEF DisconnectFromDecoder, Try
  <2>11. View(Disconnect(c, ReadProps(ps))) = View(p)
    <3>1. iter(ReadProps(ps)) = iter(ps)
      BY PropsPut
    <3> QED
      BY <3>1, Viewed
  <2> QED
    BY <2>10, <2>11, OkIs DEF ReadsBack, e
<1>7. CASE ~R
  <2>1. c = 0 /\ (mqttv5 => size(ps) = 0)
    BY <1>7
  <2>2. to_buffer(p) = <<>> \o V5(write_properties(ps))
    BY <1>1, <1>7 DEF to_buffer, DisconnectToBuffer
  <2>3. Puts(to_buffer(p), <<>> \o PropsOf(ps))
    BY <1>5, <2>2, PutsNone, PutsConcat
  <2>4. Len(Body(p)) = Len(PropsOf(ps))
    <3>1. <<>> \o PropsOf(ps) = PropsOf(ps)
      BY <1>5, ConcatEmptySeq
    <3> QED
      BY <2>3, <3>1, HoldsPut
  <2>5. d.remaining_len < 2
    <3>1. CASE mqttv5
      <4>1. Len(PropsOf(ps)) = varint_len(size(ps)) + size(ps) /\ size(ps) \in LengthRange
        BY <3>1, PropsPut
      <4>2. varint_len(size(ps)) = 1
        BY <2>1, <3>1, <4>1, VarintLen
      <4>3. Len(PropsOf(ps)) = 1
        BY <2>1, <3>1, <4>1, <4>2
      <4> QED
        BY <1>2, <2>4, <4>3
    <3>2. CASE ~mqttv5
      <4>1. PropsOf(ps) = <<>>
        BY <3>2, PropsPut
      <4> QED
        BY <1>2, <2>4, <4>1
    <3> QED
      BY <3>1, <3>2, FeatureAssumption
  <2>6. from_buffer(e) = Ok(Disconnect(0, Slice(<<>>)), f)
    BY <1>3, <2>5 DEF DisconnectFromDecoder
  <2>7. View(Disconnect(0, Slice(<<>>))) = View(p)
    <3>1. iter(ps) = iter(Slice(<<>>))
      BY <2>1, NoProps
    <3> QED
      BY <2>1, <3>1, Viewed
  <2> QED
    BY <2>6, <2>7, OkIs DEF ReadsBack
<1> QED
  BY <1>6, <1>7

\* One write_u8() per reason code.
LEMMA PutsCodes ==
  ASSUME NEW codes \in Seq(Byte)
  PROVE  Puts(FlattenSeq([i \in DOMAIN codes |-> write_u8(codes[i])]), codes)
<1> DEFINE n == Len(codes)
           r(i) == [kind |-> "unchecked", bytes |-> <<codes[i]>>]
           ss == [i \in DOMAIN codes |-> write_u8(codes[i])]
           ws == [i \in 1..n |-> r(i)]
           bs == [i \in 1..n |-> <<codes[i]>>]
<1>1. /\ n \in Nat /\ DOMAIN codes = 1..n /\ \A i \in 1..n : codes[i] \in Byte
      /\ codes = [i \in 1..n |-> codes[i]]
  BY SeqIs
<1>2. \A i \in 1..n : <<codes[i]>> \in Seq(Byte) /\ Len(<<codes[i]>>) = 1 /\ <<codes[i]>>[1] = codes[i]
  BY <1>1, OneByte
<1>3. \A i \in 1..n : r(i) \in Writes /\ r(i).bytes = <<codes[i]>>
  BY <1>2, WriteIs DEF Kinds
<1>4. \A i \in 1..n : write_u8(codes[i]) = <<r(i)>>
  BY DEF write_u8, Write
<1> HIDE DEF r
<1>5. ss = [i \in 1..n |-> <<r(i)>>]
  BY <1>1, <1>4
<1>6. \A i \in 1..n : <<r(i)>> \in Seq(Writes) /\ Len(<<r(i)>>) = 1 /\ <<r(i)>>[1] = r(i)
  BY <1>3
<1>7. ss \in Seq(Seq(Writes)) /\ Len(ss) = n /\ \A i \in 1..n : Len(ss[i]) = 1 /\ ss[i][1] = r(i)
  <2>1. ss \in [1..n -> Seq(Writes)] /\ \A i \in 1..n : ss[i] = <<r(i)>>
    BY <1>5, <1>6
  <2> QED
    BY <1>1, <1>6, <2>1, FunSeq
<1> HIDE DEF ss
<1>8. FlattenSeq(ss) = ws
  <2>1. FlattenSeq(ss) = [i \in 1..Len(ss) |-> ss[i][1]]
    BY <1>7, FlattenSingles
  <2> QED
    BY <1>7, <2>1
<1>9. ws \in Seq(Writes) /\ DOMAIN ws = 1..n /\ \A i \in 1..n : ws[i] = r(i)
  BY <1>1, <1>3, FunSeq
<1> HIDE DEF ws
<1>10. [i \in DOMAIN ws |-> ws[i].bytes] = bs
  BY <1>3, <1>9
<1>11. bs \in Seq(Seq(Byte)) /\ Len(bs) = n /\ \A i \in 1..n : bs[i] = <<codes[i]>>
  BY <1>1, <1>2, FunSeq
<1> HIDE DEF bs
<1>12. FlattenSeq(bs) = codes
  <2>1. \A i \in 1..Len(bs) : Len(bs[i]) = 1
    BY <1>2, <1>11
  <2>2. FlattenSeq(bs) = [i \in 1..Len(bs) |-> bs[i][1]]
    BY <1>11, <2>1, FlattenSingles
  <2>3. \A i \in 1..n : bs[i][1] = codes[i]
    BY <1>2, <1>11
  <2> QED
    BY <1>1, <1>11, <2>2, <2>3
<1>13. WrittenBytes(ws) = codes
  BY <1>10, <1>12 DEF WrittenBytes
<1> QED
  BY <1>8, <1>9, <1>13 DEF Puts, ss

\* Reason codes are bytes.
LEMMA CodesBytes ==
  ASSUME NEW S, S \subseteq Byte, NEW codes \in Seq(S)
  PROVE  codes \in Seq(Byte) /\ Len(codes) \in Nat
<1>1. /\ Len(codes) \in Nat /\ \A i \in 1..Len(codes) : codes[i] \in S
      /\ codes = [i \in 1..Len(codes) |-> codes[i]]
  BY SeqIs
<1>2. codes \in [1..Len(codes) -> Byte]
  BY <1>1
<1> QED
  BY <1>1, <1>2, FunSeq

\* Collect() takes all the codes, if it has room and knows them.
LEMMA Collected ==
  ASSUME NEW S, NEW codes \in Seq(S), Len(codes) <= MAX_SUB_TOPICS_PER_MSG
  PROVE  Collect(S, codes) = Ok(codes, 0)
<1>1. /\ Len(codes) \in Nat /\ DOMAIN codes = 1..Len(codes)
      /\ \A i \in 1..Len(codes) : codes[i] \in S
      /\ codes = [i \in 1..Len(codes) |-> codes[i]]
  BY SeqIs
<1>2. \A i \in 1..Len(codes) : FromPrimitive(S, Unknown, codes[i]) = codes[i]
  BY <1>1 DEF FromPrimitive
<1>3. [i \in DOMAIN codes |-> FromPrimitive(S, Unknown, codes[i])] = codes
  BY <1>1, <1>2
<1>4. ~(Len(codes) > MAX_SUB_TOPICS_PER_MSG)
  BY <1>1, SubTopicsAssumption
<1> QED
  BY <1>3, <1>4 DEF Collect

\* The id, the properties and the codes of a SUBACK or an UNSUBACK.
LEMMA CodesRead ==
  ASSUME NEW p, WellFormed(p), NEW n \in Nat \ {0}, n < 256 * 256, NEW ps, TypedProperties(ps),
         NEW codes \in Seq(Byte), NEW w,
         to_buffer(p) = (write_u16(n) \o V5(write_properties(ps))) \o w, Puts(w, codes)
  PROVE  LET e == Encode(p)
             f == Fixed(p)
             j == (f + 2) + Len(PropsOf(ps))
         IN  /\ read_pid(e, f) = Ok(n, f + 2)
             /\ V5ReadProperties(e, f + 2) = Ok(ReadProps(ps), j)
             /\ read_payload(e, j, Len(e)) = Ok(codes, Len(e))
<1> DEFINE e == Encode(p)
           f == Fixed(p)
           P == PropsOf(ps)
           j == (f + 2) + Len(P)
           x == U16(n) \o P
<1>1. n \in Nat /\ U16(n) \in Seq(Byte) /\ Len(U16(n)) = 2 /\ Puts(write_u16(n), U16(n))
  BY U16Is, PutsU16
<1>2. Puts(V5(write_properties(ps)), P) /\ P \in Seq(Byte)
  BY PropsPut DEF Puts
<1>3. Puts(write_u16(n) \o V5(write_properties(ps)), x) /\ x \in Seq(Byte)
  <2>1. Puts(write_u16(n) \o V5(write_properties(ps)), x)
    BY <1>1, <1>2, PutsConcat
  <2> QED
    BY <2>1 DEF Puts
<1>4. Len(x) = 2 + Len(P) /\ Len(P) \in Nat
  <2>1. Concats(Byte)
    BY Concatenation
  <2>2. Len(x) = Len(U16(n)) + Len(P) /\ Len(P) \in Nat
    BY <1>1, <1>2, <2>1, Zenon DEF Concats
  <2> QED
    BY <1>1, <2>2
<1> HIDE DEF x
<1>5. Puts(to_buffer(p), x \o codes)
  BY <1>3, PutsConcat
<1>6. Holds(e, f, x \o codes) /\ f \in Nat /\ Len(e) = f + Len(x \o codes)
  BY <1>5, HoldsPut
<1>7. Holds(e, f, x) /\ Holds(e, f + Len(x), codes) /\ Len(codes) \in Nat
  BY <1>3, <1>6, HoldsSplit
<1>8. Holds(e, f, U16(n)) /\ Holds(e, f + 2, P)
  <2>1. Holds(e, f, U16(n)) /\ Holds(e, f + Len(U16(n)), P)
    BY <1>1, <1>2, <1>7, HoldsSplit DEF x
  <2> QED
    BY <1>1, <2>1
<1>9. f + Len(x) = j /\ Len(e) = j + Len(codes)
  <2>1. Len(x \o codes) = Len(x) + Len(codes)
    BY <1>3, ConcatProperties
  <2> QED
    BY <1>4, <1>6, <1>7, <2>1
<1>10. read_pid(e, f) = Ok(n, f + 2)
  BY <1>8, ReadsPid
<1>11. V5ReadProperties(e, f + 2) = Ok(ReadProps(ps), j)
  BY <1>8, ReadsProps
<1>12. read_payload(e, j, Len(e)) = Ok(codes, Len(e))
  <2>1. Holds(e, j, codes)
    BY <1>7, <1>9
  <2> QED
    BY <1>9, <2>1, ReadsPayload
<1> QED
  BY <1>10, <1>11, <1>12

\* A SUBACK is read back.
LEMMA SubAckReadsBack ==
  ASSUME NEW n \in Nat \ {0}, n < 256 * 256, NEW ps, TypedProperties(ps),
         NEW codes \in Seq(SubAckReasonCode), Len(codes) <= MAX_SUB_TOPICS_PER_MSG,
         NEW p, p = SubAck(n, ps, codes), WellFormed(p)
  PROVE  ReadsBack(p)
<1> DEFINE e == Encode(p)
           f == Fixed(p)
           j == (f + 2) + Len(PropsOf(ps))
           w == FlattenSeq([i \in DOMAIN codes |-> write_u8(codes[i])])
<1>1. /\ p.typ = "SubAck" /\ p.pid = n /\ p.properties = ps /\ p.codes = codes
  BY DEF SubAck
<1>2. PICK d : try_new(e) = Ok(d, f) /\ d.typ = p.typ /\ d.packet_len = Len(e)
  BY Dispatch
<1>3. from_buffer(e) = SubAckFromDecoder(d, e, f)
  BY <1>1, <1>2, OkIs DEF from_buffer, Try
<1>4. SubAckReasonCode \subseteq Byte
  BY SMT DEF SubAckReasonCode, SubAckReasonCodeV5, SubAckReasonCodeV3, Byte
<1>5. codes \in Seq(Byte)
  BY <1>4, CodesBytes
<1>6. Puts(w, codes)
  BY <1>5, PutsCodes
<1>7. to_buffer(p) = (write_u16(n) \o V5(write_properties(ps))) \o w
  BY <1>1 DEF to_buffer, SubAckToBuffer
<1> HIDE DEF w
<1>8. /\ read_pid(e, f) = Ok(n, f + 2)
      /\ V5ReadProperties(e, f + 2) = Ok(ReadProps(ps), j)
      /\ read_payload(e, j, Len(e)) = Ok(codes, Len(e))
  BY <1>5, <1>6, <1>7, CodesRead
<1>9. Collect(SubAckReasonCode, codes) = Ok(codes, 0)
  BY Collected
<1> HIDE DEF e, f, j
<1>10. from_buffer(e) = Ok(SubAck(n, ReadProps(ps), codes), Len(e))
  BY <1>2, <1>3, <1>8, <1>9, OkIs DEF SubAckFromDecoder, Try
<1>11. View(SubAck(n, ReadProps(ps), codes)) = View(p)
  <2>1. iter(ReadProps(ps)) = iter(ps)
    BY PropsPut
  <2> QED
    BY <2>1, Viewed
<1> QED
  BY <1>10, <1>11, OkIs DEF ReadsBack, e

\* An UNSUBACK is read back; of MQTT 3.1.1, it has no codes.
LEMMA UnsubAckReadsBack ==
  ASSUME NEW n \in Nat \ {0}, n < 256 * 256, NEW ps, TypedProperties(ps),
         NEW codes \in Seq(IF mqttv5 THEN UnsubAckReasonCode ELSE {}),
         Len(codes) <= MAX_SUB_TOPICS_PER_MSG,
         NEW p, p = UnsubAck(n, ps, codes), WellFormed(p)
  PROVE  ReadsBack(p)
<1> DEFINE e == Encode(p)
           f == Fixed(p)
           j == (f + 2) + Len(PropsOf(ps))
           w == FlattenSeq([i \in DOMAIN codes |-> write_u8(codes[i])])
           v == IF mqttv5 THEN w ELSE <<>>
           r == IF mqttv5 THEN Collect(UnsubAckReasonCode, codes) ELSE Ok(<<>>, Len(e))
<1>1. /\ p.typ = "UnsubAck" /\ p.pid = n /\ p.properties = ps /\ p.codes = codes
  BY DEF UnsubAck
<1>2. PICK d : try_new(e) = Ok(d, f) /\ d.typ = p.typ /\ d.packet_len = Len(e)
  BY Dispatch
<1>3. from_buffer(e) = UnsubAckFromDecoder(d, e, f)
  BY <1>1, <1>2, OkIs DEF from_buffer, Try
<1>4. UnsubAckReasonCode \subseteq Byte
  BY SMT DEF UnsubAckReasonCode, Byte
<1>5. codes \in Seq(Byte) /\ (~mqttv5 => codes = <<>>)
  <2>1. CASE mqttv5
    BY <1>4, <2>1, CodesBytes
  <2>2. CASE ~mqttv5
    <3>1. codes \in Seq({})
      BY <2>2
    <3>2. Len(codes) \in Nat /\ \A i \in 1..Len(codes) : codes[i] \in {}
      BY <3>1, SeqIs
    <3>3. Len(codes) = 0
      BY <3>2
    <3>4. codes = <<>>
      BY <3>1, <3>3, EmptySeq
    <3> QED
      BY <3>4
  <2> QED
    BY <2>1, <2>2, FeatureAssumption
<1>6. Puts(v, codes)
  <2>1. Puts(w, codes)
    BY <1>5, PutsCodes
  <2> HIDE DEF w
  <2> QED
    BY <1>5, <2>1, PutsNone
<1>7. to_buffer(p) = (write_u16(n) \o V5(write_properties(ps))) \o v
  <2>1. to_buffer(p) = write_u16(n) \o V5(write_properties(ps) \o w)
    BY <1>1 DEF to_buffer, UnsubAckToBuffer
  <2>2. n \in Nat /\ write_u16(n) \in Seq(Writes)
    BY PutsU16 DEF Puts
  <2>3. V5(write_properties(ps)) \in Seq(Writes) /\ v \in Seq(Writes)
    BY <1>6, PropsPut DEF Puts
  <2>4. V5(write_properties(ps) \o w) = V5(write_properties(ps)) \o v
    <3>1. CASE mqttv5
      BY <3>1 DEF V5
    <3>2. CASE ~mqttv5
      BY <3>2 DEF V5
    <3> QED
      BY <3>1, <3>2, FeatureAssumption
  <2> HIDE DEF v, w
  <2>5. Associates(Writes)
    BY Associative
  <2> DEFINE a == write_u16(n)
             b == V5(write_properties(ps))
  <2>6. to_buffer(p) = a \o (b \o v) /\ a \in Seq(Writes) /\ b \in Seq(Writes)
    BY <2>1, <2>2, <2>3, <2>4, Zenon
  <2> HIDE DEF a, b
  <2>7. (a \o b) \o v = a \o (b \o v)
    BY <2>3, <2>5, <2>6, Zenon DEF Associates
  <2> QED
    BY <2>6, <2>7 DEF a, b
<1> HIDE DEF v, w
<1>8. /\ read_pid(e, f) = Ok(n, f + 2)
      /\ V5ReadProperties(e, f + 2) = Ok(ReadProps(ps), j)
      /\ read_payload(e, j, Len(e)) = Ok(codes, Len(e))
  BY <1>5, <1>6, <1>7, CodesRead
<1>9. r.err = "none" /\ r.val = codes
  <2>1. CASE mqttv5
    BY <2>1, Collected, OkIs
  <2>2. CASE ~mqttv5
    BY <1>5, <2>2, OkIs
  <2> QED
    BY <2>1, <2>2, FeatureAssumption
<1> HIDE DEF e, f, j
<1>10. from_buffer(e) = Ok(UnsubAck(n, ReadProps(ps), codes), Len(e))
  <2>1. UnsubAckFromDecoder(d, e, f) =
          IF r.err = "none" THEN Ok(UnsubAck(n, ReadProps(ps), r.val), Len(e)) ELSE r
    BY <1>2, <1>8, OkIs DEF UnsubAckFromDecoder, Try
  <2> QED
    BY <1>3, <1>9, <2>1
<1>11. View(UnsubAck(n, ReadProps(ps), codes)) = View(p)
  <2>1. iter(ReadProps(ps)) = iter(ps)
    BY PropsPut
  <2> QED
    BY <2>1, Viewed
<1> QED
  BY <1>10, <1>11, OkIs DEF ReadsBack, e

\* Message::try_new() on a whole PUBLISH.
LEMMA MessageRead ==
  ASSUME NEW p, WellFormed(p), Readable(p), p.typ = "Publish"
  PROVE  Known([typ |-> "Message", frame |-> Encode(p)], p)
<1> DEFINE e == Encode(p)
           f == Fixed(p)
           T == TopicBytes(p)
           I == PidBytes(p)
           P == PropBytes(p)
           y == p.payload
           ps == p.properties
           i == (f + 2) + Len(p.topic_name)
           j == i + Len(I)
           k == j + Len(P)
<1>1. /\ T \in Seq(Byte) /\ I \in Seq(Byte) /\ P \in Seq(Byte) /\ y \in Seq(Byte)
      /\ Body(p) = ((T \o I) \o P) \o y
  BY PublishBody
<1>2. /\ p.topic_name \in Seq(Byte) /\ Len(p.topic_name) < 256 * 256
      /\ \A x \in DOMAIN p.topic_name : p.topic_name[x] < 128
      /\ p.qos # 0 => p.pid \in Nat \ {0} /\ p.pid < 256 * 256
  BY DEF WellFormed
<1>3. /\ TypedProperties(ps) /\ (p.qos = 0 => p.pid = NoPid)
  BY DEF Readable
<1>4. /\ Holds(e, f, Body(p)) /\ f \in Nat /\ f + Len(Body(p)) = Len(e)
  BY HoldsBody
<1>5. /\ Len(T) \in Nat /\ Len(I) \in Nat /\ Len(P) \in Nat /\ Len(y) \in Nat
      /\ Len(Body(p)) = ((Len(T) + Len(I)) + Len(P)) + Len(y)
      /\ T \o I \in Seq(Byte) /\ (T \o I) \o P \in Seq(Byte)
      /\ Len(T \o I) = Len(T) + Len(I) /\ Len((T \o I) \o P) = (Len(T) + Len(I)) + Len(P)
  <2> HIDE DEF T, I, P, y
  <2>1. /\ Len(T) \in Nat /\ Len(I) \in Nat /\ Len(P) \in Nat /\ Len(y) \in Nat
    BY <1>1, LenProperties
  <2>2. T \o I \in Seq(Byte) /\ Len(T \o I) = Len(T) + Len(I)
    BY <1>1, ConcatProperties
  <2>3. (T \o I) \o P \in Seq(Byte) /\ Len((T \o I) \o P) = Len(T \o I) + Len(P)
    BY <1>1, <2>2, ConcatProperties
  <2>4. Len(((T \o I) \o P) \o y) = Len((T \o I) \o P) + Len(y)
    BY <1>1, <2>3, ConcatProperties
  <2> QED
    BY <1>1, <2>1, <2>2, <2>3, <2>4
<1>6. T = Counted(p.topic_name) /\ Len(T) = 2 + Len(p.topic_name) /\ Len(p.topic_name) \in Nat
  <2>1. T = Counted(p.topic_name)
    BY DEF TopicBytes, Counted, U16
  <2> QED
    BY <1>2, <2>1, PutsSlice, LenProperties
<1>7. P = PropsOf(ps)
  BY DEF PropBytes, PropsOf
<1>8. I = IF p.qos = 0 THEN <<>> ELSE U16(p.pid)
  BY DEF PidBytes, U16
<1> HIDE DEF T, I, P, y
<1> DEFINE t == Len(p.topic_name)
           a == Len(T)
           b == Len(I)
           c == Len(P)
           l == Len(y)
<1>9. f \in Nat /\ t \in Nat /\ a = 2 + t /\ b \in Nat /\ c \in Nat /\ l \in Nat
  BY <1>4, <1>5, <1>6
<1>10. f + a = i /\ f + (a + b) = j /\ f + ((a + b) + c) = k
  <2> HIDE DEF a, b, c, f, t
  <2>1. ((f + 2) + t) = f + a /\ ((f + 2) + t) + b = f + (a + b)
        /\ (((f + 2) + t) + b) + c = f + ((a + b) + c)
    BY <1>9
  <2> QED
    BY <2>1 DEF a, b, c, t
<1>11. Holds(e, f, T) /\ Holds(e, i, I) /\ Holds(e, j, P) /\ Holds(e, k, y)
  <2>1. Holds(e, f, (T \o I) \o P) /\ Holds(e, f + Len((T \o I) \o P), y)
    BY <1>1, <1>4, <1>5, HoldsSplit
  <2>2. Holds(e, f, T \o I) /\ Holds(e, f + Len(T \o I), P)
    BY <1>1, <1>5, <2>1, HoldsSplit
  <2>3. Holds(e, f, T) /\ Holds(e, f + Len(T), I)
    BY <1>1, <2>2, HoldsSplit
  <2>4. f + Len(T) = i /\ f + Len(T \o I) = j /\ f + Len((T \o I) \o P) = k
    BY <1>5, <1>10
  <2> QED
    BY <2>1, <2>2, <2>3, <2>4
<1>12. k + Len(y) = Len(e)
  <2>1. Len(e) = f + (((a + b) + c) + l)
    BY <1>4, <1>5
  <2>2. (f + ((a + b) + c)) + l = f + (((a + b) + c) + l)
    <3>1. a \in Nat
      BY <1>5
    <3> HIDE DEF a, b, c, f, l
    <3> QED
      BY <1>9, <3>1
  <2> QED
    BY <1>10, <2>1, <2>2
<1>13. PICK d : /\ try_new(e) = Ok(d, f) /\ d.remaining_len = Len(Body(p))
                /\ d.packet_len = Len(e)
                /\ d.dup = p.dup /\ d.qos = p.qos /\ d.retain = p.retain
  BY Dispatch
<1>14. check_remaining(e, f, d.remaining_len)
  BY <1>4, <1>13, HoldsSlice
<1>15. read_str(e, f) = Ok(p.topic_name, i)
  <2>1. Holds(e, f, Counted(p.topic_name))
    BY <1>6, <1>11
  <2>2. read_str(e, f) = Ok(p.topic_name, f + 2 + Len(p.topic_name))
    BY <1>2, <2>1, ReadsSlice
  <2> QED
    BY <2>2
<1> DEFINE q == IF d.qos = 0 THEN Ok(NoPid, i) ELSE read_pid(e, i)
<1>16. q = Ok(p.pid, j)
  <2>1. CASE p.qos = 0
    <3>1. I = <<>> /\ i \in Nat
      BY <1>4, <1>6, <1>8, <2>1
    <3>2. j = i
      BY <3>1
    <3> QED
      BY <1>3, <1>13, <2>1, <3>2
  <2>2. CASE p.qos # 0
    <3>1. p.pid \in Nat \ {0} /\ p.pid \in Nat /\ p.pid < 256 * 256
      BY <1>2, <2>2
    <3>2. I = U16(p.pid) /\ Len(I) = 2
      BY <1>8, <2>2, <3>1, U16Is
    <3>3. read_pid(e, i) = Ok(p.pid, i + 2)
      BY <1>11, <3>1, <3>2, ReadsPid
    <3> QED
      BY <1>13, <2>2, <3>2, <3>3
  <2> QED
    BY <2>1, <2>2
<1>17. V5ReadProperties(e, j) = Ok(ReadProps(ps), k)
  BY <1>3, <1>7, <1>11, ReadsProps
<1>18. read_payload(e, k, d.packet_len) = Ok(y, Len(e))
  BY <1>11, <1>12, <1>13, ReadsPayload
<1>19. SubSeq(e, j + 1, k) = P
  BY <1>11, HoldsSlice
<1> HIDE DEF e, f, i, j, k, q
<1> DEFINE m == [dup |-> d.dup, qos |-> d.qos, retain |-> d.retain, pid |-> p.pid,
                 topic_name |-> p.topic_name, payload |-> y, properties |-> <<j, k>>]
<1>20. Message(e) = Ok(m, Len(e))
  <2>1. Message(e) =
          IF q.err = "none"
          THEN Try(V5ReadProperties(e, q.at), LAMBDA x, z :
                 Try(read_payload(e, z, d.packet_len), LAMBDA payload, o :
                   Ok([dup |-> d.dup, qos |-> d.qos, retain |-> d.retain, pid |-> q.val,
                       topic_name |-> p.topic_name, payload |-> payload,
                       properties |-> <<q.at, z>>], o)))
          ELSE q
    BY <1>13, <1>14, <1>15, OkIs, SMTT(30) DEF Message, Try, q
  <2>2. q.err = "none" /\ q.val = p.pid /\ q.at = j
    BY <1>16, OkIs
  <2> QED
    BY <1>17, <1>18, <2>1, <2>2, OkIs DEF Try
<1>21. Message(e).err = "none" /\ Message(e).val = m
  BY <1>20, OkIs
<1>22. /\ m.topic_name = p.topic_name /\ m.payload = y /\ m.pid = p.pid
       /\ m.qos = p.qos /\ m.dup = p.dup /\ m.retain = p.retain /\ m.properties = <<j, k>>
  BY <1>13
<1> HIDE DEF m
<1>23. MessageProperties(e, m).data = P
  BY <1>19, <1>22 DEF MessageProperties, DataBlock
<1>24. mqttv5 => P = WrittenBytes(write_properties(ps))
  BY <1>7 DEF PropsOf, V5
<1> DEFINE r == [typ |-> "Message", frame |-> e]
<1>25. r.typ = "Message" /\ r.frame = e
  OBVIOUS
<1> HIDE DEF r
<1>26. Known(r, p)
  BY <1>21, <1>22, <1>23, <1>24, <1>25 DEF Known, y
<1> QED
  BY <1>26 DEF r, e

\* Every packet that a client receives is read back as it was sent: to_buffer()
\* and from_buffer() agree for every type of packet, and Message::try_new() on
\* the frame of a PUBLISH finds its topic, id, properties and payload.
THEOREM PacketsReadBack ==
  ASSUME NEW p, WellFormed(p), Readable(p)
  PROVE  /\ p.typ = "Publish" => Known([typ |-> "Message", frame |-> Encode(p)], p)
         /\ p.typ # "Publish" => /\ from_buffer(Encode(p)).err = "none"
                                 /\ View(from_buffer(Encode(p)).val) = View(p)
<1>1. CASE p.typ = "Publish"
  BY <1>1, MessageRead
<1>2. CASE p.typ \in {"PubAck", "PubRec", "PubRel", "PubComp"}
  BY <1>2, AcksReadBack DEF ReadsBack
<1>3. CASE p.typ = "PingResp"
  BY <1>3, PingRespReadsBack DEF Readable, ReadsBack
<1>4. CASE p.typ = "ConnAck"
  <2>1. /\ TypedProperties(p.properties) /\ p.session_present \in BOOLEAN
        /\ p.reason_code \in ConnAckReasonCode
        /\ p = ConnAck(p.session_present, p.reason_code, p.properties)
    BY <1>4 DEF Readable
  <2> QED
    BY <1>4, <2>1, ConnAckReadsBack DEF ReadsBack
<1>5. CASE p.typ = "SubAck"
  <2>1. /\ TypedProperties(p.properties) /\ p = SubAck(p.pid, p.properties, p.codes)
        /\ p.pid \in Nat \ {0} /\ p.pid < 256 * 256 /\ p.codes \in Seq(SubAckReasonCode)
        /\ Len(p.codes) <= MAX_SUB_TOPICS_PER_MSG
    BY <1>5 DEF Readable
  <2> QED
    BY <1>5, <2>1, SubAckReadsBack DEF ReadsBack
<1>6. CASE p.typ = "UnsubAck"
  <2>1. /\ TypedProperties(p.properties) /\ p = UnsubAck(p.pid, p.properties, p.codes)
        /\ p.pid \in Nat \ {0} /\ p.pid < 256 * 256
        /\ p.codes \in Seq(IF mqttv5 THEN UnsubAckReasonCode ELSE {})
        /\ Len(p.codes) <= MAX_SUB_TOPICS_PER_MSG
    BY <1>6 DEF Readable
  <2> QED
    BY <1>6, <2>1, UnsubAckReadsBack DEF ReadsBack
<1>7. CASE p.typ = "Disconnect"
  <2>1. /\ TypedProperties(p.properties) /\ p = Disconnect(p.reason_code, p.properties)
        /\ p.reason_code \in DisconnectReasonCode
    BY <1>7 DEF Readable
  <2> QED
    BY <1>7, <2>1, DisconnectReadsBack DEF ReadsBack
<1>8. p.typ \in {"Publish", "PubAck", "PubRec", "PubRel", "PubComp", "PingResp", "ConnAck",
                 "SubAck", "UnsubAck", "Disconnect"}
  BY DEF Readable
<1> QED
  BY <1>1, <1>2, <1>3, <1>4, <1>5, <1>6, <1>7, <1>8

-----------------------------------------------------------------------------
(* Room *)

\* encode_packet() with room for the whole packet.
LEMMA RoomEnough ==
  ASSUME NEW p, to_buffer(p) \in Seq(Writes), NEW n \in Nat,
         MAX_MQTT_HEADER_LEN + Len(Body(p)) <= n
  PROVE  EncodeOutcome(p, n) = "ok"
<1> DEFINE ws == to_buffer(p)
           L == Len(ws)
           bs == [i \in 1..L |-> ws[i].bytes]
           end(k) == MAX_MQTT_HEADER_LEN + Total([i \in 1..k |-> Len(ws[i].bytes)])
           fails == {k \in DOMAIN ws : ws[k].kind = "PidMissing" \/ end(k) > n}
<1>1. L \in Nat /\ DOMAIN ws = 1..L /\ \A i \in 1..L : ws[i] \in Writes
  BY SeqIs
<1> HIDE DEF ws
<1>2. \A i \in 1..L : ws[i].bytes \in Seq(Byte) /\ ws[i].kind # "PidMissing"
  BY <1>1 DEF Writes
<1>3. bs \in Seq(Seq(Byte)) /\ Len(bs) = L
  <2>1. bs \in [1..L -> Seq(Byte)]
    BY <1>2
  <2> QED
    BY <1>1, <2>1, FunSeq
<1>4. Body(p) = FlattenSeq(bs)
  BY <1>1 DEF Body, WrittenBytes, ws
<1> DEFINE s == Len(FlattenSeq(bs))
<1>5. ASSUME NEW k \in 1..L
      PROVE  ~(end(k) > n)
  <2> DEFINE x == SubSeq(bs, 1, k)
             y == SubSeq(bs, k + 1, Len(bs))
             ns == [i \in 1..k |-> Len(ws[i].bytes)]
  <2>1. k \in 0..L /\ k \in Nat
    BY <1>1
  <2>2. x \in Seq(Seq(Byte)) /\ y \in Seq(Seq(Byte)) /\ Len(x) = k /\ bs = x \o y
    BY <1>3, <2>1, Cut
  <2>3. \A i \in 1..k : x[i] = ws[i].bytes
    <3>1. \A i \in 1..k : i \in 1..L /\ bs[i] = ws[i].bytes
      BY <1>1, <2>1
    <3>2. \A i \in 1..k : x[i] = (x \o y)[i]
      BY <2>2, ConcatProperties
    <3> QED
      BY <2>2, <3>1, <3>2
  <2> HIDE DEF x, y, bs
  <2>4. ns = [i \in 1..Len(x) |-> Len(x[i])]
    BY <2>2, <2>3
  <2>5. Total(ns) = Len(FlattenSeq(x)) /\ FlattenSeq(x) \in Seq(Byte)
    BY <2>2, <2>4, TotalFlatten
  <2>6. FlattenSeq(bs) = FlattenSeq(x) \o FlattenSeq(y) /\ FlattenSeq(y) \in Seq(Byte)
    BY <2>2, FlattenConcat
  <2>7. Len(FlattenSeq(bs)) = Len(FlattenSeq(x)) + Len(FlattenSeq(y))
    BY <2>5, <2>6, ConcatProperties
  <2>8. Len(FlattenSeq(x)) \in Nat /\ Len(FlattenSeq(y)) \in Nat
    BY <2>5, <2>6, LenProperties
  <2> DEFINE a == Len(FlattenSeq(x))
             b == Len(FlattenSeq(y))
             c == Len(Body(p))
  <2>9. a \in Nat /\ b \in Nat /\ c = a + b /\ 5 + c <= n /\ end(k) = 5 + a
    BY <1>4, <2>5, <2>7, <2>8 DEF MAX_MQTT_HEADER_LEN
  <2> HIDE DEF a, b, c, end
  <2> QED
    BY <2>9
<1>6. fails = {}
  BY <1>1, <1>2, <1>5
<1>7. ~(n < MAX_MQTT_HEADER_LEN)
  <2>1. Len(Body(p)) \in Nat
    BY <1>3, <1>4, TotalFlatten, LenProperties
  <2> QED
    BY <2>1 DEF MAX_MQTT_HEADER_LEN
<1> QED
  BY <1>6, <1>7 DEF EncodeOutcome, ws

\* How many bytes the properties take.
LEMMA PropsLen ==
  ASSUME NEW ps, TypedProperties(ps)
  PROVE  /\ Puts(V5(write_properties(ps)), PropsOf(ps)) /\ PropsOf(ps) \in Seq(Byte)
         /\ Len(PropsOf(ps)) \in Nat
         /\ mqttv5 => /\ size(ps) \in Nat /\ varint_len(size(ps)) \in 1..4
                      /\ size(ps) <= 127 => varint_len(size(ps)) = 1
                      /\ Len(PropsOf(ps)) = varint_len(size(ps)) + size(ps)
         /\ ~mqttv5 => Len(PropsOf(ps)) = 0
<1>1. /\ Puts(V5(write_properties(ps)), PropsOf(ps)) /\ PropsOf(ps) \in Seq(Byte)
      /\ mqttv5 => /\ size(ps) \in LengthRange
                   /\ Len(PropsOf(ps)) = varint_len(size(ps)) + size(ps)
      /\ ~mqttv5 => PropsOf(ps) = <<>>
  BY PropsPut DEF Puts
<1>2. Len(PropsOf(ps)) \in Nat
  BY <1>1, LenProperties
<1>3. mqttv5 => /\ size(ps) \in Nat /\ varint_len(size(ps)) \in 1..4
                /\ size(ps) <= 127 => varint_len(size(ps)) = 1
  BY <1>1, VarintLen
<1> QED
  BY <1>1, <1>2, <1>3

\* The properties cost what max_packet_size() counts for them, if there are none.
LEMMA NoPropsLen ==
  ASSUME NEW ps, TypedProperties(ps), mqttv5 => size(ps) <= 0
  PROVE  Len(PropsOf(ps)) = V5Len(varint_len(size(ps))) /\ Len(PropsOf(ps)) \in Nat
<1>1. CASE mqttv5
  <2>1. /\ size(ps) \in Nat /\ varint_len(size(ps)) \in 1..4 /\ size(ps) <= 0
        /\ Len(PropsOf(ps)) = varint_len(size(ps)) + size(ps)
    BY <1>1, PropsLen
  <2> QED
    BY <1>1, <2>1 DEF V5Len
<1>2. CASE ~mqttv5
  BY <1>2, PropsLen DEF V5Len
<1> QED
  BY <1>1, <1>2, FeatureAssumption
=============================================================================
