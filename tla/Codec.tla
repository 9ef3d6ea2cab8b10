------------------------------- MODULE Codec -------------------------------
(***************************************************************************)
(* The wire format: MqttEncoder, MqttDecoder and the to_buffer(),          *)
(* max_packet_size() and from_decoder() of every packet, over sequences of *)
(* bytes.  The module has no variables; Wire uses it.                      *)
(*                                                                         *)
(* An encoder is the sequence of its writes: a write that checks the room  *)
(* left fails with BufferSize, one that does not check indexes the buffer  *)
(* out of range and panics.  A read returns a value and the offset behind  *)
(* it, or an error and the offset it had reached.  Strings are their       *)
(* bytes, and UTF-8 is cut down to ASCII.  The feature qos2 is on.         *)
(***************************************************************************)
EXTENDS Integers, Sequences, FiniteSets, SequencesExt

CONSTANTS
  mqttv5,                  \* the feature: MQTT 5, or else 3.1.1
  MAX_SUB_TOPICS_PER_MSG   \* capacity of the codes of a SUBACK

ASSUME FeatureAssumption   == mqttv5 \in BOOLEAN
ASSUME SubTopicsAssumption == MAX_SUB_TOPICS_PER_MSG \in Nat \ {0}

Byte == 0..255

MAX_MQTT_HEADER_LEN == 5

PacketType ==
  [Connect |-> 16, ConnAck |-> 32, Publish |-> 48, PubAck |-> 64,
   PubRec |-> 80, PubRel |-> 96, PubComp |-> 112, Subscribe |-> 128,
   SubAck |-> 144, Unsubscribe |-> 160, UnsubAck |-> 176, PingReq |-> 192,
   PingResp |-> 208, Disconnect |-> 224, Auth |-> 240]

Bit(b, weight) == IF b THEN weight ELSE 0

\* The sum of a sequence of numbers.
Total(ns) ==
  LET sum[i \in 0..Len(ns)] == IF i = 0 THEN 0 ELSE sum[i-1] + ns[i]
  IN  sum[Len(ns)]

----------------------------------------------------------------------------
(* Reason codes: the bytes each enumeration knows.                         *)

Unknown == 255

ConnAckReasonCodeV5 ==
  {0} \cup 128..138 \cup {140, 144} \cup 149..151 \cup 153..157 \cup {159}

ConnAckReasonCodeV3 == 0..5

PubAckReasonCode == {0, 16, 128, 131, 135, 144, 145, 151, 153}

PubRecReasonCode == {0, 16, 128, 131, 135, 144, 145, 151, 153}

PubRelReasonCode == {0, 146}

PubCompReasonCode == {0, 146}

SubAckReasonCodeV3 == {0, 1, 2, 128}

SubAckReasonCodeV5 ==
  {0, 1, 2, 128, 131, 135, 143, 145, 151, 158, 161, 162}

UnsubAckReasonCode == {0, 17, 128, 131, 135, 143, 145}

DisconnectReasonCodeV3 == {0}

DisconnectReasonCodeV5 ==
  {0, 4} \cup 128..131 \cup {135, 137, 139} \cup 141..144 \cup 147..162

ConnAckReasonCode == IF mqttv5 THEN ConnAckReasonCodeV5 ELSE ConnAckReasonCodeV3

SubAckReasonCode == IF mqttv5 THEN SubAckReasonCodeV5 ELSE SubAckReasonCodeV3

DisconnectReasonCode ==
  IF mqttv5 THEN DisconnectReasonCodeV5 ELSE DisconnectReasonCodeV3

\* A byte that the enumeration does not know becomes its default.
FromPrimitive(codes, default, b) == IF b \in codes THEN b ELSE default

ConnAckSuccess(code) == IF mqttv5 THEN code < 128 ELSE code = 0

----------------------------------------------------------------------------
(* MqttEncoder.                                                            *)

\* What the i-th byte of a varint counts for.
Weight == <<1, 128, 16384, 2097152, 268435456>>

\* It panics above 268435455.
varint_len(n) ==
  CHOOSE i \in 1..4 : n < Weight[i+1] /\ (i > 1 => n >= Weight[i])

\* The writes that fail for want of room only.
Writes == [kind : {"checked", "unchecked"}, bytes : Seq(Byte)]

Write(kind, bytes) == <<[kind |-> kind, bytes |-> bytes]>>

write_u8(v) == Write("unchecked", <<v>>)

write_u16(v) == Write("checked", <<v \div 256, v % 256>>)

write_u32(v) ==
  Write("checked", <<v \div (256 * 256 * 256), (v \div (256 * 256)) % 256,
                     (v \div 256) % 256, v % 256>>)

write_varint(n) ==
  [i \in 1..varint_len(n) |->
     [kind  |-> "unchecked",
      bytes |-> <<((n \div Weight[i]) % 128) + Bit(n >= Weight[i+1], 128)>>]]

write_slice(v) ==
  Write("checked", <<(Len(v) \div 256) % 256, Len(v) % 256>> \o v)

write_str(v) == write_slice(v)

write_payload(v) == Write("checked", v)

----------------------------------------------------------------------------
(* Properties (MQTT 5).                                                    *)

PropertyIdentifier ==
  [PayloadFormatIndicator |-> 1, MessageExpiryInterval |-> 2,
   ContentType |-> 3, ResponseTopic |-> 8, CorrelationData |-> 9,
   SubscriptionIdentifier |-> 11, SessionExpiryInterval |-> 17,
   AssignedClientIdentifier |-> 18, ServerKeepAlive |-> 19,
   AuthenticationMethod |-> 21, AuthenticationData |-> 22,
   RequestProblemInformation |-> 23, WillDelayInterval |-> 24,
   RequestResponseInformation |-> 25, ResponseInformation |-> 26,
   ServerReference |-> 28, ReasonString |-> 31, ReceiveMaximum |-> 33,
   TopicAliasMaximum |-> 34, TopicAlias |-> 35, MaximumQoS |-> 36,
   RetainAvailable |-> 37, UserProperty |-> 38, MaximumPacketSize |-> 39,
   WildcardSubscriptionAvailable |-> 40,
   SubscriptionIdentifierAvailable |-> 41,
   SharedSubscriptionAvailable |-> 42]

\* The type of the value that each property carries.
Property ==
  [PayloadFormatIndicator |-> "u8", MessageExpiryInterval |-> "u32",
   ContentType |-> "str", ResponseTopic |-> "str", CorrelationData |-> "slice",
   SubscriptionIdentifier |-> "varint", SessionExpiryInterval |-> "u32",
   AssignedClientIdentifier |-> "str", ServerKeepAlive |-> "u16",
   AuthenticationMethod |-> "str", AuthenticationData |-> "slice",
   RequestProblemInformation |-> "u8", WillDelayInterval |-> "u32",
   RequestResponseInformation |-> "u8", ResponseInformation |-> "str",
   ServerReference |-> "str", ReasonString |-> "str", ReceiveMaximum |-> "u16",
   TopicAliasMaximum |-> "u16", TopicAlias |-> "u16", MaximumQoS |-> "u8",
   RetainAvailable |-> "u8", UserProperty |-> "pair",
   MaximumPacketSize |-> "u32", WildcardSubscriptionAvailable |-> "u8",
   SubscriptionIdentifierAvailable |-> "u8",
   SharedSubscriptionAvailable |-> "u8"]

Slice(items)    == [kind |-> "Slice", items |-> items]
DataBlock(data) == [kind |-> "DataBlock", data |-> data]
CorrelatedSlice(correlation, items) ==
  [kind |-> "CorrelatedSlice", correlation |-> correlation, items |-> items]

\* Property::size().  The id of a subscription is counted as if it were as
\* many bytes long.
property_size(p) ==
  1 + CASE Property[p.id] = "u8"     -> 1
        [] Property[p.id] = "u16"    -> 2
        [] Property[p.id] = "u32"    -> 4
        [] Property[p.id] = "varint" -> varint_len(p.val) + p.val
        [] Property[p.id] = "pair"   -> Len(p.val[1]) + 2 + Len(p.val[2]) + 2
        [] OTHER                     -> Len(p.val) + 2

\* Properties::size().
size(ps) ==
  CASE ps.kind = "Slice" ->
         Total([i \in DOMAIN ps.items |-> property_size(ps.items[i])])
    [] ps.kind = "DataBlock" -> Len(ps.data)
    [] OTHER -> property_size(ps.correlation)
                + Total([i \in DOMAIN ps.items |-> property_size(ps.items[i])])

write_property(p) ==
  write_u8(PropertyIdentifier[p.id]) \o
  CASE Property[p.id] = "u8"     -> write_u8(p.val)
    [] Property[p.id] = "u16"    -> write_u16(p.val)
    [] Property[p.id] = "u32"    -> write_u32(p.val)
    [] Property[p.id] = "varint" -> write_varint(p.val)
    [] Property[p.id] = "pair"   -> write_str(p.val[1]) \o write_str(p.val[2])
    [] OTHER                     -> write_slice(p.val)

\* The properties behind their length.
write_block(ps) ==
  LET each(items) == FlattenSeq([i \in DOMAIN items |-> write_property(items[i])])
  IN  CASE ps.kind = "Slice"     -> each(ps.items)
        [] ps.kind = "DataBlock" -> write_slice(ps.data)
        [] OTHER -> write_property(ps.correlation) \o each(ps.items)

write_properties(ps) == write_varint(size(ps)) \o write_block(ps)

\* #[cfg(feature = "mqttv5")] encoder.write_properties(...)
V5(writes) == IF mqttv5 THEN writes ELSE <<>>

V5Len(n) == IF mqttv5 THEN n ELSE 0

----------------------------------------------------------------------------
(* MqttDecoder.                                                            *)

Ok(v, at)   == [err |-> "none", val |-> v, at |-> at]
Fail(e, at) == [err |-> e, at |-> at]

\* The ? operator: go on with the value and the offset, or return the error.
Try(r, Then(_, _)) == IF r.err = "none" THEN Then(r.val, r.at) ELSE r

check_remaining(b, at, len) == Len(b) - at >= len

read_u8(b, at) ==
  IF check_remaining(b, at, 1) THEN Ok(b[at+1], at + 1)
                               ELSE Fail("InsufficientBytes", at)

read_u16(b, at) ==
  IF check_remaining(b, at, 2) THEN Ok(b[at+1] * 256 + b[at+2], at + 2)
                               ELSE Fail("InsufficientBytes", at)

read_u32(b, at) ==
  IF check_remaining(b, at, 4)
  THEN Ok(((b[at+1] * 256 + b[at+2]) * 256 + b[at+3]) * 256 + b[at+4], at + 4)
  ELSE Fail("InsufficientBytes", at)

read_slice(b, at) ==
  Try(read_u16(b, at), LAMBDA len, i :
    IF check_remaining(b, i, len) THEN Ok(SubSeq(b, i + 1, i + len), i + len)
                                  ELSE Fail("InsufficientBytes", i))

read_str(b, at) ==
  Try(read_slice(b, at), LAMBDA s, i :
    IF \A k \in DOMAIN s : s[k] < 128 THEN Ok(s, i) ELSE Fail("InvalidString", i))

read_varint(b, at) ==
  LET n    == Min({4, Len(b) - at})
      last == {i \in 1..n : b[at+i] < 128}
      digit(i) == IF i <= Min(last) THEN (b[at+i] % 128) * Weight[i] ELSE 0
  IN  IF last # {}
      THEN Ok(digit(1) + digit(2) + digit(3) + digit(4), at + Min(last))
      ELSE Fail(IF n = 4 THEN "MalformedPacket" ELSE "InsufficientBytes", at)

\* read_len(): a varint behind the type, with the length of the header.
read_len(b) == read_varint(b, 1)

read_properties(b, at) ==
  Try(read_varint(b, at), LAMBDA len, i :
    IF check_remaining(b, i, len)
    THEN Ok(DataBlock(SubSeq(b, i + 1, i + len)), i + len)
    ELSE Fail("InsufficientBytes", i))

V5ReadProperties(b, at) ==
  IF mqttv5 THEN read_properties(b, at) ELSE Ok(Slice(<<>>), at)

\* MqttDecoder::try_new().
try_new(b) ==
  IF Len(b) < 2 THEN Fail("InsufficientBytes", 0)
  ELSE LET typs == {t \in DOMAIN PacketType : PacketType[t] = b[1] - (b[1] % 16)}
           qos  == (b[1] % 8) \div 2
       IN  IF typs = {} THEN Fail("InvalidHeader", 0)
           ELSE Try(read_len(b), LAMBDA len, i :
                  IF qos = 3 THEN Fail("WrongQos", i)
                  ELSE Ok([typ |-> CHOOSE t \in typs : TRUE,
                           dup |-> b[1] % 16 >= 8, qos |-> qos,
                           retain |-> b[1] % 2 = 1, remaining_len |-> len,
                           packet_len |-> i + len], i))

read_payload(b, at, packet_len) ==
  IF check_remaining(b, at, packet_len - at)
  THEN Ok(SubSeq(b, at + 1, packet_len), packet_len)
  ELSE Fail("InsufficientBytes", at)

\* Pid::try_from().
read_pid(b, at) ==
  Try(read_u16(b, at), LAMBDA pid, i :
    IF pid = 0 THEN Fail("BadIdentifier", i) ELSE Ok(pid, i))

\* PropertiesIter::read_property() on a block of received bytes.
read_property(b, at) ==
  Try(read_u8(b, at), LAMBDA id, i :
    LET ids == {p \in DOMAIN PropertyIdentifier : PropertyIdentifier[p] = id}
        prop == CHOOSE p \in ids : TRUE
        typed(r) == Try(r, LAMBDA v, j : Ok([id |-> prop, val |-> v], j))
    IN  IF ids = {} THEN Fail("InvalidProperty", i)
        ELSE CASE Property[prop] = "u8"     -> typed(read_u8(b, i))
               [] Property[prop] = "u16"    -> typed(read_u16(b, i))
               [] Property[prop] = "u32"    -> typed(read_u32(b, i))
               [] Property[prop] = "varint" -> typed(read_varint(b, i))
               [] Property[prop] = "slice"  -> typed(read_slice(b, i))
               [] Property[prop] = "str"    -> typed(read_str(b, i))
               [] Property[prop] = "pair"   ->
                    typed(Try(read_str(b, i), LAMBDA k, j :
                            Try(read_str(b, j), LAMBDA v, l : Ok(<<k, v>>, l)))))

\* Properties::iter(): what it yields, an error as its name.
iter(ps) ==
  IF ps.kind = "Slice" THEN ps.items
  ELSE LET from[at \in 0..Len(ps.data)] ==
             IF at = Len(ps.data) THEN <<>>
             ELSE LET r == read_property(ps.data, at)
                  IN  <<IF r.err = "none" THEN r.val
                        ELSE [id |-> "error", val |-> r.err]>> \o from[r.at]
       IN  from[0]

----------------------------------------------------------------------------
(* The packets, each with its to_buffer(), max_packet_size() and           *)
(* from_decoder().  A packet of MQTT 3.1.1 has no properties: Slice(<<>>). *)

NoPid == 0

Connect(protocol, properties, keep, client_id, user, pass, will, clean) ==
  [typ |-> "Connect", protocol |-> protocol, properties |-> properties,
   keep_alive |-> keep, client_id |-> client_id, username |-> user,
   password |-> pass, last_will |-> will, clean_start |-> clean]

\* Protocol::name(): "MQTT" or, for version 3, "MQIsdp".
ProtocolName(protocol) ==
  IF protocol = 3 THEN <<77, 81, 73, 115, 100, 112>> ELSE <<77, 81, 84, 84>>

\* An Option is a sequence of at most one element.
None    == <<>>
Some(v) == <<v>>

LastWill(topic, data, qos, retained, properties) ==
  [topic |-> topic, data |-> data, qos |-> qos, retained |-> retained,
   properties |-> properties]

ConnectToBuffer(p) ==
  LET flags == Bit(p.clean_start, 2) + Bit(p.username # None, 128)
               + Bit(p.password # None, 64)
               + IF p.last_will = None THEN 0
                 ELSE 4 + p.last_will[1].qos * 8 + Bit(p.last_will[1].retained, 32)
      will(w) == V5(write_properties(w.properties)) \o write_str(w.topic)
                 \o write_slice(w.data)
  IN  write_str(ProtocolName(p.protocol)) \o write_u8(p.protocol)
      \o write_u8(flags) \o write_u16(p.keep_alive)
      \o V5(write_properties(p.properties)) \o write_str(p.client_id)
      \o FlattenSeq([i \in DOMAIN p.last_will |-> will(p.last_will[i])])
      \o FlattenSeq([i \in DOMAIN p.username  |-> write_str(p.username[i])])
      \o FlattenSeq([i \in DOMAIN p.password  |-> write_slice(p.password[i])])

ConnectMaxSize(p) ==
  LET counted(ps) == V5Len(varint_len(size(ps)) + size(ps))
      will(w) == counted(w.properties) + 2 + Len(w.topic) + 2 + Len(w.data)
  IN  2 + Len(ProtocolName(p.protocol)) + 1 + 1 + 2 + counted(p.properties)
      + 2 + Len(p.client_id)
      + Total([i \in DOMAIN p.last_will |-> will(p.last_will[i])])
      + Total([i \in DOMAIN p.username  |-> 2 + Len(p.username[i])])
      + Total([i \in DOMAIN p.password  |-> 2 + Len(p.password[i])])
      + MAX_MQTT_HEADER_LEN

ConnAck(session_present, reason_code, properties) ==
  [typ |-> "ConnAck", session_present |-> session_present,
   reason_code |-> reason_code, properties |-> properties]

ConnAckToBuffer(p) ==
  write_u8(Bit(p.session_present, 1)) \o write_u8(p.reason_code)
  \o V5(write_properties(p.properties))

ConnAckMaxSize(p) ==
  2 + MAX_MQTT_HEADER_LEN + V5Len(varint_len(size(p.properties)))

ConnAckFromDecoder(d, b, at) ==
  Try(read_u8(b, at), LAMBDA flags, i :
    IF flags > 1 THEN Fail("MalformedPacket", i)
    ELSE Try(read_u8(b, i), LAMBDA code, j :
           Try(V5ReadProperties(b, j), LAMBDA ps, k :
             Ok(ConnAck(flags = 1, FromPrimitive(ConnAckReasonCode, Unknown, code),
                        ps), k))))

Publish(dup, qos, retain, pid, topic_name, payload, properties) ==
  [typ |-> "Publish", dup |-> dup, qos |-> qos, retain |-> retain,
   pid |-> pid, topic_name |-> topic_name, payload |-> payload,
   properties |-> properties]

PublishFlags(p) == p.qos * 2 + Bit(p.dup, 8) + Bit(p.retain, 1)

\* Without set_pid() a publish that needs an id fails with PidMissing.
PublishToBuffer(p) ==
  write_str(p.topic_name)
  \o (IF p.qos = 0 THEN <<>>
      ELSE IF p.pid = NoPid THEN Write("PidMissing", <<>>)
      ELSE write_u16(p.pid))
  \o V5(write_properties(p.properties)) \o write_payload(p.payload)

PublishMaxSize(p) ==
  2 + Len(p.topic_name) + (IF p.qos = 0 THEN 0 ELSE 2) + MAX_MQTT_HEADER_LEN
  + V5Len(varint_len(size(p.properties))) + Len(p.payload)

\* The arm of from_buffer() for a PUBLISH: what there is of it in b.
PartialPublish(d, b, at) ==
  LET partial(topic, pid) ==
        [typ |-> "PartialPublish", qos |-> d.qos, pid |-> pid,
         topic_name |-> topic, packet_len |-> d.packet_len,
         buf |-> SubSeq(b, 1, Min({d.packet_len, Len(b)}))]
  IN  Try(read_str(b, at), LAMBDA topic, i :
        IF d.qos = 0 THEN Ok(partial(topic, NoPid), i)
        ELSE Try(read_pid(b, i), LAMBDA pid, j : Ok(partial(topic, pid), j)))

\* PUBACK, PUBREC, PUBREL and PUBCOMP are written and read alike.
Ack(typ, pid, reason_code, properties) ==
  [typ |-> typ, pid |-> pid, reason_code |-> reason_code,
   properties |-> properties]

AckIsLong(p) == p.reason_code # 0 \/ size(p.properties) # 0

AckFromDecoder(typ, codes, d, b, at) ==
  Try(read_pid(b, at), LAMBDA pid, i :
    IF d.remaining_len \in {2, 3} \/ ~mqttv5
    THEN Ok(Ack(typ, pid, 0, Slice(<<>>)), i)
    ELSE Try(read_u8(b, i), LAMBDA code, j :
           Try(read_properties(b, j), LAMBDA ps, k :
             Ok(Ack(typ, pid, FromPrimitive(codes, Unknown, code), ps), k))))

PubAck(pid, reason_code, properties) ==
  Ack("PubAck", pid, reason_code, properties)

PubAckToBuffer(p) ==
  write_u16(p.pid)
  \o (IF AckIsLong(p) THEN V5(write_u8(p.reason_code)
                              \o write_properties(p.properties))
                      ELSE <<>>)

PubAckMaxSize(p) ==
  2 + MAX_MQTT_HEADER_LEN
  + (IF AckIsLong(p) THEN V5Len(1 + varint_len(size(p.properties))) ELSE 0)

PubAckFromDecoder(d, b, at) == AckFromDecoder("PubAck", PubAckReasonCode, d, b, at)

PubRec(pid, reason_code, properties) ==
  Ack("PubRec", pid, reason_code, properties)

PubRecToBuffer(p) == PubAckToBuffer(p)

PubRecMaxSize(p) == PubAckMaxSize(p)

PubRecFromDecoder(d, b, at) == AckFromDecoder("PubRec", PubRecReasonCode, d, b, at)

PubRel(pid, reason_code, properties) ==
  Ack("PubRel", pid, reason_code, properties)

PubRelToBuffer(p) == PubAckToBuffer(p)

PubRelMaxSize(p) == PubAckMaxSize(p)

PubRelFromDecoder(d, b, at) == AckFromDecoder("PubRel", PubRelReasonCode, d, b, at)

PubComp(pid, reason_code, properties) ==
  Ack("PubComp", pid, reason_code, properties)

PubCompToBuffer(p) == PubAckToBuffer(p)

PubCompMaxSize(p) == PubAckMaxSize(p)

PubCompFromDecoder(d, b, at) ==
  AckFromDecoder("PubComp", PubCompReasonCode, d, b, at)

SubscribeTopic(path, qos, no_local, as_published, handling) ==
  [topic_path |-> path, maximum_qos |-> qos, no_local |-> no_local,
   retain_as_published |-> as_published, retain_handling |-> handling]

Subscribe(pid, properties, topics) ==
  [typ |-> "Subscribe", pid |-> pid, properties |-> properties,
   topics |-> topics]

\* pid.unwrap_or_default(): Pid::new() is 1.
PidOrDefault(pid) == IF pid = NoPid THEN 1 ELSE pid

SubscribeToBuffer(p) ==
  LET options(t) == (IF mqttv5 THEN t.retain_handling * 16
                                    + Bit(t.retain_as_published, 8)
                                    + Bit(t.no_local, 4)
                               ELSE 0) + t.maximum_qos
  IN  write_u16(PidOrDefault(p.pid)) \o V5(write_properties(p.properties))
      \o FlattenSeq([i \in DOMAIN p.topics |->
                       write_str(p.topics[i].topic_path)
                       \o write_u8(options(p.topics[i]))])

\* Mutant: the options byte of each topic is forgotten.
SubscribeMaxSizeNoOptions(p) ==
  2 + MAX_MQTT_HEADER_LEN + V5Len(varint_len(size(p.properties)))
  + Total([i \in DOMAIN p.topics |-> 2 + Len(p.topics[i].topic_path)])

SubscribeMaxSize(p) ==
  2 + MAX_MQTT_HEADER_LEN + V5Len(varint_len(size(p.properties)))
  + Total([i \in DOMAIN p.topics |-> 2 + Len(p.topics[i].topic_path) + 1])

SubAck(pid, properties, codes) ==
  [typ |-> "SubAck", pid |-> pid, properties |-> properties, codes |-> codes]

SubAckToBuffer(p) ==
  write_u16(p.pid) \o V5(write_properties(p.properties))
  \o FlattenSeq([i \in DOMAIN p.codes |-> write_u8(p.codes[i])])

SubAckMaxSize(p) ==
  2 + MAX_MQTT_HEADER_LEN + Len(p.codes)
  + V5Len(varint_len(size(p.properties)))

\* collect() into a heapless::Vec panics when there are too many.
Collect(codes, bytes) ==
  IF Len(bytes) > MAX_SUB_TOPICS_PER_MSG THEN Fail("panic", 0)
  ELSE Ok([i \in DOMAIN bytes |-> FromPrimitive(codes, Unknown, bytes[i])], 0)

SubAckFromDecoder(d, b, at) ==
  Try(read_pid(b, at), LAMBDA pid, i :
    Try(V5ReadProperties(b, i), LAMBDA ps, j :
      Try(read_payload(b, j, d.packet_len), LAMBDA bytes, k :
        Try(Collect(SubAckReasonCode, bytes), LAMBDA codes, z :
          Ok(SubAck(pid, ps, codes), k)))))

Unsubscribe(pid, properties, topics) ==
  [typ |-> "Unsubscribe", pid |-> pid, properties |-> properties,
   topics |-> topics]

UnsubscribeToBuffer(p) ==
  write_u16(PidOrDefault(p.pid)) \o V5(write_properties(p.properties))
  \o FlattenSeq([i \in DOMAIN p.topics |-> write_str(p.topics[i])])

UnsubscribeMaxSize(p) ==
  2 + MAX_MQTT_HEADER_LEN + V5Len(varint_len(size(p.properties)))
  + Total([i \in DOMAIN p.topics |-> Len(p.topics[i]) + 2])

UnsubAck(pid, properties, codes) ==
  [typ |-> "UnsubAck", pid |-> pid, properties |-> properties, codes |-> codes]

UnsubAckToBuffer(p) ==
  write_u16(p.pid) \o V5(write_properties(p.properties)
  \o FlattenSeq([i \in DOMAIN p.codes |-> write_u8(p.codes[i])]))

UnsubAckMaxSize(p) ==
  2 + MAX_MQTT_HEADER_LEN + V5Len(varint_len(size(p.properties)) + Len(p.codes))

UnsubAckFromDecoder(d, b, at) ==
  Try(read_pid(b, at), LAMBDA pid, i :
    Try(V5ReadProperties(b, i), LAMBDA ps, j :
      Try(read_payload(b, j, d.packet_len), LAMBDA bytes, k :
        Try(IF mqttv5 THEN Collect(UnsubAckReasonCode, bytes) ELSE Ok(<<>>, k),
            LAMBDA codes, z : Ok(UnsubAck(pid, ps, codes), k)))))

PingReq == [typ |-> "PingReq"]

PingResp == [typ |-> "PingResp"]

Disconnect(reason_code, properties) ==
  [typ |-> "Disconnect", reason_code |-> reason_code, properties |-> properties]

\* The reason is left out when it is Normal and there are no properties; the
\* length of the properties never is.
DisconnectToBuffer(p) ==
  (IF p.reason_code # 0 \/ (mqttv5 /\ size(p.properties) # 0)
   THEN write_u8(p.reason_code) ELSE <<>>)
  \o V5(write_properties(p.properties))

DisconnectMaxSize(p) ==
  (IF p.reason_code # 0 \/ (mqttv5 /\ size(p.properties) # 0) THEN 1 ELSE 0)
  + V5Len(varint_len(size(p.properties)) + size(p.properties))
  + MAX_MQTT_HEADER_LEN

DisconnectFromDecoder(d, b, at) ==
  IF d.remaining_len < 2 THEN Ok(Disconnect(0, Slice(<<>>)), at)
  ELSE Try(read_u8(b, at), LAMBDA code, i :
         Try(V5ReadProperties(b, i), LAMBDA ps, j :
           Ok(Disconnect(FromPrimitive(DisconnectReasonCode, 0, code), ps), j)))

----------------------------------------------------------------------------
(* Encoding and decoding a packet.                                         *)

\* FixedHeader::flags(): only these packets have any.
flags(p) == CASE p.typ = "Publish" -> PublishFlags(p)
              [] p.typ \in {"Subscribe", "Unsubscribe"} -> 2
              [] OTHER -> 0

to_buffer(p) ==
  CASE p.typ = "Connect"     -> ConnectToBuffer(p)
    [] p.typ = "ConnAck"     -> ConnAckToBuffer(p)
    [] p.typ = "Publish"     -> PublishToBuffer(p)
    [] p.typ = "PubAck"      -> PubAckToBuffer(p)
    [] p.typ = "PubRec"      -> PubRecToBuffer(p)
    [] p.typ = "PubRel"      -> PubRelToBuffer(p)
    [] p.typ = "PubComp"     -> PubCompToBuffer(p)
    [] p.typ = "Subscribe"   -> SubscribeToBuffer(p)
    [] p.typ = "SubAck"      -> SubAckToBuffer(p)
    [] p.typ = "Unsubscribe" -> UnsubscribeToBuffer(p)
    [] p.typ = "UnsubAck"    -> UnsubAckToBuffer(p)
    [] p.typ = "Disconnect"  -> DisconnectToBuffer(p)
    [] OTHER                 -> <<>>

max_packet_size(p) ==
  CASE p.typ = "Connect"     -> ConnectMaxSize(p)
    [] p.typ = "ConnAck"     -> ConnAckMaxSize(p)
    [] p.typ = "Publish"     -> PublishMaxSize(p)
    [] p.typ = "PubAck"      -> PubAckMaxSize(p)
    [] p.typ = "PubRec"      -> PubRecMaxSize(p)
    [] p.typ = "PubRel"      -> PubRelMaxSize(p)
    [] p.typ = "PubComp"     -> PubCompMaxSize(p)
    [] p.typ = "Subscribe"   -> SubscribeMaxSize(p)
    [] p.typ = "SubAck"      -> SubAckMaxSize(p)
    [] p.typ = "Unsubscribe" -> UnsubscribeMaxSize(p)
    [] p.typ = "UnsubAck"    -> UnsubAckMaxSize(p)
    [] p.typ = "Disconnect"  -> DisconnectMaxSize(p)
    [] OTHER                 -> MAX_MQTT_HEADER_LEN

WrittenBytes(ws) == FlattenSeq([i \in DOMAIN ws |-> ws[i].bytes])

Body(p) == WrittenBytes(to_buffer(p))

\* finalize_fixed_header(): type and length go in front of the body.
finalize_fixed_header(p, body) ==
  LET len == write_varint(Len(body))
  IN  <<PacketType[p.typ] + flags(p)>>
      \o [i \in DOMAIN len |-> len[i].bytes[1]] \o body

Encode(p) == finalize_fixed_header(p, Body(p))

\* encode_packet() with a buffer of n bytes.  The body is written behind the
\* room for the longest header; the first write that fails decides.
EncodeOutcome(p, n) ==
  LET ws     == to_buffer(p)
      end(k) == MAX_MQTT_HEADER_LEN + Total([i \in 1..k |-> Len(ws[i].bytes)])
      fails  == {k \in DOMAIN ws : ws[k].kind = "PidMissing" \/ end(k) > n}
      first  == ws[Min(fails)]
  IN  IF n < MAX_MQTT_HEADER_LEN THEN "panic"
      ELSE IF fails = {} THEN "ok"
      ELSE CASE first.kind = "checked"   -> "BufferSize"
             [] first.kind = "unchecked" -> "panic"
             [] OTHER                    -> first.kind

\* ReceivedPacket::from_buffer().
from_buffer(b) ==
  Try(try_new(b), LAMBDA d, at :
    CASE d.typ = "Disconnect" -> DisconnectFromDecoder(d, b, at)
      [] d.typ = "PingResp"   -> Ok(PingResp, at)
      [] d.typ = "ConnAck"    -> ConnAckFromDecoder(d, b, at)
      [] d.typ = "Publish"    -> PartialPublish(d, b, at)
      [] d.typ = "PubAck"     -> PubAckFromDecoder(d, b, at)
      [] d.typ = "PubRec"     -> PubRecFromDecoder(d, b, at)
      [] d.typ = "PubRel"     -> PubRelFromDecoder(d, b, at)
      [] d.typ = "PubComp"    -> PubCompFromDecoder(d, b, at)
      [] d.typ = "SubAck"     -> SubAckFromDecoder(d, b, at)
      [] d.typ = "UnsubAck"   -> UnsubAckFromDecoder(d, b, at)
      [] OTHER                -> Fail("InvalidHeader", at))

\* Message::try_new() on the frame that holds the whole publish.
Message(b) ==
  Try(try_new(b), LAMBDA d, at :
    IF ~check_remaining(b, at, d.remaining_len) THEN Fail("InsufficientBytes", at)
    ELSE Try(read_str(b, at), LAMBDA topic, i :
         Try(IF d.qos = 0 THEN Ok(NoPid, i) ELSE read_pid(b, i), LAMBDA pid, j :
         Try(V5ReadProperties(b, j), LAMBDA ps, k :
         Try(read_payload(b, k, d.packet_len), LAMBDA payload, l :
           Ok([dup |-> d.dup, qos |-> d.qos, retain |-> d.retain, pid |-> pid,
               topic_name |-> topic, payload |-> payload,
               properties |-> <<j, k>>], l))))))

\* Message::properties(): the block between the two offsets, the first of which
\* is where the length of the properties begins.
MessageProperties(b, m) ==
  DataBlock(SubSeq(b, m.properties[1] + 1, m.properties[2]))

----------------------------------------------------------------------------
(* What the properties look at.                                            *)

\* A packet with its properties read out.
View(p) == IF "properties" \in DOMAIN p
           THEN [p EXCEPT !.properties = iter(p.properties)] ELSE p

\* What a receive came to is the packet p.  Message::properties() returns them
\* with their length in front.
Known(r, p) ==
  CASE r.typ = "dropped" -> p.typ = "Publish"
    [] r.typ = "Message" ->
         LET m == Message(r.frame)
         IN  /\ p.typ = "Publish" /\ m.err = "none"
             /\ m.val.topic_name = p.topic_name /\ m.val.payload = p.payload
             /\ m.val.qos = p.qos /\ m.val.pid = p.pid
             /\ m.val.dup = p.dup /\ m.val.retain = p.retain
             /\ mqttv5 => MessageProperties(r.frame, m.val).data
                          = WrittenBytes(write_properties(p.properties))
    [] OTHER -> r = View(p)

----------------------------------------------------------------------------
(* The packets that the theorems are about.                                *)

\* A packet that the encoder can write, if it has room: its type is known and
\* its length fits the header.  A PUBLISH has an id if it needs one, and a topic
\* of ASCII.
WellFormed(p) ==
  /\ p.typ \in DOMAIN PacketType
  /\ to_buffer(p) \in Seq(Writes) /\ Len(Body(p)) < Weight[5]
  /\ p.typ = "Publish" =>
       /\ p.qos \in 0..2 /\ p.dup \in BOOLEAN /\ p.retain \in BOOLEAN
       /\ p.qos # 0 => p.pid \in Nat \ {0} /\ p.pid < 256 * 256
       /\ p.topic_name \in Seq(Byte) /\ Len(p.topic_name) < 256 * 256
       /\ \A i \in DOMAIN p.topic_name : p.topic_name[i] < 128
       /\ p.payload \in Seq(Byte)
       /\ mqttv5 => /\ write_block(p.properties) \in Seq(Writes)
                    /\ size(p.properties) \in Nat /\ size(p.properties) < Weight[5]

\* A property with a value of its type.  The id of a subscription is 0: of any
\* other, Property::size() is wrong.
Typed(q) ==
  LET slice(v) == v \in Seq(Byte) /\ Len(v) < 256 * 256
      str(v)   == slice(v) /\ \A i \in DOMAIN v : v[i] < 128
  IN  /\ q.id \in DOMAIN Property /\ q = [id |-> q.id, val |-> q.val]
      /\ CASE Property[q.id] = "u8"     -> q.val \in Byte
           [] Property[q.id] = "u16"    -> q.val \in Nat /\ q.val < 256 * 256
           [] Property[q.id] = "u32"    -> q.val \in Nat /\ q.val \div (256 * 256 * 256) < 256
           [] Property[q.id] = "varint" -> q.val = 0
           [] Property[q.id] = "pair"   -> /\ q.val = <<q.val[1], q.val[2]>>
                                           /\ str(q.val[1]) /\ str(q.val[2])
           [] Property[q.id] = "str"    -> str(q.val)
           [] OTHER                     -> slice(q.val)

\* The properties of a packet, each with a value of its type.  MQTT 3.1.1 has
\* none.
TypedProperties(ps) ==
  IF mqttv5
  THEN /\ ps = Slice(ps.items) /\ ps.items \in Seq(Range(ps.items))
       /\ \A i \in DOMAIN ps.items : Typed(ps.items[i])
       /\ size(ps) < Weight[5]
  ELSE ps = Slice(<<>>)

\* A packet as its type allows, with an id and reason codes that the client
\* knows, of a type that a client receives.
Readable(p) ==
  LET ps   == p.properties
      pids == {n \in Nat \ {0} : n < 256 * 256}
      ack(codes) == /\ p = Ack(p.typ, p.pid, p.reason_code, ps) /\ p.pid \in pids
                    /\ p.reason_code \in IF mqttv5 THEN codes ELSE {0}
  IN  /\ p.typ # "PingResp" => TypedProperties(ps)
      /\ CASE p.typ = "PingResp" -> p = PingResp
           [] p.typ = "Publish"  -> p.qos = 0 => p.pid = NoPid
           [] p.typ = "ConnAck"  ->
                /\ p = ConnAck(p.session_present, p.reason_code, ps)
                /\ p.session_present \in BOOLEAN /\ p.reason_code \in ConnAckReasonCode
           [] p.typ = "PubAck"   -> ack(PubAckReasonCode)
           [] p.typ = "PubRec"   -> ack(PubRecReasonCode)
           [] p.typ = "PubRel"   -> ack(PubRelReasonCode)
           [] p.typ = "PubComp"  -> ack(PubCompReasonCode)
           [] p.typ = "SubAck"   ->
                /\ p = SubAck(p.pid, ps, p.codes) /\ p.pid \in pids
                /\ p.codes \in Seq(SubAckReasonCode)
                /\ Len(p.codes) <= MAX_SUB_TOPICS_PER_MSG
           [] p.typ = "UnsubAck" ->
                /\ p = UnsubAck(p.pid, ps, p.codes) /\ p.pid \in pids
                /\ p.codes \in Seq(IF mqttv5 THEN UnsubAckReasonCode ELSE {})
                /\ Len(p.codes) <= MAX_SUB_TOPICS_PER_MSG
           [] p.typ = "Disconnect" ->
                /\ p = Disconnect(p.reason_code, ps)
                /\ p.reason_code \in DisconnectReasonCode
           [] OTHER -> FALSE
=============================================================================
