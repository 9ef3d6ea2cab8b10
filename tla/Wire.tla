-------------------------------- MODULE Wire --------------------------------
(***************************************************************************)
(* The byte stream of a connection: PacketReader cuts what the socket      *)
(* delivers into packets, connect_mqtt() waits for the CONNACK and         *)
(* select() handles what follows, copying a PUBLISH into a frame of the    *)
(* receive channel.  The other direction, encoding a packet into a grant   *)
(* or into write_buf, is the action encode_packet.                         *)
(*                                                                         *)
(* The stream of a connection is the encoding of a script, the packets     *)
(* that the broker sends on it; segments of it arrive one after the other. *)
(* The reader runs until the socket has no byte for it.  Only then may     *)
(* select3 drop the pending recv(), because another of its futures is      *)
(* ready, or the connect timeout drop it.                                  *)
(***************************************************************************)
EXTENDS Codec

CONSTANTS
  MAX_TOPIC_LEN,  \* the longest topic the read buffer has room for
  Scripts,        \* the sequences of packets the broker may send
  Again,          \* those of them it may send on a later connection
  Requests,       \* the packets that the client encodes
  AnyCut,         \* a segment may end anywhere, not only where it is safe
  MaxCancels,     \* bound: receives dropped in a behaviour
  MaxLosses       \* bound: connections lost or given up in a behaviour

ASSUME TopicLenAssumption == MAX_TOPIC_LEN \in Nat
ASSUME ScriptsAssumption  == /\ \A s \in Scripts : s # <<>> => s[1].typ = "ConnAck"
                             /\ Again \subseteq Scripts
ASSUME AnyCutAssumption   == AnyCut \in BOOLEAN
ASSUME WireBounds         == MaxCancels \in Nat /\ MaxLosses \in Nat

VARIABLES
  script,      \* what the broker sends on this connection
  arrived,     \* how many bytes of it have reached the socket
  taken,       \* how many the client has read from the socket
  buf,         \* PacketReader::buf[..read_bytes]
  packet_len,  \* PacketReader::packet_len
  pc,          \* where select() or connect_mqtt() is
  part,        \* the PartialPublish whose payload is being read
  connected,   \* connect_mqtt() has succeeded on this connection
  rx,          \* what the receives on this connection came to
  cancels,     \* receives dropped so far
  losses,      \* connections lost so far
  wrote        \* what encode_packet() encoded, if anything

stream == <<script, arrived, taken>>
reader == <<buf, packet_len>>
counts == <<cancels, losses>>
vars   == <<stream, reader, pc, part, connected, rx, counts, wrote>>

READ_BUF_LEN == MAX_MQTT_HEADER_LEN + 2 + MAX_TOPIC_LEN + 2

NoPart    == [buf |-> <<>>, packet_len |-> 0]
NoRequest == [typ |-> "none"]

Bytes(ps) == FlattenSeq([i \in DOMAIN ps |-> Encode(ps[i])])

\* What a script puts on the wire.
StreamOf == [s \in Scripts |-> Bytes(s)]

Stream == StreamOf[script]

----------------------------------------------------------------------------
(* The network.                                                            *)

\* How many bytes of p try_parse_header() needs: of a PUBLISH the topic and
\* two more, of anything else the fixed header.
HeaderLen(p) ==
  LET fixed == Len(Encode(p)) - Len(Body(p))
  IN  IF p.typ = "Publish" THEN fixed + 2 + Len(p.topic_name) + 2 ELSE fixed

\* Where a segment may end inside p without harm: in the header, and also in
\* the payload of a PUBLISH, which copy_all() reads to its end.  A CONNACK is
\* not cut: the connect timeout leaves what was read of it in the buffer.
SafeCut(p, n) ==
  \/ p.typ # "ConnAck" /\ n < HeaderLen(p)
  \/ p.typ = "Publish" /\ n > HeaderLen(p)

CutsOf ==
  [s \in Scripts |->
     LET start(i) == Len(Bytes(SubSeq(s, 1, i - 1)))
         len(i)   == Len(Encode(s[i]))
     IN  UNION {{start(i) + n : n \in {k \in 1..len(i) : \/ AnyCut \/ k = len(i)
                                                       \/ SafeCut(s[i], k)}} :
                  i \in DOMAIN s}]

Arrive ==
  /\ \E n \in CutsOf[script] : n > arrived /\ arrived' = n
  /\ UNCHANGED <<script, taken, reader, pc, part, connected, rx, counts, wrote>>

Available == arrived - taken

Taken(n) == SubSeq(Stream, taken + 1, taken + n)

----------------------------------------------------------------------------
(* PacketReader.                                                           *)

Init ==
  /\ script \in Scripts /\ arrived = 0 /\ taken = 0
  /\ buf = <<>> /\ packet_len = None
  /\ pc = "idle" /\ part = NoPart /\ connected = FALSE /\ rx = <<>>
  /\ cancels = 0 /\ losses = 0 /\ wrote = NoRequest

\* transport.disconnect() and the next connect().
NewConnection ==
  /\ losses < MaxLosses
  /\ losses' = losses + 1
  /\ script' \in Again /\ arrived' = 0 /\ taken' = 0
  /\ pc' = "idle" /\ part' = NoPart /\ connected' = FALSE /\ rx' = <<>>

\* PacketReader::reset().
reset == buf' = <<>> /\ packet_len' = None

\* Mutant: the bytes of a partial header are dropped too.
recvStartsOver ==
  /\ pc = "idle" /\ script # <<>>
  /\ pc' = "read"
  /\ reset
  /\ UNCHANGED <<stream, part, connected, rx, counts, wrote>>

\* recv() is called.  A packet_len that is set is taken for a packet that was
\* received; without it, the bytes read before are kept.
recv ==
  /\ pc = "idle" /\ script # <<>>
  /\ pc' = "read"
  /\ IF packet_len # None THEN reset ELSE UNCHANGED reader
  /\ UNCHANGED <<stream, part, connected, rx, counts, wrote>>

\* The length of the packet, once its header, and the topic of a PUBLISH with
\* two more bytes, are there.
try_parse_header ==
  Try(try_new(buf), LAMBDA d, at :
    IF d.typ # "Publish" THEN Ok(d.packet_len, at)
    ELSE Try(read_str(buf, at), LAMBDA topic, i :
           IF check_remaining(buf, i, 2) THEN Ok(d.packet_len, i)
                                         ELSE Fail("InsufficientBytes", i)))

\* read_chunk() up to its await: parse the header, and look what to ask the
\* socket for: nothing when the packet or the buffer is complete.  Without a
\* length and with a full buffer recv() turns round forever; with more bytes
\* than the packet has the slice is out of order and panics.
read_chunk ==
  /\ pc = "read"
  /\ LET head == try_parse_header
         len  == IF head.err = "none" THEN Some(head.val) ELSE None
         end  == Min({IF len = None THEN Len(buf) + 1 ELSE len[1], READ_BUF_LEN})
     IN  IF head.err \notin {"none", "InsufficientBytes"}
         THEN reset /\ pc' = "broken"
         ELSE /\ packet_len' = len
              /\ buf' = buf
              /\ pc' = CASE end > Len(buf) -> "wait"
                         [] end < Len(buf) -> "panic"
                         [] end = Len(buf) /\ len # None -> "decode"
                         [] OTHER -> "read"
  /\ UNCHANGED <<stream, part, connected, rx, counts, wrote>>

\* The socket's read() returns what there is, up to the length of the slice.
\* recv() leaves its loop when packet_len is set, however much was read.
read ==
  /\ pc \in {"wait", "pending"} /\ Available > 0
  /\ LET end == Min({IF packet_len = None THEN Len(buf) + 1 ELSE packet_len[1],
                     READ_BUF_LEN})
         n   == Min({end - Len(buf), Available})
     IN  buf' = buf \o Taken(n) /\ taken' = taken + n
  /\ pc' = IF packet_len = None THEN "read" ELSE "decode"
  /\ UNCHANGED <<script, arrived, packet_len, part, connected, rx, counts, wrote>>

Pend ==
  /\ pc = "wait" /\ Available = 0 /\ pc' = "pending"
  /\ UNCHANGED <<stream, reader, part, connected, rx, counts, wrote>>

\* Another future of select3 is ready: the pending recv() is dropped.
Cancel ==
  /\ pc = "pending" /\ connected /\ cancels < MaxCancels
  /\ pc' = "idle" /\ cancels' = cancels + 1
  /\ UNCHANGED <<stream, reader, part, connected, rx, losses, wrote>>

----------------------------------------------------------------------------
(* MqttStack.                                                              *)

\* PacketReader::decode().
decode == from_buffer(SubSeq(buf, 1, Min({packet_len[1], Len(buf)})))

\* connect_mqtt(): anything but a CONNACK that accepts fails the attempt.
\* run() tries again with the reader as it is, or stops.
Connected ==
  /\ pc = "decode" /\ ~connected
  /\ decode.err = "none" /\ decode.val.typ = "ConnAck"
  /\ ConnAckSuccess(decode.val.reason_code)
  /\ connected' = TRUE /\ pc' = "idle" /\ rx' = <<View(decode.val)>>
  /\ UNCHANGED <<stream, reader, part, counts, wrote>>

ConnectFails ==
  /\ pc = "decode" /\ ~connected
  /\ ~ /\ decode.err = "none" /\ decode.val.typ = "ConnAck"
       /\ ConnAckSuccess(decode.val.reason_code)
  /\ IF losses < MaxLosses THEN NewConnection
     ELSE pc' = "stopped" /\ UNCHANGED <<stream, part, connected, rx, losses>>
  /\ UNCHANGED <<reader, cancels, wrote>>

\* A packet that cannot be decoded is only logged.
Handle ==
  /\ pc = "decode" /\ connected
  /\ ~(decode.err = "none" /\ decode.val.typ = "PartialPublish")
  /\ rx' = Append(rx, IF decode.err = "none" THEN View(decode.val)
                      ELSE [typ |-> "error", err |-> decode.err])
  /\ pc' = IF decode.err = "panic" THEN "panic" ELSE "idle"
  /\ UNCHANGED <<stream, reader, part, connected, counts, wrote>>

\* grant_immediate() for the whole packet: copy_all() or discard() follows.
HandlePublish ==
  /\ pc = "decode" /\ connected
  /\ decode.err = "none" /\ decode.val.typ = "PartialPublish"
  /\ part' = [buf |-> decode.val.buf, packet_len |-> decode.val.packet_len]
  /\ pc' \in {"copy", "discard"}
  /\ UNCHANGED <<stream, reader, connected, rx, counts, wrote>>

\* read_exact() on what the buffer did not hold.
ReadExact ==
  /\ pc \in {"copy", "discard"} /\ Available > 0
  /\ Len(part.buf) < part.packet_len
  /\ LET n == Min({part.packet_len - Len(part.buf), Available})
     IN  part' = [part EXCEPT !.buf = @ \o Taken(n)] /\ taken' = taken + n
  /\ UNCHANGED <<script, arrived, reader, pc, connected, rx, counts, wrote>>

\* Mutant: a message without room is not read to its end.
copy_allNoDiscard ==
  /\ (pc = "copy" /\ Len(part.buf) = part.packet_len) \/ pc = "discard"
  /\ rx' = Append(rx, IF pc = "copy" THEN [typ |-> "Message", frame |-> part.buf]
                      ELSE [typ |-> "dropped"])
  /\ part' = NoPart /\ pc' = "idle"
  /\ UNCHANGED <<stream, reader, connected, counts, wrote>>

\* Mutant: the socket is asked although the packet is complete.
copy_allAsksSocket ==
  /\ pc \in {"copy", "discard"} /\ Len(part.buf) = part.packet_len
  /\ Available > 0
  /\ rx' = Append(rx, IF pc = "copy" THEN [typ |-> "Message", frame |-> part.buf]
                      ELSE [typ |-> "dropped"])
  /\ part' = NoPart /\ pc' = "idle"
  /\ UNCHANGED <<stream, reader, connected, counts, wrote>>

\* copy_all(), or discard() when the receive channel has no room, has read the
\* packet to its end.
copy_all ==
  /\ pc \in {"copy", "discard"} /\ Len(part.buf) = part.packet_len
  /\ rx' = Append(rx, IF pc = "copy" THEN [typ |-> "Message", frame |-> part.buf]
                      ELSE [typ |-> "dropped"])
  /\ part' = NoPart /\ pc' = "idle"
  /\ UNCHANGED <<stream, reader, connected, counts, wrote>>

\* The socket fails, or the connect timeout ends: run() disconnects.  Only
\* after select() has failed does it also reset the reader.
Lose ==
  /\ pc \in IF Available > 0 THEN {"broken"}
            ELSE {"broken", "idle", "pending", "copy", "discard"}
  /\ script # <<>>
  /\ IF connected THEN reset ELSE UNCHANGED reader
  /\ NewConnection
  /\ UNCHANGED <<cancels, wrote>>

\* The room a packet is encoded into: a grant of max_packet_size() bytes for
\* what a client task sends, connect_buf, or write_buf.
Room(p) ==
  CASE p.typ \in {"Publish", "Subscribe", "Unsubscribe"} -> max_packet_size(p)
    [] p.typ = "Connect" -> 1024
    [] OTHER -> 32

\* encode_packet() shares nothing with the reader: a behaviour encodes, with
\* the empty script, or it receives, and no interleaving of the two is lost.
encode_packet(p) ==
  /\ script = <<>> /\ wrote = NoRequest
  /\ wrote' = [typ |-> "some", packet |-> p,
               outcome |-> EncodeOutcome(p, Room(p)), bytes |-> Encode(p)]
  /\ UNCHANGED <<stream, reader, pc, part, connected, rx, counts>>

Next ==
  \/ Arrive \/ recv \/ read_chunk \/ read \/ Pend \/ Cancel
  \/ Connected \/ ConnectFails \/ Handle \/ HandlePublish
  \/ ReadExact \/ copy_all \/ Lose
  \/ \E p \in Requests : encode_packet(p)

Spec == Init /\ [][Next]_vars

\* The network delivers and the executor polls the stack.  The last two
\* conjuncts are weak fairness of steps that are enabled wherever the reader
\* is at such a place: ENABLED is written out.
FairSpec ==
  /\ Spec
  /\ WF_vars(Arrive) /\ WF_vars(recv) /\ WF_vars(read) /\ WF_vars(Pend)
  /\ WF_vars(ReadExact \/ copy_all)
  /\ []<>~(pc = "read" /\ Len(buf) < READ_BUF_LEN) \/ []<><<read_chunk>>_vars
  /\ \/ []<>(pc # "decode")
     \/ []<><<Connected \/ ConnectFails \/ Handle \/ HandlePublish>>_vars

----------------------------------------------------------------------------
(* The scripts and requests that the theorems are about.                   *)

\* A packet that the reader can frame.  The topic of a PUBLISH is not longer
\* than the buffer has room for, and has two more bytes behind it, as
\* try_parse_header() wants; any other packet fits the buffer.
Framed(p) ==
  /\ WellFormed(p)
  /\ IF p.typ = "Publish"
     THEN Len(p.topic_name) <= MAX_TOPIC_LEN /\ HeaderLen(p) <= Len(Encode(p))
     ELSE Len(Encode(p)) <= READ_BUF_LEN

FramedScripts ==
  \A s \in Scripts : s \in Seq(Range(s)) /\ \A i \in DOMAIN s : Framed(s[i])

ReadableScripts == \A s \in Scripts : \A i \in DOMAIN s : Readable(s[i])

\* A packet that the client may encode, with any properties where the
\* application chooses them.  The answers go into write_buf, and a CONNECT has to
\* be short enough for connect_buf.
Encodable(p) ==
  LET typed  == TypedProperties(p.properties)
      few(n) == typed /\ (mqttv5 => size(p.properties) <= n)
      pid    == p.pid \in Nat /\ p.pid < 256 * 256
      str(v) == v \in Seq(Byte) /\ Len(v) < 256 * 256
  IN  /\ WellFormed(p)
      /\ CASE p.typ = "Publish"     -> Readable(p) /\ typed
           [] p.typ = "Subscribe"   ->
                /\ pid /\ typed /\ p.topics \in Seq(Range(p.topics))
                /\ \A i \in DOMAIN p.topics :
                     /\ str(p.topics[i].topic_path) /\ p.topics[i].maximum_qos \in 0..2
                     /\ p.topics[i].retain_handling \in 0..2
                     /\ p.topics[i].retain_as_published \in BOOLEAN
                     /\ p.topics[i].no_local \in BOOLEAN
           [] p.typ = "Unsubscribe" ->
                /\ pid /\ typed /\ p.topics \in Seq(Range(p.topics))
                /\ \A i \in DOMAIN p.topics : str(p.topics[i])
           [] p.typ \in {"PubAck", "PubRec", "PubRel", "PubComp", "Disconnect"} ->
                Readable(p) /\ few(23)
           [] p.typ = "Connect" -> MAX_MQTT_HEADER_LEN + Len(Body(p)) <= Room(p)
           [] OTHER -> p = PingReq

----------------------------------------------------------------------------
(* Properties.                                                             *)

\* The reader's fields have their types, and a length is known only of a
\* packet whose header is in the buffer.
TypeOK ==
  /\ script \in Scripts /\ taken <= arrived /\ arrived <= Len(Stream)
  /\ buf \in Seq(Byte) /\ Len(buf) <= READ_BUF_LEN
  /\ packet_len = None \/ packet_len[1] \in Nat
  /\ pc \in {"idle", "read", "wait", "pending", "decode", "copy", "discard",
             "broken", "panic", "stopped"}
  /\ connected \in BOOLEAN

\* The k-th receive on a connection came to the k-th packet that the broker
\* sent on it, with the fields it was sent with: wherever segments end, as long
\* as each SafeCut allows it, and through dropped receives and lost connections.
\* The reader keeps its types.
RxInOrder ==
  /\ TypeOK
  /\ Len(rx) <= Len(script)
  /\ \A k \in DOMAIN rx : Known(rx[k], script[k])

\* recv() takes a packet_len that is set for a packet that was fully received:
\* whenever it drops the buffer for that reason, and whenever it starts with an
\* empty one, the bytes read from the socket are exactly the packets handled.
InSync ==
  (pc = "idle" /\ (packet_len # None \/ buf = <<>>)) =>
    taken = Len(Bytes(SubSeq(script, 1, Len(rx))))

\* max_packet_size(), from which a packet gets its room, counts the length of
\* its properties but not the properties.
RoomLeavesOut(p) ==
  /\ p.typ \in {"Publish", "Subscribe", "Unsubscribe"}
  /\ mqttv5 /\ size(p.properties) # 0

\* The room that the client reserves for a packet without looking at its bytes,
\* max_packet_size() or the fixed write_buf and connect_buf, is enough for the
\* encoder, which neither fails nor panics: unless the room leaves the properties
\* out.  What is written, or would be with more room, is one packet of the length
\* its header says, and where the code has a decoder, it reads the same fields.
RequestsReadBack ==
  wrote # NoRequest =>
    LET p == wrote.packet
        d == try_new(wrote.bytes)
    IN  /\ wrote.outcome # "ok" => RoomLeavesOut(p)
        /\ d.err = "none" /\ d.val.typ = p.typ
        /\ d.val.packet_len = Len(wrote.bytes)
        /\ p.typ = "Publish" => Known([typ |-> "Message", frame |-> wrote.bytes], p)
        /\ p.typ \in {"PubAck", "PubRec", "PubRel", "PubComp", "Disconnect"} =>
             /\ from_buffer(wrote.bytes).err = "none"
             /\ View(from_buffer(wrote.bytes).val) = View(p)

\* Every packet that the broker sends on a connection it accepts is handled,
\* unless the connection is lost first, and then on the next one.  It is so for
\* packets that are Framed, which leaves out the shortest PUBLISH: with fewer than
\* two bytes behind its topic, try_parse_header() waits for the packet behind it,
\* of whose first bytes the reader then has more than the PUBLISH is long.
EveryPacketHandled ==
  (script # <<>>) ~> \/ script = <<>> \/ Len(rx) = Len(script)
                     \/ ~ConnAckSuccess(script[1].reason_code)
=============================================================================
