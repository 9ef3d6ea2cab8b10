------------------------------- MODULE MCWire -------------------------------
(* The scripts and requests that TLC tries.                                *)
EXTENDS Wire

MCStr(n) == [i \in 1..n |-> 96 + i]

\* One property of each kind.  A SubscriptionIdentifier above 0 is left out:
\* Property::size() is wrong for it.
MCValue(id) == CASE Property[id] = "u8"     -> 1
                 [] Property[id] = "u16"    -> 259
                 [] Property[id] = "u32"    -> 16909060
                 [] Property[id] = "varint" -> 0
                 [] Property[id] = "pair"   -> <<MCStr(1), MCStr(2)>>
                 [] OTHER                   -> MCStr(2)
MCProp(id) == [id |-> id, val |-> MCValue(id)]
MCSlice(ids) == Slice([i \in DOMAIN ids |-> MCProp(ids[i])])
Empty == Slice(<<>>)

Accept == ConnAck(FALSE, 0, Empty)

Pub(qos, topic, payload, properties) ==
  Publish(FALSE, qos, FALSE, IF qos = 0 THEN NoPid ELSE 300, MCStr(topic),
          MCStr(payload), properties)

\* The shortest payload of a PUBLISH with QoS 0 whose header the reader parses
\* before the next packet arrives.  On a shorter one it panics (EveryPacketHandled).
Short == IF mqttv5 THEN 1 ELSE 2

Publishes ==
  {Pub(q, t, n, Empty) : q \in 0..2, t \in 0..2, n \in Short..(Short + 1)}
  \cup {Pub(q, 1, 18, Empty) : q \in 0..2} \cup {Pub(1, 1, 0, Empty)}
  \cup {Publish(d, 1, r, 1, MCStr(1), MCStr(1), Empty) : d, r \in BOOLEAN}

\* The model broker writes with the client's encoder, which has no form of an
\* acknowledgement with a reason code and no properties.
AcksV5(p) ==
  {PubAck(65535, c, p) : c \in PubAckReasonCode}
  \cup {PubRec(256, c, p) : c \in PubRecReasonCode}
  \cup {PubRel(255, c, p) : c \in PubRelReasonCode}
  \cup {PubComp(1, c, p) : c \in PubCompReasonCode}
  \cup {SubAck(2, p, <<c>>) : c \in SubAckReasonCode}
  \cup {UnsubAck(3, p, <<c, 0>>) : c \in UnsubAckReasonCode}
  \cup {Disconnect(c, p) : c \in DisconnectReasonCode}

AcksV3 ==
  {PubAck(65535, 0, Empty), PubRec(256, 0, Empty), PubRel(255, 0, Empty),
   PubComp(1, 0, Empty), UnsubAck(3, Empty, <<>>)}
  \cup {SubAck(2, Empty, <<c, 0>>) : c \in SubAckReasonCode}

Answers ==
  {PingResp} \cup Publishes
  \cup (IF mqttv5
        THEN AcksV5(Empty) \cup AcksV5(MCSlice(<<"ReasonString">>))
             \cup {PubAck(9, 0, MCSlice(<<id>>)) : id \in DOMAIN Property}
             \cup {Pub(1, 1, 2, MCSlice(<<"TopicAlias", "UserProperty">>)),
                   SubAck(4, MCSlice(<<"UserProperty", "ReasonString">>), <<1, 128>>)}
        ELSE AcksV3)

Few == {PingResp, PubAck(7, 0, Empty), Pub(0, 1, 2, Empty), Pub(1, 1, 9, Empty)}

MCScripts ==
  {<<>>} \cup {<<ConnAck(s, c, Empty)>> : s \in BOOLEAN, c \in ConnAckReasonCode}
  \cup {<<ConnAck(TRUE, 0, IF mqttv5 THEN MCSlice(<<"ServerKeepAlive", "MaximumQoS">>)
                                     ELSE Empty), PingResp>>}
  \cup {<<Accept, p>> : p \in Answers}
  \cup {<<Accept, p, q>> : p, q \in Few}

MCAgain == {<<Accept, p, PingResp>> : p \in Few}

\* The requests to which the application may add properties.
MCWithProperties ==
  IF ~mqttv5 THEN {}
  ELSE {Pub(q, 1, n, MCSlice(ids)) : q \in 0..2, n \in {0, 9},
          ids \in {<<"TopicAlias">>, <<"UserProperty", "ContentType">>}}
       \cup {Subscribe(5, MCSlice(<<"UserProperty">>),
                       <<SubscribeTopic(MCStr(n), 1, FALSE, FALSE, 0)>>) : n \in {1, 12}}
       \cup {Unsubscribe(6, MCSlice(<<"UserProperty">>), <<MCStr(n)>>) : n \in {1, 12}}

MCRequests ==
  MCWithProperties \cup Publishes \cup {Pub(q, 1, 130, Empty) : q \in 0..2}
  \cup {Subscribe(5, Empty, <<SubscribeTopic(MCStr(n), q, b, ~b, 1)>>) :
          n \in 1..2, q \in 0..2, b \in BOOLEAN}
  \cup {Subscribe(NoPid, Empty, <<SubscribeTopic(MCStr(1), 1, FALSE, FALSE, 0),
                                  SubscribeTopic(MCStr(9), 2, TRUE, TRUE, 2)>>),
        Unsubscribe(6, Empty, <<MCStr(1), MCStr(7)>>), PingReq,
        PubAck(4, 0, Empty), PubRec(4, 0, Empty), PubRel(4, 0, Empty),
        PubComp(4, 0, Empty),
        Disconnect(0, IF mqttv5 THEN MCSlice(<<"SessionExpiryInterval">>) ELSE Empty)}
  \cup {Connect(v, IF mqttv5 THEN MCSlice(<<"SessionExpiryInterval">>) ELSE Empty,
                60, MCStr(n), u, p, w, c) :
          v \in {3, 4, 5}, n \in {0, 23}, c \in BOOLEAN,
          u \in {None, Some(MCStr(3))}, p \in {None, Some(MCStr(4))},
          w \in {None, Some(LastWill(MCStr(2), MCStr(5), 2, TRUE, Empty))}}

\* The hypotheses of the theorems in WireProofs about the packets.
ASSUME MCScriptsAssumption  == FramedScripts /\ ReadableScripts
ASSUME MCRequestsAssumption == \A p \in Requests : Encodable(p)
=============================================================================
