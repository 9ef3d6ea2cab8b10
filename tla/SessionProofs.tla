--------------------------- MODULE SessionProofs ---------------------------
(***************************************************************************)
(* What Session promises, for any number of calls, messages, packet ids,   *)
(* connections and attempts.                                               *)
(*                                                                         *)
(* Types is inductive by itself.  InboundInv follows every handshake of a  *)
(* message that the broker publishes: at most one of its packets is on its *)
(* way, and what that packet is tells what the broker and the client       *)
(* remember of the message.  SetsInv, and what follows it, is about        *)
(* publish(): packet ids, acknowledgements and deliveries.                 *)
(***************************************************************************)
EXTENDS Session, SequenceFacts

-----------------------------------------------------------------------------
(* Who changes what *)

\* A step of some publish().
CallStep == \E c \in Calls : Proceed(c) \/ Cancel(c)

\* A step of the stack, the broker or the connection.
PeerStep ==
  \/ Connect \/ ConnectFails \/ Select \/ Disconnect
  \/ LinkLost \/ BrokerForgets \/ BrokerReceive
  \/ \E m \in Inbound : BrokerSend(m)

\* Every step belongs to a publish() call or to the stack, the link and the
\* broker.
LEMMA Steps == [Next]_vars => CallStep \/ PeerStep \/ UNCHANGED vars
BY DEF Next, CallStep, PeerStep, Quiescent

\* publish() reaches the stack through tx and the sets of ids only.
LEMMA CallFootprint ==
  ASSUME CallStep
  PROVE  UNCHANGED <<connected, incoming_pub, stackVars, netVars, brokerVars,
                     handed, losses>>
<1>1. PICK c \in Calls : Proceed(c) \/ Cancel(c)
  BY DEF CallStep
<1> USE DEF sharedVars, callVars
<1>2. CASE Cancel(c)
  BY <1>2 DEF Cancel
<1>3. CASE Proceed(c)
  BY <1>3 DEF Proceed, Start, TakePid, RefuseCall, LockPublisher, Enqueue,
              EnqueuePanics, EnqueueFails, WaitStep, Timeout
<1> QED
  BY <1>1, <1>2, <1>3

\* Nobody else touches the state of a publish(), nor takes a packet id.
LEMMA PeerFootprint ==
  ASSUME PeerStep
  PROVE  UNCHANGED <<last_pid, callVars>>
<1> USE DEF sharedVars
<1>1. CASE Connect \/ ConnectFails \/ Disconnect
  BY <1>1 DEF Connect, ConnectFails, Disconnect, ResetShared
<1>2. CASE LinkLost \/ BrokerForgets \/ BrokerReceive \/ \E m \in Inbound : BrokerSend(m)
  BY <1>2 DEF LinkLost, BrokerForgets, BrokerReceive, BrokerSend
<1>3. CASE Select
  BY <1>3 DEF Select, Transmit, TransmitFails, StackNotices, HandlePublish1,
              HandlePublish2, HandlePublish2Panics, DiscardPublish,
              HandlePubAck, HandlePubRec, HandlePubRecPanics, HandlePubComp,
              HandlePubRel, Unsolicited, Reset, ResetShared
<1> QED
  BY <1>1, <1>2, <1>3 DEF PeerStep

-----------------------------------------------------------------------------
(* Types *)

\* PUBLISH frames in the transmit channel.
Frames == [call : Calls, pid : Pids, qos : 0..2]

\* What the client sends: messages and their releases by packet id, answers
\* by the message they answer.
UpPackets ==
  {PublishOf(f) : f \in Frames}
  \cup [type : {"PubRel"}, id : Pids]
  \cup [type : {"PubAck", "PubRec", "PubComp"}, id : Inbound]

\* The reason codes of its answers to a PUBLISH.
Reasons == {"success", "refused"}

\* What the broker sends.
DownPackets ==
  [type : {"Publish", "PubRel"}, id : Inbound]
  \cup [type : {"PubAck", "PubRec"}, id : Pids, reason : Reasons]
  \cup [type : {"PubComp"}, id : Pids]

\* Boolean state, which no solver below mixes with arithmetic.
Flags ==
  /\ clean_start \in BOOLEAN /\ panicked \in BOOLEAN
  /\ link \in BOOLEAN /\ persists \in BOOLEAN

\* Shared, as the stack and the clients see it.
SharedTypes ==
  /\ last_pid \in Pids
  /\ connected \in {"no", "clean", "resumed"}
  /\ inflight_pub \subseteq Pids /\ outgoing_pid \subseteq Pids
  /\ outgoing_rel \subseteq Pids /\ incoming_pub \subseteq Inbound2

\* A call has a packet id from TakePid on.
CallTypes ==
  /\ pc \in [Calls -> {"new", "connecting", "locking", "granting"}
                      \cup Waiting \cup Done]
  /\ qos \in [Calls -> 0..2]
  /\ pid \in [Calls -> {0} \cup Pids]
  /\ attempt \in [Calls -> 0..MAX_ATTEMPTS]
  /\ tx_publisher \in Calls \cup {NoCall}
  /\ \A c \in Calls : pc[c] \in {"locking", "granting"} \cup Waiting => pid[c] \in Pids

\* The transmit channel and the connection.
NetTypes ==
  /\ tx \in Seq(Frames \cup {EmptyFrame})
  /\ uplink \in Seq(UpPackets)
  /\ downlink \in Seq(DownPackets)

\* The stack's position, and what the broker and the application remember.
OtherTypes ==
  /\ stack \in {"down", "up", "stopped"}
  /\ connect_attempts \in 0..BackoffLimit
  /\ session \subseteq Pids
  /\ outbox \in [Inbound -> {"new", "sent", "rec", "done", "dropped"}]
  /\ received \in [Calls -> Nat]
  /\ rejected \subseteq Calls
  /\ handed \in [Inbound -> 0..HandedMax]
  /\ losses \in 0..MaxLosses

\* The type invariant the proofs use.
Types == Flags /\ SharedTypes /\ CallTypes /\ NetTypes /\ OtherTypes

\* The client starts well typed.
LEMMA TypesInit == Init => Types
<1> SUFFICES ASSUME Init PROVE Types
  OBVIOUS
<1> USE DEF Init
<1>1. Flags
  BY Zenon DEF Flags
<1>2. SharedTypes /\ CallTypes
  BY PidMaxAssumption, MaxAttemptsAssumption
     DEF SharedTypes, CallTypes, Pids, Waiting, Done
<1>3. NetTypes
  BY EmptySeq DEF NetTypes
<1>4. OtherTypes
  BY BackoffLimitAssumption, MaxLossesAssumption DEF OtherTypes, HandedMax
<1> QED
  BY <1>1, <1>2, <1>3, <1>4 DEF Types

\* Types is what Session calls TypeOK.
LEMMA TypesImplyTypeOK == Types => TypeOK
<1> SUFFICES ASSUME Types PROVE TypeOK
  OBVIOUS
<1>1. /\ DOMAIN uplink = 1..Len(uplink) /\ DOMAIN downlink = 1..Len(downlink)
      /\ \A i \in 1..Len(uplink) : uplink[i] \in UpPackets
      /\ \A i \in 1..Len(downlink) : downlink[i] \in DownPackets
  BY LenProperties, ElementOfSeq DEF Types, NetTypes
<1>2. /\ \A p \in UpPackets : p.id \in PacketIds
      /\ \A p \in DownPackets : p.id \in PacketIds
  BY DEF UpPackets, PublishOf, Frames, DownPackets, PacketIds
<1>3. tx \in Seq([call : Calls \cup {NoCall}, pid : {0} \cup Pids, qos : 0..2])
  <2>1. Frames \cup {EmptyFrame}
          \subseteq [call : Calls \cup {NoCall}, pid : {0} \cup Pids, qos : 0..2]
    BY DEF Frames, EmptyFrame
  <2> QED
    BY <2>1, SeqMonotonic DEF Types, NetTypes
<1> QED
  BY <1>1, <1>2, <1>3 DEF Types, Flags, SharedTypes, CallTypes, OtherTypes, TypeOK

\* One lemma per part of Types: no step leaves it.
LEMMA FlagsStep ==
  ASSUME Flags, [Next]_vars
  PROVE  Flags'
<1> USE DEF Flags
<1>1. CASE CallStep
  <2>1. PICK c \in Calls : Proceed(c) \/ Cancel(c)
    BY <1>1 DEF CallStep
  <2>2. UNCHANGED panicked \/ panicked' = TRUE
    BY <2>1 DEF Proceed, Start, TakePid, RefuseCall, LockPublisher, Enqueue,
                EnqueuePanics, EnqueueFails, WaitStep, Timeout, Cancel
  <2>3. UNCHANGED <<clean_start, link, persists>>
    BY <1>1, CallFootprint DEF stackVars, netVars, brokerVars
  <2> QED
    BY <2>2, <2>3, Zenon
<1>2. CASE Connect \/ ConnectFails \/ Disconnect
  BY <1>2, Zenon DEF Connect, ConnectMqtt, BrokerConnect, ConnectFails, Disconnect,
                     CloseLink, netVars, brokerVars
<1>3. CASE LinkLost \/ BrokerForgets \/ BrokerReceive \/ \E m \in Inbound : BrokerSend(m)
  BY <1>3, Zenon DEF LinkLost, BrokerForgets, BrokerReceive, BrokerSend, CloseLink,
                     stackVars, netVars, brokerVars
<1>4. CASE Transmit \/ TransmitFails \/ StackNotices \/ Unsolicited
  BY <1>4, Zenon DEF Transmit, TransmitFails, StackNotices, Unsolicited, Reset,
                     CloseLink, stackVars, brokerVars
<1>5. CASE \/ HandlePublish1 \/ HandlePublish2 \/ HandlePublish2Panics
           \/ DiscardPublish \/ HandlePubAck \/ HandlePubRec
           \/ HandlePubRecPanics \/ HandlePubComp \/ HandlePubRel
  BY <1>5, Zenon DEF HandlePublish1, HandlePublish2, HandlePublish2Panics,
                     DiscardPublish, HandlePubAck, HandlePubRec,
                     HandlePubRecPanics, HandlePubComp, HandlePubRel, Consume,
                     stackVars, netVars, brokerVars
<1>6. CASE UNCHANGED vars
  BY <1>6, Zenon DEF vars, stackVars, netVars, brokerVars
<1> QED
  BY <1>1, <1>2, <1>3, <1>4, <1>5, <1>6, Steps DEF PeerStep, Select

\* The sets of Shared hold packet ids.
LEMMA SharedTypesStep ==
  ASSUME Types, [Next]_vars
  PROVE  SharedTypes'
<1>0. SharedTypes /\ CallTypes
  BY DEF Types
<1> USE <1>0 DEF SharedTypes, sharedVars
<1>1. CASE CallStep
  <2>1. PICK c \in Calls : Proceed(c) \/ Cancel(c)
    BY <1>1 DEF CallStep
  <2>2. UNCHANGED <<connected, incoming_pub>>
    BY <1>1, CallFootprint
  <2>3. last_pid' \in Pids
    BY <2>1, PidMaxAssumption
       DEF Proceed, Start, TakePid, RefuseCall, LockPublisher, Enqueue,
           EnqueuePanics, EnqueueFails, WaitStep, Timeout, Cancel,
           NextPid, Pids
  <2>4. /\ inflight_pub' \subseteq Pids /\ outgoing_pid' \subseteq Pids
        /\ outgoing_rel' \subseteq Pids
    BY <2>1 DEF CallTypes, Proceed, Start, TakePid, RefuseCall, LockPublisher,
                Enqueue, EnqueuePanics, EnqueueFails, WaitStep,
                Timeout, Cancel, DropAttempt, OnDrop, At
  <2> QED
    BY <2>2, <2>3, <2>4
<1>2. CASE Connect \/ ConnectFails \/ Disconnect
  BY <1>2 DEF Connect, ConnectFails, Disconnect, ResetShared
<1>3. CASE LinkLost \/ BrokerForgets \/ BrokerReceive \/ \E m \in Inbound : BrokerSend(m)
  BY <1>3 DEF LinkLost, BrokerForgets, BrokerReceive, BrokerSend
<1>4. CASE Transmit \/ TransmitFails \/ StackNotices \/ Unsolicited
  BY <1>4 DEF Transmit, TransmitFails, StackNotices, Unsolicited, Reset, ResetShared
<1>5. CASE \/ HandlePublish1 \/ HandlePublish2 \/ HandlePublish2Panics
           \/ DiscardPublish \/ HandlePubAck \/ HandlePubRec
           \/ HandlePubRecPanics \/ HandlePubComp \/ HandlePubRel
  BY <1>5 DEF HandlePublish1, HandlePublish2, HandlePublish2Panics,
              DiscardPublish, HandlePubAck, HandlePubRec, HandlePubRecPanics,
              HandlePubComp, HandlePubRel, Remember, MoveToRel
<1>6. CASE UNCHANGED vars
  BY <1>6 DEF vars
<1> QED
  BY <1>1, <1>2, <1>3, <1>4, <1>5, <1>6, Steps DEF PeerStep, Select

\* A call moves between the positions of publish().
LEMMA CallTypesStep ==
  ASSUME Types, [Next]_vars
  PROVE  CallTypes'
<1>0. SharedTypes /\ CallTypes
  BY DEF Types
<1> USE <1>0 DEF CallTypes, At, Goto, Retry, Waiting, Done
<1>1. ASSUME NEW c \in Calls, NEW q \in QoSs, Start(c, q) PROVE CallTypes'
  BY <1>1, QoSsAssumption, MaxAttemptsAssumption DEF Start
<1>2. ASSUME NEW c \in Calls, TakePid(c) PROVE CallTypes'
  BY <1>2, PidMaxAssumption DEF TakePid, SharedTypes, NextPid, Pids
\* However an attempt ends, the next one starts over.
<1>3. ASSUME NEW c \in Calls, Retry(c), UNCHANGED <<qos, pid>>,
             tx_publisher' \in {NoCall, tx_publisher}
      PROVE  CallTypes'
  BY <1>3, MaxAttemptsAssumption
<1>4. ASSUME NEW c \in Calls, LockPublisher(c) PROVE CallTypes'
  BY <1>4 DEF LockPublisher
<1>5. ASSUME NEW c \in Calls, Enqueue(c) PROVE CallTypes'
  BY <1>5 DEF Enqueue
<1>6. ASSUME NEW c \in Calls, EnqueuePanics(c) PROVE CallTypes'
  BY <1>6 DEF EnqueuePanics, callVars
<1>7. ASSUME NEW c \in Calls, WaitStep(c) PROVE CallTypes'
  BY <1>7 DEF WaitStep
<1>8. ASSUME NEW c \in Calls, Cancel(c) PROVE CallTypes'
  BY <1>8 DEF Cancel, DropAttempt
<1> HIDE DEF Retry, CallTypes
<1>9. ASSUME NEW c \in Calls,
             RefuseCall(c) \/ EnqueueFails(c) \/ Timeout(c)
      PROVE  CallTypes'
  BY <1>3, <1>9 DEF RefuseCall, EnqueueFails, Timeout, DropAttempt
<1>10. CASE PeerStep \/ UNCHANGED vars
  BY <1>10, PeerFootprint DEF CallTypes, callVars, vars
<1> QED
  BY <1>1, <1>2, <1>4, <1>5, <1>6, <1>7, <1>8, <1>9, <1>10, Steps
     DEF CallStep, Proceed

\* What the broker sends again is a finite set of packets of this kind.
LEMMA RedeliveryFinite == IsFiniteSet(Redelivery) /\ Redelivery \subseteq DownPackets
<1> DEFINE A == {i \in Inbound : outbox[i] = "sent"}
           B == {i \in Inbound : outbox[i] = "rec"}
           P == {Packet("Publish", m) : m \in A}
           R == {Packet("PubRel", m) : m \in B}
<1>1. IsFiniteSet(A) /\ IsFiniteSet(B)
  BY InboundAssumption, FS_Subset
<1> HIDE DEF A, B
<1>2. IsFiniteSet(P)
  <2> DEFINE f == [m \in A |-> Packet("Publish", m)]
  <2>1. f \in Surjection(A, P)
    BY DEF Surjection
  <2> QED
    BY <1>1, <2>1, FS_Surjection
<1>3. IsFiniteSet(R)
  <2> DEFINE f == [m \in B |-> Packet("PubRel", m)]
  <2>1. f \in Surjection(B, R)
    BY DEF Surjection
  <2> QED
    BY <1>1, <2>1, FS_Surjection
<1>4. Redelivery = P \cup R
  BY DEF Redelivery, A, B
<1>5. P \subseteq DownPackets /\ R \subseteq DownPackets
  BY DEF A, B, DownPackets, Packet
<1> HIDE DEF P, R
<1> QED
  BY <1>2, <1>3, <1>4, <1>5, FS_Union

\* A new connection carries what the broker sends again, each packet once.
LEMMA ConnectEffect ==
  ASSUME ConnectMqtt
  PROVE  /\ uplink' = <<>>
         /\ downlink' \in Seq(DownPackets)
         /\ Elems(downlink') \subseteq (IF SessionPresent THEN Redelivery ELSE {})
         /\ \A T : Distinct(downlink', T)
<1>1. CASE SessionPresent
  <2>1. downlink' \in SetToSeqs(Redelivery)
    BY <1>1 DEF ConnectMqtt
  <2>2. /\ downlink' \in Seq(Redelivery) /\ Elems(downlink') \subseteq Redelivery
        /\ \A T : Distinct(downlink', T)
    BY <2>1, RedeliveryFinite, ElemsSetToSeqs
  <2>3. downlink' \in Seq(DownPackets)
    BY <2>2, RedeliveryFinite, SeqMonotonic
  <2> QED
    BY <1>1, <2>2, <2>3 DEF ConnectMqtt
<1>2. CASE ~SessionPresent
  BY <1>2, EmptySeq, ElemsEmpty DEF ConnectMqtt
<1> QED
  BY <1>1, <1>2

\* What the broker answers to a PUBLISH, whether it takes the message or not.
LEMMA PublishAnswer ==
  ASSUME NEW p, p.frame.qos \in 0..2, BrokerOnPublish(p)
  PROVE  \/ p.frame.qos = 0 /\ UNCHANGED downlink
         \/ \E r \in Reasons :
              \/ p.frame.qos = 1 /\ downlink' = Append(downlink, Verdict("PubAck", p.id, r))
              \/ p.frame.qos = 2 /\ downlink' = Append(downlink, Verdict("PubRec", p.id, r))
<1> DEFINE q == p.frame.qos
<1>1. q \in {0, 1, 2} /\ {"success", "refused"} \subseteq Reasons
  BY DEF Reasons
<1>2. CASE BrokerAccepts(p)
  <2>1. (CASE q = 0 -> UNCHANGED downlink
           [] q = 1 -> Answer(Verdict("PubAck", p.id, "success"))
           [] q = 2 -> Answer(Verdict("PubRec", p.id, "success")))
    BY <1>2 DEF BrokerAccepts
  <2> HIDE DEF q
  <2>3. CASE q = 0
    BY <2>1, <2>3 DEF q
  <2>4. CASE q = 1
    BY <1>1, <2>1, <2>4 DEF q, Answer
  <2>5. CASE q = 2
    BY <1>1, <2>1, <2>5 DEF q, Answer
  <2> QED
    BY <1>1, <2>3, <2>4, <2>5
<1>3. CASE BrokerRejects(p)
  <2>1. /\ q \in {1, 2}
        /\ downlink' = Append(downlink, Verdict(IF q = 1 THEN "PubAck" ELSE "PubRec", p.id, "refused"))
    BY <1>3 DEF BrokerRejects, Answer
  <2> HIDE DEF q
  <2> QED
    BY <1>1, <2>1 DEF q
<1> QED
  BY <1>2, <1>3 DEF BrokerOnPublish

\* The channel holds frames, the connection packets.
LEMMA NetTypesStep ==
  ASSUME Types, [Next]_vars
  PROVE  NetTypes'
<1>0. /\ NetTypes /\ CallTypes /\ SharedTypes
      /\ tx \in Seq(Frames \cup {EmptyFrame})
      /\ uplink \in Seq(UpPackets) /\ downlink \in Seq(DownPackets)
  BY DEF Types, NetTypes
<1>a. /\ \A p \in UpPackets : Append(uplink, p) \in Seq(UpPackets)
      /\ \A p \in DownPackets : Append(downlink, p) \in Seq(DownPackets)
  BY <1>0, ElemsAppend
<1> USE DEF netVars
<1>1. CASE CallStep
  <2>1. PICK c \in Calls : Proceed(c) \/ Cancel(c)
    BY <1>1 DEF CallStep
  <2>2. \/ UNCHANGED tx
        \/ pc[c] = "granting" /\ tx' = Append(tx, Frame(c))
        \/ tx' = Append(tx, EmptyFrame)
    <3>1. CASE Enqueue(c) \/ EnqueueFails(c)
      BY <3>1 DEF Enqueue, EnqueueFails, At
    <3>2. CASE ~(Enqueue(c) \/ EnqueueFails(c))
      BY <2>1, <3>2 DEF Proceed, Start, TakePid, RefuseCall, LockPublisher,
                        EnqueuePanics, WaitStep, Timeout, Cancel
    <3> QED
      BY <3>1, <3>2
  <2>3. pc[c] = "granting" => Frame(c) \in Frames
    BY <1>0 DEF CallTypes, Frame, Frames
  <2>4. tx' \in Seq(Frames \cup {EmptyFrame})
    <3>1. \A f \in Frames \cup {EmptyFrame} :
            Append(tx, f) \in Seq(Frames \cup {EmptyFrame})
      BY <1>0, ElemsAppend
    <3> QED
      BY <1>0, <2>2, <2>3, <3>1
  <2> QED
    BY <1>0, <1>1, <2>4, CallFootprint DEF NetTypes
<1>2. CASE Connect
  BY <1>0, <1>2, ConnectEffect, EmptySeq DEF Connect, NetTypes
<1>3. CASE ConnectFails \/ BrokerForgets \/ UNCHANGED vars
  BY <1>0, <1>3 DEF ConnectFails, BrokerForgets, vars, NetTypes
<1>4. CASE Disconnect \/ LinkLost \/ StackNotices \/ Unsolicited
  BY <1>0, <1>4, EmptySeq DEF Disconnect, LinkLost, StackNotices, Unsolicited, Reset,
                              CloseLink, NetTypes
<1>5. CASE TransmitFails
  BY <1>0, <1>5, ElemsTail, EmptySeq DEF TransmitFails, ReleaseFrame, Reset, CloseLink,
                                         NetTypes
<1>6. CASE Transmit
  <2>1. Tail(tx) \in Seq(Frames \cup {EmptyFrame}) /\ Head(tx) \in Frames \cup {EmptyFrame}
    BY <1>0, <1>6, ElemsTail DEF Transmit
  <2>2. Head(tx) # EmptyFrame => PublishOf(Head(tx)) \in UpPackets
    BY <2>1 DEF PublishOf, Frames, UpPackets
  <2>3. uplink' \in Seq(UpPackets)
    BY <1>0, <1>6, <2>2, ElemsAppend DEF Transmit
  <2> QED
    BY <1>0, <1>6, <2>1, <2>3 DEF Transmit, ReleaseFrame, NetTypes
\* The handlers take one packet and answer it or not.
<1>7. CASE Consume /\ downlink # <<>> /\ UNCHANGED tx /\
           \/ UNCHANGED uplink
           \/ Reply("PubAck") /\ Id \in Inbound
           \/ Reply("PubRec") /\ Id \in Inbound
           \/ Reply("PubComp") /\ Id \in Inbound
           \/ Reply("PubRel") /\ Id \in Pids
  <2>1. downlink' \in Seq(DownPackets)
    BY <1>0, <1>7, ElemsTail DEF Consume
  <2>2. /\ Id \in Inbound => /\ Packet("PubAck", Id) \in UpPackets
                             /\ Packet("PubRec", Id) \in UpPackets
                             /\ Packet("PubComp", Id) \in UpPackets
        /\ Id \in Pids => Packet("PubRel", Id) \in UpPackets
    BY DEF Packet, UpPackets
  <2>3. uplink' \in Seq(UpPackets)
    BY <1>0, <1>a, <1>7, <2>2 DEF Reply
  <2> QED
    BY <1>0, <1>7, <2>1, <2>3 DEF NetTypes
<1>8. CASE \/ HandlePublish1 \/ HandlePublish2 \/ DiscardPublish
           \/ HandlePubAck \/ HandlePubRec \/ HandlePubComp \/ HandlePubRel
  BY <1>0, <1>7, <1>8
     DEF HandlePublish1, HandlePublish2, DiscardPublish, HandlePubAck,
         HandlePubRec, HandlePubComp, HandlePubRel, Receive, SkipAck, Inbound,
         SharedTypes
<1>9. CASE HandlePublish2Panics \/ HandlePubRecPanics
  BY <1>0, <1>9 DEF HandlePublish2Panics, HandlePubRecPanics, NetTypes
<1>10. ASSUME NEW m \in Inbound, BrokerSend(m) PROVE NetTypes'
  <2>1. Packet("Publish", m) \in DownPackets
    BY DEF Packet, DownPackets
  <2> QED
    BY <1>0, <1>10, <2>1, ElemsAppend DEF BrokerSend, NetTypes
<1>11. CASE BrokerReceive
  <2>1. PICK i \in DOMAIN uplink :
          /\ \/ BrokerOnPublish(uplink[i])
             \/ BrokerOnPubRel(uplink[i])
             \/ BrokerOnAck(uplink[i])
          /\ uplink' = RemoveAt(uplink, i)
          /\ UNCHANGED tx
    BY <1>11 DEF BrokerReceive
  <2> DEFINE p == uplink[i]
  <2>2. i \in 1..Len(uplink) /\ p \in UpPackets
    BY <1>0, LenProperties, ElementOfSeq
  <2> HIDE DEF p
  <2>3. uplink' \in Seq(UpPackets)
    BY <1>0, <2>1, <2>2, ElemsRemoveAt
  <2>4. /\ p.type = "Publish" => \A r \in Reasons :
             /\ Verdict("PubAck", p.id, r) \in DownPackets
             /\ Verdict("PubRec", p.id, r) \in DownPackets
        /\ p.type = "PubRel" => Packet("PubComp", p.id) \in DownPackets
        /\ p.type = "PubRec" => Packet("PubRel", p.id) \in DownPackets
        /\ p.type = "Publish" => p.frame.qos \in 0..2
    BY <2>2 DEF UpPackets, PublishOf, DownPackets, Packet, Verdict, Frames
  <2>5. UNCHANGED downlink \/ \E a \in DownPackets : downlink' = Append(downlink, a)
    <3>1. CASE BrokerOnPublish(p)
      BY <2>4, <3>1, PublishAnswer DEF BrokerOnPublish
    <3>2. CASE BrokerOnPubRel(p)
      BY <2>4, <3>2 DEF BrokerOnPubRel, Answer
    <3>3. CASE BrokerOnAck(p)
      BY <2>4, <3>3 DEF BrokerOnAck, Answer
    <3> QED
      BY <2>1, <3>1, <3>2, <3>3 DEF p
  <2>6. downlink' \in Seq(DownPackets)
    BY <1>0, <1>a, <2>5
  <2> QED
    BY <1>0, <2>1, <2>3, <2>6 DEF NetTypes
<1> QED
  BY <1>1, <1>2, <1>3, <1>4, <1>5, <1>6, <1>8, <1>9, <1>10, <1>11, Steps
     DEF PeerStep, Select

\* The memory of the broker and the application is counted per message.
LEMMA OtherTypesStep ==
  ASSUME Types, [Next]_vars
  PROVE  OtherTypes'
<1>0. OtherTypes /\ uplink \in Seq(UpPackets) /\ downlink \in Seq(DownPackets)
  BY DEF Types, NetTypes
<1>a. Forgotten \in [Inbound -> {"new", "sent", "rec", "done", "dropped"}]
  BY <1>0 DEF Forgotten, OtherTypes
<1> USE DEF stackVars, netVars, brokerVars
<1>1. CASE CallStep
  BY <1>0, <1>1, CallFootprint DEF OtherTypes
<1>2. CASE Connect
  BY <1>0, <1>a, <1>2, BackoffLimitAssumption
     DEF Connect, ConnectMqtt, BrokerConnect, OtherTypes
<1>3. CASE ConnectFails
  BY <1>0, <1>a, <1>3, BackoffLimitAssumption DEF ConnectFails, BrokerConnect, OtherTypes
<1>4. CASE Disconnect
  BY <1>0, <1>a, <1>4, MaxLossesAssumption DEF Disconnect, OtherTypes
<1>5. CASE LinkLost \/ BrokerForgets
  BY <1>0, <1>a, <1>5, MaxLossesAssumption DEF LinkLost, BrokerForgets, OtherTypes
<1>6. ASSUME NEW m \in Inbound, BrokerSend(m) PROVE OtherTypes'
  BY <1>0, <1>6 DEF BrokerSend, OtherTypes
<1>7. CASE BrokerReceive
  <2>1. PICK i \in DOMAIN uplink :
          /\ \/ BrokerOnPublish(uplink[i])
             \/ BrokerOnPubRel(uplink[i])
             \/ BrokerOnAck(uplink[i])
          /\ UNCHANGED <<stackVars, handed, losses>>
    BY <1>7 DEF BrokerReceive
  <2> DEFINE p == uplink[i]
  <2>2. p \in UpPackets
    BY <1>0, LenProperties, ElementOfSeq
  <2> HIDE DEF p
  <2>3. /\ p.type = "Publish" => p.frame.pid \in Pids /\ p.frame.call \in Calls
        /\ p.type \in {"PubAck", "PubRec", "PubComp"} => p.id \in Inbound
    BY <2>2 DEF UpPackets, PublishOf, Frames
  <2>4. CASE BrokerOnPublish(p)
    <3>1. /\ session' \subseteq Pids /\ received' \in [Calls -> Nat]
          /\ rejected' \subseteq Calls
      <4>1. p.frame.pid \in Pids /\ p.frame.call \in Calls
        BY <2>3, <2>4 DEF BrokerOnPublish
      <4>2. CASE BrokerAccepts(p)
        BY <1>0, <4>1, <4>2 DEF BrokerAccepts, OtherTypes
      <4>3. CASE BrokerRejects(p)
        BY <1>0, <4>1, <4>3 DEF BrokerRejects, OtherTypes
      <4> QED
        BY <2>4, <4>2, <4>3 DEF BrokerOnPublish
    <3> QED
      BY <1>0, <2>1, <2>4, <3>1 DEF BrokerOnPublish, OtherTypes
  <2>5. CASE BrokerOnPubRel(p)
    BY <1>0, <2>1, <2>5 DEF BrokerOnPubRel, OtherTypes
  <2>6. CASE BrokerOnAck(p)
    BY <1>0, <2>1, <2>3, <2>6 DEF BrokerOnAck, OtherTypes
  <2> QED
    BY <2>1, <2>4, <2>5, <2>6 DEF p
<1>8. CASE Transmit \/ TransmitFails \/ StackNotices \/ Unsolicited
  BY <1>0, <1>8, BackoffLimitAssumption
     DEF Transmit, TransmitFails, StackNotices, Unsolicited, Reset, OtherTypes
<1>9. ASSUME HandOver PROVE handed' \in [Inbound -> 0..HandedMax]
  <2> DEFINE more(n) == IF n < HandedMax THEN n + 1 ELSE n
  <2>1. \A n \in 0..HandedMax : more(n) \in 0..HandedMax
    BY DEF HandedMax
  <2>2. handed' = [handed EXCEPT ![Id] = more(handed[Id])]
    BY <1>9 DEF HandOver
  <2> HIDE DEF more
  <2> QED
    BY <1>0, <2>1, <2>2 DEF OtherTypes
<1>10. CASE HandlePublish1 \/ HandlePublish2 \/ HandlePublish2Panics
  BY <1>0, <1>9, <1>10
     DEF HandlePublish1, HandlePublish2, HandlePublish2Panics, Receive, OtherTypes
<1>11. CASE \/ DiscardPublish \/ HandlePubAck \/ HandlePubRec
            \/ HandlePubRecPanics \/ HandlePubComp \/ HandlePubRel
  BY <1>0, <1>11 DEF DiscardPublish, HandlePubAck, HandlePubRec, HandlePubRecPanics,
                     HandlePubComp, HandlePubRel, OtherTypes
<1>12. CASE UNCHANGED vars
  BY <1>0, <1>12 DEF vars, OtherTypes
<1> QED
  BY <1>1, <1>2, <1>3, <1>4, <1>5, <1>6, <1>7, <1>8, <1>10, <1>11, <1>12, Steps
     DEF PeerStep, Select

\* All of it.
LEMMA TypesStep == Types /\ [Next]_vars => Types'
<1> SUFFICES ASSUME Types, [Next]_vars PROVE Types'
  OBVIOUS
<1>1. Flags'
  BY FlagsStep DEF Types
<1> QED
  BY <1>1, SharedTypesStep, CallTypesStep, NetTypesStep, OtherTypesStep DEF Types

\* Types is inductive as it stands.
LEMMA TypesInvariance == Spec => []Types
BY TypesInit, TypesStep, PTL DEF Spec

-----------------------------------------------------------------------------
(* The handshakes of the messages the broker publishes *)

\* The packets of those handshakes, in each direction.
DownIn == [type : {"Publish", "PubRel"}, id : Inbound]
UpIn   == [type : {"PubAck", "PubRec", "PubComp"}, id : Inbound]

\* The ones on their way.
Tokens == (Elems(downlink) \cap DownIn) \cup (Elems(uplink) \cap UpIn)

\* Shared and the connection follow run().
StackInv ==
  /\ ~link => uplink = <<>> /\ downlink = <<>>
  /\ stack # "up" => ~link /\ incoming_pub = {}
  /\ connected = "no" <=> stack # "up"

\* A handshake has at most one packet on its way, and that once.
OneToken ==
  /\ Distinct(downlink, DownIn) /\ Distinct(uplink, UpIn)
  /\ \A p, q \in Tokens : p.id = q.id => p = q

\* What a packet on its way says about its message.
TokenInv ==
  \A p \in Tokens :
    /\ p.type \in {"Publish", "PubAck", "PubRec"} => outbox[p.id] = "sent"
    /\ p.type \in {"PubRel", "PubComp"} => outbox[p.id] = "rec"
    /\ p.type \in {"PubAck", "PubRec", "PubComp"} => handed[p.id] > 0
    /\ p.type \in {"PubAck", "PubComp"} => p.id \notin incoming_pub

\* What the broker and the client remember of a message.
MemoryInv ==
  /\ \A m \in Inbound : outbox[m] \in {"rec", "done"} => handed[m] > 0
  /\ link => \A m \in incoming_pub : outbox[m] \in {"sent", "rec"}

\* The inductive invariant of the inbound handshakes.
InboundInv == StackInv /\ OneToken /\ TokenInv /\ MemoryInv

\* Nothing was sent yet.
LEMMA InboundInit == Init => InboundInv
<1> SUFFICES ASSUME Init PROVE InboundInv
  OBVIOUS
<1> USE DEF Init
<1>1. Tokens = {}
  BY ElemsEmpty DEF Tokens
<1>2. StackInv /\ MemoryInv
  BY DEF StackInv, MemoryInv
<1>3. OneToken /\ TokenInv
  BY <1>1, ElemsEmpty DEF OneToken, TokenInv
<1> QED
  BY <1>2, <1>3 DEF InboundInv

\* StackInv by itself: every path that drops the connection resets Shared.
LEMMA StackInvStep ==
  ASSUME Types, StackInv, [Next]_vars
  PROVE  StackInv'
<1> USE DEF StackInv, netVars
<1>1. CASE CallStep
  BY <1>1, CallFootprint DEF stackVars
<1>2. CASE Connect
  BY <1>2 DEF Connect, ConnectMqtt, StackAt
<1>3. CASE ConnectFails
  BY <1>3 DEF ConnectFails, StackAt, sharedVars
<1>4. CASE Disconnect \/ LinkLost \/ BrokerForgets
  BY <1>4 DEF Disconnect, LinkLost, BrokerForgets, ResetShared, CloseLink,
              sharedVars, stackVars
<1>5. CASE StackNotices \/ TransmitFails \/ Unsolicited
  BY <1>5 DEF StackNotices, TransmitFails, Unsolicited, Reset, ResetShared, CloseLink
<1>6. CASE Transmit
  BY <1>6 DEF Transmit, StackAt, stackVars
<1>7. CASE \/ HandlePublish1 \/ HandlePublish2 \/ HandlePublish2Panics
           \/ DiscardPublish \/ HandlePubAck \/ HandlePubRec
           \/ HandlePubRecPanics \/ HandlePubComp \/ HandlePubRel
  <2>1. stack = "up" /\ downlink # <<>> /\ UNCHANGED <<stackVars, connected, link>>
    BY <1>7 DEF HandlePublish1, HandlePublish2, HandlePublish2Panics,
                DiscardPublish, HandlePubAck, HandlePubRec, HandlePubRecPanics,
                HandlePubComp, HandlePubRel, Receive, StackAt, Consume, sharedVars
  <2> QED
    BY <2>1 DEF stackVars
<1>8. CASE BrokerReceive
  <2>1. UNCHANGED <<connected, incoming_pub, stackVars, link>> /\ uplink # <<>>
    BY <1>8 DEF BrokerReceive, sharedVars
  <2> QED
    BY <2>1 DEF stackVars
<1>9. CASE \E m \in Inbound : BrokerSend(m)
  BY <1>9 DEF BrokerSend, sharedVars, stackVars
<1>10. CASE UNCHANGED vars
  BY <1>10 DEF vars, sharedVars, stackVars
<1> QED
  BY <1>1, <1>2, <1>3, <1>4, <1>5, <1>6, <1>7, <1>8, <1>9, <1>10, Steps
     DEF PeerStep, Select

\* A closed connection carries nothing.
LEMMA ClosedHasNoTokens ==
  /\ uplink = <<>> /\ downlink = <<>> => Tokens = {}
  /\ CloseLink => Tokens' = {} /\ OneToken'
<1>1. uplink = <<>> /\ downlink = <<>> => Tokens = {}
  BY ElemsEmpty DEF Tokens
<1>2. CloseLink => Tokens' = {} /\ OneToken'
  BY ElemsEmpty DEF Tokens, OneToken, CloseLink
<1> QED
  BY <1>1, <1>2

\* A new connection carries one packet for each handshake to go on with.
LEMMA ConnectTokens ==
  ASSUME Types, Connect
  PROVE  /\ OneToken'
         /\ \A p \in Tokens' :
              /\ SessionPresent
              /\ p.type \in {"Publish", "PubRel"} /\ p.id \in Inbound
              /\ p.type = "Publish" => outbox[p.id] = "sent"
              /\ p.type = "PubRel" => outbox[p.id] = "rec"
<1>1. /\ uplink' = <<>>
      /\ Elems(downlink') \subseteq IF SessionPresent THEN Redelivery ELSE {}
      /\ \A T : Distinct(downlink', T)
  BY ConnectEffect DEF Connect
<1>2. \A p \in Redelivery :
        /\ p.type \in {"Publish", "PubRel"} /\ p.id \in Inbound
        /\ p = Packet(p.type, p.id)
        /\ p.type = "Publish" => outbox[p.id] = "sent"
        /\ p.type = "PubRel" => outbox[p.id] = "rec"
  BY DEF Redelivery, Packet
<1>3. Tokens' \subseteq IF SessionPresent THEN Redelivery ELSE {}
  BY <1>1, ElemsEmpty DEF Tokens
<1>4. \A p, q \in Redelivery : p.id = q.id => p = q
  BY <1>2
<1>5. Distinct(uplink', UpIn)
  BY <1>1, ElemsEmpty
<1> QED
  BY <1>1, <1>2, <1>3, <1>4, <1>5 DEF OneToken

\* A packet of a handshake names a message of the broker.
LEMMA TokenTypes ==
  ASSUME Types
  PROVE  /\ \A p \in Tokens : p.id \in Inbound /\ p = Packet(p.type, p.id)
         /\ DownIn \subseteq DownPackets /\ UpIn \subseteq UpPackets
         /\ DownIn \cap UpIn = {}
         /\ \A p \in UpPackets : p \in UpIn <=> p.type \in {"PubAck", "PubRec", "PubComp"}
         /\ \A p \in DownPackets : p \in DownIn <=> p.type \in {"Publish", "PubRel"}
BY DEF Tokens, DownIn, UpIn, DownPackets, UpPackets, PublishOf, Packet

\* A packet that is read leaves; what is left is still distinct.
LEMMA ConsumeTokens ==
  ASSUME Types, OneToken, Consume, downlink # <<>>
  PROVE  /\ Head(downlink) \in DownPackets
         /\ Head(downlink) \in DownIn => Head(downlink) \in Tokens
         /\ Distinct(downlink', DownIn)
         /\ Elems(downlink') \cap DownIn = (Elems(downlink) \cap DownIn) \ {Head(downlink)}
<1>1. downlink \in Seq(DownPackets) /\ downlink' = Tail(downlink)
  BY DEF Types, NetTypes, Consume
<1>2. /\ Head(downlink) \in DownPackets /\ Head(downlink) \in Elems(downlink)
      /\ Elems(downlink) = Elems(downlink') \cup {Head(downlink)}
      /\ Distinct(downlink', DownIn)
      /\ Head(downlink) \in DownIn => Head(downlink) \notin Elems(downlink')
  BY <1>1, ElemsTail DEF OneToken
<1> QED
  BY <1>2 DEF Tokens

\* A packet that is sent is added, if it is one of a handshake.
LEMMA AppendTokens ==
  ASSUME Types, OneToken
  PROVE  /\ \A p \in UpPackets : uplink' = Append(uplink, p) =>
              /\ Elems(uplink') = Elems(uplink) \cup {p}
              /\ (p \in UpIn => p \notin Tokens) => Distinct(uplink', UpIn)
         /\ \A p \in DownPackets : downlink' = Append(downlink, p) =>
              /\ Elems(downlink') = Elems(downlink) \cup {p}
              /\ (p \in DownIn => p \notin Tokens) => Distinct(downlink', DownIn)
<1>1. downlink \in Seq(DownPackets) /\ uplink \in Seq(UpPackets)
  BY DEF Types, NetTypes
<1>2. ASSUME NEW p \in UpPackets, uplink' = Append(uplink, p)
      PROVE  /\ Elems(uplink') = Elems(uplink) \cup {p}
             /\ (p \in UpIn => p \notin Tokens) => Distinct(uplink', UpIn)
  <2>1. /\ Elems(Append(uplink, p)) = Elems(uplink) \cup {p}
        /\ \A T : Distinct(uplink, T) /\ (p \in T => p \notin Elems(uplink))
                    => Distinct(Append(uplink, p), T)
    BY <1>1, ElemsAppend
  <2> QED
    BY <1>2, <2>1 DEF OneToken, Tokens
<1>3. ASSUME NEW p \in DownPackets, downlink' = Append(downlink, p)
      PROVE  /\ Elems(downlink') = Elems(downlink) \cup {p}
             /\ (p \in DownIn => p \notin Tokens) => Distinct(downlink', DownIn)
  <2>1. /\ Elems(Append(downlink, p)) = Elems(downlink) \cup {p}
        /\ \A T : Distinct(downlink, T) /\ (p \in T => p \notin Elems(downlink))
                    => Distinct(Append(downlink, p), T)
    BY <1>1, ElemsAppend
  <2> QED
    BY <1>3, <2>1 DEF OneToken, Tokens
<1> QED
  BY <1>2, <1>3

\* A packet the broker takes leaves.
LEMMA RemoveTokens ==
  ASSUME Types, OneToken, NEW i \in DOMAIN uplink, uplink' = RemoveAt(uplink, i)
  PROVE  /\ uplink[i] \in UpPackets
         /\ uplink[i] \in UpIn => uplink[i] \in Tokens
         /\ Distinct(uplink', UpIn)
         /\ Elems(uplink') \cap UpIn = (Elems(uplink) \cap UpIn) \ {uplink[i]}
<1>1. uplink \in Seq(UpPackets) /\ i \in 1..Len(uplink)
  BY LenProperties DEF Types, NetTypes
<1>2. /\ uplink[i] \in UpPackets /\ uplink[i] \in Elems(uplink)
  BY <1>1, ElementOfSeq DEF Elems
<1>3. /\ Elems(uplink) = Elems(RemoveAt(uplink, i)) \cup {uplink[i]}
      /\ \A T : Distinct(uplink, T) =>
           /\ Distinct(RemoveAt(uplink, i), T)
           /\ uplink[i] \in T => uplink[i] \notin Elems(RemoveAt(uplink, i))
  BY <1>1, ElemsRemoveAt
<1> QED
  BY <1>2, <1>3 DEF OneToken, Tokens

\* What OneToken needs of a step, besides the packets being distinct.
LEMMA OneTokenKept ==
  ASSUME OneToken, Distinct(downlink', DownIn), Distinct(uplink', UpIn),
         NEW p, NEW q, p \in Tokens, q.id = p.id,
         Tokens' \subseteq (Tokens \ {p}) \cup {q}
  PROVE  OneToken'
BY DEF OneToken

\* A handler takes a packet of a handshake and answers it.
LEMMA HandlerReplies ==
  ASSUME Types, OneToken, Consume, downlink # <<>>,
         Head(downlink).type \in {"Publish", "PubRel"},
         NEW type \in {"PubAck", "PubRec", "PubComp"}, Reply(type)
  PROVE  /\ OneToken' /\ Head(downlink) \in Tokens
         /\ Tokens' = (Tokens \ {Head(downlink)}) \cup {Packet(type, Id)}
<1> DEFINE h == Head(downlink)
           r == Packet(type, Id)
<1>1. /\ h \in DownIn /\ h \in Tokens /\ Distinct(downlink', DownIn)
      /\ Elems(downlink') \cap DownIn = (Elems(downlink) \cap DownIn) \ {h}
  BY ConsumeTokens, TokenTypes
<1>2. r \in UpIn /\ r.id = h.id /\ r # h /\ h \notin UpIn /\ r \in UpPackets
  BY <1>1, TokenTypes DEF UpIn, DownIn, Packet, Id
<1>3. uplink' = Append(uplink, r)
  BY DEF Reply
<1> HIDE DEF h, r
<1>4. r \notin Tokens
  BY <1>1, <1>2 DEF OneToken
<1>5. Elems(uplink') = Elems(uplink) \cup {r} /\ Distinct(uplink', UpIn)
  BY <1>2, <1>3, <1>4, AppendTokens
<1>6. Tokens' = (Tokens \ {h}) \cup {r}
  BY <1>1, <1>2, <1>5 DEF Tokens
<1> QED
  BY <1>1, <1>2, <1>5, <1>6, OneTokenKept DEF h, r

\* A handler takes a packet and does not answer it in a handshake of the broker's.
LEMMA HandlerSilent ==
  ASSUME Types, OneToken, Consume, downlink # <<>>,
         UNCHANGED uplink \/ (Reply("PubRel") /\ Id \in Pids)
  PROVE  OneToken' /\ Tokens' \subseteq Tokens
<1> DEFINE h == Head(downlink)
           r == Packet("PubRel", Id)
<1>1. /\ Distinct(downlink', DownIn)
      /\ Elems(downlink') \cap DownIn = (Elems(downlink) \cap DownIn) \ {h}
  BY ConsumeTokens
<1>2. Distinct(uplink', UpIn) /\ Elems(uplink') \cap UpIn = Elems(uplink) \cap UpIn
  <2>1. CASE UNCHANGED uplink
    BY <2>1 DEF OneToken
  <2>2. CASE Reply("PubRel") /\ Id \in Pids
    <3>1. r \in UpPackets /\ r \notin UpIn
      BY <2>2 DEF UpPackets, UpIn, Packet
    <3>2. uplink' = Append(uplink, r)
      BY <2>2 DEF Reply
    <3> HIDE DEF r
    <3> QED
      BY <3>1, <3>2, AppendTokens
  <2> QED
    BY <2>1, <2>2
<1>3. Tokens' \subseteq Tokens
  BY <1>1, <1>2 DEF Tokens
<1> QED
  BY <1>1, <1>2, <1>3 DEF OneToken

\* The broker takes a packet: one of a publish(), and no handshake of its own
\* goes on; or one that ends or advances a handshake of its own.
LEMMA BrokerTokens ==
  ASSUME Types, OneToken, BrokerReceive
  PROVE  /\ OneToken'
         /\ \/ Tokens' = Tokens /\ UNCHANGED outbox
            \/ \E p \in Tokens :
                 /\ p.type \in {"PubAck", "PubComp"}
                 /\ Tokens' = Tokens \ {p}
                 /\ outbox' = [outbox EXCEPT ![p.id] = "done"]
            \/ \E p \in Tokens :
                 /\ p.type = "PubRec"
                 /\ Tokens' = (Tokens \ {p}) \cup {Packet("PubRel", p.id)}
                 /\ outbox' = [outbox EXCEPT ![p.id] = "rec"]
<1>1. PICK i \in DOMAIN uplink :
        /\ \/ BrokerOnPublish(uplink[i])
           \/ BrokerOnPubRel(uplink[i])
           \/ BrokerOnAck(uplink[i])
        /\ uplink' = RemoveAt(uplink, i)
  BY DEF BrokerReceive
<1> DEFINE p == uplink[i]
<1>2. /\ p \in UpPackets
      /\ p \in UpIn => p \in Tokens
      /\ Distinct(uplink', UpIn)
      /\ Elems(uplink') \cap UpIn = (Elems(uplink) \cap UpIn) \ {p}
  BY <1>1, RemoveTokens
<1> HIDE DEF p
<1>3. ASSUME NEW a \in DownPackets, a \notin DownIn, p \notin UpIn, UNCHANGED outbox,
             UNCHANGED downlink \/ downlink' = Append(downlink, a)
      PROVE  OneToken' /\ Tokens' = Tokens /\ UNCHANGED outbox
  <2>1. Distinct(downlink', DownIn) /\ Elems(downlink') \cap DownIn = Elems(downlink) \cap DownIn
    BY <1>3, AppendTokens DEF OneToken
  <2>2. Tokens' = Tokens
    BY <1>2, <1>3, <2>1 DEF Tokens
  <2> QED
    BY <1>2, <1>3, <2>1, <2>2 DEF OneToken
<1>4. CASE BrokerOnPublish(p)
  <2>1. p \notin UpIn /\ p.frame.qos \in 0..2 /\ p.id \in Pids /\ UNCHANGED outbox
    BY <1>2, <1>4, TokenTypes DEF BrokerOnPublish, UpPackets, PublishOf, Frames
  <2>2. \A t \in {"PubAck", "PubRec"}, r \in Reasons :
          Verdict(t, p.id, r) \in DownPackets /\ Verdict(t, p.id, r) \notin DownIn
    BY <2>1 DEF Verdict, DownPackets, DownIn
  <2>3. PICK t \in {"PubAck", "PubRec"}, r \in Reasons :
          UNCHANGED downlink \/ downlink' = Append(downlink, Verdict(t, p.id, r))
    BY <1>4, <2>1, PublishAnswer DEF Reasons
  <2> QED
    BY <1>3, <2>1, <2>2, <2>3
<1>5. CASE BrokerOnPubRel(p)
  <2>1. p \notin UpIn /\ p.id \in Pids
    BY <1>2, <1>5, TokenTypes DEF BrokerOnPubRel, UpPackets, PublishOf
  <2>2. Packet("PubComp", p.id) \in DownPackets /\ Packet("PubComp", p.id) \notin DownIn
    BY <2>1 DEF Packet, DownPackets, DownIn
  <2> QED
    BY <1>3, <1>5, <2>1, <2>2 DEF BrokerOnPubRel, Answer
<1>6. CASE BrokerOnAck(p)
  <2>1. p.type \in {"PubAck", "PubRec", "PubComp"}
    BY <1>6 DEF BrokerOnAck
  <2>2. p \in UpIn /\ p \in Tokens /\ p \notin DownIn
    BY <1>2, <2>1, TokenTypes
  <2>3. CASE p.type # "PubRec"
    <3>1. UNCHANGED downlink /\ outbox' = [outbox EXCEPT ![p.id] = "done"]
      BY <1>6, <2>3 DEF BrokerOnAck
    <3>2. Tokens' = Tokens \ {p}
      BY <1>2, <2>2, <3>1 DEF Tokens
    <3>3. OneToken'
      BY <1>2, <3>1, <3>2 DEF OneToken
    <3> QED
      BY <2>1, <2>2, <2>3, <3>1, <3>2, <3>3
  <2>4. CASE p.type = "PubRec"
    <3> DEFINE a == Packet("PubRel", p.id)
    <3>1. downlink' = Append(downlink, a) /\ outbox' = [outbox EXCEPT ![p.id] = "rec"]
      BY <1>6, <2>4 DEF BrokerOnAck, Answer
    <3>2. a \in DownIn /\ a \in DownPackets /\ a.id = p.id /\ a # p /\ a \notin UpIn
      BY <2>2, <2>4 DEF DownIn, UpIn, DownPackets, Packet
    <3> HIDE DEF a
    <3>3. a \notin Tokens
      BY <2>2, <3>2 DEF OneToken
    <3>4. Elems(downlink') = Elems(downlink) \cup {a} /\ Distinct(downlink', DownIn)
      BY <3>1, <3>2, <3>3, AppendTokens
    <3>5. Tokens' = (Tokens \ {p}) \cup {a}
      BY <1>2, <2>2, <3>2, <3>4 DEF Tokens
    <3>6. OneToken'
      BY <1>2, <2>2, <3>2, <3>4, <3>5, OneTokenKept
    <3> QED
      BY <2>2, <2>4, <3>1, <3>5, <3>6 DEF a
  <2> QED
    BY <2>3, <2>4
<1> QED
  BY <1>1, <1>4, <1>5, <1>6 DEF p

\* The broker begins a handshake.
LEMMA SendTokens ==
  ASSUME Types, OneToken, TokenInv, NEW m \in Inbound, BrokerSend(m)
  PROVE  OneToken' /\ Tokens' = Tokens \cup {Packet("Publish", m)}
<1> DEFINE a == Packet("Publish", m)
<1>1. /\ downlink' = Append(downlink, a) /\ UNCHANGED uplink /\ outbox[m] = "new"
  BY DEF BrokerSend
<1>2. a \in DownIn /\ a \in DownPackets /\ a.id = m
  BY DEF DownIn, DownPackets, Packet
<1>3. \A p \in Tokens : p.id # m
  BY <1>1 DEF TokenInv, Tokens, DownIn, UpIn
<1> HIDE DEF a
<1>4. Elems(downlink') = Elems(downlink) \cup {a} /\ Distinct(downlink', DownIn)
  BY <1>1, <1>2, <1>3, AppendTokens
<1>5. Tokens' = Tokens \cup {a}
  BY <1>1, <1>2, <1>4 DEF Tokens
<1>6. OneToken'
  BY <1>1, <1>2, <1>3, <1>4, <1>5 DEF OneToken
<1> QED
  BY <1>5, <1>6 DEF a

\* Frames of publish() that are written are no part of those handshakes.
LEMMA TransmitTokens ==
  ASSUME Types, OneToken, Transmit
  PROVE  OneToken' /\ Tokens' = Tokens
<1>1. tx \in Seq(Frames \cup {EmptyFrame}) /\ tx # <<>> /\ UNCHANGED downlink
  BY DEF Types, NetTypes, Transmit
<1>2. Head(tx) \in Frames \cup {EmptyFrame}
  BY <1>1, ElemsTail
<1> DEFINE a == PublishOf(Head(tx))
<1>3. CASE UNCHANGED uplink
  BY <1>1, <1>3 DEF Tokens, OneToken
<1>4. CASE ~UNCHANGED uplink
  <2>1. uplink' = Append(uplink, a) /\ a \in UpPackets /\ a \notin UpIn
    BY <1>2, <1>4 DEF Transmit, PublishOf, UpPackets, UpIn, Frames
  <2> HIDE DEF a
  <2>2. Elems(uplink') = Elems(uplink) \cup {a} /\ Distinct(uplink', UpIn)
    BY <2>1, AppendTokens
  <2>3. Tokens' = Tokens
    BY <1>1, <2>1, <2>2 DEF Tokens
  <2> QED
    BY <1>1, <2>2, <2>3 DEF OneToken
<1> QED
  BY <1>3, <1>4

\* A packet less, and nothing remembered changes.
LEMMA TokensLess ==
  ASSUME TokenInv, Tokens' \subseteq Tokens,
         UNCHANGED <<outbox, handed, incoming_pub, connected>>,
         panicked => panicked'
  PROVE  TokenInv'
BY DEF TokenInv

\* What a PUBLISH read in a handler does to the history.
LEMMA HandOverEffect ==
  ASSUME Types, HandOver, Id \in Inbound
  PROVE  /\ handed'[Id] > 0
         /\ \A m \in Inbound : m # Id => handed'[m] = handed[m]
         /\ \A m \in Inbound : handed[m] > 0 => handed'[m] > 0
<1>1. handed \in [Inbound -> 0..HandedMax]
  BY DEF Types, OtherTypes
<1> DEFINE n == IF handed[Id] < HandedMax THEN handed[Id] + 1 ELSE handed[Id]
<1>2. n > 0
  BY <1>1 DEF HandedMax
<1>3. handed' = [handed EXCEPT ![Id] = n]
  BY DEF HandOver
<1> HIDE DEF n
<1> QED
  BY <1>1, <1>2, <1>3

\* A PUBLISH is handed over and its answer takes its place.
LEMMA HandleMessage ==
  ASSUME Types, InboundInv, HandlePublish1 \/ HandlePublish2
  PROVE  OneToken' /\ TokenInv' /\ MemoryInv'
<1> DEFINE h == Head(downlink)
<1>1. PICK type \in {"PubAck", "PubRec"} :
        /\ Consume /\ downlink # <<>> /\ h.type = "Publish" /\ Id \in Inbound
        /\ Reply(type) /\ HandOver
        /\ stack = "up"
        /\ incoming_pub' \subseteq incoming_pub \cup {Id}
        /\ type = "PubAck" => Id \in Inbound1 /\ incoming_pub' = incoming_pub
        /\ UNCHANGED <<outbox, connected, panicked, link>>
  BY DEF HandlePublish1, HandlePublish2, Receive, StackAt, Consume, Remember,
         Inbound, sharedVars, brokerVars
<1>2. /\ OneToken' /\ h \in Tokens
      /\ Tokens' = (Tokens \ {h}) \cup {Packet(type, Id)}
  BY <1>1, HandlerReplies DEF InboundInv
<1>3. /\ handed'[Id] > 0
      /\ \A m \in Inbound : m # Id => handed'[m] = handed[m]
      /\ \A m \in Inbound : handed[m] > 0 => handed'[m] > 0
  BY <1>1, HandOverEffect
<1>4. \A p \in Tokens \ {h} : p.id # Id /\ p.id \in Inbound
  BY <1>2, TokenTypes DEF InboundInv, OneToken, Id
<1>5. outbox[Id] = "sent"
  BY <1>1, <1>2 DEF InboundInv, TokenInv, Id
<1> DEFINE r == Packet(type, Id)
<1>6. r.type = type /\ r.id = Id
  BY DEF Packet
<1>7. type = "PubAck" => Id \notin incoming_pub
  BY <1>1, InboundAssumption DEF Types, SharedTypes
<1> HIDE DEF h, r
<1>8. TokenInv'
  <2>1. ASSUME NEW p \in Tokens \ {h}
        PROVE  /\ p.type \in {"Publish", "PubAck", "PubRec"} => outbox'[p.id] = "sent"
               /\ p.type \in {"PubRel", "PubComp"} => outbox'[p.id] = "rec"
               /\ p.type \in {"PubAck", "PubRec", "PubComp"} => handed'[p.id] > 0
               /\ p.type \in {"PubAck", "PubComp"} => p.id \notin incoming_pub'
    BY <1>1, <1>3, <1>4 DEF InboundInv, TokenInv
  <2>2. /\ outbox'[r.id] = "sent" /\ handed'[r.id] > 0 /\ r.type \in {"PubAck", "PubRec"}
        /\ r.type = "PubAck" => r.id \notin incoming_pub'
    BY <1>1, <1>3, <1>5, <1>6, <1>7
  <2> QED
    BY <1>2, <2>1, <2>2 DEF TokenInv, r
<1>9. MemoryInv'
  <2>1. \A m \in Inbound : outbox'[m] \in {"rec", "done"} => handed'[m] > 0
    BY <1>1, <1>3 DEF InboundInv, MemoryInv
  <2>2. link' => \A m \in incoming_pub' : outbox'[m] \in {"sent", "rec"}
    BY <1>1, <1>5 DEF InboundInv, MemoryInv
  <2> QED
    BY <2>1, <2>2 DEF MemoryInv
<1> QED
  BY <1>2, <1>8, <1>9

\* A PUBREL is answered and the message forgotten.
LEMMA HandleRelease ==
  ASSUME Types, InboundInv, HandlePubRel
  PROVE  OneToken' /\ TokenInv' /\ MemoryInv'
<1> DEFINE h == Head(downlink)
           r == Packet("PubComp", Id)
<1>1. /\ Consume /\ downlink # <<>> /\ h.type = "PubRel"
      /\ Reply("PubComp")
      /\ incoming_pub' = incoming_pub \ {Id}
      /\ UNCHANGED <<outbox, connected, panicked, link, handed>>
  BY DEF HandlePubRel, Receive, Consume, brokerVars
<1>2. OneToken' /\ h \in Tokens /\ Tokens' = (Tokens \ {h}) \cup {r}
  BY <1>1, HandlerReplies DEF InboundInv
<1>3. outbox[Id] = "rec" /\ Id \in Inbound
  BY <1>1, <1>2, TokenTypes DEF InboundInv, TokenInv, Id
<1>4. handed[Id] > 0
  BY <1>3 DEF InboundInv, MemoryInv
<1>5. r.type = "PubComp" /\ r.id = Id
  BY DEF Packet
<1> HIDE DEF h, r
<1>6. TokenInv'
  BY <1>1, <1>2, <1>3, <1>4, <1>5 DEF InboundInv, TokenInv
<1>7. MemoryInv'
  BY <1>1 DEF InboundInv, MemoryInv
<1> QED
  BY <1>2, <1>6, <1>7

\* The broker takes an answer, in whatever order they come.
LEMMA BrokerTakes ==
  ASSUME Types, InboundInv, BrokerReceive
  PROVE  OneToken' /\ TokenInv' /\ MemoryInv'
<1>1. UNCHANGED <<incoming_pub, connected, panicked, link, handed>>
  BY DEF BrokerReceive, sharedVars
<1>2. outbox \in [Inbound -> {"new", "sent", "rec", "done", "dropped"}]
  BY DEF Types, OtherTypes
<1>3. OneToken'
  BY BrokerTokens DEF InboundInv
<1>4. CASE Tokens' = Tokens /\ UNCHANGED outbox
  BY <1>1, <1>3, <1>4, TokensLess DEF InboundInv, MemoryInv
<1>5. ASSUME NEW p \in Tokens, p.type \in {"PubAck", "PubComp"}, Tokens' = Tokens \ {p},
             outbox' = [outbox EXCEPT ![p.id] = "done"]
      PROVE  TokenInv' /\ MemoryInv'
  <2>1. /\ \A q \in Tokens \ {p} : q.id # p.id
        /\ \A q \in Tokens : q.id \in Inbound
    BY TokenTypes DEF InboundInv, OneToken
  <2>2. handed[p.id] > 0 /\ p.id \notin incoming_pub
    BY <1>5 DEF InboundInv, TokenInv
  <2>3. TokenInv'
    BY <1>1, <1>2, <1>5, <2>1 DEF InboundInv, TokenInv
  <2>4. MemoryInv'
    BY <1>1, <1>2, <1>5, <2>1, <2>2 DEF InboundInv, MemoryInv, Types, SharedTypes, Inbound
  <2> QED
    BY <2>3, <2>4
<1>6. ASSUME NEW p \in Tokens, p.type = "PubRec",
             Tokens' = (Tokens \ {p}) \cup {Packet("PubRel", p.id)},
             outbox' = [outbox EXCEPT ![p.id] = "rec"]
      PROVE  TokenInv' /\ MemoryInv'
  <2> DEFINE a == Packet("PubRel", p.id)
  <2>1. /\ \A q \in Tokens \ {p} : q.id # p.id
        /\ \A q \in Tokens : q.id \in Inbound
    BY TokenTypes DEF InboundInv, OneToken
  <2>2. handed[p.id] > 0
    BY <1>6 DEF InboundInv, TokenInv
  <2>3. a.type = "PubRel" /\ a.id = p.id
    BY DEF Packet
  <2> HIDE DEF a
  <2>4. TokenInv'
    BY <1>1, <1>2, <1>6, <2>1, <2>3 DEF InboundInv, TokenInv, a
  <2>5. MemoryInv'
    BY <1>1, <1>2, <1>6, <2>1, <2>2 DEF InboundInv, MemoryInv, Types, SharedTypes, Inbound
  <2> QED
    BY <2>4, <2>5
<1> QED
  BY <1>3, <1>4, <1>5, <1>6, BrokerTokens DEF InboundInv

\* The connection ends: nothing is on its way, and the broker may forget.
LEMMA ConnectionEnds ==
  ASSUME Types, InboundInv, CloseLink, UNCHANGED handed,
         UNCHANGED outbox \/ outbox' = Forgotten
  PROVE  OneToken' /\ TokenInv' /\ MemoryInv'
<1>1. OneToken' /\ Tokens' = {}
  BY ClosedHasNoTokens
<1>2. TokenInv'
  BY <1>1 DEF TokenInv
<1>3. MemoryInv'
  BY DEF CloseLink, Forgotten, InboundInv, MemoryInv
<1> QED
  BY <1>1, <1>2, <1>3

\* No step breaks the handshakes.
LEMMA InboundStep ==
  ASSUME Types, InboundInv, [Next]_vars
  PROVE  InboundInv'
<1>0. StackInv'
  BY StackInvStep DEF InboundInv
<1> SUFFICES OneToken' /\ TokenInv' /\ MemoryInv'
  BY <1>0 DEF InboundInv
<1> USE DEF netVars
\* Nothing of the handshakes is touched.
<1>1. ASSUME UNCHANGED <<netVars, outbox, handed, incoming_pub, connected>>,
             panicked => panicked'
      PROVE  OneToken' /\ TokenInv' /\ MemoryInv'
  <2>1. Tokens' = Tokens
    BY <1>1 DEF Tokens
  <2>2. OneToken'
    BY <1>1, <2>1 DEF InboundInv, OneToken
  <2>3. MemoryInv'
    BY <1>1 DEF InboundInv, MemoryInv
  <2> QED
    BY <1>1, <2>1, <2>2, <2>3, TokensLess DEF InboundInv
<1>2. CASE CallStep
  <2>1. PICK c \in Calls : Proceed(c) \/ Cancel(c)
    BY <1>2 DEF CallStep
  <2>2. panicked => panicked'
    BY <2>1 DEF Proceed, Start, TakePid, RefuseCall, LockPublisher, Enqueue,
                EnqueuePanics, EnqueueFails, WaitStep, Timeout, Cancel
  <2> QED
    BY <1>1, <1>2, <2>2, CallFootprint DEF brokerVars
\* While run() is connecting, nothing is on its way or remembered.
<1>3. CASE Connect
  <2>1. /\ OneToken'
        /\ \A p \in Tokens' :
             /\ SessionPresent
             /\ p.type \in {"Publish", "PubRel"} /\ p.id \in Inbound
             /\ p.type = "Publish" => outbox[p.id] = "sent"
             /\ p.type = "PubRel" => outbox[p.id] = "rec"
    BY <1>3, ConnectTokens
  <2>2. /\ UNCHANGED <<handed, incoming_pub>> /\ incoming_pub = {}
        /\ SessionPresent => connected' = "resumed" /\ UNCHANGED outbox
        /\ ~SessionPresent => outbox' = Forgotten
    BY <1>3 DEF Connect, ConnectMqtt, BrokerConnect, StackAt, InboundInv, StackInv
  <2>3. TokenInv'
    BY <2>1, <2>2 DEF TokenInv
  <2>4. MemoryInv'
    BY <2>2 DEF InboundInv, MemoryInv, Forgotten
  <2> QED
    BY <2>1, <2>3, <2>4
<1>4. CASE ConnectFails \/ BrokerForgets
  <2>1. /\ ~link /\ uplink = <<>> /\ downlink = <<>>
        /\ UNCHANGED <<netVars, handed, incoming_pub>>
        /\ UNCHANGED outbox \/ outbox' = Forgotten
    BY <1>4 DEF ConnectFails, BrokerConnect, BrokerForgets, StackAt, InboundInv,
                StackInv, sharedVars, brokerVars
  <2>2. CloseLink
    BY <2>1 DEF CloseLink, InboundInv, StackInv
  <2> QED
    BY <2>1, <2>2, ConnectionEnds
<1>5. CASE Disconnect \/ LinkLost
  BY <1>5, ConnectionEnds DEF Disconnect, LinkLost, brokerVars
<1>6. CASE StackNotices \/ TransmitFails \/ Unsolicited
  BY <1>6, ConnectionEnds DEF StackNotices, TransmitFails, Unsolicited, Reset, brokerVars
<1>7. CASE Transmit
  <2>1. OneToken' /\ Tokens' = Tokens
    BY <1>7, TransmitTokens DEF InboundInv
  <2>2. UNCHANGED <<outbox, handed, incoming_pub, connected, panicked, link>>
    BY <1>7 DEF Transmit, brokerVars
  <2> QED
    BY <2>1, <2>2, TokensLess DEF InboundInv, MemoryInv
<1>8. CASE HandlePublish1 \/ HandlePublish2
  BY <1>8, HandleMessage
<1>9. CASE HandlePublish2Panics
  <2>1. /\ HandOver /\ Id \in Inbound /\ panicked'
        /\ Head(downlink).type = "Publish" /\ downlink # <<>>
        /\ UNCHANGED <<netVars, outbox, incoming_pub, connected>>
    BY <1>9, Zenon DEF HandlePublish2Panics, Receive, Inbound, sharedVars, brokerVars
  <2>2. /\ handed'[Id] > 0
        /\ \A m \in Inbound : m # Id => handed'[m] = handed[m]
        /\ \A m \in Inbound : handed[m] > 0 => handed'[m] > 0
    BY <2>1, HandOverEffect
  <2>3. Head(downlink) \in Tokens
    <3>1. Head(downlink) \in DownPackets /\ Head(downlink) \in Elems(downlink)
      BY <2>1, ElemsTail DEF Types, NetTypes
    <3> QED
      BY <2>1, <3>1, TokenTypes DEF Tokens
  <2>4. outbox[Id] = "sent"
    BY <2>1, <2>3 DEF InboundInv, TokenInv, Id
  <2>5. Tokens' = Tokens
    BY <2>1 DEF Tokens
  <2>6. OneToken'
    BY <2>1, <2>5 DEF InboundInv, OneToken
  <2>7. TokenInv'
    BY <2>1, <2>2, <2>5, TokenTypes DEF InboundInv, TokenInv
  <2>8. MemoryInv'
    BY <2>1, <2>2, <2>4 DEF InboundInv, MemoryInv
  <2> QED
    BY <2>6, <2>7, <2>8
<1>10. CASE \/ DiscardPublish \/ HandlePubAck \/ HandlePubRec \/ HandlePubComp
  <2>1. /\ Consume /\ downlink # <<>>
        /\ UNCHANGED uplink \/ (Reply("PubRel") /\ Id \in Pids)
        /\ UNCHANGED <<outbox, handed, incoming_pub, connected, panicked, link>>
    BY <1>10 DEF DiscardPublish, HandlePubAck, HandlePubRec, HandlePubComp, Receive,
                 SkipAck, Consume, Types, SharedTypes, sharedVars, brokerVars
  <2>2. OneToken' /\ Tokens' \subseteq Tokens
    BY <2>1, HandlerSilent DEF InboundInv
  <2> QED
    BY <2>1, <2>2, TokensLess DEF InboundInv, MemoryInv
<1>11. CASE HandlePubRecPanics
  <2>1. panicked => panicked'
    BY <1>11, Zenon DEF HandlePubRecPanics
  <2> QED
    BY <1>1, <1>11, <2>1 DEF HandlePubRecPanics, brokerVars
<1>12. CASE HandlePubRel
  BY <1>12, HandleRelease
<1>13. CASE BrokerReceive
  BY <1>13, BrokerTakes
<1>14. ASSUME NEW m \in Inbound, BrokerSend(m)
       PROVE  OneToken' /\ TokenInv' /\ MemoryInv'
  <2> DEFINE a == Packet("Publish", m)
  <2>1. OneToken' /\ Tokens' = Tokens \cup {a}
    BY <1>14, SendTokens DEF InboundInv
  <2>2. /\ outbox[m] = "new" /\ outbox' = [outbox EXCEPT ![m] = "sent"]
        /\ UNCHANGED <<handed, incoming_pub, connected, panicked, link>>
    BY <1>14 DEF BrokerSend, sharedVars
  <2>3. a.type = "Publish" /\ a.id = m
    BY DEF Packet
  <2>4. outbox \in [Inbound -> {"new", "sent", "rec", "done", "dropped"}]
    BY DEF Types, OtherTypes
  <2> HIDE DEF a
  <2>5. TokenInv'
    <3>1. \A p \in Tokens : p.id # m /\ p.id \in Inbound
      BY <2>2, TokenTypes DEF InboundInv, TokenInv, Tokens, DownIn, UpIn
    <3> QED
      BY <2>1, <2>2, <2>3, <2>4, <3>1 DEF InboundInv, TokenInv
  <2>6. MemoryInv'
    BY <2>2, <2>3, <2>4 DEF InboundInv, MemoryInv, Types, SharedTypes, Inbound
  <2> QED
    BY <2>1, <2>5, <2>6
<1>15. CASE UNCHANGED vars
  BY <1>1, <1>15 DEF vars, brokerVars, sharedVars
<1> QED
  BY <1>2, <1>3, <1>4, <1>5, <1>6, <1>7, <1>8, <1>9, <1>10, <1>11, <1>12, <1>13,
     <1>14, <1>15, Steps DEF PeerStep, Select

\* InboundInv is inductive, given Types.
LEMMA InboundInvariance == Spec => [](Types /\ InboundInv)
<1>1. Init => Types /\ InboundInv
  BY TypesInit, InboundInit
<1>2. Types /\ InboundInv /\ [Next]_vars => (Types /\ InboundInv)'
  BY TypesStep, InboundStep
<1> QED
  BY <1>1, <1>2, PTL DEF Spec

\* Every variable of Session keeps its type: ids stay in 1..PidMax when
\* next_pid() wraps, and a call has an id wherever the code uses one.
THEOREM TypeCorrect == Spec => []TypeOK
BY TypesInvariance, TypesImplyTypeOK, PTL

\* The broker regards a message as acknowledged only if handle_publish() put
\* it into the receive channel: no order of answers, resends and resumed
\* sessions lets a PUBACK or PUBREC overtake the message.
THEOREM AckedHanded == Spec => []AckedIsHanded
<1>1. InboundInv => AckedIsHanded
  BY DEF InboundInv, MemoryInv, AckedIsHanded
<1> QED
  BY <1>1, InboundInvariance, PTL

\* While the connection stands, incoming_pub holds only ids of messages whose
\* handshake is still under way, so no stale id makes handle_publish() discard
\* a new message.
THEOREM IncomingIsCurrent == Spec => []IncomingCurrent
<1>1. InboundInv => IncomingCurrent
  BY DEF InboundInv, MemoryInv, IncomingCurrent
<1> QED
  BY <1>1, InboundInvariance, PTL

-----------------------------------------------------------------------------
(* Packet ids in use *)

\* Frames in the transmit channel, and in PUBLISH packets on their way.
QueuedFrames == Elems(tx) \cap Frames
SentFrames   == {f \in Frames : PublishOf(f) \in Elems(uplink)}

\* Ids of the answers to them that are on their way.
RecIds == {p \in Pids : \E r \in Reasons : Verdict("PubRec", p, r) \in Elems(downlink)}
AckIds == {p \in Pids : \E r \in Reasons : Verdict("PubAck", p, r) \in Elems(downlink)}
          \cup RecIds

\* The packet ids of frames.
IdsOf(frames) == {f.pid : f \in frames}

\* An id is in use while a call has it, the broker remembers it, or a frame or
\* an answer with it is under way.
IdsInUse == {pid[c] : c \in Calls} \cup session \cup IdsOf(QueuedFrames)
            \cup IdsOf(SentFrames) \cup AckIds

\* Ids are not handed out again while they are in use.  The code counts modulo
\* 2^16 and does not look; 2^16 - 1 further ids have to be taken, with the old
\* one still in use, to break this.
FreshStep == \A c \in Calls : TakePid(c) => NextPid(last_pid) \notin IdsInUse
FreshIds  == [][FreshStep]_vars

-----------------------------------------------------------------------------
(* The invariant *)

\* A call that has an id and no frame yet is alone in knowing the id.
Unused(p) ==
  /\ p \notin IdsOf(QueuedFrames) \cup IdsOf(SentFrames) \cup AckIds \cup session
  /\ p \notin inflight_pub \cup outgoing_pid \cup outgoing_rel

\* No two calls have the same id.
OwnIds ==
  /\ \A c, d \in Calls : pid[c] = pid[d] /\ pid[c] # 0 => c = d
  /\ \A c \in Calls : pc[c] = "new" => pid[c] = 0
  /\ \A c \in Calls : pc[c] \in {"locking", "granting"} /\ ~panicked => Unused(pid[c])

\* Whoever has the id of a frame made the frame.
FramesOwned ==
  \A f \in QueuedFrames \cup SentFrames : \A c \in Calls :
    pid[c] = f.pid => c = f.call /\ qos[c] = f.qos

\* A frame is in the channel once, and then no packet was made of it.
QueuedOnce ==
  /\ Distinct(tx, Frames)
  /\ \A f, g \in QueuedFrames : f.pid = g.pid => f = g
  /\ IdsOf(QueuedFrames) \cap (IdsOf(SentFrames) \cup AckIds \cup outgoing_rel) = {}

\* The broker has decided on the message of every id it answered.
AnswersTrue ==
  /\ \A p \in session \cup AckIds \cup outgoing_rel :
       \A c \in Calls : pid[c] = p => Decided(c)
  /\ \A p \in RecIds : \A c \in Calls : pid[c] = p => qos[c] = 2

\* The sets of Shared.
OutgoingInTx == panicked \/ outgoing_pid \subseteq IdsOf(QueuedFrames)

\* An id in inflight_pub belongs to a call that waits for its acknowledgement.
InflightOwned ==
  \A p \in inflight_pub :
    \E c \in Calls : pc[c] \in {"tx", "ack"} /\ pid[c] = p /\ qos[c] > 0

\* An id in outgoing_rel belongs to a QoS 2 call.
RelOwned ==
  \A p \in outgoing_rel : \E c \in Calls : pc[c] \in Waiting /\ pid[c] = p /\ qos[c] = 2

\* An id is released or acknowledged, not both.
RelApart == outgoing_rel \cap (inflight_pub \cup outgoing_pid) = {}

\* What holds whatever ids are handed out, and what needs them to be fresh.
SetsInv == OutgoingInTx /\ InflightOwned
IdInv   == OwnIds /\ FramesOwned /\ QueuedOnce /\ AnswersTrue /\ RelOwned /\ RelApart

-----------------------------------------------------------------------------
(* What each step does to the frames and answers under way *)

\* A closed connection carries nothing.
LEMMA NoFrames ==
  /\ uplink' = <<>> => SentFrames' = {}
  /\ downlink' = <<>> => AckIds' = {} /\ RecIds' = {}
<1>1. uplink' = <<>> => SentFrames' = {}
  BY ElemsEmpty DEF SentFrames
<1>2. downlink' = <<>> => AckIds' = {} /\ RecIds' = {}
  BY ElemsEmpty DEF AckIds, RecIds
<1> QED
  BY <1>1, <1>2

\* The views depend on the channel and on the connection only.
LEMMA SameViews ==
  /\ UNCHANGED tx => UNCHANGED QueuedFrames
  /\ UNCHANGED uplink => UNCHANGED SentFrames
  /\ UNCHANGED downlink => UNCHANGED <<AckIds, RecIds>>
BY DEF QueuedFrames, SentFrames, AckIds, RecIds

\* A frame is committed, or an empty one is.
LEMMA CommitViews ==
  ASSUME Types
  PROVE  /\ tx' = Append(tx, EmptyFrame) =>
              UNCHANGED QueuedFrames /\ (Distinct(tx, Frames) => Distinct(tx', Frames))
         /\ \A f \in Frames : tx' = Append(tx, f) =>
              /\ QueuedFrames' = QueuedFrames \cup {f}
              /\ Distinct(tx, Frames) /\ f \notin QueuedFrames => Distinct(tx', Frames)
<1>1. tx \in Seq(Frames \cup {EmptyFrame})
  BY DEF Types, NetTypes
<1>2. EmptyFrame \notin Frames
  BY CallsAssumption DEF EmptyFrame, Frames
<1>3. \A f \in Frames \cup {EmptyFrame} :
        /\ Elems(Append(tx, f)) = Elems(tx) \cup {f}
        /\ \A T : Distinct(tx, T) /\ (f \in T => f \notin Elems(tx))
                    => Distinct(Append(tx, f), T)
  BY <1>1, ElemsAppend
<1>4. ASSUME tx' = Append(tx, EmptyFrame)
      PROVE  UNCHANGED QueuedFrames /\ (Distinct(tx, Frames) => Distinct(tx', Frames))
  <2>1. Elems(tx') = Elems(tx) \cup {EmptyFrame}
    BY <1>3, <1>4
  <2> QED
    BY <1>2, <1>3, <1>4, <2>1 DEF QueuedFrames
<1>5. ASSUME NEW f \in Frames, tx' = Append(tx, f)
      PROVE  /\ QueuedFrames' = QueuedFrames \cup {f}
             /\ Distinct(tx, Frames) /\ f \notin QueuedFrames => Distinct(tx', Frames)
  <2>1. Elems(tx') = Elems(tx) \cup {f}
    BY <1>3, <1>5
  <2> QED
    BY <1>3, <1>5, <2>1 DEF QueuedFrames
<1> QED
  BY <1>4, <1>5

\* The read grant is released.
LEMMA ReleaseViews ==
  ASSUME Types, tx # <<>>, ReleaseFrame
  PROVE  /\ QueuedFrames' \subseteq QueuedFrames
         /\ QueuedFrames \subseteq QueuedFrames' \cup {Head(tx)}
         /\ Head(tx) \in Frames \cup {EmptyFrame}
         /\ Head(tx) \in Frames => Head(tx) \in QueuedFrames
         /\ Distinct(tx, Frames) => /\ Distinct(tx', Frames)
                                    /\ Head(tx) \notin QueuedFrames'
<1>1. tx \in Seq(Frames \cup {EmptyFrame}) /\ tx' = Tail(tx)
  BY DEF Types, NetTypes, ReleaseFrame
<1>2. /\ Head(tx) \in Frames \cup {EmptyFrame} /\ Head(tx) \in Elems(tx)
      /\ Elems(tx) = Elems(tx') \cup {Head(tx)}
      /\ \A T : Distinct(tx, T) =>
           /\ Distinct(tx', T)
           /\ Head(tx) \in T => Head(tx) \notin Elems(tx')
  BY <1>1, ElemsTail
<1> QED
  BY <1>2 DEF QueuedFrames

\* The front frame becomes a PUBLISH on a connection that carries data.
LEMMA TransmitViews ==
  ASSUME Types, Transmit
  PROVE  /\ SentFrames' \subseteq SentFrames \cup {Head(tx)}
         /\ UNCHANGED <<AckIds, RecIds>>
<1>1. /\ uplink \in Seq(UpPackets) /\ tx # <<>> /\ ReleaseFrame /\ UNCHANGED downlink
      /\ UNCHANGED uplink \/ (Head(tx) # EmptyFrame /\ uplink' = Append(uplink, PublishOf(Head(tx))))
  BY DEF Types, NetTypes, Transmit
<1>2. Head(tx) \in Frames \cup {EmptyFrame}
  BY <1>1, ReleaseViews
<1>3. CASE UNCHANGED uplink
  BY <1>1, <1>3, SameViews
<1>4. CASE ~UNCHANGED uplink
  <2>1. Head(tx) \in Frames /\ PublishOf(Head(tx)) \in UpPackets
    BY <1>1, <1>2, <1>4 DEF UpPackets
  <2>2. Elems(uplink') = Elems(uplink) \cup {PublishOf(Head(tx))}
    BY <1>1, <1>4, <2>1, ElemsAppend
  <2>3. \A f \in Frames : PublishOf(f) = PublishOf(Head(tx)) => f = Head(tx)
    BY DEF PublishOf
  <2>4. SentFrames' \subseteq SentFrames \cup {Head(tx)}
    BY <2>2, <2>3 DEF SentFrames
  <2> QED
    BY <1>1, <2>4, SameViews
<1> QED
  BY <1>3, <1>4

\* A handler takes a packet from the front; none of them sends a PUBLISH.
LEMMA HandlerViews ==
  ASSUME Types, Consume, downlink # <<>>
  PROVE  /\ AckIds' \subseteq AckIds /\ RecIds' \subseteq RecIds
         /\ Head(downlink) \in DownPackets
         /\ Head(downlink).type = "PubAck" => Id \in AckIds
         /\ Head(downlink).type = "PubRec" => Id \in AckIds /\ Id \in RecIds
<1>1. downlink \in Seq(DownPackets) /\ downlink' = Tail(downlink)
  BY DEF Types, NetTypes, Consume
<1>2. /\ Head(downlink) \in DownPackets /\ Head(downlink) \in Elems(downlink)
      /\ Elems(downlink') \subseteq Elems(downlink)
  BY <1>1, ElemsTail
<1>3. AckIds' \subseteq AckIds /\ RecIds' \subseteq RecIds
  BY <1>2 DEF AckIds, RecIds
<1>4. Head(downlink).type \in {"PubAck", "PubRec"} =>
        /\ Id \in Pids /\ Head(downlink).reason \in Reasons
        /\ Head(downlink) = Verdict(Head(downlink).type, Id, Head(downlink).reason)
  BY <1>2 DEF DownPackets, Verdict, Id
<1> QED
  BY <1>2, <1>3, <1>4 DEF AckIds, RecIds

\* An answer of a handler is no PUBLISH of a call.
LEMMA ReplyViews ==
  ASSUME Types, NEW type \in {"PubAck", "PubRec", "PubComp", "PubRel"}, Reply(type)
  PROVE  UNCHANGED SentFrames
<1> DEFINE r == Packet(type, Id)
<1>1. uplink' = Append(uplink, r) /\ uplink \in Seq(UpPackets)
  BY DEF Reply, Types, NetTypes
<1>2. uplink \in Seq(UpPackets \cup {r})
  BY <1>1, SeqMonotonic
<1>3. r.type # "Publish" /\ \A f \in Frames : PublishOf(f).type = "Publish"
  BY DEF Packet, PublishOf
<1> HIDE DEF r
<1>4. Elems(uplink') = Elems(uplink) \cup {r}
  BY <1>1, <1>2, ElemsAppend
<1> QED
  BY <1>3, <1>4 DEF SentFrames

\* A new connection carries no PUBLISH and no answer to one.
LEMMA ConnectViews ==
  ASSUME Types, Connect
  PROVE  SentFrames' = {} /\ AckIds' = {} /\ RecIds' = {}
<1>1. /\ uplink' = <<>>
      /\ Elems(downlink') \subseteq IF SessionPresent THEN Redelivery ELSE {}
  BY ConnectEffect DEF Connect
<1>2. \A p \in Redelivery : p.type \in {"Publish", "PubRel"}
  BY DEF Redelivery, Packet
<1>3. \A p, r : Verdict("PubAck", p, r) \notin Elems(downlink')
               /\ Verdict("PubRec", p, r) \notin Elems(downlink')
  <2>1. \A p, r : Verdict("PubAck", p, r).type = "PubAck" /\ Verdict("PubRec", p, r).type = "PubRec"
    BY DEF Verdict
  <2> QED
    BY <1>1, <1>2, <2>1
<1>4. AckIds' = {} /\ RecIds' = {}
  BY <1>3 DEF AckIds, RecIds
<1> QED
  BY <1>1, <1>4, NoFrames

\* Another packet for the client that answers no PUBLISH.
LEMMA OtherViews ==
  ASSUME Types, NEW type \in {"Publish", "PubRel", "PubComp"}, NEW id,
         downlink' = Append(downlink, Packet(type, id))
  PROVE  UNCHANGED <<AckIds, RecIds>>
<1> DEFINE a == Packet(type, id)
<1>1. downlink \in Seq(DownPackets \cup {a})
  BY SeqMonotonic DEF Types, NetTypes
<1>2. \A p, r : Verdict("PubAck", p, r) # a /\ Verdict("PubRec", p, r) # a
  <2>1. a.type = type /\ \A p, r : /\ Verdict("PubAck", p, r).type = "PubAck"
                                   /\ Verdict("PubRec", p, r).type = "PubRec"
    BY DEF Packet, Verdict
  <2> HIDE DEF a
  <2> QED
    BY <2>1
<1> HIDE DEF a
<1>3. Elems(downlink') = Elems(downlink) \cup {a}
  BY <1>1, ElemsAppend DEF a
<1> QED
  BY <1>2, <1>3 DEF RecIds, AckIds

\* An answer to a PUBLISH.
LEMMA AnswerViews ==
  ASSUME Types, NEW type \in {"PubAck", "PubRec"}, NEW id, NEW reason,
         downlink' = Append(downlink, Verdict(type, id, reason))
  PROVE  /\ AckIds' \subseteq AckIds \cup {id}
         /\ RecIds' \subseteq RecIds \cup {id}
         /\ type # "PubRec" => RecIds' = RecIds
<1> DEFINE a == Verdict(type, id, reason)
<1>1. downlink \in Seq(DownPackets \cup {a})
  BY SeqMonotonic DEF Types, NetTypes
<1>2. \A p, r : \A t \in {"PubAck", "PubRec"} : Verdict(t, p, r) = a => t = type /\ p = id
  <2>1. a.type = type /\ a.id = id /\ \A t, p, r : Verdict(t, p, r).type = t /\ Verdict(t, p, r).id = p
    BY DEF Verdict
  <2> HIDE DEF a
  <2> QED
    BY <2>1
<1> HIDE DEF a
<1>3. Elems(downlink') = Elems(downlink) \cup {a}
  BY <1>1, ElemsAppend DEF a
<1>4. RecIds' \subseteq RecIds \cup {id} /\ (type # "PubRec" => RecIds' = RecIds)
  BY <1>2, <1>3 DEF RecIds
<1>5. AckIds' \subseteq AckIds \cup {id}
  BY <1>2, <1>3, <1>4 DEF AckIds, RecIds
<1> QED
  BY <1>4, <1>5

\* What the broker decides on a message.
Decides(f) ==
  \/ /\ received' = IF f.qos = 2 /\ f.pid \in session THEN received
                    ELSE [received EXCEPT ![f.call] = @ + 1]
     /\ UNCHANGED rejected
  \/ rejected' = rejected \cup {f.call} /\ UNCHANGED received

\* The broker takes a PUBLISH: it decides on the message, and may remember and
\* answer it; or another packet, which only may end what it remembers.
LEMMA BrokerViews ==
  ASSUME Types, BrokerReceive
  PROVE  /\ SentFrames' \subseteq SentFrames
         /\ \/ \E f \in SentFrames :
                 /\ Decides(f)
                 /\ session' \subseteq session \cup {f.pid}
                 /\ AckIds' \subseteq AckIds \cup {f.pid}
                 /\ IF f.qos = 2 THEN RecIds' \subseteq RecIds \cup {f.pid}
                                 ELSE UNCHANGED <<RecIds, session>>
            \/ session' \subseteq session /\ UNCHANGED <<received, rejected, AckIds, RecIds>>
<1>1. PICK i \in DOMAIN uplink :
        /\ \/ BrokerOnPublish(uplink[i])
           \/ BrokerOnPubRel(uplink[i])
           \/ BrokerOnAck(uplink[i])
        /\ uplink' = RemoveAt(uplink, i)
  BY DEF BrokerReceive
<1> DEFINE p == uplink[i]
<1>2. uplink \in Seq(UpPackets) /\ i \in 1..Len(uplink)
  BY LenProperties DEF Types, NetTypes
<1>3. p \in UpPackets /\ p \in Elems(uplink) /\ Elems(uplink') \subseteq Elems(uplink)
  <2>1. p \in UpPackets /\ p \in Elems(uplink)
    BY <1>2, ElementOfSeq DEF Elems
  <2>2. Elems(uplink) = Elems(RemoveAt(uplink, i)) \cup {uplink[i]}
    BY <1>2, ElemsRemoveAt
  <2> QED
    BY <1>1, <2>1, <2>2
<1> HIDE DEF p
<1>4. SentFrames' \subseteq SentFrames
  BY <1>3 DEF SentFrames
<1>5. CASE BrokerOnPublish(p)
  <2>1. PICK f \in Frames : p = PublishOf(f)
    BY <1>3, <1>5 DEF BrokerOnPublish, UpPackets, Packet
  <2>2. f \in SentFrames /\ p.frame = f /\ p.id = f.pid /\ f.qos \in 0..2
    BY <1>3, <2>1 DEF SentFrames, PublishOf, Frames
  <2>3. /\ Decides(f)
        /\ session' = session \/ (f.qos = 2 /\ session' = session \cup {f.pid})
    BY <1>5, <2>2 DEF BrokerOnPublish, BrokerAccepts, BrokerRejects, Decides
  <2>4. \/ f.qos = 0 /\ UNCHANGED downlink
        \/ \E r \in Reasons :
             \/ f.qos = 1 /\ downlink' = Append(downlink, Verdict("PubAck", f.pid, r))
             \/ f.qos = 2 /\ downlink' = Append(downlink, Verdict("PubRec", f.pid, r))
    BY <1>5, <2>2, PublishAnswer
  <2>5. /\ AckIds' \subseteq AckIds \cup {f.pid}
        /\ f.qos = 2 => RecIds' \subseteq RecIds \cup {f.pid}
        /\ f.qos # 2 => UNCHANGED RecIds
    <3>1. CASE f.qos = 0
      BY <2>4, <3>1, SameViews
    <3>2. CASE f.qos = 1
      BY <2>4, <3>2, AnswerViews
    <3>3. CASE f.qos = 2
      BY <2>4, <3>3, AnswerViews
    <3> QED
      BY <2>2, <3>1, <3>2, <3>3
  <2> QED
    BY <1>4, <2>2, <2>3, <2>5
<1>6. CASE BrokerOnPubRel(p)
  <2>1. UNCHANGED <<AckIds, RecIds>>
    BY <1>6, OtherViews DEF BrokerOnPubRel, Answer
  <2> QED
    BY <1>4, <1>6, <2>1 DEF BrokerOnPubRel
<1>7. CASE BrokerOnAck(p)
  <2>1. UNCHANGED <<AckIds, RecIds>>
    BY <1>7, OtherViews, SameViews DEF BrokerOnAck, Answer
  <2> QED
    BY <1>4, <1>7, <2>1 DEF BrokerOnAck
<1> QED
  BY <1>1, <1>5, <1>6, <1>7 DEF p

\* Less is under way than before, and what is left is as it was.
Shrinks ==
  /\ QueuedFrames' \subseteq QueuedFrames /\ SentFrames' \subseteq SentFrames
  /\ AckIds' \subseteq AckIds /\ RecIds' \subseteq RecIds
  /\ session' \subseteq session
  /\ inflight_pub' \subseteq inflight_pub /\ outgoing_rel' \subseteq outgoing_rel
  /\ outgoing_pid' = {} \/ UNCHANGED <<outgoing_pid, QueuedFrames>>
  /\ Distinct(tx, Frames) => Distinct(tx', Frames)
  /\ panicked => panicked'
  /\ UNCHANGED <<received, rejected>>

\* Most steps of the stack, the broker and the connection only take away.
LEMMA PeerEffect ==
  ASSUME Types, StackInv, PeerStep
  PROVE  Shrinks \/ Transmit \/ HandlePubRec \/ BrokerReceive
<1> USE DEF sharedVars, netVars, brokerVars, Shrinks
<1>1. CASE Connect
  <2>1. SentFrames' = {} /\ AckIds' = {} /\ RecIds' = {}
    BY <1>1, ConnectViews
  <2>2. session' \subseteq session /\ UNCHANGED <<received, rejected, tx, panicked>>
    BY <1>1 DEF Connect, ConnectMqtt, BrokerConnect
  <2> QED
    BY <1>1, <2>1, <2>2, SameViews DEF Connect
<1>2. CASE ConnectFails \/ BrokerForgets
  <2>1. session' \subseteq session /\ UNCHANGED <<received, rejected, tx, panicked, netVars, sharedVars>>
    BY <1>2 DEF ConnectFails, BrokerConnect, BrokerForgets
  <2> QED
    BY <2>1, SameViews
<1>3. CASE Disconnect \/ LinkLost
  <2>1. /\ uplink' = <<>> /\ downlink' = <<>> /\ UNCHANGED <<received, rejected, tx, panicked>>
        /\ session' \subseteq session
        /\ inflight_pub' \subseteq inflight_pub /\ outgoing_rel' \subseteq outgoing_rel
        /\ outgoing_pid' = {} \/ UNCHANGED outgoing_pid
    BY <1>3 DEF Disconnect, LinkLost, CloseLink, ResetShared
  <2> QED
    BY <2>1, SameViews, NoFrames
<1>4. CASE StackNotices \/ Unsolicited
  <2>1. /\ uplink' = <<>> /\ downlink' = <<>> /\ UNCHANGED <<received, rejected, session, tx, panicked>>
        /\ inflight_pub' = {} /\ outgoing_rel' = {} /\ outgoing_pid' = {}
    BY <1>4 DEF StackNotices, Unsolicited, Reset, CloseLink, ResetShared
  <2> QED
    BY <2>1, SameViews, NoFrames
<1>5. CASE TransmitFails
  <2>1. /\ uplink' = <<>> /\ downlink' = <<>> /\ UNCHANGED <<received, rejected, session, panicked>>
        /\ inflight_pub' = {} /\ outgoing_rel' = {} /\ outgoing_pid' = {}
        /\ tx # <<>> /\ ReleaseFrame
    BY <1>5 DEF TransmitFails, Reset, CloseLink, ResetShared
  <2>2. QueuedFrames' \subseteq QueuedFrames /\ (Distinct(tx, Frames) => Distinct(tx', Frames))
    BY <2>1, ReleaseViews
  <2> QED
    BY <2>1, <2>2, NoFrames
<1>6. CASE \/ HandlePublish1 \/ HandlePublish2 \/ DiscardPublish
           \/ HandlePubAck \/ HandlePubComp \/ HandlePubRel
  <2>1. /\ Consume /\ downlink # <<>>
        /\ UNCHANGED uplink \/ Reply("PubAck") \/ Reply("PubRec") \/ Reply("PubComp")
        /\ inflight_pub' \subseteq inflight_pub /\ outgoing_rel' \subseteq outgoing_rel
        /\ UNCHANGED <<received, rejected, session, tx, panicked, outgoing_pid>>
    BY <1>6 DEF HandlePublish1, HandlePublish2, DiscardPublish, HandlePubAck,
                HandlePubComp, HandlePubRel, Receive, SkipAck
  <2>2. AckIds' \subseteq AckIds /\ RecIds' \subseteq RecIds
    BY <2>1, HandlerViews
  <2>3. UNCHANGED SentFrames
    BY <2>1, ReplyViews, SameViews
  <2> QED
    BY <2>1, <2>2, <2>3, SameViews
<1>7. CASE HandlePublish2Panics \/ HandlePubRecPanics
  <2>1. /\ inflight_pub' \subseteq inflight_pub
        /\ UNCHANGED <<received, rejected, session, tx, netVars, outgoing_pid, outgoing_rel>>
    BY <1>7 DEF HandlePublish2Panics, HandlePubRecPanics
  <2>2. panicked => panicked'
    BY <1>7, Zenon DEF HandlePublish2Panics, HandlePubRecPanics
  <2> QED
    BY <2>1, <2>2, SameViews
<1>8. ASSUME NEW m \in Inbound, BrokerSend(m) PROVE Shrinks
  <2>1. /\ downlink' = Append(downlink, Packet("Publish", m))
        /\ UNCHANGED <<received, rejected, session, tx, uplink, sharedVars, panicked>>
    BY <1>8 DEF BrokerSend
  <2>2. UNCHANGED <<AckIds, RecIds>>
    BY <2>1, OtherViews
  <2> QED
    BY <2>1, <2>2, SameViews
<1> QED
  BY <1>1, <1>2, <1>3, <1>4, <1>5, <1>6, <1>7, <1>8 DEF PeerStep, Select

-----------------------------------------------------------------------------
(* The sets of Shared, whatever ids are handed out *)

\* The id of a frame that is not empty.
LEMMA IdsOfFrames ==
  ASSUME Types
  PROVE  IdsOf(QueuedFrames) \subseteq Pids /\ IdsOf(SentFrames) \subseteq Pids
BY DEF IdsOf, QueuedFrames, SentFrames, Frames

\* What a step of publish() does to the channel.
LEMMA CallTx ==
  ASSUME Types, NEW c \in Calls, Proceed(c) \/ Cancel(c)
  PROVE  /\ Enqueue(c) \/ UNCHANGED QueuedFrames
         /\ Enqueue(c) \/ (Distinct(tx, Frames) => Distinct(tx', Frames))
         /\ UNCHANGED <<SentFrames, AckIds, RecIds>>
<1>1. CallStep
  BY DEF CallStep
<1>2. UNCHANGED <<SentFrames, AckIds, RecIds>>
  BY <1>1, CallFootprint, SameViews DEF netVars
<1>3. Enqueue(c) \/ UNCHANGED tx \/ tx' = Append(tx, EmptyFrame)
  BY DEF Proceed, Start, TakePid, RefuseCall, LockPublisher, EnqueuePanics,
         EnqueueFails, WaitStep, Timeout, Cancel
<1> QED
  BY <1>2, <1>3, SameViews, CommitViews

\* A frame is committed.
LEMMA EnqueueTx ==
  ASSUME Types, NEW c \in Calls, Enqueue(c)
  PROVE  /\ Frame(c) \in Frames /\ pid[c] \in Pids /\ Frame(c).pid = pid[c]
         /\ Frame(c).call = c /\ Frame(c).qos = qos[c]
         /\ QueuedFrames' = QueuedFrames \cup {Frame(c)}
         /\ Distinct(tx, Frames) /\ Frame(c) \notin QueuedFrames => Distinct(tx', Frames)
<1>1. pc[c] = "granting" /\ tx' = Append(tx, Frame(c))
  BY DEF Enqueue, At
<1>2. pid[c] \in Pids /\ qos[c] \in 0..2
  BY <1>1 DEF Types, CallTypes
<1>3. /\ Frame(c) \in Frames /\ Frame(c).pid = pid[c]
      /\ Frame(c).call = c /\ Frame(c).qos = qos[c]
  BY <1>2 DEF Frame, Frames
<1> QED
  BY <1>1, <1>2, <1>3, CommitViews

\* What a step of publish() does to the sets.
LEMMA CallSets ==
  ASSUME NEW c \in Calls, Proceed(c) \/ Cancel(c)
  PROVE  /\ outgoing_rel' \subseteq outgoing_rel
         /\ \/ Enqueue(c) \/ EnqueuePanics(c)
            \/ outgoing_pid' \subseteq outgoing_pid /\ inflight_pub' \subseteq inflight_pub
<1>1. CASE Enqueue(c) \/ EnqueuePanics(c)
  BY <1>1 DEF Enqueue, EnqueuePanics
<1>2. CASE Timeout(c) \/ Cancel(c)
  BY <1>2 DEF Timeout, Cancel, DropAttempt, OnDrop
<1>3. CASE \/ \E q \in QoSs : Start(c, q)
           \/ TakePid(c) \/ RefuseCall(c) \/ LockPublisher(c)
           \/ EnqueueFails(c) \/ WaitStep(c)
  BY <1>3 DEF Start, TakePid, RefuseCall, LockPublisher, EnqueueFails,
              WaitStep, sharedVars
<1> QED
  BY <1>1, <1>2, <1>3 DEF Proceed

\* Ids enter outgoing_pid with their frame and leave it before or with it.
LEMMA OutgoingInTxStep ==
  ASSUME Types, StackInv, OutgoingInTx, [Next]_vars
  PROVE  OutgoingInTx'
<1>1. CASE CallStep
  <2>1. PICK c \in Calls : Proceed(c) \/ Cancel(c)
    BY <1>1 DEF CallStep
  <2>2. CASE Enqueue(c)
    <3>1. /\ QueuedFrames' = QueuedFrames \cup {Frame(c)} /\ Frame(c).pid = pid[c]
          /\ outgoing_pid' = outgoing_pid \cup {pid[c]} /\ UNCHANGED panicked
      BY <2>2, EnqueueTx DEF Enqueue
    <3> QED
      BY <3>1 DEF OutgoingInTx, IdsOf
  <2>3. CASE EnqueuePanics(c)
    BY <2>3 DEF EnqueuePanics, OutgoingInTx
  <2>4. CASE ~(Enqueue(c) \/ EnqueuePanics(c))
    <3>1. UNCHANGED panicked
      BY <2>1, <2>4 DEF Proceed, Start, TakePid, RefuseCall, LockPublisher,
                        EnqueueFails, WaitStep, Timeout, Cancel
    <3>2. outgoing_pid' \subseteq outgoing_pid /\ UNCHANGED QueuedFrames
      BY <2>1, <2>4, CallSets, CallTx
    <3> QED
      BY <3>1, <3>2 DEF OutgoingInTx, IdsOf
  <2> QED
    BY <2>2, <2>3, <2>4
<1>2. CASE Transmit
  <2>1. /\ tx # <<>> /\ ReleaseFrame /\ outgoing_pid' = outgoing_pid \ {Head(tx).pid}
        /\ UNCHANGED panicked
    BY <1>2 DEF Transmit
  <2>2. QueuedFrames \subseteq QueuedFrames' \cup {Head(tx)}
    BY <2>1, ReleaseViews
  <2> QED
    BY <2>1, <2>2 DEF OutgoingInTx, IdsOf
<1>3. CASE HandlePubRec \/ BrokerReceive
  <2>1. UNCHANGED <<outgoing_pid, tx, panicked>>
    BY <1>3 DEF HandlePubRec, BrokerReceive, sharedVars
  <2> QED
    BY <2>1, SameViews DEF OutgoingInTx, IdsOf
<1>4. CASE Shrinks
  BY <1>4 DEF Shrinks, OutgoingInTx, IdsOf
<1>5. CASE UNCHANGED vars
  BY <1>5, SameViews DEF vars, sharedVars, OutgoingInTx, IdsOf
<1> QED
  BY <1>1, <1>2, <1>3, <1>4, <1>5, Steps, PeerEffect

\* Ids enter inflight_pub with a call that waits, and leave it before or with
\* that call.
LEMMA InflightOwnedStep ==
  ASSUME Types, StackInv, InflightOwned, [Next]_vars
  PROVE  InflightOwned'
<1>0. /\ pc \in [Calls -> {"new", "connecting", "locking", "granting"} \cup Waiting \cup Done]
      /\ qos \in [Calls -> 0..2]
      /\ pid \in [Calls -> {0} \cup Pids]
  BY DEF Types, CallTypes
<1>1. CASE CallStep
  <2>1. PICK c \in Calls : Proceed(c) \/ Cancel(c)
    BY <1>1 DEF CallStep
  <2> USE DEF At, Goto, Retry, InflightOwned
  \* The owners other than c stay; c owns nothing before it is at "tx".
  <2>2. ASSUME inflight_pub' \subseteq inflight_pub,
               pc[c] \notin {"tx", "ack"} \/ pid[c] \notin inflight_pub',
               \A d \in Calls \ {c} : pc'[d] = pc[d] /\ pid'[d] = pid[d] /\ qos'[d] = qos[d]
        PROVE  InflightOwned'
    <3>1. ASSUME NEW p \in inflight_pub'
          PROVE  \E d \in Calls : pc'[d] \in {"tx", "ack"} /\ pid'[d] = p /\ qos'[d] > 0
      <4>1. PICK d \in Calls : pc[d] \in {"tx", "ack"} /\ pid[d] = p /\ qos[d] > 0
        BY <2>2, <3>1
      <4>2. d # c
        BY <2>2, <3>1, <4>1
      <4> QED
        BY <2>2, <4>1, <4>2
    <3> QED
      BY <3>1
  <2>3. CASE Enqueue(c)
    <3>1. /\ pc[c] = "granting" /\ pc' = [pc EXCEPT ![c] = "tx"] /\ UNCHANGED <<pid, qos>>
          /\ inflight_pub' = IF qos[c] > 0 THEN inflight_pub \cup {pid[c]} ELSE inflight_pub
      BY <2>3 DEF Enqueue
    <3>2. ASSUME NEW p \in inflight_pub, p # pid[c] \/ qos[c] = 0
          PROVE  \E d \in Calls : pc'[d] \in {"tx", "ack"} /\ pid'[d] = p /\ qos'[d] > 0
      <4>1. PICK d \in Calls : pc[d] \in {"tx", "ack"} /\ pid[d] = p /\ qos[d] > 0
        BY <3>2
      <4>2. pc'[d] = pc[d]
        BY <1>0, <3>1, <4>1
      <4> QED
        BY <3>1, <4>1, <4>2
    <3>3. pc'[c] = "tx" /\ qos[c] \in 0..2
      BY <1>0, <3>1
    <3> QED
      BY <3>1, <3>2, <3>3
  <2>4. CASE WaitStep(c)
    <3>1. /\ UNCHANGED <<inflight_pub, pid, qos>>
          /\ \/ pc[c] = "tx" /\ pc' = [pc EXCEPT ![c] = IF qos[c] = 0 THEN "ok" ELSE "ack"]
             \/ pc[c] = "ack" /\ pid[c] \notin inflight_pub
                /\ pc' = [pc EXCEPT ![c] = IF qos[c] = 2 THEN "rel" ELSE "ok"]
             \/ pc[c] = "rel" /\ pc' = [pc EXCEPT ![c] = "ok"]
      BY <2>4 DEF WaitStep, sharedVars, Acknowledged
    <3>2. ASSUME NEW p \in inflight_pub
          PROVE  \E d \in Calls : pc'[d] \in {"tx", "ack"} /\ pid'[d] = p /\ qos'[d] > 0
      <4>1. PICK d \in Calls : pc[d] \in {"tx", "ack"} /\ pid[d] = p /\ qos[d] > 0
        BY <3>2
      <4>2. pc'[d] \in {"tx", "ack"}
        <5>1. CASE d # c
          BY <1>0, <3>1, <4>1, <5>1
        <5>2. CASE d = c
          BY <1>0, <3>1, <3>2, <4>1, <5>2
        <5> QED
          BY <5>1, <5>2
      <4> QED
        BY <3>1, <4>1, <4>2
    <3> QED
      BY <3>1, <3>2
  <2>5. CASE EnqueuePanics(c)
    BY <2>5 DEF EnqueuePanics, callVars
  <2>6. ASSUME NEW q \in QoSs, Start(c, q) PROVE InflightOwned'
    BY <1>0, <2>2, <2>6 DEF Start, sharedVars
  <2>7. CASE TakePid(c) \/ RefuseCall(c) \/ LockPublisher(c) \/ EnqueueFails(c)
    BY <1>0, <2>2, <2>7 DEF TakePid, RefuseCall, LockPublisher, EnqueueFails, sharedVars
  <2>8. CASE Timeout(c) \/ Cancel(c)
    <3>1. /\ inflight_pub' = IF pc[c] \in Waiting THEN inflight_pub \ {pid[c]} ELSE inflight_pub
          /\ UNCHANGED <<pid, qos>>
          /\ pc' \in {[pc EXCEPT ![c] = "connecting"], [pc EXCEPT ![c] = "failed"]}
      BY <2>8 DEF Timeout, Cancel, DropAttempt, OnDrop
    <3> QED
      BY <1>0, <2>2, <3>1 DEF Waiting
  <2> QED
    BY <2>1, <2>3, <2>4, <2>5, <2>6, <2>7, <2>8 DEF Proceed
<1>2. CASE PeerStep
  <2>1. inflight_pub' \subseteq inflight_pub
    BY <1>2, PeerEffect DEF Shrinks, Transmit, HandlePubRec, MoveToRel, BrokerReceive, sharedVars
  <2> QED
    BY <1>2, <2>1, PeerFootprint DEF InflightOwned, callVars
<1>3. CASE UNCHANGED vars
  BY <1>3 DEF vars, sharedVars, callVars, InflightOwned
<1> QED
  BY <1>1, <1>2, <1>3, Steps

\* SetsInv is inductive, given Types and StackInv.
LEMMA SetsInvariance == Spec => [](Types /\ InboundInv /\ SetsInv)
<1>1. Init => SetsInv
  BY DEF Init, SetsInv, OutgoingInTx, InflightOwned
<1>2. Types /\ InboundInv /\ SetsInv /\ [Next]_vars => SetsInv'
  BY OutgoingInTxStep, InflightOwnedStep DEF SetsInv, InboundInv
<1> QED
  BY <1>1, <1>2, InboundInvariance, PTL DEF Spec

\* Whatever waits to be transmitted is in the channel, so the stack gets to it:
\* no path through send(), the OnDrop of wait_publish_tx(), Shared::reset() or
\* the transmit branch leaves an id in outgoing_pid behind.
THEOREM OutgoingIsQueued == Spec => []OutgoingQueued
<1>1. Types /\ SetsInv => OutgoingQueued
  <2> SUFFICES ASSUME Types, SetsInv, ~panicked, NEW p \in outgoing_pid
               PROVE  \E i \in DOMAIN tx : tx[i].pid = p
    BY DEF OutgoingQueued
  <2>1. PICK f \in Elems(tx) : f.pid = p
    BY DEF SetsInv, OutgoingInTx, IdsOf, QueuedFrames
  <2>2. PICK i \in 1..Len(tx) : tx[i] = f
    BY <2>1 DEF Elems
  <2>3. DOMAIN tx = 1..Len(tx)
    BY LenProperties DEF Types, NetTypes
  <2> QED
    BY <2>1, <2>2, <2>3
<1> QED
  BY <1>1, SetsInvariance, PTL

-----------------------------------------------------------------------------
(* Packet ids, when none is handed out while it is in use *)

\* No id was taken yet.
LEMMA IdInit == Init => IdInv
<1> SUFFICES ASSUME Init PROVE IdInv
  OBVIOUS
<1>1. QueuedFrames = {} /\ SentFrames = {} /\ AckIds = {} /\ RecIds = {} /\ Distinct(tx, Frames)
  BY ElemsEmpty DEF Init, QueuedFrames, SentFrames, AckIds, RecIds
<1> QED
  BY <1>1 DEF Init, IdInv, OwnIds, FramesOwned, QueuedOnce, AnswersTrue, RelOwned,
              RelApart, IdsOf

\* Losing frames, packets and ids breaks nothing.
LEMMA ShrinksKeeps ==
  ASSUME Types, IdInv, Shrinks, UNCHANGED callVars
  PROVE  IdInv'
<1>0. /\ IdsOf(QueuedFrames)' \subseteq IdsOf(QueuedFrames)
      /\ IdsOf(SentFrames)' \subseteq IdsOf(SentFrames)
      /\ outgoing_pid' \subseteq outgoing_pid
  BY DEF Shrinks, IdsOf
<1> USE <1>0 DEF callVars, Shrinks, IdInv
<1>1. OwnIds'
  BY DEF OwnIds, Unused
<1>2. FramesOwned'
  BY DEF FramesOwned
<1>3. QueuedOnce'
  BY DEF QueuedOnce
<1>4. AnswersTrue' /\ RelOwned' /\ RelApart'
  BY DEF AnswersTrue, Decided, RelOwned, RelApart
<1> QED
  BY <1>1, <1>2, <1>3, <1>4

\* A frame becomes a packet.
LEMMA TransmitKeeps ==
  ASSUME Types, IdInv, Transmit
  PROVE  IdInv'
<1> DEFINE h == Head(tx)
<1>1. /\ tx # <<>> /\ ReleaseFrame /\ outgoing_pid' \subseteq outgoing_pid
      /\ UNCHANGED <<callVars, inflight_pub, outgoing_rel, session, received, rejected, panicked>>
      /\ (h = EmptyFrame => UNCHANGED uplink)
  BY DEF Transmit, brokerVars
<1>2. /\ QueuedFrames' \subseteq QueuedFrames
      /\ h \in Frames \cup {EmptyFrame}
      /\ h \in Frames => h \in QueuedFrames
      /\ Distinct(tx', Frames) /\ h \notin QueuedFrames'
  BY <1>1, ReleaseViews DEF IdInv, QueuedOnce
<1>3. /\ SentFrames' \subseteq SentFrames \cup (QueuedFrames \ QueuedFrames')
      /\ UNCHANGED <<AckIds, RecIds>>
  BY <1>1, <1>2, TransmitViews, SameViews
<1> HIDE DEF h
<1>4. /\ IdsOf(QueuedFrames)' \subseteq IdsOf(QueuedFrames)
      /\ IdsOf(SentFrames)' \subseteq IdsOf(SentFrames) \cup IdsOf(QueuedFrames)
  BY <1>2, <1>3 DEF IdsOf
<1> USE <1>1, <1>2, <1>3, <1>4 DEF callVars, IdInv
<1>5. OwnIds'
  BY DEF OwnIds, Unused
<1>6. FramesOwned'
  BY DEF FramesOwned
<1>7. QueuedOnce'
  BY DEF QueuedOnce, IdsOf
<1>8. AnswersTrue' /\ RelOwned' /\ RelApart'
  BY DEF AnswersTrue, Decided, RelOwned, RelApart
<1> QED
  BY <1>5, <1>6, <1>7, <1>8

\* A PUBREC for an id in inflight_pub is about a QoS 2 call that still waits.
LEMMA PubRecKeeps ==
  ASSUME Types, SetsInv, IdInv, HandlePubRec
  PROVE  IdInv'
<1>1. /\ Consume /\ downlink # <<>> /\ Head(downlink).type = "PubRec" /\ Reply("PubRel")
      /\ Id \in inflight_pub /\ ~panicked
      /\ inflight_pub' = inflight_pub \ {Id} /\ outgoing_rel' = outgoing_rel \cup {Id}
      /\ UNCHANGED <<callVars, tx, session, received, rejected, panicked, outgoing_pid>>
  BY DEF HandlePubRec, Receive, StackAt, MoveToRel, brokerVars
<1>2. Id \in AckIds /\ Id \in RecIds /\ AckIds' \subseteq AckIds /\ RecIds' \subseteq RecIds
  BY <1>1, HandlerViews
<1>3. UNCHANGED <<QueuedFrames, SentFrames>>
  BY <1>1, ReplyViews, SameViews
<1>4. UNCHANGED <<IdsOf(QueuedFrames), IdsOf(SentFrames)>>
  BY <1>3 DEF IdsOf
<1>5. PICK c \in Calls : pc[c] \in {"tx", "ack"} /\ pid[c] = Id /\ qos[c] > 0
  BY <1>1 DEF SetsInv, InflightOwned
<1>6. qos[c] = 2
  BY <1>2, <1>5 DEF IdInv, AnswersTrue
<1>7. Id \notin outgoing_pid
  BY <1>1, <1>2 DEF SetsInv, OutgoingInTx, IdInv, QueuedOnce
<1> USE <1>1, <1>2, <1>3, <1>4 DEF callVars, IdInv
<1>8. OwnIds'
  BY DEF OwnIds, Unused
<1>9. FramesOwned'
  BY DEF FramesOwned
<1>10. QueuedOnce'
  BY DEF QueuedOnce
<1>11. AnswersTrue'
  BY DEF AnswersTrue, Decided
<1>12. RelOwned'
  BY <1>5, <1>6 DEF RelOwned, Waiting
<1>13. RelApart'
  BY <1>7 DEF RelApart
<1> QED
  BY <1>8, <1>9, <1>10, <1>11, <1>12, <1>13

\* A packet becomes a delivery, an answer or both.
LEMMA BrokerKeeps ==
  ASSUME Types, IdInv, BrokerReceive
  PROVE  IdInv'
<1>0. UNCHANGED <<callVars, tx, panicked, inflight_pub, outgoing_pid, outgoing_rel>>
  BY DEF BrokerReceive, sharedVars
<1>1. SentFrames' \subseteq SentFrames /\ UNCHANGED QueuedFrames
  BY <1>0, BrokerViews, SameViews
<1>2. IdsOf(SentFrames)' \subseteq IdsOf(SentFrames) /\ UNCHANGED IdsOf(QueuedFrames)
  BY <1>1 DEF IdsOf
<1>3. CASE session' \subseteq session /\ UNCHANGED <<received, rejected, AckIds, RecIds>>
  BY <1>0, <1>1, <1>3, ShrinksKeeps DEF Shrinks
<1>4. ASSUME NEW f \in SentFrames,
             Decides(f),
             session' \subseteq session \cup {f.pid},
             AckIds' \subseteq AckIds \cup {f.pid},
             IF f.qos = 2 THEN RecIds' \subseteq RecIds \cup {f.pid}
                          ELSE UNCHANGED <<RecIds, session>>
      PROVE  IdInv'
  <2>1. /\ received \in [Calls -> Nat] /\ f.call \in Calls /\ f.pid \in IdsOf(SentFrames)
        /\ RecIds \subseteq AckIds
    BY DEF Types, OtherTypes, SentFrames, Frames, IdsOf, AckIds
  <2>2. \A c \in Calls : /\ Decided(c) => Decided(c)'
                         /\ pid[c] = f.pid => Decided(c)'
    <3>1. ASSUME NEW c \in Calls, pid[c] = f.pid PROVE c = f.call /\ qos[c] = f.qos
      BY <3>1 DEF IdInv, FramesOwned
    <3>2. CASE f.qos = 2 /\ f.pid \in session /\ UNCHANGED <<received, rejected>>
      BY <3>2 DEF IdInv, AnswersTrue, Decided
    <3>3. CASE received' = [received EXCEPT ![f.call] = received[f.call] + 1] /\ UNCHANGED rejected
      BY <2>1, <3>1, <3>3 DEF Decided
    <3>4. CASE rejected' = rejected \cup {f.call} /\ UNCHANGED received
      BY <3>1, <3>4 DEF Decided
    <3> QED
      BY <1>4, <3>2, <3>3, <3>4 DEF Decides
  <2> USE <1>0, <1>1, <1>2, <1>4, <2>1 DEF callVars, IdInv
  <2>3. OwnIds'
    BY DEF OwnIds, Unused
  <2>4. FramesOwned'
    BY DEF FramesOwned
  <2>5. QueuedOnce'
    BY DEF QueuedOnce
  <2>6. AnswersTrue'
    <3>1. \A p \in session' \cup AckIds' \cup outgoing_rel' :
            p = f.pid \/ p \in session \cup AckIds \cup outgoing_rel
      OBVIOUS
    <3>2. \A p \in session' \cup AckIds' \cup outgoing_rel' :
            \A c \in Calls : pid'[c] = p => Decided(c)'
      BY <2>2, <3>1 DEF AnswersTrue
    <3>3. \A p \in RecIds' : \A c \in Calls : pid'[c] = p => qos'[c] = 2
      BY DEF AnswersTrue, FramesOwned
    <3> QED
      BY <3>2, <3>3 DEF AnswersTrue
  <2>7. RelOwned' /\ RelApart'
    BY DEF RelOwned, RelApart
  <2> QED
    BY <2>3, <2>4, <2>5, <2>6, <2>7
<1> QED
  BY <1>3, <1>4, BrokerViews

\* Whatever else a call does, ids, frames and sets stay or shrink, and it has
\* left "locking" and "granting" or was there before.
LEMMA CallMoves ==
  ASSUME Types, IdInv, NEW c \in Calls, CallTypes',
         \A d \in Calls \ {c} : pc'[d] = pc[d] /\ qos'[d] = qos[d],
         UNCHANGED <<pid, QueuedFrames, SentFrames, AckIds, RecIds, session, received, rejected, panicked>>,
         pc'[c] # "new", qos'[c] = qos[c] \/ pid[c] = 0,
         pc'[c] \in {"locking", "granting"} => pc[c] \in {"locking", "granting"},
         Distinct(tx, Frames) => Distinct(tx', Frames),
         inflight_pub' \subseteq inflight_pub, outgoing_pid' \subseteq outgoing_pid,
         outgoing_rel' \subseteq outgoing_rel,
         pid[c] \in outgoing_rel' => pc'[c] \in Waiting
  PROVE  IdInv'
<1>0. /\ UNCHANGED <<IdsOf(QueuedFrames), IdsOf(SentFrames)>>
      /\ 0 \notin Pids
      /\ RecIds \subseteq Pids
      /\ \A f \in QueuedFrames \cup SentFrames : f.pid \in Pids
  BY DEF IdsOf, RecIds, QueuedFrames, SentFrames, Frames, Pids
<1>1. \A p \in Pids : \A d \in Calls : pid[d] = p => qos'[d] = qos[d]
  BY <1>0
<1> USE <1>0 DEF IdInv
<1>2. OwnIds'
  BY DEF OwnIds, Unused
<1>3. FramesOwned'
  BY <1>1 DEF FramesOwned
<1>4. QueuedOnce'
  BY DEF QueuedOnce
<1>5. AnswersTrue'
  BY <1>1 DEF AnswersTrue, Decided
<1>6. RelOwned'
  <2>1. ASSUME NEW p \in outgoing_rel'
        PROVE  \E d \in Calls : pc'[d] \in Waiting /\ pid'[d] = p /\ qos'[d] = 2
    <3>1. PICK d \in Calls : pc[d] \in Waiting /\ pid[d] = p /\ qos[d] = 2
      BY DEF RelOwned
    <3>2. pc'[d] \in Waiting
      BY <3>1
    <3>3. p \in Pids
      BY DEF Types, SharedTypes
    <3> QED
      BY <1>1, <3>1, <3>2, <3>3
  <2> QED
    BY <2>1 DEF RelOwned
<1>7. RelApart'
  BY DEF RelApart
<1> QED
  BY <1>2, <1>3, <1>4, <1>5, <1>6, <1>7

\* A call takes the next id, and FreshStep makes it the only one to know it.
LEMMA TakePidKeeps ==
  ASSUME Types, SetsInv, IdInv, NEW c \in Calls, TakePid(c), FreshStep
  PROVE  IdInv'
<1>1. /\ pc[c] = "connecting" /\ ~panicked
      /\ pc' = [pc EXCEPT ![c] = "locking"]
      /\ pid' = [pid EXCEPT ![c] = NextPid(last_pid)]
      /\ UNCHANGED <<qos, session, received, rejected, panicked, tx, netVars,
                     inflight_pub, outgoing_pid, outgoing_rel>>
  BY DEF TakePid, At, Goto, brokerVars
<1>2. UNCHANGED <<QueuedFrames, SentFrames, AckIds, RecIds>>
  BY <1>1, SameViews DEF netVars
<1>3. UNCHANGED <<IdsOf(QueuedFrames), IdsOf(SentFrames)>>
  BY <1>2 DEF IdsOf
<1> DEFINE new == NextPid(last_pid)
<1>4. /\ pc \in [Calls -> {"new", "connecting", "locking", "granting"} \cup Waiting \cup Done]
      /\ pid \in [Calls -> {0} \cup Pids]
  BY DEF Types, CallTypes
<1>5. new \in Pids /\ new \notin IdsInUse
  BY PidMaxAssumption DEF FreshStep, NextPid, Types, SharedTypes, Pids
<1> HIDE DEF new
<1>6. /\ \A d \in Calls : pid[d] # new
      /\ new \notin session \cup IdsOf(QueuedFrames) \cup IdsOf(SentFrames) \cup AckIds
  BY <1>5 DEF IdsInUse
<1>7. new \notin inflight_pub \cup outgoing_pid \cup outgoing_rel
  BY <1>1, <1>6 DEF SetsInv, OutgoingInTx, InflightOwned, IdInv, RelOwned
<1>8. /\ pid'[c] = new /\ pc'[c] = "locking"
      /\ \A d \in Calls \ {c} : pid'[d] = pid[d] /\ pc'[d] = pc[d]
  BY <1>1, <1>4 DEF new
<1>9. /\ \A f \in QueuedFrames \cup SentFrames : f.pid # new
      /\ RecIds \subseteq AckIds
  BY <1>6 DEF IdsOf, AckIds
<1> USE <1>1, <1>2, <1>3, <1>6, <1>7, <1>8, <1>9 DEF IdInv
<1>10. OwnIds'
  <2>1. \A d, e \in Calls : pid'[d] = pid'[e] /\ pid'[d] # 0 => d = e
    BY DEF OwnIds
  <2>2. \A d \in Calls : pc'[d] = "new" => pid'[d] = 0
    BY DEF OwnIds
  <2>3. \A d \in Calls : pc'[d] \in {"locking", "granting"} /\ ~panicked' => Unused(pid[d])' \/ d = c
    BY DEF OwnIds, Unused
  <2>4. Unused(pid[c])'
    BY DEF Unused
  <2> QED
    BY <2>1, <2>2, <2>3, <2>4 DEF OwnIds
<1>11. FramesOwned'
  BY DEF FramesOwned
<1>12. QueuedOnce'
  BY DEF QueuedOnce
<1>13. AnswersTrue'
  BY DEF AnswersTrue, Decided
<1>14. RelOwned'
  <2>1. ASSUME NEW p \in outgoing_rel'
        PROVE  \E d \in Calls : pc'[d] \in Waiting /\ pid'[d] = p /\ qos'[d] = 2
    <3>1. PICK d \in Calls : pc[d] \in Waiting /\ pid[d] = p /\ qos[d] = 2
      BY DEF RelOwned
    <3>2. d # c
      BY <3>1 DEF Waiting
    <3> QED
      BY <3>1, <3>2
  <2> QED
    BY <2>1 DEF RelOwned
<1>15. RelApart'
  BY DEF RelApart
<1> QED
  BY <1>10, <1>11, <1>12, <1>13, <1>14, <1>15

\* A call commits its frame.
LEMMA EnqueueKeeps ==
  ASSUME Types, SetsInv, IdInv, NEW c \in Calls, Enqueue(c)
  PROVE  IdInv'
<1> DEFINE f == Frame(c)
<1>1. /\ pc[c] = "granting" /\ ~panicked
      /\ pc' = [pc EXCEPT ![c] = "tx"]
      /\ inflight_pub' \subseteq inflight_pub \cup {pid[c]}
      /\ outgoing_pid' = outgoing_pid \cup {pid[c]}
      /\ UNCHANGED <<qos, pid, session, received, rejected, panicked, netVars, outgoing_rel>>
  BY DEF Enqueue, At, Goto, brokerVars
<1>2. UNCHANGED <<SentFrames, AckIds, RecIds>>
  BY <1>1, SameViews DEF netVars
<1>3. /\ f \in Frames /\ pid[c] \in Pids /\ f.pid = pid[c]
      /\ f.call = c /\ f.qos = qos[c]
      /\ QueuedFrames' = QueuedFrames \cup {f}
      /\ Distinct(tx, Frames) /\ f \notin QueuedFrames => Distinct(tx', Frames)
  BY EnqueueTx
<1> HIDE DEF f
<1>4. Unused(pid[c])
  BY <1>1 DEF IdInv, OwnIds
<1>5. \A g \in QueuedFrames : g.pid # pid[c]
  BY <1>4 DEF Unused, IdsOf
<1>6. /\ IdsOf(QueuedFrames)' = IdsOf(QueuedFrames) \cup {pid[c]}
      /\ UNCHANGED IdsOf(SentFrames)
  BY <1>2, <1>3 DEF IdsOf
<1>7. /\ pc'[c] = "tx" /\ \A d \in Calls \ {c} : pc'[d] = pc[d]
      /\ \A d \in Calls \ {c} : pid[d] # pid[c]
  BY <1>1, <1>3 DEF Types, CallTypes, IdInv, OwnIds, Pids
<1> USE <1>1, <1>2, <1>3, <1>6, <1>7 DEF IdInv
<1>8. OwnIds'
  <2>1. \A d, e \in Calls : pid'[d] = pid'[e] /\ pid'[d] # 0 => d = e
    BY DEF OwnIds
  <2>2. \A d \in Calls : pc'[d] = "new" => pid'[d] = 0
    BY DEF OwnIds
  <2>3. \A d \in Calls : pc'[d] \in {"locking", "granting"} /\ ~panicked' => Unused(pid[d])'
    BY DEF OwnIds, Unused
  <2> QED
    BY <2>1, <2>2, <2>3 DEF OwnIds
<1>9. FramesOwned'
  BY DEF FramesOwned
<1>10. QueuedOnce'
  <2>1. Distinct(tx', Frames)
    BY <1>5 DEF QueuedOnce
  <2>2. \A g, h \in QueuedFrames' : g.pid = h.pid => g = h
    BY <1>5 DEF QueuedOnce
  <2>3. IdsOf(QueuedFrames)' \cap (IdsOf(SentFrames)' \cup AckIds' \cup outgoing_rel') = {}
    BY <1>4, ZenonT(60) DEF QueuedOnce, Unused
  <2> QED
    BY <2>1, <2>2, <2>3 DEF QueuedOnce
<1>11. AnswersTrue'
  BY DEF AnswersTrue, Decided
<1>12. RelOwned'
  BY DEF RelOwned, Waiting
<1>13. RelApart'
  BY <1>4 DEF RelApart, Unused
<1> QED
  BY <1>8, <1>9, <1>10, <1>11, <1>12, <1>13

\* The id is in outgoing_pid before the insert into inflight_pub fails.
LEMMA EnqueuePanicsKeeps ==
  ASSUME Types, IdInv, NEW c \in Calls, EnqueuePanics(c)
  PROVE  IdInv'
<1>1. /\ pc[c] = "granting" /\ ~panicked
      /\ outgoing_pid' = outgoing_pid \cup {pid[c]}
      /\ UNCHANGED <<callVars, tx, session, received, rejected, netVars, inflight_pub, outgoing_rel>>
  BY DEF EnqueuePanics, At, brokerVars
<1>2. panicked'
  BY Zenon DEF EnqueuePanics
<1>3. UNCHANGED <<QueuedFrames, SentFrames, AckIds, RecIds>>
  BY <1>1, SameViews DEF netVars
<1>4. UNCHANGED <<IdsOf(QueuedFrames), IdsOf(SentFrames)>>
  BY <1>3 DEF IdsOf
<1>5. pid[c] \notin outgoing_rel
  BY <1>1 DEF IdInv, OwnIds, Unused
<1> USE <1>1, <1>2, <1>3, <1>4, <1>5 DEF IdInv, callVars
<1>6. OwnIds' /\ FramesOwned' /\ QueuedOnce'
  BY DEF OwnIds, FramesOwned, QueuedOnce
<1>7. AnswersTrue' /\ RelOwned' /\ RelApart'
  BY DEF AnswersTrue, Decided, RelOwned, RelApart
<1> QED
  BY <1>6, <1>7

\* No step that takes a fresh id breaks IdInv.
LEMMA IdStep ==
  ASSUME Types, StackInv, SetsInv, IdInv, [Next]_vars, [FreshStep]_vars
  PROVE  IdInv'
<1>0. CallTypes'
  BY CallTypesStep
<1>1. CASE CallStep
  <2>1. PICK c \in Calls : Proceed(c) \/ Cancel(c)
    BY <1>1 DEF CallStep
  <2>2. UNCHANGED <<session, received, rejected>>
    BY <1>1, CallFootprint DEF brokerVars
  <2>3. /\ outgoing_rel' \subseteq outgoing_rel
        /\ UNCHANGED <<SentFrames, AckIds, RecIds>>
    BY <2>1, CallSets, CallTx
  <2>4. ASSUME ~(Enqueue(c) \/ EnqueuePanics(c))
        PROVE  /\ outgoing_pid' \subseteq outgoing_pid /\ inflight_pub' \subseteq inflight_pub
               /\ UNCHANGED QueuedFrames /\ (Distinct(tx, Frames) => Distinct(tx', Frames))
    BY <2>1, <2>4, CallSets, CallTx
  <2>5. /\ pc \in [Calls -> {"new", "connecting", "locking", "granting"} \cup Waiting \cup Done]
        /\ qos \in [Calls -> 0..2]
    BY DEF Types, CallTypes
  \* A call moves that does not own an id of outgoing_rel afterwards.
  <2>6. ASSUME ~(Enqueue(c) \/ EnqueuePanics(c)), UNCHANGED <<pid, qos, panicked>>,
               NEW place \in {"connecting", "granting", "ack", "rel", "ok", "failed"},
               pc' = [pc EXCEPT ![c] = place], place = "granting" => pc[c] = "locking",
               place \in Waiting \/ pid[c] \notin outgoing_rel'
        PROVE  IdInv'
    <3>1. /\ \A d \in Calls \ {c} : pc'[d] = pc[d] /\ qos'[d] = qos[d]
          /\ pc'[c] = place /\ qos'[c] = qos[c]
      BY <2>5, <2>6
    <3> QED
      BY <1>0, <2>2, <2>3, <2>4, <2>6, <3>1, CallMoves
  <2>7. ASSUME pc[c] \notin Waiting PROVE pid[c] \notin outgoing_rel
    <3>1. ASSUME pid[c] \in outgoing_rel PROVE FALSE
      <4>1. PICK d \in Calls : pc[d] \in Waiting /\ pid[d] = pid[c]
        BY <3>1 DEF IdInv, RelOwned
      <4>2. pid[c] # 0
        BY <3>1 DEF Types, SharedTypes, Pids
      <4> QED
        BY <2>7, <4>1, <4>2 DEF IdInv, OwnIds
    <3> QED
      BY <3>1
  <2>8. ASSUME NEW q \in QoSs, Start(c, q) PROVE IdInv'
    <3>1. /\ pc[c] = "new" /\ pc' = [pc EXCEPT ![c] = "connecting"]
          /\ qos' = [qos EXCEPT ![c] = q] /\ UNCHANGED <<pid, panicked, tx>>
          /\ UNCHANGED <<inflight_pub, outgoing_pid, outgoing_rel>>
      BY <2>8 DEF Start, At, Goto, sharedVars
    <3>2. /\ \A d \in Calls \ {c} : pc'[d] = pc[d] /\ qos'[d] = qos[d]
          /\ pc'[c] = "connecting"
      BY <2>5, <3>1
    <3>3. pid[c] = 0 /\ pid[c] \notin outgoing_rel
      BY <2>7, <3>1 DEF IdInv, OwnIds, Waiting
    <3> QED
      BY <1>0, <2>2, <2>3, <3>1, <3>2, <3>3, SameViews, CallMoves
  <2>9. CASE TakePid(c)
    <3>1. FreshStep
      <4>1. pc'[c] # pc[c]
        BY <2>5, <2>9 DEF TakePid, At, Goto
      <4> QED
        BY <4>1 DEF vars, callVars
    <3> QED
      BY <2>9, <3>1, TakePidKeeps
  <2>10. CASE Enqueue(c)
    BY <2>10, EnqueueKeeps
  <2>11. CASE EnqueuePanics(c)
    BY <2>11, EnqueuePanicsKeeps
  <2>12. CASE ~(Enqueue(c) \/ EnqueuePanics(c)) /\
              (RefuseCall(c) \/ EnqueueFails(c))
    <3>1. /\ pc[c] \notin Waiting /\ UNCHANGED <<pid, qos, panicked>>
          /\ pc' \in {[pc EXCEPT ![c] = "connecting"], [pc EXCEPT ![c] = "failed"]}
      BY <2>12 DEF RefuseCall, EnqueueFails, At, Retry, Goto, Waiting
    <3> QED
      BY <2>3, <2>6, <2>7, <2>12, <3>1
  <2>13. CASE ~(Enqueue(c) \/ EnqueuePanics(c)) /\ (Timeout(c) \/ Cancel(c))
    <3>1. /\ pc[c] \in Waiting => pid[c] \notin outgoing_rel'
          /\ UNCHANGED <<pid, qos, panicked>>
          /\ pc' \in {[pc EXCEPT ![c] = "connecting"], [pc EXCEPT ![c] = "failed"]}
      BY <2>13 DEF Timeout, Cancel, DropAttempt, OnDrop, Retry, Goto
    <3> QED
      BY <2>3, <2>6, <2>7, <2>13, <3>1
  <2>14. CASE ~(Enqueue(c) \/ EnqueuePanics(c)) /\ LockPublisher(c)
    <3>1. /\ pc[c] = "locking" /\ pc' = [pc EXCEPT ![c] = "granting"]
          /\ UNCHANGED <<pid, qos, panicked>>
      BY <2>14 DEF LockPublisher, At, Goto
    <3> QED
      BY <2>3, <2>6, <2>7, <2>14, <3>1 DEF Waiting
  <2>15. CASE ~(Enqueue(c) \/ EnqueuePanics(c)) /\ WaitStep(c)
    <3>1. PICK place \in {"ok", "ack", "rel"} :
            /\ pc' = [pc EXCEPT ![c] = place]
            /\ place = "ok" => qos[c] # 2 \/ pid[c] \notin outgoing_rel
            /\ pc[c] \in Waiting
            /\ UNCHANGED <<pid, qos, panicked, outgoing_rel>>
      BY <2>15 DEF WaitStep, At, Goto, Completed, Waiting, sharedVars
    <3>2. pid[c] \in outgoing_rel => qos[c] = 2
      <4>1. ASSUME pid[c] \in outgoing_rel PROVE qos[c] = 2
        <5>1. PICK d \in Calls : pid[d] = pid[c] /\ qos[d] = 2
          BY <4>1 DEF IdInv, RelOwned
        <5>2. pid[c] # 0
          BY <4>1 DEF Types, SharedTypes, Pids
        <5> QED
          BY <5>1, <5>2 DEF IdInv, OwnIds
      <4> QED
        BY <4>1
    <3> QED
      BY <2>6, <2>15, <3>1, <3>2 DEF Waiting
  <2> QED
    BY <2>1, <2>8, <2>9, <2>10, <2>11, <2>12, <2>13, <2>14, <2>15 DEF Proceed
<1>2. CASE Shrinks /\ PeerStep
  BY <1>2, PeerFootprint, ShrinksKeeps
<1>3. CASE Transmit
  BY <1>3, TransmitKeeps
<1>4. CASE HandlePubRec
  BY <1>4, PubRecKeeps
<1>5. CASE BrokerReceive
  BY <1>5, BrokerKeeps
<1>6. CASE UNCHANGED vars
  <2>1. Shrinks /\ UNCHANGED callVars
    BY <1>6, SameViews DEF Shrinks, vars, sharedVars, callVars, netVars, brokerVars
  <2> QED
    BY <2>1, ShrinksKeeps
<1> QED
  BY <1>1, <1>2, <1>3, <1>4, <1>5, <1>6, Steps, PeerEffect

\* IdInv is inductive, given SetsInv, as long as ids are fresh.
LEMMA IdInvariance == Spec /\ FreshIds => [](Types /\ InboundInv /\ SetsInv /\ IdInv)
<1>1. Init => IdInv
  BY IdInit
<1>2. Types /\ InboundInv /\ SetsInv /\ IdInv /\ [Next]_vars /\ [FreshStep]_vars => IdInv'
  BY IdStep DEF InboundInv
<1> QED
  BY <1>1, <1>2, SetsInvariance, PTL DEF Spec, FreshIds

\* No packet id outlives its call in inflight_pub or outgoing_rel, however the
\* call ends and whatever becomes of the connection: what the OnDrop of
\* wait_publish_tx(), the handlers and Shared::reset() remove is enough.
THEOREM PidsAreOwned == Spec /\ FreshIds => []PidsOwned
<1>1. Types /\ SetsInv /\ IdInv => PidsOwned
  <2> SUFFICES ASSUME Types, SetsInv, IdInv
               PROVE  \A p \in inflight_pub \cup outgoing_rel :
                        \E c \in Calls : pc[c] \in Waiting /\ pid[c] = p /\ qos[c] > 0
    BY TypesImplyTypeOK DEF PidsOwned
  <2> QED
    BY DEF SetsInv, InflightOwned, IdInv, RelOwned, Waiting
<1> QED
  BY <1>1, IdInvariance, PTL

\* Only a message that the broker has answered, by taking or refusing it, is
\* released, and then its id is in neither of the sets for the stages before.
\* (handle_pub_rec() does not look at the reason code, so it is also released
\* when the broker has refused it.)
THEOREM ReleasedAreAnswered == Spec /\ FreshIds => []ReleasedIsAnswered
<1>1. IdInv => ReleasedIsAnswered
  BY DEF IdInv, AnswersTrue, RelApart, ReleasedIsAnswered
<1> QED
  BY <1>1, IdInvariance, PTL

-----------------------------------------------------------------------------
(* publish() returns Ok *)

\* The connection is not given up.
KeptStep       == connected # "no" => connected' # "no"
ConnectionLasts == [][KeptStep]_vars

\* An id that has left inflight_pub was acknowledged.
AckInv ==
  \A c \in Calls : qos[c] > 0 =>
    /\ pc[c] \in {"tx", "ack"} /\ pid[c] \notin inflight_pub => Decided(c)
    /\ pc[c] \in {"rel", "ok"} => Decided(c)

\* Nobody else removes an id from inflight_pub on a connection that lasts.
LEMMA PeerAcks ==
  ASSUME Types, StackInv, IdInv, PeerStep, KeptStep, NEW c \in Calls,
         pid[c] \in inflight_pub, pid[c] \notin inflight_pub'
  PROVE  Decided(c)
<1>1. CASE HandlePubAck \/ HandlePubRec \/ HandlePubRecPanics
  <2>1. /\ downlink # <<>> /\ Head(downlink).type \in {"PubAck", "PubRec"}
        /\ inflight_pub' = inflight_pub \ {Id}
    BY <1>1 DEF HandlePubAck, HandlePubRec, HandlePubRecPanics, Receive, MoveToRel
  <2>2. Id \in AckIds
    <3>1. Head(downlink) \in DownPackets /\ Head(downlink) \in Elems(downlink)
      BY <2>1, ElemsTail DEF Types, NetTypes
    <3>2. /\ Id \in Pids /\ Head(downlink).reason \in Reasons
          /\ Head(downlink) = Verdict(Head(downlink).type, Id, Head(downlink).reason)
      BY <2>1, <3>1 DEF DownPackets, Verdict, Id
    <3> QED
      BY <2>1, <3>1, <3>2 DEF AckIds, RecIds
  <2> QED
    BY <2>1, <2>2 DEF IdInv, AnswersTrue
<1>2. CASE Disconnect \/ TransmitFails \/ StackNotices \/ Unsolicited
  <2>1. connected' = "no" /\ stack = "up"
    BY <1>2 DEF Disconnect, TransmitFails, StackNotices, Unsolicited, Receive, StackAt,
                Reset, ResetShared
  <2> QED
    BY <2>1 DEF KeptStep, StackInv
<1>3. CASE \/ Connect \/ ConnectFails \/ LinkLost \/ BrokerForgets \/ BrokerReceive
           \/ \E m \in Inbound : BrokerSend(m)
  BY <1>3 DEF Connect, ConnectFails, LinkLost, BrokerForgets, BrokerReceive, BrokerSend, sharedVars
<1>4. CASE \/ Transmit \/ HandlePublish1 \/ HandlePublish2 \/ HandlePublish2Panics
           \/ DiscardPublish \/ HandlePubComp \/ HandlePubRel
  BY <1>4 DEF Transmit, HandlePublish1, HandlePublish2, HandlePublish2Panics,
              DiscardPublish, HandlePubComp, HandlePubRel, sharedVars
<1> QED
  BY <1>1, <1>2, <1>3, <1>4 DEF PeerStep, Select

\* What the broker has decided stays so.
LEMMA DecidedStays ==
  ASSUME Types, [Next]_vars, NEW c \in Calls, Decided(c)
  PROVE  Decided(c)'
<1>0. received \in [Calls -> Nat]
  BY DEF Types, OtherTypes
<1>1. CASE BrokerReceive
  <2>1. /\ received' = received \/ \E d : received' = [received EXCEPT ![d] = @ + 1]
        /\ rejected \subseteq rejected'
    BY <1>1, BrokerViews DEF Decides
  <2> QED
    BY <1>0, <2>1 DEF Decided
<1>2. CASE UNCHANGED <<received, rejected>>
  BY <1>2 DEF Decided
<1>3. CASE \/ Connect \/ ConnectFails \/ Disconnect
           \/ LinkLost \/ BrokerForgets \/ \E m \in Inbound : BrokerSend(m)
  BY <1>2, <1>3 DEF Connect, ConnectMqtt, BrokerConnect, ConnectFails, Disconnect, LinkLost,
                    BrokerForgets, BrokerSend, brokerVars
<1>4. CASE Select
  BY <1>2, <1>4 DEF Select, Transmit, TransmitFails, StackNotices, HandlePublish1,
                    HandlePublish2, HandlePublish2Panics, DiscardPublish, HandlePubAck,
                    HandlePubRec, HandlePubRecPanics, HandlePubComp, HandlePubRel,
                    Unsolicited, brokerVars
<1> QED
  BY <1>1, <1>2, <1>3, <1>4, Steps, CallFootprint DEF PeerStep, brokerVars, vars

\* An id leaves inflight_pub by an acknowledgement only, while the connection
\* lasts.
LEMMA AckStep ==
  ASSUME Types, StackInv, IdInv, AckInv, [Next]_vars, [KeptStep]_vars
  PROVE  AckInv'
<1>0. /\ pc \in [Calls -> {"new", "connecting", "locking", "granting"} \cup Waiting \cup Done]
      /\ qos \in [Calls -> 0..2]
      /\ pid \in [Calls -> {0} \cup Pids]
  BY DEF Types, CallTypes
<1>1. CASE CallStep
  <2>1. PICK c \in Calls : Proceed(c) \/ Cancel(c)
    BY <1>1 DEF CallStep
  <2>2. UNCHANGED <<received, rejected>>
    BY <1>1, CallFootprint DEF brokerVars
  \* The other calls keep their ids in inflight_pub.
  <2>3. /\ \A d \in Calls \ {c} : pc'[d] = pc[d] /\ qos'[d] = qos[d] /\ pid'[d] = pid[d]
        /\ \A p \in inflight_pub : p # pid[c] => p \in inflight_pub'
    <3>1. CASE \/ \E q \in QoSs : Start(c, q)
               \/ TakePid(c) \/ RefuseCall(c) \/ LockPublisher(c) \/ WaitStep(c)
      BY <1>0, <3>1 DEF Start, TakePid, RefuseCall, LockPublisher, WaitStep, Retry, Goto, sharedVars
    <3>2. CASE Enqueue(c) \/ EnqueuePanics(c) \/ EnqueueFails(c)
      BY <1>0, <3>2 DEF Enqueue, EnqueuePanics, EnqueueFails, Retry, Goto,
                        sharedVars, callVars
    <3>3. CASE Timeout(c) \/ Cancel(c)
      BY <1>0, <3>3 DEF Timeout, Cancel, DropAttempt, OnDrop, Retry, Goto
    <3> QED
      BY <2>1, <3>1, <3>2, <3>3 DEF Proceed
  <2>4. ASSUME NEW d \in Calls \ {c}, pc[d] \in {"tx", "ack"} PROVE pid[d] # pid[c]
    <3>1. pid[d] # 0
      BY <2>4 DEF Types, CallTypes, Waiting, Pids
    <3> QED
      BY <3>1 DEF IdInv, OwnIds
  <2>5. qos'[c] > 0 => /\ pc'[c] \in {"tx", "ack"} /\ pid'[c] \notin inflight_pub' => Decided(c)
                       /\ pc'[c] \in {"rel", "ok"} => Decided(c)
    <3>1. CASE \/ \E q \in QoSs : Start(c, q)
               \/ TakePid(c) \/ RefuseCall(c) \/ LockPublisher(c)
               \/ EnqueueFails(c) \/ Timeout(c) \/ Cancel(c)
      <4>1. pc'[c] \in {"connecting", "locking", "granting", "failed"}
        BY <1>0, <3>1 DEF Start, TakePid, RefuseCall, LockPublisher, EnqueueFails,
                          Timeout, Cancel, Retry, Goto
      <4> QED
        BY <4>1
    <3>2. CASE Enqueue(c)
      BY <1>0, <3>2 DEF Enqueue, Goto
    <3>3. CASE EnqueuePanics(c)
      BY <3>3 DEF EnqueuePanics, callVars, AckInv
    <3>4. CASE WaitStep(c)
      <4>1. /\ UNCHANGED <<inflight_pub, pid, qos>>
            /\ \/ pc[c] = "tx" /\ pc' = [pc EXCEPT ![c] = IF qos[c] = 0 THEN "ok" ELSE "ack"]
               \/ pc[c] = "ack" /\ pid[c] \notin inflight_pub
                  /\ pc' = [pc EXCEPT ![c] = IF qos[c] = 2 THEN "rel" ELSE "ok"]
               \/ pc[c] = "rel" /\ pc' = [pc EXCEPT ![c] = "ok"]
        BY <3>4 DEF WaitStep, sharedVars, Acknowledged, At, Goto
      <4> QED
        BY <1>0, <4>1 DEF AckInv
    <3> QED
      BY <2>1, <3>1, <3>2, <3>3, <3>4 DEF Proceed
  <2>6. ASSUME NEW d \in Calls \ {c}, qos'[d] > 0
        PROVE  /\ pc'[d] \in {"tx", "ack"} /\ pid'[d] \notin inflight_pub' => Decided(d)
               /\ pc'[d] \in {"rel", "ok"} => Decided(d)
    BY <2>3, <2>4, <2>6 DEF AckInv
  <2> QED
    BY <2>2, <2>5, <2>6 DEF AckInv, Decided
<1>2. CASE PeerStep /\ ~UNCHANGED vars
  <2>1. UNCHANGED callVars
    BY <1>2, PeerFootprint
  <2>2. KeptStep
    BY <1>2
  <2>3. ASSUME NEW c \in Calls, qos[c] > 0
        PROVE  /\ pc[c] \in {"tx", "ack"} /\ pid[c] \notin inflight_pub' => Decided(c)'
               /\ pc[c] \in {"rel", "ok"} => Decided(c)'
    <3>1. Decided(c) => Decided(c)'
      BY DecidedStays
    <3>2. pid[c] \in inflight_pub /\ pid[c] \notin inflight_pub' => Decided(c)
      BY <1>2, <2>2, PeerAcks
    <3> QED
      BY <2>3, <3>1, <3>2 DEF AckInv
  <2> QED
    BY <2>1, <2>3 DEF AckInv, callVars
<1>3. CASE UNCHANGED vars
  BY <1>3 DEF vars, sharedVars, callVars, brokerVars, AckInv, Decided
<1> QED
  BY <1>1, <1>2, <1>3, Steps

\* While the connection lasts, publish() with QoS 1 or 2 returns Ok only when the
\* broker has answered this very message, and not for the answer to another one.
\* (Shared::reset() empties inflight_pub, which reads like an acknowledgement:
\* without the hypothesis this is refuted.  That the answer was a success, as the
\* doc says, is refuted as well: handle_pub_ack() only logs the reason code.)
THEOREM OkIsAnswered == Spec /\ FreshIds /\ ConnectionLasts => []OkMeansAnswered
<1>1. Init => AckInv
  BY DEF Init, AckInv
<1>2. Types /\ InboundInv /\ IdInv /\ AckInv /\ [Next]_vars /\ [KeptStep]_vars => AckInv'
  BY AckStep DEF InboundInv
<1>3. AckInv => OkMeansAnswered
  BY DEF AckInv, OkMeansAnswered
<1> QED
  BY <1>1, <1>2, <1>3, IdInvariance, PTL DEF Spec, ConnectionLasts

-----------------------------------------------------------------------------
(* The connection is kept *)

\* No QoS 2 publish() is given up before its PUBREC was handled.  One that is
\* leaves a frame or an answer behind whose id the client has forgotten.
PatientStep ==
  \A c \in Calls : qos[c] = 2 /\ pc[c] \in {"tx", "ack"} => ~Timeout(c) /\ ~Cancel(c)
Patient == [][PatientStep]_vars

\* The PUBLISH packets of publish(), and the broker's answers to them.
Publishes == {PublishOf(f) : f \in Frames}
Answers   == [type : {"PubAck", "PubRec"}, id : Pids, reason : Reasons]
Answered  == Elems(downlink) \cap Answers

\* The one connection is up or was not made yet, and then nothing was sent.
FirstConnection ==
  /\ stack = "up" => link
  /\ stack # "up" => \A m \in Inbound : outbox[m] = "new"

\* The client remembers every message that is to be released.
ReleasesKnown ==
  panicked \/ \A p \in Tokens : p.type \in {"PubRec", "PubRel"} => p.id \in incoming_pub

\* A frame is on its way once, and then not answered yet.
SentOnce ==
  /\ Distinct(uplink, Publishes)
  /\ \A f, g \in SentFrames : f.pid = g.pid => f = g
  /\ \A f \in SentFrames : \A a \in Answered : f.pid # a.id

\* It is answered once.
AnsweredOnce ==
  /\ Distinct(downlink, Answers)
  /\ \A a, b \in Answered : a.id = b.id => a = b

\* The client waits for every PUBREC that is on its way, or that will be.
AnswersAwaited ==
  panicked \/ /\ \A a \in Answered : a.type = "PubRec" => a.id \in inflight_pub
              /\ \A f \in QueuedFrames \cup SentFrames : f.qos = 2 => f.pid \in inflight_pub

\* The inductive invariant: nothing the broker sends is unsolicited.
KeptInv == FirstConnection /\ ReleasesKnown /\ SentOnce /\ AnsweredOnce /\ AnswersAwaited

\* Nothing was sent yet.
LEMMA KeptInit == Init => KeptInv
<1> SUFFICES ASSUME Init PROVE KeptInv
  OBVIOUS
<1>1. /\ QueuedFrames = {} /\ SentFrames = {} /\ Answered = {} /\ Tokens = {}
      /\ \A T : Distinct(uplink, T) /\ Distinct(downlink, T)
  BY ElemsEmpty DEF Init, QueuedFrames, SentFrames, Answered, Tokens
<1>2. FirstConnection
  BY DEF Init, FirstConnection
<1>3. ReleasesKnown /\ SentOnce /\ AnsweredOnce /\ AnswersAwaited
  BY <1>1 DEF ReleasesKnown, SentOnce, AnsweredOnce, AnswersAwaited
<1> QED
  BY <1>2, <1>3 DEF KeptInv

\* Answered and the ids of answers are two views of the same packets.
LEMMA AnsweredIds ==
  /\ \A a \in Answered : /\ a.id \in AckIds /\ a.id \in Pids
                         /\ a.type = "PubRec" => a.id \in RecIds
  /\ \A f \in QueuedFrames : f.pid \in IdsOf(QueuedFrames)
  /\ \A f \in SentFrames : f.pid \in IdsOf(SentFrames)
<1>1. \A a \in Answered :
        /\ a.type \in {"PubAck", "PubRec"} /\ a.id \in Pids /\ a.reason \in Reasons
        /\ a = Verdict(a.type, a.id, a.reason) /\ a \in Elems(downlink)
  BY DEF Answered, Answers, Verdict
<1>2. \A a \in Answered : a.id \in AckIds /\ (a.type = "PubRec" => a.id \in RecIds)
  BY <1>1 DEF AckIds, RecIds
<1> QED
  BY <1>1, <1>2 DEF IdsOf

\* A PUBREC or PUBREL that arrives names an id that the client remembers.
LEMMA NothingUnsolicited ==
  ASSUME Types, KeptInv
  PROVE  ~Unsolicited
<1> SUFFICES ASSUME Unsolicited PROVE FALSE
  OBVIOUS
<1>1. /\ downlink # <<>> /\ ~panicked
      /\ \/ Head(downlink).type = "PubRec" /\ Id \notin inflight_pub
         \/ Head(downlink).type = "PubRel" /\ Id \notin incoming_pub
  BY DEF Unsolicited, Receive, StackAt
<1>2. Head(downlink) \in DownPackets /\ Head(downlink) \in Elems(downlink)
  BY <1>1, ElemsTail DEF Types, NetTypes
<1>3. CASE Head(downlink).type = "PubRec"
  <2>1. Head(downlink) \in Answered
    BY <1>2, <1>3 DEF DownPackets, Answered, Answers
  <2> QED
    BY <1>1, <1>3, <2>1 DEF KeptInv, AnswersAwaited, Id
<1>4. CASE Head(downlink).type = "PubRel"
  <2>1. Head(downlink) \in Tokens
    BY <1>2, <1>4, TokenTypes DEF Tokens
  <2> QED
    BY <1>1, <1>4, <2>1 DEF KeptInv, ReleasesKnown, Id
<1> QED
  BY <1>1, <1>3, <1>4

\* Nothing ends the connection, so nothing is sent on another one.
LEMMA FirstConnectionStep ==
  ASSUME Types, StackInv, FirstConnection, ~Unsolicited, losses = 0, losses' = 0, [Next]_vars
  PROVE  FirstConnection'
<1> USE DEF FirstConnection
<1>1. CASE CallStep
  BY <1>1, CallFootprint DEF stackVars, netVars, brokerVars
<1>2. CASE Connect
  BY <1>2, Zenon DEF Connect, ConnectMqtt
<1>3. CASE ConnectFails
  <2>1. /\ stack # "up" /\ stack' # "up"
        /\ outbox' = outbox \/ outbox' = Forgotten
    BY <1>3 DEF ConnectFails, BrokerConnect, brokerVars, StackAt
  <2> QED
    BY <2>1 DEF Forgotten
<1>4. CASE Disconnect \/ LinkLost
  BY <1>4 DEF Disconnect, LinkLost
<1>5. CASE BrokerForgets
  <2>1. stack # "up" /\ stack' # "up" /\ outbox' = Forgotten
    BY <1>5 DEF BrokerForgets, stackVars
  <2> QED
    BY <2>1 DEF Forgotten
<1>6. CASE StackNotices \/ TransmitFails
  BY <1>6 DEF StackNotices, TransmitFails, StackAt
<1>7. CASE \/ Transmit \/ HandlePublish1 \/ HandlePublish2 \/ HandlePublish2Panics
           \/ DiscardPublish \/ HandlePubAck \/ HandlePubRec
           \/ HandlePubRecPanics \/ HandlePubComp \/ HandlePubRel
  <2>1. stack = "up" /\ UNCHANGED <<stackVars, link>>
    BY <1>7 DEF Transmit, HandlePublish1, HandlePublish2, HandlePublish2Panics,
                DiscardPublish, HandlePubAck, HandlePubRec, HandlePubRecPanics,
                HandlePubComp, HandlePubRel, Receive, StackAt, Consume, netVars
  <2> QED
    BY <2>1 DEF stackVars
<1>8. CASE BrokerReceive
  <2>1. UNCHANGED <<stackVars, link>> /\ uplink # <<>>
    BY <1>8 DEF BrokerReceive
  <2>2. stack = "up"
    BY <2>1 DEF StackInv
  <2> QED
    BY <2>1, <2>2 DEF stackVars
<1>9. CASE \E m \in Inbound : BrokerSend(m)
  BY <1>9 DEF BrokerSend, stackVars, StackInv
<1>10. CASE UNCHANGED vars
  BY <1>10 DEF vars, stackVars, netVars, brokerVars
<1> QED
  BY <1>1, <1>2, <1>3, <1>4, <1>5, <1>6, <1>7, <1>8, <1>9, <1>10, Steps
     DEF PeerStep, Select

\* A message is remembered from its PUBREC on, until its PUBREL is read.
LEMMA ReleasesKnownStep ==
  ASSUME Types, InboundInv, FirstConnection, ReleasesKnown, ~Unsolicited,
         losses = 0, losses' = 0, [Next]_vars
  PROVE  ReleasesKnown'
<1> USE DEF netVars
<1>1. ASSUME Tokens' \subseteq Tokens, UNCHANGED incoming_pub, panicked => panicked'
      PROVE  ReleasesKnown'
  BY <1>1 DEF ReleasesKnown
<1>2. CASE CallStep
  <2>1. PICK c \in Calls : Proceed(c) \/ Cancel(c)
    BY <1>2 DEF CallStep
  <2>2. panicked => panicked'
    BY <2>1 DEF Proceed, Start, TakePid, RefuseCall, LockPublisher, Enqueue,
                EnqueuePanics, EnqueueFails, WaitStep, Timeout, Cancel
  <2>3. UNCHANGED <<Tokens, incoming_pub>>
    BY <1>2, CallFootprint DEF Tokens
  <2> QED
    BY <1>1, <2>2, <2>3
<1>3. CASE Connect
  <2>1. \A p \in Tokens' : /\ p.id \in Inbound
                           /\ p.type = "PubRel" => outbox[p.id] = "rec"
                           /\ p.type # "PubRec"
    BY <1>3, ConnectTokens
  <2>2. \A m \in Inbound : outbox[m] = "new"
    BY <1>3 DEF Connect, StackAt, FirstConnection
  <2> QED
    BY <2>1, <2>2 DEF ReleasesKnown
<1>4. CASE ConnectFails \/ BrokerForgets
  <2>1. UNCHANGED <<netVars, incoming_pub, panicked>>
    BY <1>4 DEF ConnectFails, BrokerForgets, sharedVars
  <2>2. UNCHANGED Tokens
    BY <2>1 DEF Tokens
  <2> QED
    BY <1>1, <2>1, <2>2
<1>5. CASE Disconnect \/ LinkLost
  BY <1>5 DEF Disconnect, LinkLost
<1>6. CASE StackNotices \/ TransmitFails
  BY <1>6 DEF StackNotices, TransmitFails, StackAt, FirstConnection
<1>7. CASE Transmit
  <2>1. Tokens' = Tokens
    BY <1>7, TransmitTokens DEF InboundInv
  <2> QED
    BY <1>1, <1>7, <2>1 DEF Transmit
<1>8. CASE HandlePublish1 \/ HandlePublish2
  <2>1. PICK type \in {"PubAck", "PubRec"} :
          /\ Consume /\ downlink # <<>> /\ Head(downlink).type = "Publish"
          /\ Reply(type) /\ incoming_pub \subseteq incoming_pub'
          /\ type = "PubRec" => Id \in incoming_pub'
          /\ UNCHANGED panicked
    BY <1>8 DEF HandlePublish1, HandlePublish2, Receive, Remember, sharedVars
  <2>2. Tokens' \subseteq Tokens \cup {Packet(type, Id)}
    BY <2>1, HandlerReplies DEF InboundInv
  <2>3. Packet(type, Id).type = type /\ Packet(type, Id).id = Id
    BY DEF Packet
  <2> QED
    BY <2>1, <2>2, <2>3 DEF ReleasesKnown
<1>9. CASE HandlePublish2Panics \/ HandlePubRecPanics
  <2>1. panicked'
    BY <1>9, Zenon DEF HandlePublish2Panics, HandlePubRecPanics
  <2> QED
    BY <2>1 DEF ReleasesKnown
<1>10. CASE \/ DiscardPublish \/ HandlePubAck \/ HandlePubRec \/ HandlePubComp
  <2>1. /\ Consume /\ downlink # <<>>
        /\ UNCHANGED uplink \/ (Reply("PubRel") /\ Id \in Pids)
        /\ UNCHANGED <<incoming_pub, panicked>>
    BY <1>10 DEF DiscardPublish, HandlePubAck, HandlePubRec, HandlePubComp, Receive,
                 SkipAck, Consume, Types, SharedTypes, sharedVars
  <2>2. Tokens' \subseteq Tokens
    BY <2>1, HandlerSilent DEF InboundInv
  <2> QED
    BY <1>1, <2>1, <2>2
<1>11. CASE HandlePubRel
  <2>1. /\ Consume /\ downlink # <<>> /\ Head(downlink).type = "PubRel"
        /\ Reply("PubComp") /\ incoming_pub' = incoming_pub \ {Id}
        /\ UNCHANGED panicked
    BY <1>11 DEF HandlePubRel, Receive
  <2>2. /\ Head(downlink) \in Tokens
        /\ Tokens' = (Tokens \ {Head(downlink)}) \cup {Packet("PubComp", Id)}
    BY <2>1, HandlerReplies DEF InboundInv
  <2>3. \A p \in Tokens \ {Head(downlink)} : p.id # Id
    BY <2>2 DEF InboundInv, OneToken, Id
  <2>4. Packet("PubComp", Id).type = "PubComp"
    BY DEF Packet
  <2> QED
    BY <2>1, <2>2, <2>3, <2>4 DEF ReleasesKnown
<1>12. CASE BrokerReceive
  <2>1. UNCHANGED <<incoming_pub, panicked>>
    BY <1>12 DEF BrokerReceive, sharedVars
  <2>2. \/ Tokens' \subseteq Tokens
        \/ \E p \in Tokens : /\ p.type = "PubRec"
                             /\ Tokens' = (Tokens \ {p}) \cup {Packet("PubRel", p.id)}
    BY <1>12, BrokerTokens DEF InboundInv
  <2>3. ASSUME NEW p \in Tokens, p.type = "PubRec",
               Tokens' = (Tokens \ {p}) \cup {Packet("PubRel", p.id)}
        PROVE  ReleasesKnown'
    <3>1. Packet("PubRel", p.id).id = p.id
      BY DEF Packet
    <3> QED
      BY <2>1, <2>3, <3>1 DEF ReleasesKnown
  <2> QED
    BY <1>1, <2>1, <2>2, <2>3
<1>13. ASSUME NEW m \in Inbound, BrokerSend(m) PROVE ReleasesKnown'
  <2>1. Tokens' = Tokens \cup {Packet("Publish", m)}
    BY <1>13, SendTokens DEF InboundInv
  <2>2. UNCHANGED <<incoming_pub, panicked>> /\ Packet("Publish", m).type = "Publish"
    BY <1>13 DEF BrokerSend, sharedVars, Packet
  <2> QED
    BY <2>1, <2>2 DEF ReleasesKnown
<1>14. CASE UNCHANGED vars
  <2>1. UNCHANGED <<Tokens, incoming_pub, panicked>>
    BY <1>14 DEF vars, sharedVars, Tokens
  <2> QED
    BY <1>1, <2>1
<1> QED
  BY <1>2, <1>3, <1>4, <1>5, <1>6, <1>7, <1>8, <1>9, <1>10, <1>11, <1>12, <1>13,
     <1>14, Steps DEF PeerStep, Select

\* The packets of publish() that a step leaves, or takes away.
LEMMA LessUnderWay ==
  ASSUME SentOnce, AnsweredOnce, Distinct(uplink', Publishes), Distinct(downlink', Answers),
         SentFrames' \subseteq SentFrames, Answered' \subseteq Answered
  PROVE  SentOnce' /\ AnsweredOnce'
BY DEF SentOnce, AnsweredOnce

\* Only a PUBACK or PUBREC of publish() adds to Answered.
LEMMA SendAnswer ==
  ASSUME Types, AnsweredOnce, NEW p \in DownPackets, downlink' = Append(downlink, p)
  PROVE  /\ Answered' = Answered \cup ({p} \cap Answers)
         /\ (p \in Answers => \A a \in Answered : a.id # p.id) => AnsweredOnce'
<1>1. /\ Elems(downlink') = Elems(downlink) \cup {p}
      /\ \A T : Distinct(downlink, T) /\ (p \in T => p \notin Elems(downlink))
                  => Distinct(downlink', T)
  BY ElemsAppend DEF Types, NetTypes
<1>2. Answered' = Answered \cup ({p} \cap Answers)
  BY <1>1 DEF Answered
<1>3. ASSUME p \in Answers => \A a \in Answered : a.id # p.id
      PROVE  AnsweredOnce'
  <2>1. p \in Answers => p \notin Elems(downlink)
    BY <1>3 DEF Answered
  <2>2. Distinct(downlink', Answers)
    BY <1>1, <2>1 DEF AnsweredOnce
  <2>3. \A a, b \in Answered' : a.id = b.id => a = b
    BY <1>2, <1>3 DEF AnsweredOnce
  <2> QED
    BY <2>2, <2>3 DEF AnsweredOnce
<1> QED
  BY <1>2, <1>3

\* A step of publish() that removes an id from inflight_pub is no hazard: it is
\* about a message of QoS 1, or one that was answered already.
LEMMA CallsAwait ==
  ASSUME Types, SetsInv, IdInv, AnswersAwaited, NEW c \in Calls,
         Proceed(c) \/ Cancel(c), ~Enqueue(c), [PatientStep]_vars
  PROVE  AnswersAwaited'
<1>1. UNCHANGED <<QueuedFrames, Answered, SentFrames>>
  <2>1. CallStep
    BY DEF CallStep
  <2>2. UNCHANGED downlink
    BY <2>1, CallFootprint DEF netVars
  <2> QED
    BY <2>2, CallTx DEF Answered
<1>2. CASE EnqueuePanics(c)
  <2>1. panicked'
    BY <1>2, Zenon DEF EnqueuePanics
  <2> QED
    BY <2>1 DEF AnswersAwaited
<1>3. CASE UNCHANGED <<inflight_pub, panicked>>
  BY <1>1, <1>3 DEF AnswersAwaited
<1>4. CASE Timeout(c) \/ Cancel(c)
  <2>1. /\ UNCHANGED panicked
        /\ \/ pc[c] \in Waiting /\ inflight_pub' = inflight_pub \ {pid[c]}
           \/ UNCHANGED inflight_pub
        /\ pc' \in {[pc EXCEPT ![c] = "connecting"], [pc EXCEPT ![c] = "failed"]}
    BY <1>4 DEF Timeout, Cancel, DropAttempt, OnDrop, Retry, Goto
  <2>2. CASE UNCHANGED inflight_pub
    BY <1>3, <2>1, <2>2
  <2>3. CASE pc[c] \in Waiting /\ inflight_pub' = inflight_pub \ {pid[c]}
    <3>1. PatientStep
      <4>1. pc'[c] # pc[c]
        BY <2>1, <2>3 DEF Types, CallTypes, Waiting
      <4> QED
        BY <4>1 DEF vars, callVars
    <3>2. qos[c] # 2 \/ pc[c] = "rel"
      BY <1>4, <2>3, <3>1 DEF PatientStep, Waiting
    <3>3. CASE pc[c] = "rel"
      <4>1. pid[c] # 0
        BY <2>3 DEF Types, CallTypes, Pids
      <4>2. pid[c] \notin inflight_pub
        BY <3>3, <4>1 DEF SetsInv, InflightOwned, IdInv, OwnIds
      <4> QED
        BY <1>3, <2>1, <2>3, <4>2
    <3>4. CASE qos[c] # 2
      <4>1. \A a \in Answered : a.type = "PubRec" => a.id # pid[c]
        BY <3>4, AnsweredIds DEF IdInv, AnswersTrue
      <4>2. \A f \in QueuedFrames \cup SentFrames : f.qos = 2 => f.pid # pid[c]
        BY <3>4 DEF IdInv, FramesOwned
      <4> QED
        BY <1>1, <2>1, <2>3, <4>1, <4>2 DEF AnswersAwaited
    <3> QED
      BY <3>2, <3>3, <3>4
  <2> QED
    BY <2>1, <2>2, <2>3
<1>5. CASE \/ \E q \in QoSs : Start(c, q)
           \/ TakePid(c) \/ RefuseCall(c) \/ LockPublisher(c)
           \/ EnqueueFails(c) \/ WaitStep(c)
  BY <1>3, <1>5 DEF Start, TakePid, RefuseCall, LockPublisher, EnqueueFails,
                    WaitStep, sharedVars
<1> QED
  BY <1>2, <1>4, <1>5 DEF Proceed

\* A frame enters the channel with its id in inflight_pub.
LEMMA EnqueueAwaits ==
  ASSUME Types, AnswersAwaited, NEW c \in Calls, Enqueue(c)
  PROVE  AnswersAwaited'
<1>1. /\ QueuedFrames' = QueuedFrames \cup {Frame(c)}
      /\ Frame(c).pid = pid[c] /\ Frame(c).qos = qos[c]
  BY EnqueueTx
<1>2. /\ inflight_pub \subseteq inflight_pub' /\ (qos[c] = 2 => pid[c] \in inflight_pub')
      /\ UNCHANGED <<panicked, netVars>>
  BY DEF Enqueue
<1>3. UNCHANGED <<Answered, SentFrames>>
  BY <1>2, SameViews DEF netVars, Answered
<1> QED
  BY <1>1, <1>2, <1>3 DEF AnswersAwaited

\* What a handler reads leaves; none of them sends a PUBLISH.
LEMMA HandlerKeeps ==
  ASSUME Types, IdInv, SentOnce, AnsweredOnce, AnswersAwaited, Consume, downlink # <<>>,
         UNCHANGED uplink \/ \E type \in {"PubAck", "PubRec", "PubComp", "PubRel"} : Reply(type),
         \/ UNCHANGED inflight_pub
         \/ Head(downlink).type \in {"PubAck", "PubRec"} /\ inflight_pub' = inflight_pub \ {Id},
         UNCHANGED <<tx, panicked>>
  PROVE  SentOnce' /\ AnsweredOnce' /\ AnswersAwaited'
<1> DEFINE h == Head(downlink)
<1>1. /\ h \in DownPackets /\ h \in Elems(downlink)
      /\ Elems(downlink) = Elems(downlink') \cup {h}
      /\ Distinct(downlink', Answers)
      /\ h \in Answers => h \notin Elems(downlink')
  BY ElemsTail DEF Types, NetTypes, Consume, AnsweredOnce
<1>2. Answered' \subseteq Answered /\ h \notin Answered'
  BY <1>1 DEF Answered
<1>3. UNCHANGED SentFrames /\ Distinct(uplink', Publishes)
  <2>1. CASE UNCHANGED uplink
    BY <2>1, SameViews DEF SentOnce
  <2>2. ASSUME NEW type \in {"PubAck", "PubRec", "PubComp", "PubRel"}, Reply(type)
        PROVE  UNCHANGED SentFrames /\ Distinct(uplink', Publishes)
    <3> DEFINE r == Packet(type, Id)
    <3>1. uplink' = Append(uplink, r) /\ uplink \in Seq(UpPackets \cup {r})
      BY <2>2, SeqMonotonic DEF Reply, Types, NetTypes
    <3>2. r \notin Publishes
      BY DEF Packet, Publishes, PublishOf
    <3> HIDE DEF r
    <3>3. Distinct(uplink', Publishes)
      BY <3>1, <3>2, ElemsAppend DEF SentOnce
    <3> QED
      BY <2>2, <3>3, ReplyViews
  <2> QED
    BY <2>1, <2>2
<1>4. UNCHANGED QueuedFrames
  BY SameViews
<1>5. SentOnce' /\ AnsweredOnce'
  BY <1>1, <1>2, <1>3, LessUnderWay
<1>6. CASE UNCHANGED inflight_pub
  BY <1>2, <1>3, <1>4, <1>5, <1>6 DEF AnswersAwaited
<1>7. CASE h.type \in {"PubAck", "PubRec"} /\ inflight_pub' = inflight_pub \ {Id}
  <2>1. h \in Answered
    BY <1>1, <1>7 DEF DownPackets, Answered, Answers
  <2>2. \A a \in Answered' : a.id # Id
    BY <1>2, <2>1 DEF AnsweredOnce, Id
  <2>3. \A f \in SentFrames : f.pid # Id
    BY <2>1 DEF SentOnce, Id
  <2>4. \A f \in QueuedFrames : f.pid # Id
    BY <2>1, AnsweredIds DEF IdInv, QueuedOnce, Id
  <2> HIDE DEF h
  <2> QED
    BY <1>2, <1>3, <1>4, <1>5, <1>7, <2>2, <2>3, <2>4 DEF AnswersAwaited
<1> QED
  BY <1>6, <1>7

\* A frame becomes a packet.
LEMMA TransmitSends ==
  ASSUME Types, IdInv, SentOnce, AnsweredOnce, AnswersAwaited, Transmit
  PROVE  SentOnce' /\ AnsweredOnce' /\ AnswersAwaited'
<1> DEFINE h == Head(tx)
<1>1. /\ tx # <<>> /\ ReleaseFrame /\ UNCHANGED <<inflight_pub, downlink, panicked>>
      /\ UNCHANGED uplink \/ (h # EmptyFrame /\ uplink' = Append(uplink, PublishOf(h)))
  BY DEF Transmit
<1>2. /\ QueuedFrames' \subseteq QueuedFrames
      /\ h \in Frames \cup {EmptyFrame}
      /\ h \in Frames => h \in QueuedFrames
  BY <1>1, ReleaseViews
<1>3. UNCHANGED Answered
  BY <1>1 DEF Answered
<1>4. AnsweredOnce'
  BY <1>1, <1>3 DEF AnsweredOnce
<1>5. CASE UNCHANGED uplink
  <2>1. UNCHANGED SentFrames
    BY <1>5, SameViews
  <2> QED
    BY <1>1, <1>2, <1>3, <1>4, <1>5, <2>1 DEF SentOnce, AnswersAwaited
<1>6. CASE h # EmptyFrame /\ uplink' = Append(uplink, PublishOf(h))
  <2>1. h \in Frames /\ h \in QueuedFrames /\ PublishOf(h) \in UpPackets
    BY <1>2, <1>6 DEF UpPackets
  <2>2. SentFrames' \subseteq SentFrames \cup {h}
    BY TransmitViews
  <2>3. \A f \in SentFrames : f.pid # h.pid
    BY <2>1, AnsweredIds DEF IdInv, QueuedOnce
  <2>4. \A a \in Answered : a.id # h.pid
    BY <2>1, AnsweredIds DEF IdInv, QueuedOnce
  <2>5. PublishOf(h) \notin Elems(uplink)
    BY <2>1, <2>3 DEF SentFrames
  <2> HIDE DEF h
  <2>6. Distinct(uplink', Publishes)
    BY <1>6, <2>1, <2>5, ElemsAppend DEF SentOnce, Types, NetTypes
  <2>7. SentOnce'
    BY <1>3, <2>2, <2>3, <2>4, <2>6 DEF SentOnce
  <2>8. AnswersAwaited'
    BY <1>1, <1>2, <1>3, <2>1, <2>2 DEF AnswersAwaited
  <2> QED
    BY <1>4, <2>7, <2>8
<1> QED
  BY <1>1, <1>5, <1>6

\* A PUBLISH becomes an answer.
LEMMA BrokerAnswers ==
  ASSUME Types, IdInv, SentOnce, AnsweredOnce, AnswersAwaited, BrokerReceive
  PROVE  SentOnce' /\ AnsweredOnce' /\ AnswersAwaited'
<1>1. PICK i \in DOMAIN uplink :
        /\ \/ BrokerOnPublish(uplink[i])
           \/ BrokerOnPubRel(uplink[i])
           \/ BrokerOnAck(uplink[i])
        /\ uplink' = RemoveAt(uplink, i)
        /\ UNCHANGED <<inflight_pub, tx, panicked>>
  BY DEF BrokerReceive, sharedVars
<1> DEFINE p == uplink[i]
<1>2. uplink \in Seq(UpPackets) /\ i \in 1..Len(uplink)
  BY LenProperties DEF Types, NetTypes
<1>3. /\ p \in UpPackets /\ p \in Elems(uplink)
      /\ Elems(uplink) = Elems(uplink') \cup {p}
      /\ Distinct(uplink', Publishes)
      /\ p \in Publishes => p \notin Elems(uplink')
  <2>1. p \in UpPackets /\ p \in Elems(uplink)
    BY <1>2, ElementOfSeq DEF Elems
  <2>2. /\ Elems(uplink) = Elems(RemoveAt(uplink, i)) \cup {uplink[i]}
        /\ \A T : Distinct(uplink, T) =>
             /\ Distinct(RemoveAt(uplink, i), T)
             /\ uplink[i] \in T => uplink[i] \notin Elems(RemoveAt(uplink, i))
    BY <1>2, ElemsRemoveAt
  <2> QED
    BY <1>1, <2>1, <2>2 DEF SentOnce
<1> HIDE DEF p
<1>4. SentFrames' \subseteq SentFrames /\ UNCHANGED QueuedFrames
  BY <1>1, <1>3, SameViews DEF SentFrames
\* Another packet is no part of a publish().
<1>5. ASSUME NEW a \in DownPackets, a \notin Answers,
             UNCHANGED downlink \/ downlink' = Append(downlink, a)
      PROVE  SentOnce' /\ AnsweredOnce' /\ AnswersAwaited'
  <2>1. Answered' = Answered /\ Distinct(downlink', Answers)
    <3>1. CASE UNCHANGED downlink
      BY <3>1 DEF Answered, AnsweredOnce
    <3>2. CASE downlink' = Append(downlink, a)
      BY <1>5, <3>2, SendAnswer DEF AnsweredOnce
    <3> QED
      BY <1>5, <3>1, <3>2
  <2>2. SentOnce' /\ AnsweredOnce'
    BY <1>3, <1>4, <2>1, LessUnderWay
  <2> QED
    BY <1>1, <1>4, <2>1, <2>2 DEF AnswersAwaited
<1>6. CASE BrokerOnPublish(p)
  <2>1. PICK f \in Frames : p = PublishOf(f)
    BY <1>3, <1>6 DEF BrokerOnPublish, UpPackets, Packet
  <2>2. /\ f \in SentFrames /\ f \notin SentFrames' /\ p.frame = f /\ p.id = f.pid
        /\ f.qos \in 0..2 /\ f.pid \in Pids
    BY <1>3, <2>1 DEF SentFrames, PublishOf, Frames, Publishes
  <2>3. \/ f.qos = 0 /\ UNCHANGED downlink
        \/ \E r \in Reasons :
             \/ f.qos = 1 /\ downlink' = Append(downlink, Verdict("PubAck", f.pid, r))
             \/ f.qos = 2 /\ downlink' = Append(downlink, Verdict("PubRec", f.pid, r))
    BY <1>6, <2>2, PublishAnswer
  <2>4. ASSUME NEW type \in {"PubAck", "PubRec"}, type = "PubRec" => f.qos = 2,
               NEW r \in Reasons, downlink' = Append(downlink, Verdict(type, f.pid, r))
        PROVE  SentOnce' /\ AnsweredOnce' /\ AnswersAwaited'
    <3> DEFINE a == Verdict(type, f.pid, r)
    <3>1. /\ a \in Answers /\ a \in DownPackets /\ a.id = f.pid /\ a.type = type
          /\ downlink' = Append(downlink, a)
      BY <2>2, <2>4 DEF Verdict, Answers, DownPackets
    <3>2. \A b \in Answered : b.id # f.pid
      BY <2>2 DEF SentOnce
    <3> HIDE DEF a
    <3>3. Answered' = Answered \cup {a} /\ AnsweredOnce'
      BY <3>1, <3>2, SendAnswer
    <3>4. \A g \in SentFrames' : g \in SentFrames /\ g.pid # f.pid
      BY <1>4, <2>2 DEF SentOnce
    <3>5. SentOnce'
      BY <1>3, <1>4, <3>1, <3>3, <3>4 DEF SentOnce
    <3>6. AnswersAwaited'
      BY <1>1, <1>4, <2>2, <2>4, <3>1, <3>3 DEF AnswersAwaited
    <3> QED
      BY <3>3, <3>5, <3>6
  <2>5. CASE UNCHANGED downlink
    <3>1. Packet("PubComp", f.pid) \in DownPackets /\ Packet("PubComp", f.pid) \notin Answers
      BY <2>2 DEF Packet, DownPackets, Answers
    <3> QED
      BY <1>5, <2>5, <3>1
  <2> QED
    BY <2>3, <2>4, <2>5
<1>7. CASE BrokerOnPubRel(p)
  <2>1. p.id \in Pids
    BY <1>3, <1>7 DEF BrokerOnPubRel, UpPackets, PublishOf
  <2>2. Packet("PubComp", p.id) \in DownPackets /\ Packet("PubComp", p.id) \notin Answers
    BY <2>1 DEF Packet, DownPackets, Answers
  <2> QED
    BY <1>5, <1>7, <2>2 DEF BrokerOnPubRel, Answer
<1>8. CASE BrokerOnAck(p)
  <2>1. p.id \in Inbound
    BY <1>3, <1>8 DEF BrokerOnAck, UpPackets, PublishOf
  <2>2. Packet("PubRel", p.id) \in DownPackets /\ Packet("PubRel", p.id) \notin Answers
    BY <2>1 DEF Packet, DownPackets, Answers
  <2> QED
    BY <1>5, <1>8, <2>2 DEF BrokerOnAck, Answer
<1> QED
  BY <1>1, <1>6, <1>7, <1>8 DEF p

\* No step makes the broker send what the client does not expect.
LEMMA OutboundStep ==
  ASSUME Types, InboundInv, SetsInv, IdInv, KeptInv, ~Unsolicited,
         losses = 0, losses' = 0, [Next]_vars, [PatientStep]_vars
  PROVE  SentOnce' /\ AnsweredOnce' /\ AnswersAwaited'
<1> USE DEF KeptInv
\* Nothing of a publish() moves on the connection.
<1>1. ASSUME UNCHANGED <<uplink, downlink>>
      PROVE  SentOnce' /\ AnsweredOnce' /\ UNCHANGED <<Answered, SentFrames>>
  <2>1. UNCHANGED <<Answered, SentFrames>>
    BY <1>1, SameViews DEF Answered
  <2> QED
    BY <1>1, <2>1 DEF SentOnce, AnsweredOnce
<1>2. CASE CallStep
  <2>1. PICK c \in Calls : Proceed(c) \/ Cancel(c)
    BY <1>2 DEF CallStep
  <2>2. UNCHANGED <<uplink, downlink>>
    BY <1>2, CallFootprint DEF netVars
  <2>3. AnswersAwaited'
    BY <2>1, CallsAwait, EnqueueAwaits
  <2> QED
    BY <1>1, <2>2, <2>3
<1>3. CASE Connect
  <2>1. uplink' = <<>> /\ (\A T : Distinct(downlink', T)) /\ UNCHANGED <<tx, panicked, inflight_pub>>
    BY <1>3, ConnectEffect DEF Connect
  <2>2. SentFrames' = {} /\ AckIds' = {} /\ UNCHANGED QueuedFrames
    BY <1>3, <2>1, ConnectViews, SameViews
  <2>3. Answered' = {}
    <3>1. \A a \in Answered' :
            /\ a.type \in {"PubAck", "PubRec"} /\ a.id \in Pids /\ a.reason \in Reasons
            /\ a = Verdict(a.type, a.id, a.reason) /\ a \in Elems(downlink')
      BY DEF Answered, Answers, Verdict
    <3>2. \A a \in Answered' : a.id \in AckIds'
      BY <3>1 DEF AckIds, RecIds
    <3> QED
      BY <2>2, <3>2
  <2>4. SentOnce' /\ AnsweredOnce'
    BY <2>1, <2>2, <2>3, ElemsEmpty DEF SentOnce, AnsweredOnce
  <2>5. AnswersAwaited'
    BY <2>1, <2>2, <2>3 DEF AnswersAwaited
  <2> QED
    BY <2>4, <2>5
<1>4. CASE ConnectFails \/ BrokerForgets \/ UNCHANGED vars
  <2>1. UNCHANGED <<uplink, downlink, tx, inflight_pub, panicked>>
    BY <1>4 DEF ConnectFails, BrokerForgets, vars, sharedVars, netVars
  <2> QED
    BY <1>1, <2>1, SameViews DEF AnswersAwaited
<1>5. CASE Disconnect \/ LinkLost
  BY <1>5 DEF Disconnect, LinkLost
<1>6. CASE StackNotices \/ TransmitFails
  BY <1>6 DEF StackNotices, TransmitFails, StackAt, FirstConnection
<1>7. CASE Transmit
  BY <1>7, TransmitSends
<1>8. CASE HandlePublish2Panics \/ HandlePubRecPanics
  <2>1. panicked'
    BY <1>8, Zenon DEF HandlePublish2Panics, HandlePubRecPanics
  <2>2. UNCHANGED <<uplink, downlink>>
    BY <1>8 DEF HandlePublish2Panics, HandlePubRecPanics, netVars
  <2> QED
    BY <1>1, <2>1, <2>2 DEF AnswersAwaited
<1>9. CASE \/ HandlePublish1 \/ HandlePublish2 \/ DiscardPublish
           \/ HandlePubAck \/ HandlePubRec \/ HandlePubComp \/ HandlePubRel
  <2>1. /\ Consume /\ downlink # <<>> /\ UNCHANGED <<tx, panicked>>
        /\ UNCHANGED uplink \/ \E type \in {"PubAck", "PubRec", "PubComp", "PubRel"} : Reply(type)
        /\ \/ UNCHANGED inflight_pub
           \/ Head(downlink).type \in {"PubAck", "PubRec"} /\ inflight_pub' = inflight_pub \ {Id}
    BY <1>9 DEF HandlePublish1, HandlePublish2, DiscardPublish, HandlePubAck, HandlePubRec,
                HandlePubComp, HandlePubRel, Receive, SkipAck, MoveToRel, sharedVars
  <2> QED
    BY <2>1, HandlerKeeps
<1>10. CASE BrokerReceive
  BY <1>10, BrokerAnswers
<1>11. ASSUME NEW m \in Inbound, BrokerSend(m)
       PROVE  SentOnce' /\ AnsweredOnce' /\ AnswersAwaited'
  <2>1. /\ downlink' = Append(downlink, Packet("Publish", m))
        /\ UNCHANGED <<uplink, tx, inflight_pub, panicked>>
    BY <1>11 DEF BrokerSend, sharedVars
  <2>2. Packet("Publish", m) \in DownPackets /\ Packet("Publish", m) \notin Answers
    BY DEF Packet, DownPackets, Answers
  <2>3. Answered' = Answered /\ AnsweredOnce'
    BY <2>1, <2>2, SendAnswer
  <2>4. UNCHANGED <<SentFrames, QueuedFrames>>
    BY <2>1, SameViews
  <2> QED
    BY <2>1, <2>3, <2>4 DEF SentOnce, AnswersAwaited
<1> QED
  BY <1>2, <1>3, <1>4, <1>5, <1>6, <1>7, <1>8, <1>9, <1>10, <1>11, Steps
     DEF PeerStep, Select

\* The stack gives up no connection by itself.
LEMMA KeptInvStep ==
  ASSUME Types, InboundInv, SetsInv, IdInv, KeptInv,
         losses = 0, losses' = 0, [Next]_vars, [PatientStep]_vars
  PROVE  KeptInv' /\ [KeptStep]_vars
<1>1. ~Unsolicited
  BY NothingUnsolicited
<1>2. KeptInv'
  BY <1>1, FirstConnectionStep, ReleasesKnownStep, OutboundStep DEF KeptInv, InboundInv
<1>3. connected # "no" => connected' # "no"
  <2>1. stack' = "up" \/ stack # "up"
    <3>1. CASE CallStep \/ UNCHANGED vars
      BY <3>1, CallFootprint DEF stackVars, vars
    <3>2. CASE Connect
      BY <3>2 DEF Connect
    <3>3. CASE ConnectFails
      BY <3>3 DEF ConnectFails, StackAt
    <3>4. CASE Disconnect \/ LinkLost
      BY <3>4 DEF Disconnect, LinkLost
    <3>5. CASE StackNotices \/ TransmitFails
      BY <3>5 DEF StackNotices, TransmitFails, StackAt, KeptInv, FirstConnection
    <3>6. CASE \/ Transmit \/ HandlePublish1 \/ HandlePublish2 \/ HandlePublish2Panics
               \/ DiscardPublish \/ HandlePubAck \/ HandlePubRec
               \/ HandlePubRecPanics \/ HandlePubComp \/ HandlePubRel
      BY <3>6 DEF Transmit, HandlePublish1, HandlePublish2, HandlePublish2Panics,
                  DiscardPublish, HandlePubAck, HandlePubRec, HandlePubRecPanics,
                  HandlePubComp, HandlePubRel, stackVars
    <3>7. CASE BrokerForgets \/ BrokerReceive \/ \E m \in Inbound : BrokerSend(m)
      BY <3>7 DEF BrokerForgets, BrokerReceive, BrokerSend, stackVars
    <3> QED
      BY <1>1, <3>1, <3>2, <3>3, <3>4, <3>5, <3>6, <3>7, Steps DEF PeerStep, Select
  <2>2. StackInv'
    BY StackInvStep DEF InboundInv
  <2> QED
    BY <2>1, <2>2 DEF InboundInv, StackInv
<1> QED
  BY <1>2, <1>3 DEF KeptStep

\* A connection that is not lost lasts.
LEMMA ConnectionLastsUnlessLost ==
  Spec /\ FreshIds /\ Patient /\ [](losses = 0) => ConnectionLasts
<1>1. Types /\ InboundInv /\ SetsInv /\ IdInv /\ KeptInv /\ losses = 0 /\ (losses = 0)'
        /\ [Next]_vars /\ [PatientStep]_vars => KeptInv' /\ [KeptStep]_vars
  BY KeptInvStep
<1> QED
  BY <1>1, KeptInit, IdInvariance, PTL DEF Spec, Patient, ConnectionLasts

\* The stack gives up only a connection that is lost: while none was lost and
\* every QoS 2 publish() waits for its PUBREC, no handler meets a PUBREC that
\* is not in inflight_pub or a PUBREL that is not in incoming_pub, however the
\* broker orders its answers and whatever fails to connect, encode or fit.
THEOREM ConnectionIsKept ==
  Spec /\ FreshIds /\ Patient /\ [](losses = 0) => ConnectionKept
<1>1. [KeptStep]_vars => [connected # "no" /\ connected' = "no" => ~link]_vars
  BY DEF KeptStep
<1> QED
  BY <1>1, ConnectionLastsUnlessLost, PTL DEF ConnectionLasts, ConnectionKept

\* So publish() with QoS 1 or 2 returns Ok only when the broker has answered the
\* message, with nothing assumed of what the stack does to the connection.
THEOREM OkUnlessLost ==
  Spec /\ FreshIds /\ Patient /\ [](losses = 0) => []OkMeansAnswered
BY ConnectionLastsUnlessLost, OkIsAnswered, PTL

-----------------------------------------------------------------------------
(* When ids are fresh *)

\* No id comes into use but by being taken.
LEMMA InUseStep ==
  ASSUME Types, StackInv, [Next]_vars
  PROVE  \/ IdsInUse' \subseteq IdsInUse /\ UNCHANGED last_pid
         \/ IdsInUse' \subseteq IdsInUse \cup {last_pid'} /\ last_pid' = NextPid(last_pid)
<1> USE DEF IdsInUse
<1>1. CASE CallStep
  <2>1. PICK c \in Calls : Proceed(c) \/ Cancel(c)
    BY <1>1 DEF CallStep
  <2>2. UNCHANGED <<SentFrames, AckIds, RecIds, session>> /\ (Enqueue(c) \/ UNCHANGED QueuedFrames)
    BY <1>1, <2>1, CallTx, CallFootprint DEF brokerVars
  <2>3. CASE TakePid(c)
    <3>1. /\ pid' = [pid EXCEPT ![c] = NextPid(last_pid)] /\ last_pid' = NextPid(last_pid)
          /\ UNCHANGED tx
      BY <2>3 DEF TakePid
    <3>2. pid \in [Calls -> {0} \cup Pids]
      BY DEF Types, CallTypes
    <3>3. {pid'[d] : d \in Calls} \subseteq {pid[d] : d \in Calls} \cup {last_pid'}
      BY <3>1, <3>2
    <3> QED
      BY <2>2, <3>1, <3>3, SameViews DEF IdsOf
  <2>4. CASE Enqueue(c)
    <3>1. /\ QueuedFrames' = QueuedFrames \cup {Frame(c)} /\ Frame(c).pid = pid[c]
          /\ UNCHANGED <<pid, last_pid>>
      BY <2>4, EnqueueTx DEF Enqueue
    <3>2. IdsOf(QueuedFrames)' = IdsOf(QueuedFrames) \cup {pid[c]}
      BY <3>1 DEF IdsOf
    <3> QED
      BY <2>2, <3>1, <3>2 DEF IdsOf
  <2>5. CASE ~(TakePid(c) \/ Enqueue(c))
    <3>1. UNCHANGED <<pid, last_pid>>
      BY <2>1, <2>5 DEF Proceed, Start, RefuseCall, LockPublisher, EnqueuePanics,
                        EnqueueFails, WaitStep, Timeout, Cancel, sharedVars, callVars
    <3> QED
      BY <2>2, <2>5, <3>1 DEF IdsOf
  <2> QED
    BY <2>3, <2>4, <2>5
<1>2. CASE PeerStep
  <2>1. UNCHANGED <<pid, last_pid>>
    BY <1>2, PeerFootprint DEF callVars
  <2>2. CASE Shrinks
    BY <2>1, <2>2 DEF Shrinks, IdsOf
  <2>3. CASE Transmit
    <3>1. tx # <<>> /\ ReleaseFrame /\ UNCHANGED session
      BY <2>3 DEF Transmit, brokerVars
    <3>2. /\ QueuedFrames' \subseteq QueuedFrames /\ UNCHANGED AckIds
          /\ SentFrames' \subseteq SentFrames \cup QueuedFrames
      <4>1. SentFrames' \subseteq Frames
        BY DEF SentFrames
      <4> QED
        BY <2>3, <3>1, <4>1, ReleaseViews, TransmitViews
    <3>3. /\ IdsOf(QueuedFrames)' \subseteq IdsOf(QueuedFrames)
          /\ IdsOf(SentFrames)' \subseteq IdsOf(SentFrames) \cup IdsOf(QueuedFrames)
      BY <3>2 DEF IdsOf
    <3> QED
      BY <2>1, <3>1, <3>2, <3>3
  <2>4. CASE HandlePubRec
    <3>1. /\ Consume /\ downlink # <<>> /\ Reply("PubRel") /\ UNCHANGED <<tx, session>>
      BY <2>4 DEF HandlePubRec, Receive, brokerVars
    <3>2. UNCHANGED <<QueuedFrames, SentFrames>> /\ AckIds' \subseteq AckIds
      BY <3>1, HandlerViews, ReplyViews, SameViews
    <3> QED
      BY <2>1, <3>1, <3>2 DEF IdsOf
  <2>5. CASE BrokerReceive
    <3>1. UNCHANGED QueuedFrames
      BY <2>5, SameViews DEF BrokerReceive
    <3>2. SentFrames' \subseteq SentFrames
      BY <2>5, BrokerViews
    <3>3. /\ AckIds' \subseteq AckIds \cup IdsOf(SentFrames)
          /\ session' \subseteq session \cup IdsOf(SentFrames)
      BY <2>5, BrokerViews DEF IdsOf
    <3> QED
      BY <2>1, <3>1, <3>2, <3>3 DEF IdsOf
  <2> QED
    BY <1>2, <2>2, <2>3, <2>4, <2>5, PeerEffect
<1>3. CASE UNCHANGED vars
  BY <1>3, SameViews DEF vars, sharedVars, callVars, netVars, brokerVars, IdsOf
<1> QED
  BY <1>1, <1>2, <1>3, Steps

\* Ids are fresh until Shared::next_pid() has counted through all of them: the
\* hypothesis FreshIds of the theorems above holds at least that long.
THEOREM FreshUntilWrap == Spec /\ [](last_pid < PidMax) => FreshIds
<1> DEFINE Bounded == IdsInUse \subseteq 0..last_pid
<1>1. Init => Bounded
  <2> SUFFICES ASSUME Init PROVE Bounded
    OBVIOUS
  <2>1. QueuedFrames = {} /\ SentFrames = {} /\ AckIds = {}
    BY ElemsEmpty DEF Init, QueuedFrames, SentFrames, AckIds, RecIds
  <2> QED
    BY <2>1 DEF Init, IdsInUse, IdsOf
<1>2. Types /\ InboundInv /\ Bounded /\ last_pid < PidMax /\ [Next]_vars => Bounded'
  <2> SUFFICES ASSUME Types, InboundInv, Bounded, last_pid < PidMax, [Next]_vars
               PROVE  Bounded'
    OBVIOUS
  <2>1. last_pid \in Nat /\ PidMax \in Nat
    BY PidMaxAssumption DEF Types, SharedTypes, Pids
  <2>2. NextPid(last_pid) = last_pid + 1
    BY <2>1 DEF NextPid
  <2>3. \/ IdsInUse' \subseteq IdsInUse /\ last_pid' = last_pid
        \/ IdsInUse' \subseteq IdsInUse \cup {last_pid'} /\ last_pid' = last_pid + 1
    BY <2>2, InUseStep DEF InboundInv
  <2>4. CASE IdsInUse' \subseteq IdsInUse /\ last_pid' = last_pid
    BY <2>4
  <2>5. CASE IdsInUse' \subseteq IdsInUse \cup {last_pid'} /\ last_pid' = last_pid + 1
    <3>1. 0..last_pid \subseteq 0..last_pid' /\ last_pid' \in 0..last_pid'
      BY <2>1, <2>5
    <3> QED
      BY <2>5, <3>1
  <2> QED
    BY <2>3, <2>4, <2>5
<1>3. Types /\ Bounded /\ last_pid < PidMax => FreshStep
  <2> SUFFICES ASSUME Types, Bounded, last_pid < PidMax
               PROVE  NextPid(last_pid) \notin IdsInUse
    BY DEF FreshStep
  <2>1. last_pid \in Nat /\ PidMax \in Nat
    BY PidMaxAssumption DEF Types, SharedTypes, Pids
  <2> QED
    BY <2>1 DEF NextPid
<1> QED
  BY <1>1, <1>2, <1>3, InboundInvariance, PTL DEF Spec, FreshIds

-----------------------------------------------------------------------------
(* Counting *)

\* How many places of s hold a member of T.
Places(s, T) == {i \in 1..Len(s) : s[i] \in T}
Count(s, T)  == Cardinality(Places(s, T))
Hit(e, T)    == IF e \in T THEN 1 ELSE 0

\* A count is a number.
LEMMA CountType ==
  ASSUME NEW S, NEW s \in Seq(S), NEW T
  PROVE  IsFiniteSet(Places(s, T)) /\ Count(s, T) \in Nat
<1>1. IsFiniteSet(1..Len(s))
  BY LenProperties, FS_Interval
<1>2. IsFiniteSet(Places(s, T))
  BY <1>1, FS_Subset DEF Places
<1> QED
  BY <1>2, FS_CardinalityType DEF Count

\* Nothing is nowhere.
LEMMA CountEmpty == \A T : Count(<<>>, T) = 0
<1>1. \A T : Places(<<>>, T) = {}
  BY DEF Places
<1> QED
  BY <1>1, FS_EmptySet DEF Count

\* Append adds to the count what it appends.
LEMMA CountAppend ==
  ASSUME NEW S, NEW s \in Seq(S), NEW e \in S, NEW T
  PROVE  Count(Append(s, e), T) = Count(s, T) + Hit(e, T)
<1> DEFINE a == Append(s, e)
           n == Len(s) + 1
<1>1. /\ Len(s) \in Nat /\ Len(a) = n
      /\ \A i \in 1..Len(s) : a[i] = s[i]
      /\ a[n] = e
  BY AppendProperties, LenProperties
<1>2. n \notin Places(s, T) /\ IsFiniteSet(Places(s, T)) /\ Count(s, T) \in Nat
  <2>1. IsFiniteSet(Places(s, T)) /\ Count(s, T) \in Nat
    BY CountType
  <2>2. n \notin Places(s, T)
    BY <1>1 DEF Places
  <2> QED
    BY <2>1, <2>2
<1> HIDE DEF a
<1>3. CASE e \in T
  <2>1. Places(a, T) = Places(s, T) \cup {n}
    BY <1>1, <1>3 DEF Places
  <2> HIDE DEF n
  <2> QED
    BY <1>2, <1>3, <2>1, FS_AddElement DEF Count, Hit, a
<1>4. CASE e \notin T
  <2>1. Places(a, T) = Places(s, T)
    BY <1>1, <1>4 DEF Places
  <2> QED
    BY <1>2, <1>4, <2>1 DEF Count, Hit, a
<1> QED
  BY <1>3, <1>4

\* A place less.
LEMMA CountLess ==
  ASSUME NEW S, NEW s \in Seq(S), NEW t \in Seq(S), NEW k \in 1..Len(s),
         Len(t) = Len(s) - 1,
         \A i \in 1..Len(t) : t[i] = s[Skip(k, i)],
         NEW T
  PROVE  Count(s, T) = Count(t, T) + Hit(s[k], T)
<1> DEFINE P == Places(t, T)
           Q == Places(s, T) \ {k}
           f == [i \in P |-> Skip(k, i)]
<1>0. Len(s) \in Nat
  BY LenProperties
<1>1. /\ \A i \in 1..Len(t) : Skip(k, i) \in 1..Len(s) /\ Skip(k, i) # k
      /\ \A i, j \in 1..Len(t) : Skip(k, i) = Skip(k, j) => i = j
      /\ \A i \in 1..Len(s) : i # k => \E j \in 1..Len(t) : Skip(k, j) = i
  <2>1. /\ \A i \in 1..(Len(s) - 1) : Skip(k, i) \in 1..Len(s) /\ Skip(k, i) # k
        /\ \A i, j \in 1..(Len(s) - 1) : Skip(k, i) = Skip(k, j) => i = j
        /\ \A i \in 1..Len(s) : i # k => \E j \in 1..(Len(s) - 1) : Skip(k, j) = i
    BY <1>0, SkipProperties
  <2> QED
    BY <2>1
<1>2. f \in Bijection(P, Q)
  <2>1. f \in [P -> Q]
    BY <1>1 DEF Places
  <2>2. \A i, j \in P : f[i] = f[j] => i = j
    BY <1>1 DEF Places
  <2>3. \A q \in Q : \E i \in P : f[i] = q
    <3>1. ASSUME NEW q \in Q PROVE \E i \in P : f[i] = q
      <4>1. PICK i \in 1..Len(t) : Skip(k, i) = q
        BY <1>1 DEF Places
      <4>2. i \in P
        BY <4>1 DEF Places
      <4> QED
        BY <4>1, <4>2
    <3> QED
      BY <3>1
  <2> QED
    BY <2>1, <2>2, <2>3 DEF Bijection, Injection, Surjection, IsInjective
<1>3. IsFiniteSet(P) /\ IsFiniteSet(Places(s, T)) /\ Count(t, T) \in Nat /\ Count(s, T) \in Nat
  BY CountType
<1> HIDE DEF P, Q, f
<1>4. Cardinality(Q) = Cardinality(P)
  BY <1>2, <1>3, FS_Bijection DEF ExistsBijection
<1>5. Cardinality(P) = Count(t, T) /\ Cardinality(Places(s, T)) = Count(s, T)
  BY DEF Count, P
<1>6. CASE s[k] \in T
  <2>1. k \in Places(s, T)
    BY <1>6 DEF Places
  <2>2. Cardinality(Q) = Cardinality(Places(s, T)) - 1
    BY <1>3, <2>1, FS_RemoveElement DEF Q
  <2>3. Hit(s[k], T) = 1
    BY <1>6 DEF Hit
  <2> QED
    BY <1>3, <1>4, <1>5, <2>2, <2>3
<1>7. CASE s[k] \notin T
  <2>1. k \notin Places(s, T)
    BY <1>7 DEF Places
  <2>2. Cardinality(Q) = Cardinality(Places(s, T))
    BY <1>3, <2>1, FS_RemoveElement DEF Q
  <2>3. Hit(s[k], T) = 0
    BY <1>7 DEF Hit
  <2> QED
    BY <1>3, <1>4, <1>5, <2>2, <2>3
<1> QED
  BY <1>6, <1>7

\* Tail takes from the count what it removes.
LEMMA CountTail ==
  ASSUME NEW S, NEW s \in Seq(S), s # <<>>, NEW T
  PROVE  Count(s, T) = Count(Tail(s), T) + Hit(Head(s), T)
<1> DEFINE t == Tail(s)
<1>1. /\ Len(s) \in Nat \ {0}
      /\ t \in Seq(S) /\ Head(s) = s[1]
      /\ Len(t) = Len(s) - 1
      /\ \A i \in 1..Len(t) : t[i] = s[i + 1]
  BY HeadTailProperties, LenProperties, EmptySeq
<1> HIDE DEF t
<1>2. \A i \in 1..Len(t) : t[i] = s[Skip(1, i)]
  BY <1>1 DEF Skip
<1>3. 1 \in 1..Len(s) /\ Len(t) = Len(s) - 1
  BY <1>1
<1>4. Count(s, T) = Count(t, T) + Hit(s[1], T)
  BY <1>1, <1>2, <1>3, CountLess, SMTT(30)
<1> QED
  BY <1>1, <1>4 DEF t

\* So does RemoveAt.
LEMMA CountRemoveAt ==
  ASSUME NEW S, NEW s \in Seq(S), NEW k \in 1..Len(s), NEW T
  PROVE  Count(s, T) = Count(RemoveAt(s, k), T) + Hit(s[k], T)
BY RemoveAtProperties, CountLess

-----------------------------------------------------------------------------
(* Deliveries *)

\* The frames of a call, and the PUBLISH packets made of them.
FramesOf(c)    == {f \in Frames : f.call = c}
PublishesOf(c) == {PublishOf(f) : f \in FramesOf(c)}

\* An attempt that has not made its frame yet.
Open(c) == IF pc[c] \in {"connecting", "locking", "granting"} THEN 1 ELSE 0

\* What was delivered and what may still be.
Credit(c) == received[c] + Count(tx, FramesOf(c)) + Count(uplink, PublishesOf(c)) + Open(c)

\* An attempt pays for one delivery.
CreditInv == \A c \in Calls : /\ Credit(c) <= attempt[c]
                              /\ pc[c] = "new" => attempt[c] = 0

\* The terms of Credit are numbers.
LEMMA CreditTypes ==
  ASSUME Types, NEW c \in Calls
  PROVE  /\ received[c] \in Nat /\ Count(tx, FramesOf(c)) \in Nat
         /\ Count(uplink, PublishesOf(c)) \in Nat /\ attempt[c] \in Nat
         /\ Open(c) \in {0, 1}
<1>1. Count(tx, FramesOf(c)) \in Nat /\ Count(uplink, PublishesOf(c)) \in Nat
  BY CountType DEF Types, NetTypes
<1> QED
  BY <1>1, MaxAttemptsAssumption DEF Types, OtherTypes, CallTypes, Open

\* What a step may do to the frames and packets of a call.
LEMMA TxCounts ==
  ASSUME Types, NEW c \in Calls
  PROVE  /\ tx' = Append(tx, EmptyFrame) => Count(tx', FramesOf(c)) = Count(tx, FramesOf(c))
         /\ \A f \in Frames : tx' = Append(tx, f) =>
              Count(tx', FramesOf(c)) = Count(tx, FramesOf(c)) + Hit(f, FramesOf(c))
         /\ tx # <<>> /\ ReleaseFrame =>
              Count(tx, FramesOf(c)) = Count(tx', FramesOf(c)) + Hit(Head(tx), FramesOf(c))
<1> DEFINE S == Frames \cup {EmptyFrame}
<1>1. tx \in Seq(S) /\ Count(tx, FramesOf(c)) \in Nat
  BY CreditTypes DEF Types, NetTypes
<1>2. EmptyFrame \notin FramesOf(c)
  BY CallsAssumption DEF EmptyFrame, FramesOf, Frames
<1> HIDE DEF S
<1>3. \A f \in S : Count(Append(tx, f), FramesOf(c)) = Count(tx, FramesOf(c)) + Hit(f, FramesOf(c))
  BY <1>1, CountAppend
<1>4. tx # <<>> => Count(tx, FramesOf(c)) = Count(Tail(tx), FramesOf(c)) + Hit(Head(tx), FramesOf(c))
  BY <1>1, CountTail
<1>5. Hit(EmptyFrame, FramesOf(c)) = 0
  BY <1>2 DEF Hit
<1>6. EmptyFrame \in S /\ Frames \subseteq S
  BY DEF S
<1>7. Count(Append(tx, EmptyFrame), FramesOf(c)) = Count(tx, FramesOf(c))
  BY <1>1, <1>3, <1>5, <1>6
<1> QED
  BY <1>3, <1>4, <1>6, <1>7 DEF ReleaseFrame

\* How steps change the count of PUBLISH packets on their way.
LEMMA UplinkCounts ==
  ASSUME Types, NEW c \in Calls
  PROVE  /\ uplink' = <<>> => Count(uplink', PublishesOf(c)) = 0
         /\ \A p \in UpPackets : uplink' = Append(uplink, p) =>
              Count(uplink', PublishesOf(c)) = Count(uplink, PublishesOf(c)) + Hit(p, PublishesOf(c))
         /\ \A i \in 1..Len(uplink) : uplink' = RemoveAt(uplink, i) =>
              Count(uplink, PublishesOf(c)) = Count(uplink', PublishesOf(c)) + Hit(uplink[i], PublishesOf(c))
<1>1. uplink \in Seq(UpPackets)
  BY DEF Types, NetTypes
<1>2. \A p \in UpPackets : Count(Append(uplink, p), PublishesOf(c))
                           = Count(uplink, PublishesOf(c)) + Hit(p, PublishesOf(c))
  BY <1>1, CountAppend
<1>3. \A i \in 1..Len(uplink) : Count(uplink, PublishesOf(c))
        = Count(RemoveAt(uplink, i), PublishesOf(c)) + Hit(uplink[i], PublishesOf(c))
  BY <1>1, CountRemoveAt
<1> QED
  BY <1>2, <1>3, CountEmpty

\* Frames and their packets are counted for their call only.
LEMMA Hits ==
  ASSUME NEW f \in Frames, NEW c \in Calls
  PROVE  /\ Hit(f, FramesOf(c)) = IF f.call = c THEN 1 ELSE 0
         /\ Hit(PublishOf(f), PublishesOf(c)) = IF f.call = c THEN 1 ELSE 0
<1>1. f \in FramesOf(c) <=> f.call = c
  BY DEF FramesOf
<1>2. PublishOf(f) \in PublishesOf(c) <=> f.call = c
  BY DEF PublishesOf, FramesOf, PublishOf
<1> QED
  BY <1>1, <1>2 DEF Hit

\* A step of a call turns an open attempt into a frame, or opens one more.
LEMMA CreditCall ==
  ASSUME Types, CreditInv, NEW c \in Calls, Proceed(c) \/ Cancel(c)
  PROVE  CreditInv'
<1>0. /\ pc \in [Calls -> {"new", "connecting", "locking", "granting"} \cup Waiting \cup Done]
      /\ attempt \in [Calls -> 0..MAX_ATTEMPTS]
  BY DEF Types, CallTypes
<1>1. CallStep
  BY DEF CallStep
<1>2. UNCHANGED <<received, uplink>>
  BY <1>1, CallFootprint DEF netVars, brokerVars
<1>3. \A d \in Calls : UNCHANGED Count(uplink, PublishesOf(d))
  BY <1>2
<1>4. ASSUME UNCHANGED tx \/ tx' = Append(tx, EmptyFrame)
      PROVE  \A d \in Calls : UNCHANGED Count(tx, FramesOf(d))
  BY <1>4, TxCounts
<1>5. ASSUME NEW d \in Calls, UNCHANGED Count(tx, FramesOf(d)), pc'[d] # "new",
             Open(d)' - Open(d) <= attempt'[d] - attempt[d]
      PROVE  Credit(d)' <= attempt'[d] /\ (pc'[d] = "new" => attempt'[d] = 0)
  <2>1. /\ received[d] \in Nat /\ Count(tx, FramesOf(d)) \in Nat
        /\ Count(uplink, PublishesOf(d)) \in Nat /\ attempt[d] \in Nat /\ Open(d) \in {0, 1}
    BY CreditTypes
  <2>2. Open(d)' \in {0, 1} /\ attempt'[d] \in Nat
    <3>1. CallTypes'
      BY <1>1, CallTypesStep DEF Next, CallStep
    <3> QED
      BY <3>1, MaxAttemptsAssumption DEF CallTypes, Open
  <2>3. Credit(d)' = received[d] + Count(tx, FramesOf(d)) + Count(uplink, PublishesOf(d)) + Open(d)'
    BY <1>2, <1>3, <1>5 DEF Credit
  <2>4. Credit(d) <= attempt[d]
    BY DEF CreditInv
  <2> QED
    BY <1>5, <2>1, <2>2, <2>3, <2>4 DEF Credit
<1>6. ASSUME NEW d \in Calls \ {c}, UNCHANGED Count(tx, FramesOf(d)),
             pc'[d] = pc[d], attempt'[d] = attempt[d]
      PROVE  Credit(d)' <= attempt'[d] /\ (pc'[d] = "new" => attempt'[d] = 0)
  BY <1>2, <1>3, <1>6 DEF CreditInv, Credit, Open
\* c moves and makes no frame.
<1>7. ASSUME UNCHANGED tx \/ tx' = Append(tx, EmptyFrame),
             \A d \in Calls \ {c} : pc'[d] = pc[d] /\ attempt'[d] = attempt[d],
             pc'[c] # "new", Open(c)' - Open(c) <= attempt'[c] - attempt[c]
      PROVE  CreditInv'
  BY <1>4, <1>5, <1>6, <1>7 DEF CreditInv
<1>8. ASSUME NEW q \in QoSs, Start(c, q) PROVE CreditInv'
  <2>1. /\ pc[c] = "new" /\ pc' = [pc EXCEPT ![c] = "connecting"]
        /\ attempt' = [attempt EXCEPT ![c] = 1] /\ UNCHANGED tx
    BY <1>8 DEF Start, At, Goto
  <2>2. Open(c) = 0 /\ Open(c)' = 1 /\ attempt[c] = 0 /\ attempt'[c] = 1 /\ pc'[c] # "new"
    BY <1>0, <2>1 DEF Open, CreditInv
  <2>3. \A d \in Calls \ {c} : pc'[d] = pc[d] /\ attempt'[d] = attempt[d]
    BY <1>0, <2>1
  <2> QED
    BY <1>7, <2>1, <2>2, <2>3
\* The attempt ends: another one has the credit that it adds.
<1>9. ASSUME Retry(c), UNCHANGED tx \/ tx' = Append(tx, EmptyFrame) PROVE CreditInv'
  <2>1. CASE attempt[c] < MAX_ATTEMPTS
    <3>1. /\ pc' = [pc EXCEPT ![c] = "connecting"]
          /\ attempt' = [attempt EXCEPT ![c] = attempt[c] + 1]
      BY <1>9, <2>1 DEF Retry, Goto
    <3>2. /\ Open(c) \in {0, 1} /\ Open(c)' = 1 /\ attempt'[c] = attempt[c] + 1
          /\ attempt[c] \in Nat /\ pc'[c] # "new"
      BY <1>0, <3>1, CreditTypes DEF Open
    <3>3. \A d \in Calls \ {c} : pc'[d] = pc[d] /\ attempt'[d] = attempt[d]
      BY <1>0, <3>1
    <3>4. Open(c)' - Open(c) <= attempt'[c] - attempt[c]
      BY <3>2
    <3> QED
      BY <1>7, <1>9, <3>2, <3>3, <3>4
  <2>2. CASE ~(attempt[c] < MAX_ATTEMPTS)
    <3>1. pc' = [pc EXCEPT ![c] = "failed"] /\ UNCHANGED attempt
      BY <1>9, <2>2 DEF Retry, Goto
    <3>2. /\ Open(c) \in {0, 1} /\ Open(c)' = 0 /\ attempt'[c] = attempt[c]
          /\ attempt[c] \in Nat /\ pc'[c] # "new"
      BY <1>0, <3>1, CreditTypes DEF Open
    <3>3. \A d \in Calls \ {c} : pc'[d] = pc[d] /\ attempt'[d] = attempt[d]
      BY <1>0, <3>1
    <3>4. Open(c)' - Open(c) <= attempt'[c] - attempt[c]
      BY <3>2
    <3> QED
      BY <1>7, <1>9, <3>2, <3>3, <3>4
  <2> QED
    BY <2>1, <2>2
<1>10. CASE RefuseCall(c) \/ EnqueueFails(c) \/ Timeout(c)
  BY <1>9, <1>10 DEF RefuseCall, EnqueueFails, Timeout
\* The attempt goes on, or ends for good.
<1>11. ASSUME NEW place \in {"locking", "granting", "ack", "rel", "ok", "failed"},
              pc' = [pc EXCEPT ![c] = place], UNCHANGED <<attempt, tx>>,
              place \in {"locking", "granting"} => pc[c] \in {"connecting", "locking"}
       PROVE  CreditInv'
  <2>1. /\ \A d \in Calls \ {c} : pc'[d] = pc[d] /\ attempt'[d] = attempt[d]
        /\ pc'[c] = place /\ attempt'[c] = attempt[c] /\ attempt[c] \in Nat
    BY <1>0, <1>11, CreditTypes
  <2>2. Open(c)' - Open(c) <= attempt'[c] - attempt[c]
    <3>1. Open(c) \in {0, 1} /\ (Open(c)' = 0 \/ (Open(c)' = 1 /\ Open(c) = 1))
      BY <1>11, <2>1 DEF Open
    <3> QED
      BY <2>1, <3>1
  <2> QED
    BY <1>7, <1>11, <2>1, <2>2
<1>12. CASE TakePid(c) \/ LockPublisher(c) \/ WaitStep(c) \/ Cancel(c)
  <2>1. \E place \in {"locking", "granting", "ack", "rel", "ok", "failed"} :
          /\ pc' = [pc EXCEPT ![c] = place] /\ UNCHANGED <<attempt, tx>>
          /\ place \in {"locking", "granting"} => pc[c] \in {"connecting", "locking"}
    BY <1>12 DEF TakePid, LockPublisher, WaitStep, Cancel, At, Goto
  <2> QED
    BY <1>11, <2>1
<1>13. CASE EnqueuePanics(c)
  BY <1>2, <1>3, <1>4, <1>13 DEF EnqueuePanics, callVars, CreditInv, Credit, Open
\* The frame takes the place of the open attempt.
<1>14. CASE Enqueue(c)
  <2>1. /\ pc[c] = "granting" /\ pc' = [pc EXCEPT ![c] = "tx"] /\ UNCHANGED attempt
        /\ tx' = Append(tx, Frame(c))
    BY <1>14 DEF Enqueue, At, Goto
  <2>2. Frame(c) \in Frames /\ Frame(c).call = c
    BY <1>14, EnqueueTx
  <2>3. \A d \in Calls : Count(tx', FramesOf(d)) = Count(tx, FramesOf(d)) + Hit(Frame(c), FramesOf(d))
    BY <2>1, <2>2, TxCounts
  <2>4. Hit(Frame(c), FramesOf(c)) = 1 /\ \A d \in Calls \ {c} : Hit(Frame(c), FramesOf(d)) = 0
    BY <2>2, Hits
  <2>5. \A d \in Calls \ {c} : UNCHANGED Count(tx, FramesOf(d))
    BY <2>3, <2>4, CreditTypes
  <2>6. \A d \in Calls \ {c} : pc'[d] = pc[d] /\ attempt'[d] = attempt[d]
    BY <1>0, <2>1
  <2>7. Credit(c)' <= attempt'[c]
    <3>1. Open(c) = 1 /\ Open(c)' = 0
      BY <1>0, <2>1 DEF Open
    <3>2. /\ received[c] \in Nat /\ Count(tx, FramesOf(c)) \in Nat
          /\ Count(uplink, PublishesOf(c)) \in Nat /\ attempt[c] \in Nat
      BY CreditTypes
    <3>3. Credit(c)' = received[c] + (Count(tx, FramesOf(c)) + 1) + Count(uplink, PublishesOf(c)) + 0
      BY <1>2, <1>3, <2>3, <2>4, <3>1 DEF Credit
    <3>4. received[c] + Count(tx, FramesOf(c)) + Count(uplink, PublishesOf(c)) + 1 <= attempt[c]
      BY <3>1 DEF CreditInv, Credit
    <3> QED
      BY <2>1, <3>2, <3>3, <3>4
  <2>8. pc'[c] = "tx"
    BY <1>0, <2>1
  <2> QED
    BY <1>6, <2>5, <2>6, <2>7, <2>8 DEF CreditInv
<1> QED
  BY <1>8, <1>10, <1>12, <1>13, <1>14 DEF Proceed

\* Every other step moves a frame on or loses it.
LEMMA CreditPeer ==
  ASSUME Types, CreditInv, PeerStep
  PROVE  CreditInv'
<1>0. UNCHANGED <<pc, attempt>>
  BY PeerFootprint DEF callVars
<1>1. \A c \in Calls : UNCHANGED Open(c)
  BY <1>0 DEF Open
<1>2. SUFFICES ASSUME NEW c \in Calls
               PROVE  received'[c] + Count(tx', FramesOf(c)) + Count(uplink', PublishesOf(c))
                      <= received[c] + Count(tx, FramesOf(c)) + Count(uplink, PublishesOf(c))
  <2>1. ASSUME NEW c \in Calls PROVE Credit(c)' <= attempt'[c]
    <3>1. /\ received[c] \in Nat /\ Count(tx, FramesOf(c)) \in Nat
          /\ Count(uplink, PublishesOf(c)) \in Nat /\ attempt[c] \in Nat /\ Open(c) \in {0, 1}
      BY CreditTypes
    <3>2. Types'
      BY TypesStep DEF PeerStep, Next
    <3>3. received'[c] \in Nat /\ Count(tx', FramesOf(c)) \in Nat /\ Count(uplink', PublishesOf(c)) \in Nat
      BY <3>2, CountType DEF Types, NetTypes, OtherTypes
    <3>4. received'[c] + Count(tx', FramesOf(c)) + Count(uplink', PublishesOf(c))
          <= received[c] + Count(tx, FramesOf(c)) + Count(uplink, PublishesOf(c))
      BY <1>2
    <3>5. Credit(c) <= attempt[c]
      BY DEF CreditInv
    <3>6. Credit(c)' = received'[c] + Count(tx', FramesOf(c)) + Count(uplink', PublishesOf(c)) + Open(c)
      BY <1>1 DEF Credit
    <3> QED
      BY <1>0, <3>1, <3>3, <3>4, <3>5, <3>6 DEF Credit
  <2> QED
    BY <1>0, <2>1 DEF CreditInv
<1> DEFINE t == Count(tx, FramesOf(c))
           u == Count(uplink, PublishesOf(c))
           r == received[c]
           t2 == Count(tx', FramesOf(c))
           u2 == Count(uplink', PublishesOf(c))
           r2 == received'[c]
<1>3. r \in Nat /\ t \in Nat /\ u \in Nat
  BY CreditTypes
<1>4. ASSUME UNCHANGED <<received, tx>>, Count(uplink', PublishesOf(c)) \in {0, u}
      PROVE  received'[c] + Count(tx', FramesOf(c)) + Count(uplink', PublishesOf(c)) <= r + t + u
  BY <1>3, <1>4
<1>5. CASE \/ Connect \/ ConnectFails \/ Disconnect \/ LinkLost \/ BrokerForgets
           \/ StackNotices \/ Unsolicited \/ \E m \in Inbound : BrokerSend(m)
  <2>1. UNCHANGED <<received, tx>> /\ (UNCHANGED uplink \/ uplink' = <<>>)
    BY <1>5 DEF Connect, ConnectMqtt, BrokerConnect, ConnectFails, Disconnect, LinkLost,
                BrokerForgets, StackNotices, Unsolicited, BrokerSend, Reset, CloseLink,
                netVars, brokerVars
  <2> QED
    BY <1>4, <2>1, UplinkCounts
<1>6. CASE \/ HandlePublish1 \/ HandlePublish2 \/ HandlePublish2Panics \/ DiscardPublish
           \/ HandlePubAck \/ HandlePubRec \/ HandlePubRecPanics \/ HandlePubComp \/ HandlePubRel
  <2>1. /\ UNCHANGED <<received, tx>>
        /\ \/ UNCHANGED uplink
           \/ \E type \in {"PubAck", "PubRec", "PubComp", "PubRel"} : Reply(type)
    BY <1>6 DEF HandlePublish1, HandlePublish2, HandlePublish2Panics, DiscardPublish,
                HandlePubAck, HandlePubRec, HandlePubRecPanics, HandlePubComp, HandlePubRel,
                SkipAck, netVars, brokerVars
  <2>2. ASSUME NEW type \in {"PubAck", "PubRec", "PubComp", "PubRel"}, Reply(type)
        PROVE  Count(uplink', PublishesOf(c)) = u
    <3> DEFINE p == Packet(type, Id)
    <3>1. uplink \in Seq(UpPackets) /\ uplink' = Append(uplink, p)
      BY <2>2 DEF Reply, Types, NetTypes
    <3>2. uplink \in Seq(UpPackets \cup {p})
      BY <3>1, SeqMonotonic
    <3>3. Hit(p, PublishesOf(c)) = 0
      BY DEF Hit, PublishesOf, PublishOf, Packet
    <3> HIDE DEF p
    <3>4. Count(Append(uplink, p), PublishesOf(c)) = u + Hit(p, PublishesOf(c))
      BY <3>2, CountAppend
    <3> QED
      BY <1>3, <3>1, <3>3, <3>4
  <2> QED
    BY <1>4, <2>1, <2>2
<1>7. CASE TransmitFails
  <2>1. UNCHANGED received /\ uplink' = <<>> /\ tx # <<>> /\ ReleaseFrame
    BY <1>7 DEF TransmitFails, Reset, CloseLink, brokerVars
  <2>2. t = Count(tx', FramesOf(c)) + Hit(Head(tx), FramesOf(c)) /\ Count(uplink', PublishesOf(c)) = 0
    BY <2>1, TxCounts, UplinkCounts
  <2>3. Count(tx', FramesOf(c)) \in Nat /\ Hit(Head(tx), FramesOf(c)) \in {0, 1}
    <3>1. tx' \in Seq(Frames \cup {EmptyFrame})
      BY <2>1, ElemsTail DEF Types, NetTypes, ReleaseFrame
    <3> QED
      BY <3>1, CountType DEF Hit
  <2>4. r2 = r /\ u2 = 0
    BY <2>1, <2>2
  <2> DEFINE k == Hit(Head(tx), FramesOf(c))
  <2>5. t = t2 + k /\ t2 \in Nat /\ k \in {0, 1}
    BY <2>2, <2>3
  <2> HIDE DEF t, u, r, t2, u2, r2, k
  <2>6. r2 + t2 + u2 <= r + t + u
    BY <1>3, <2>4, <2>5
  <2> QED
    BY <2>6 DEF t, u, r, t2, u2, r2
\* The frame leaves the channel, and is a PUBLISH or lost.
<1>8. CASE Transmit
  <2> DEFINE h == Head(tx)
  <2>1. /\ UNCHANGED received /\ tx # <<>> /\ ReleaseFrame
        /\ UNCHANGED uplink \/ (h # EmptyFrame /\ uplink' = Append(uplink, PublishOf(h)))
    BY <1>8 DEF Transmit, brokerVars
  <2>2. t = Count(tx', FramesOf(c)) + Hit(h, FramesOf(c))
    BY <2>1, TxCounts
  <2>3. Count(tx', FramesOf(c)) \in Nat /\ Hit(h, FramesOf(c)) \in {0, 1}
    <3>1. tx' \in Seq(Frames \cup {EmptyFrame})
      BY <2>1, ElemsTail DEF Types, NetTypes, ReleaseFrame
    <3> QED
      BY <3>1, CountType DEF Hit
  <2>4. h \in Frames \cup {EmptyFrame}
    BY <2>1, ReleaseViews
  <2>5. Count(uplink', PublishesOf(c)) = u
        \/ Count(uplink', PublishesOf(c)) = u + Hit(h, FramesOf(c))
    <3>1. CASE UNCHANGED uplink
      BY <3>1
    <3>2. CASE h # EmptyFrame /\ uplink' = Append(uplink, PublishOf(h))
      <4>1. h \in Frames /\ PublishOf(h) \in UpPackets
        BY <2>4, <3>2 DEF UpPackets
      <4>2. Count(uplink', PublishesOf(c)) = u + Hit(PublishOf(h), PublishesOf(c))
        BY <3>2, <4>1, UplinkCounts
      <4>3. Hit(PublishOf(h), PublishesOf(c)) = Hit(h, FramesOf(c))
        BY <4>1, Hits
      <4> QED
        BY <4>2, <4>3
    <3> QED
      BY <2>1, <3>1, <3>2
  <2> DEFINE k == Hit(h, FramesOf(c))
  <2>6. r2 = r /\ t = t2 + k /\ t2 \in Nat /\ k \in {0, 1} /\ (u2 = u \/ u2 = u + k)
    BY <2>1, <2>2, <2>3, <2>5
  <2> HIDE DEF t, u, r, t2, u2, r2, k
  <2>7. r2 + t2 + u2 <= r + t + u
    BY <1>3, <2>6
  <2> QED
    BY <2>7 DEF t, u, r, t2, u2, r2
\* The PUBLISH leaves the connection, and is a delivery or a duplicate.
<1>9. CASE BrokerReceive
  <2>1. PICK i \in DOMAIN uplink :
          /\ \/ BrokerOnPublish(uplink[i])
             \/ BrokerOnPubRel(uplink[i])
             \/ BrokerOnAck(uplink[i])
          /\ uplink' = RemoveAt(uplink, i)
          /\ UNCHANGED tx
    BY <1>9 DEF BrokerReceive
  <2> DEFINE p == uplink[i]
  <2>2. uplink \in Seq(UpPackets) /\ i \in 1..Len(uplink) /\ p \in UpPackets
    BY LenProperties, ElementOfSeq DEF Types, NetTypes
  <2>3. u = Count(uplink', PublishesOf(c)) + Hit(p, PublishesOf(c))
    BY <2>1, <2>2, UplinkCounts
  <2>4. Count(uplink', PublishesOf(c)) \in Nat /\ Hit(p, PublishesOf(c)) \in {0, 1}
    <3>1. uplink' \in Seq(UpPackets)
      BY <2>1, <2>2, ElemsRemoveAt
    <3> QED
      BY <3>1, CountType DEF Hit
  <2> HIDE DEF p
  <2>5. received'[c] \in {r, r + Hit(p, PublishesOf(c))}
    <3>1. CASE BrokerOnPublish(p)
      <4>1. PICK f \in Frames : p = PublishOf(f)
        BY <2>2, <3>1 DEF BrokerOnPublish, UpPackets, Packet
      <4>2. Hit(p, PublishesOf(c)) = IF f.call = c THEN 1 ELSE 0
        BY <4>1, Hits
      <4>3. p.frame = f /\ received \in [Calls -> Nat] /\ f.call \in Calls
        BY <4>1 DEF PublishOf, Types, OtherTypes, Frames
      <4>4. received' = received \/ received' = [received EXCEPT ![f.call] = @ + 1]
        BY <3>1, <4>3 DEF BrokerOnPublish, BrokerAccepts, BrokerRejects
      <4> QED
        BY <4>2, <4>3, <4>4
    <3>2. CASE BrokerOnPubRel(p) \/ BrokerOnAck(p)
      BY <3>2 DEF BrokerOnPubRel, BrokerOnAck
    <3> QED
      BY <2>1, <3>1, <3>2 DEF p
  <2>6. Count(tx', FramesOf(c)) = t
    BY <2>1
  <2> DEFINE k == Hit(p, PublishesOf(c))
  <2>7. r2 \in {r, r + k} /\ u = u2 + k /\ u2 \in Nat /\ k \in {0, 1} /\ t2 = t
    BY <2>3, <2>4, <2>5, <2>6
  <2> HIDE DEF t, u, r, t2, u2, r2, k
  <2>8. r2 + t2 + u2 <= r + t + u
    BY <1>3, <2>7
  <2> QED
    BY <2>8 DEF t, u, r, t2, u2, r2
<1> QED
  BY <1>5, <1>6, <1>7, <1>8, <1>9 DEF PeerStep, Select

\* The broker passes a message on at most once for each attempt of its
\* publish(), through any number of timeouts, retries and connections, and
\* whether ids are used again or not.
THEOREM DeliveriesAreBounded == Spec => []DeliveriesBounded
<1>1. Init => CreditInv
  BY CountEmpty DEF Init, CreditInv, Credit, Open
<1>2. Types /\ CreditInv /\ [Next]_vars => CreditInv'
  <2> SUFFICES ASSUME Types, CreditInv, [Next]_vars PROVE CreditInv'
    OBVIOUS
  <2>1. CASE UNCHANGED vars
    BY <2>1 DEF vars, callVars, netVars, brokerVars, CreditInv, Credit, Open
  <2> QED
    BY <2>1, CreditCall, CreditPeer, Steps DEF CallStep
<1>3. Types /\ CreditInv => DeliveriesBounded
  <2> SUFFICES ASSUME Types, CreditInv, NEW c \in Calls PROVE received[c] <= attempt[c]
    BY DEF DeliveriesBounded
  <2>1. /\ received[c] \in Nat /\ Count(tx, FramesOf(c)) \in Nat
        /\ Count(uplink, PublishesOf(c)) \in Nat /\ attempt[c] \in Nat /\ Open(c) \in {0, 1}
    BY CreditTypes
  <2>2. Credit(c) <= attempt[c]
    BY DEF CreditInv
  <2> QED
    BY <2>1, <2>2 DEF Credit
<1> QED
  BY <1>1, <1>2, <1>3, TypesInvariance, PTL DEF Spec
=============================================================================
