------------------------------ MODULE Session ------------------------------
(***************************************************************************)
(* The MQTT session: MqttClient::publish() in any number of tasks, the     *)
(* Shared state that they and the stack keep under one mutex, the stack's  *)
(* run() and select() with its packet handlers, and a broker at the other  *)
(* end of a connection that may be lost at any time.                       *)
(*                                                                         *)
(* A step is what happens between two awaits.  No task awaits anything     *)
(* while it holds the mutex around Shared, so each use of Shared is one    *)
(* step.  The transmit channel is the lossless FIFO that FrameLog          *)
(* specifies and PubSub implements: a queue of frames whose front leaves   *)
(* when the stack drops or releases its read grant.  Wakers are left out:  *)
(* a task waits while the guard of its next step is false.                 *)
(***************************************************************************)
EXTENDS Integers, Sequences, FiniteSets, SequencesExt

CONSTANTS
  Calls,         \* the publish() calls the application makes
  NoCall,        \* no call: the publisher's mutex is free
  QoSs,          \* the QoS levels they use
  Inbound1,      \* messages the broker publishes to the client with QoS 1
  Inbound2,      \* messages the broker publishes to the client with QoS 2
  MAX_INFLIGHT,  \* capacity of each set of packet ids in Shared
  MAX_ATTEMPTS,  \* how often publish() tries
  TxFrames,      \* frames the transmit channel has room for
  PidMax,        \* 2^16 - 1: packet ids are nonzero u16s
  BackoffLimit,  \* failed connects after which backoff_algo returns None
  Faults,        \* what may go wrong, besides losing the connection
  MaxLosses,     \* bound: connections lost or given up in a behaviour
  MaxRejected,   \* bound: calls whose messages the broker refuses
  MaxEvents      \* bound: such losses and such calls, together

AllFaults == {"timeout",     \* a publish() attempt takes too long
              "cancel",      \* the future of a publish() is dropped
              "encode",      \* a packet cannot be encoded in its grant
              "too_large",   \* a packet is larger than the transmit buffer
              "rx_full",     \* the receive channel has no room
              "refuse",      \* connecting fails
              "reorder",     \* the broker answers out of order
              "forget",      \* the broker expires the session
              "disconnect"}  \* the application calls MqttStack::disconnect()

Inbound == Inbound1 \cup Inbound2

ASSUME CallsAssumption        == IsFiniteSet(Calls) /\ NoCall \notin Calls
ASSUME QoSsAssumption         == QoSs \subseteq 0..2
ASSUME InboundAssumption      == /\ IsFiniteSet(Inbound)
                                 /\ Inbound1 \cap Inbound2 = {}
ASSUME MaxInflightAssumption  == MAX_INFLIGHT \in Nat \ {0}
ASSUME MaxAttemptsAssumption  == MAX_ATTEMPTS \in Nat \ {0}
ASSUME TxFramesAssumption     == TxFrames \in Nat \ {0}
ASSUME PidMaxAssumption       == PidMax \in Nat \ {0}
ASSUME BackoffLimitAssumption == BackoffLimit \in Nat
ASSUME FaultsAssumption       == Faults \subseteq AllFaults
ASSUME MaxLossesAssumption    == MaxLosses \in Nat
ASSUME MaxRejectedAssumption  == MaxRejected \in Nat
ASSUME MaxEventsAssumption    == MaxEvents \in Nat

VARIABLES
  last_pid,          \* Shared::last_pid
  connected,         \* Shared::connected: "no", "clean" or "resumed"
  inflight_pub,      \* Shared::inflight_pub
  outgoing_pid,      \* Shared::outgoing_pid
  outgoing_rel,      \* Shared::outgoing_rel
  incoming_pub,      \* Shared::incoming_pub
  pc,                \* where each publish() is
  qos,               \* the QoS of its message
  pid,               \* the packet id of its current attempt
  attempt,           \* the number of that attempt
  tx_publisher,      \* the call that holds the mutex around the publisher
  tx,                \* the transmit channel, oldest frame first
  stack,             \* where MqttStack::run() is: "down", "up" or "stopped"
  clean_start,       \* MqttStack::clean_start
  connect_attempts,  \* MqttStack::connect_attempts
  panicked,          \* an unwrap() failed: the program has stopped
  link,              \* the connection carries data
  uplink,            \* packets on their way to the broker
  downlink,          \* packets on their way to the client
  persists,          \* broker: it has a session for this client
  session,           \* broker: ids of QoS 2 publishes not released yet
  outbox,            \* broker: where each inbound message's handshake is
  received,          \* history: deliveries of each call's message
  rejected,          \* history: calls whose message the broker refused
  handed,            \* history: commits of each inbound message to rx_publisher
  losses             \* connections lost or given up so far

sharedVars == <<last_pid, connected, inflight_pub, outgoing_pid, outgoing_rel,
                incoming_pub>>
callVars   == <<pc, qos, pid, attempt, tx_publisher>>
stackVars  == <<stack, clean_start, connect_attempts>>
netVars    == <<link, uplink, downlink>>
brokerVars == <<persists, session, outbox, received, rejected>>
vars == <<sharedVars, callVars, tx, stackVars, panicked, netVars, brokerVars,
          handed, losses>>

Pids      == 1..PidMax
HandedMax == 2
Waiting   == {"tx", "ack", "rel"}
Done      == {"ok", "failed"}

\* A frame of the transmit channel.  One whose write grant was dropped before
\* commit() is empty and has no packet id.
Frame(c)   == [call |-> c, pid |-> pid[c], qos |-> qos[c]]
EmptyFrame == [call |-> NoCall, pid |-> 0, qos |-> 0]

\* A packet on the wire; only the client's PUBLISH carries a frame, and only the
\* broker's answer to it a reason code (MQTT 5) that is not always a success.
Packet(type, id)         == [type |-> type, id |-> id]
Verdict(type, id, reason) == [type |-> type, id |-> id, reason |-> reason]
PublishOf(frame) == [type |-> "Publish", id |-> frame.pid, frame |-> frame]

\* Mutant: one too early.
FullEarly(set) == Cardinality(set) >= MAX_INFLIGHT - 1

Full(set) == Cardinality(set) = MAX_INFLIGHT

\* FnvIndexSet::insert() succeeds.
Fits(set, id) == id \in set \/ ~Full(set)

\* Mutant: hands out the same packet id again.
NextPidStuck(p) == p

\* Pid::add(1) wraps past 2^16 - 1 and skips 0.
NextPid(p) == IF p = PidMax THEN 1 ELSE p + 1

Init ==
  /\ last_pid = 1
  /\ connected = "no"
  /\ inflight_pub = {} /\ outgoing_pid = {}
  /\ outgoing_rel = {} /\ incoming_pub = {}
  /\ pc = [c \in Calls |-> "new"]
  /\ qos = [c \in Calls |-> 0]
  /\ pid = [c \in Calls |-> 0]
  /\ attempt = [c \in Calls |-> 0]
  /\ tx_publisher = NoCall
  /\ tx = <<>>
  /\ stack = "down"
  /\ clean_start = TRUE
  /\ connect_attempts = 0
  /\ panicked = FALSE
  /\ link = FALSE
  /\ uplink = <<>> /\ downlink = <<>>
  /\ persists = FALSE
  /\ session = {}
  /\ outbox = [m \in Inbound |-> "new"]
  /\ received = [c \in Calls |-> 0]
  /\ rejected = {}
  /\ handed = [m \in Inbound |-> 0]
  /\ losses = 0

-----------------------------------------------------------------------------
(***************************************************************************)
(* MqttClient::publish().                                                  *)
(***************************************************************************)
At(c, place)   == pc[c] = place /\ ~panicked
Goto(c, place) == pc' = [pc EXCEPT ![c] = place]

\* The end of a failed attempt: another one, or the error is returned.
Retry(c) ==
  IF attempt[c] < MAX_ATTEMPTS
  THEN Goto(c, "connecting") /\ attempt' = [attempt EXCEPT ![c] = @ + 1]
  ELSE Goto(c, "failed") /\ UNCHANGED attempt

Start(c, q) ==
  /\ At(c, "new")
  /\ Goto(c, "connecting")
  /\ qos' = [qos EXCEPT ![c] = q]
  /\ attempt' = [attempt EXCEPT ![c] = 1]
  /\ UNCHANGED <<sharedVars, pid, tx_publisher, tx, stackVars, panicked,
                 netVars, brokerVars, handed, losses>>

\* wait_connected() is over and send() asks Shared for a packet id.
TakePid(c) ==
  /\ At(c, "connecting")
  /\ connected # "no"
  /\ qos[c] > 0 => ~Full(inflight_pub)
  /\ last_pid' = NextPid(last_pid)
  /\ pid' = [pid EXCEPT ![c] = NextPid(last_pid)]
  /\ Goto(c, "locking")
  /\ UNCHANGED <<connected, inflight_pub, outgoing_pid, outgoing_rel,
                 incoming_pub, qos, attempt, tx_publisher, tx, stackVars,
                 panicked, netVars, brokerVars, handed, losses>>

\* Mutant: refuses with one place left.
RefuseCallEarly(c) ==
  /\ At(c, "connecting")
  /\ connected # "no"
  /\ qos[c] > 0 /\ FullEarly(inflight_pub)
  /\ Retry(c)
  /\ UNCHANGED <<sharedVars, qos, pid, tx_publisher, tx, stackVars, panicked,
                 netVars, brokerVars, handed, losses>>

\* send() returns MaxInflight at once.
RefuseCall(c) ==
  /\ At(c, "connecting")
  /\ connected # "no"
  /\ qos[c] > 0 /\ Full(inflight_pub)
  /\ Retry(c)
  /\ UNCHANGED <<sharedVars, qos, pid, tx_publisher, tx, stackVars, panicked,
                 netVars, brokerVars, handed, losses>>

LockPublisher(c) ==
  /\ At(c, "locking")
  /\ tx_publisher = NoCall
  /\ tx_publisher' = c
  /\ Goto(c, "granting")
  /\ UNCHANGED <<sharedVars, qos, pid, attempt, tx, stackVars, panicked,
                 netVars, brokerVars, handed, losses>>

\* grant_async() has a region, the packet is encoded in it, its id goes into
\* Shared and the frame is committed.
Enqueue(c) ==
  /\ At(c, "granting")
  /\ Len(tx) < TxFrames
  /\ Fits(outgoing_pid, pid[c])
  /\ qos[c] > 0 => Fits(inflight_pub, pid[c])
  /\ outgoing_pid' = outgoing_pid \cup {pid[c]}
  /\ inflight_pub' = IF qos[c] > 0 THEN inflight_pub \cup {pid[c]}
                                   ELSE inflight_pub
  /\ tx' = Append(tx, Frame(c))
  /\ tx_publisher' = NoCall
  /\ Goto(c, "tx")
  /\ UNCHANGED <<last_pid, connected, outgoing_rel, incoming_pub, qos, pid,
                 attempt, stackVars, panicked, netVars, brokerVars, handed,
                 losses>>

\* unwrap!(inflight_pub.insert()) after the capacity was checked in TakePid.
EnqueuePanics(c) ==
  /\ At(c, "granting")
  /\ Len(tx) < TxFrames
  /\ Fits(outgoing_pid, pid[c])
  /\ qos[c] > 0 /\ ~Fits(inflight_pub, pid[c])
  /\ outgoing_pid' = outgoing_pid \cup {pid[c]}
  /\ panicked' = TRUE
  /\ UNCHANGED <<last_pid, connected, inflight_pub, outgoing_rel, incoming_pub,
                 callVars, tx, stackVars, netVars, brokerVars, handed, losses>>

\* The attempt ends between the grant and the commit: outgoing_pid is full or
\* the packet cannot be encoded.  The dropped grant commits an empty frame.
EnqueueFails(c) ==
  /\ At(c, "granting")
  /\ Len(tx) < TxFrames
  /\ ~Fits(outgoing_pid, pid[c]) \/ "encode" \in Faults
  /\ tx' = Append(tx, EmptyFrame)
  /\ tx_publisher' = NoCall
  /\ Retry(c)
  /\ UNCHANGED <<sharedVars, qos, pid, stackVars, panicked, netVars,
                 brokerVars, handed, losses>>

\* Mutant: does not wait for the acknowledgement.
AcknowledgedEarly(c) == TRUE

\* wait_publish_tx(): the frame was written, then the packet acknowledged,
\* then (QoS 2) its release completed; each is known by the packet id having
\* left a set of Shared.
Transmitted(c)  == pid[c] \notin outgoing_pid
Acknowledged(c) == pid[c] \notin inflight_pub
Completed(c)    == pid[c] \notin outgoing_rel

WaitStep(c) ==
  /\ \/ /\ At(c, "tx") /\ Transmitted(c)
        /\ Goto(c, IF qos[c] = 0 THEN "ok" ELSE "ack")
     \/ /\ At(c, "ack") /\ Acknowledged(c)
        /\ Goto(c, IF qos[c] = 2 THEN "rel" ELSE "ok")
     \/ /\ At(c, "rel") /\ Completed(c)
        /\ Goto(c, "ok")
  /\ UNCHANGED <<sharedVars, qos, pid, attempt, tx_publisher, tx, stackVars,
                 panicked, netVars, brokerVars, handed, losses>>

\* Mutant: the future cleans nothing up.
OnDropNothing(c) == UNCHANGED <<inflight_pub, outgoing_pid, outgoing_rel>>

\* The OnDrop of wait_publish_tx(); it looks in outgoing_pid only when the id
\* was not in inflight_pub.
OnDrop(c) ==
  /\ inflight_pub' = inflight_pub \ {pid[c]}
  /\ outgoing_pid' = IF pid[c] \in inflight_pub THEN outgoing_pid
                                                ELSE outgoing_pid \ {pid[c]}
  /\ outgoing_rel' = outgoing_rel \ {pid[c]}

\* The future of an attempt is dropped, and with it the guard of the publisher.
DropAttempt(c) ==
  /\ tx_publisher' = IF tx_publisher = c THEN NoCall ELSE tx_publisher
  /\ IF pc[c] \in Waiting
     THEN OnDrop(c)
     ELSE UNCHANGED <<inflight_pub, outgoing_pid, outgoing_rel>>

\* with_timeout() polls the attempt before the timer, so only an attempt that
\* cannot go on times out.  GrantFuture::poll() is pending on InsufficientSize, so
\* a packet larger than the buffer waits for its timer, with the mutex held.
Blocked(c) ==
  \/ At(c, "locking") /\ tx_publisher # NoCall
  \/ At(c, "granting") /\ (Len(tx) >= TxFrames \/ "too_large" \in Faults)
  \/ At(c, "tx") /\ ~Transmitted(c)
  \/ At(c, "ack") /\ ~Acknowledged(c)
  \/ At(c, "rel") /\ ~Completed(c)

Timeout(c) ==
  /\ "timeout" \in Faults
  /\ Blocked(c)
  /\ DropAttempt(c)
  /\ Retry(c)
  /\ UNCHANGED <<last_pid, connected, incoming_pub, qos, pid, tx, stackVars,
                 panicked, netVars, brokerVars, handed, losses>>

\* The application drops the future of publish().
Cancel(c) ==
  /\ "cancel" \in Faults
  /\ ~panicked /\ pc[c] \notin {"new"} \cup Done
  /\ DropAttempt(c)
  /\ Goto(c, "failed")
  /\ UNCHANGED <<last_pid, connected, incoming_pub, qos, pid, attempt, tx,
                 stackVars, panicked, netVars, brokerVars, handed, losses>>

Proceed(c) ==
  \/ \E q \in QoSs : Start(c, q)
  \/ TakePid(c) \/ RefuseCall(c) \/ LockPublisher(c)
  \/ Enqueue(c) \/ EnqueuePanics(c) \/ EnqueueFails(c)
  \/ WaitStep(c) \/ Timeout(c)

-----------------------------------------------------------------------------
(***************************************************************************)
(* MqttStack::run(): connecting, transmitting, and giving a connection up. *)
(***************************************************************************)
\* What the broker drops with a session.
Forgotten == [m \in Inbound |-> IF outbox[m] \in {"sent", "rec"}
                                THEN "dropped" ELSE outbox[m]]

\* The packets the broker sends again in a session it resumes.
Redelivery == {Packet("Publish", m) : m \in {i \in Inbound : outbox[i] = "sent"}}
         \cup {Packet("PubRel", m) : m \in {i \in Inbound : outbox[i] = "rec"}}

StackAt(place) == stack = place /\ ~panicked

SessionPresent == persists /\ ~clean_start

\* The broker's half of a handshake that it accepts.
BrokerConnect ==
  /\ persists' = TRUE
  /\ session' = IF SessionPresent THEN session ELSE {}
  /\ outbox' = IF SessionPresent THEN outbox ELSE Forgotten
  /\ UNCHANGED <<received, rejected>>

\* connect_mqtt(): CONNECT is sent and an accepting CONNACK comes back.
ConnectMqtt ==
  /\ BrokerConnect
  /\ clean_start' = FALSE
  /\ connect_attempts' = 0
  /\ link' = TRUE
  /\ uplink' = <<>>
  /\ IF SessionPresent THEN downlink' \in SetToSeqs(Redelivery)
                       ELSE downlink' = <<>>

Connect ==
  /\ StackAt("down")
  /\ stack' = "up"
  /\ ConnectMqtt
  /\ connected' = IF SessionPresent THEN "resumed" ELSE "clean"
  /\ UNCHANGED <<last_pid, inflight_pub, outgoing_pid, outgoing_rel,
                 incoming_pub, callVars, tx, panicked, handed, losses>>

\* Connecting fails or takes too long, the broker having seen the CONNECT or
\* not.  When backoff_algo returns None, run() returns.
ConnectFails ==
  /\ "refuse" \in Faults
  /\ StackAt("down")
  /\ BrokerConnect \/ UNCHANGED brokerVars
  /\ IF connect_attempts < BackoffLimit
     THEN connect_attempts' = connect_attempts + 1 /\ UNCHANGED stack
     ELSE stack' = "stopped" /\ UNCHANGED connect_attempts
  /\ UNCHANGED <<sharedVars, callVars, tx, clean_start, panicked, netVars,
                 handed, losses>>

\* Mutant: leaves outgoing_pid.
ResetSharedKeepsOutgoing ==
  /\ connected' = "no"
  /\ inflight_pub' = {} /\ outgoing_rel' = {} /\ incoming_pub' = {}
  /\ UNCHANGED <<last_pid, outgoing_pid>>

\* Mutant: leaves incoming_pub.
ResetSharedKeepsIncoming ==
  /\ connected' = "no"
  /\ inflight_pub' = {} /\ outgoing_pid' = {} /\ outgoing_rel' = {}
  /\ UNCHANGED <<last_pid, incoming_pub>>

\* Shared::reset().
ResetShared ==
  /\ connected' = "no"
  /\ inflight_pub' = {} /\ outgoing_pid' = {}
  /\ outgoing_rel' = {} /\ incoming_pub' = {}
  /\ UNCHANGED last_pid

\* transport.disconnect(): what was on its way is gone.
CloseLink == link' = FALSE /\ uplink' = <<>> /\ downlink' = <<>>

\* select() returned an error: run() closes the connection and resets.
Reset ==
  /\ CloseLink
  /\ ResetShared
  /\ stack' = "down"
  /\ connect_attempts' = 0
  /\ UNCHANGED clean_start

\* Mutant: the frame stays in the channel.
ReleaseFrameKeeping == UNCHANGED tx

\* The read grant is released, or dropped, which releases it.
ReleaseFrame == tx' = Tail(tx)

\* The transmit branch of select().  A connection that was lost may still take
\* the bytes; they go nowhere.
Transmit ==
  /\ StackAt("up")
  /\ tx # <<>>
  /\ uplink' = IF link /\ Head(tx) # EmptyFrame
               THEN Append(uplink, PublishOf(Head(tx))) ELSE uplink
  /\ outgoing_pid' = outgoing_pid \ {Head(tx).pid}
  /\ ReleaseFrame
  /\ UNCHANGED <<last_pid, connected, inflight_pub, outgoing_rel, incoming_pub,
                 callVars, stackVars, panicked, link, downlink, brokerVars,
                 handed, losses>>

\* write_all() or flush() fails: select() returns the error and drops the grant.
TransmitFails ==
  /\ StackAt("up")
  /\ tx # <<>>
  /\ ~link
  /\ ReleaseFrame
  /\ Reset
  /\ UNCHANGED <<callVars, panicked, brokerVars, handed, losses>>

\* A read fails, or a PINGRESP is overdue.
StackNotices ==
  /\ StackAt("up")
  /\ ~link
  /\ Reset
  /\ UNCHANGED <<callVars, tx, panicked, brokerVars, handed, losses>>

\* What MaxEvents bounds.
Events == losses + Cardinality(rejected)

\* MqttStack::disconnect(), after which the application calls run() again.
\* The DISCONNECT ends the session at the broker, if it gets there.  When it
\* cannot be written, disconnect() returns before it changes anything.
Disconnect ==
  /\ "disconnect" \in Faults
  /\ losses < MaxLosses /\ Events < MaxEvents
  /\ StackAt("up")
  /\ stack' = "down"
  /\ ResetShared
  /\ CloseLink
  /\ losses' = losses + 1
  /\ IF link
     THEN persists' = FALSE /\ session' = {} /\ outbox' = Forgotten
     ELSE UNCHANGED <<persists, session, outbox>>
  /\ UNCHANGED <<callVars, tx, clean_start, connect_attempts, panicked,
                 received, rejected, handed>>

-----------------------------------------------------------------------------
(***************************************************************************)
(* The receive branch of select(): one handler for each type of packet.    *)
(***************************************************************************)
Receive(type) ==
  /\ StackAt("up")
  /\ downlink # <<>>
  /\ Head(downlink).type = type

Id == Head(downlink).id

Consume == downlink' = Tail(downlink) /\ UNCHANGED link

\* Mutant: never answers a PUBREL.
ReplyWithoutPubComp(type) ==
  uplink' = IF type = "PubComp" THEN uplink ELSE Append(uplink, Packet(type, Id))

Reply(type) == uplink' = Append(uplink, Packet(type, Id))

\* rx_publisher has room for a PUBLISH and commits it; HandedMax means "that
\* often or more".  Where there is no subscriber, commit() drops the frame.
HandOver ==
  handed' = [handed EXCEPT ![Id] = IF @ < HandedMax THEN @ + 1 ELSE @]

HandlePublish1 ==
  /\ Receive("Publish")
  /\ Id \in Inbound1
  /\ HandOver
  /\ Consume
  /\ Reply("PubAck")
  /\ UNCHANGED <<sharedVars, callVars, tx, stackVars, panicked, brokerVars,
                 losses>>

\* Mutant: forgets the packet id.
RememberNothing == UNCHANGED incoming_pub

Remember == incoming_pub' = incoming_pub \cup {Id}

HandlePublish2 ==
  /\ Receive("Publish")
  /\ Id \in Inbound2
  /\ Fits(incoming_pub, Id)
  /\ HandOver
  /\ Remember
  /\ Consume
  /\ Reply("PubRec")
  /\ UNCHANGED <<last_pid, connected, inflight_pub, outgoing_pid, outgoing_rel,
                 callVars, tx, stackVars, panicked, brokerVars, losses>>

HandlePublish2Panics ==
  /\ Receive("Publish")
  /\ Id \in Inbound2
  /\ ~Fits(incoming_pub, Id)
  /\ HandOver
  /\ panicked' = TRUE
  /\ UNCHANGED <<sharedVars, callVars, tx, stackVars, netVars, brokerVars,
                 losses>>

\* Mutant: acknowledges what it discards.
SkipAckNever == Reply("PubAck")

SkipAck == UNCHANGED uplink

\* grant_immediate() fails: the payload is discarded and nothing is answered.
DiscardPublish ==
  /\ "rx_full" \in Faults
  /\ Receive("Publish")
  /\ Consume
  /\ SkipAck
  /\ UNCHANGED <<sharedVars, callVars, tx, stackVars, panicked, brokerVars,
                 handed, losses>>

\* The reason code of a PUBACK is logged and not looked at otherwise.
HandlePubAck ==
  /\ Receive("PubAck")
  /\ inflight_pub' = inflight_pub \ {Id}
  /\ Consume
  /\ UNCHANGED <<last_pid, connected, outgoing_pid, outgoing_rel, incoming_pub,
                 callVars, tx, stackVars, panicked, uplink, brokerVars, handed,
                 losses>>

MoveToRel ==
  /\ inflight_pub' = inflight_pub \ {Id}
  /\ outgoing_rel' = outgoing_rel \cup {Id}

\* Whatever the reason code of the PUBREC, PUBREL follows.
HandlePubRec ==
  /\ Receive("PubRec")
  /\ Id \in inflight_pub
  /\ Fits(outgoing_rel, Id)
  /\ MoveToRel
  /\ Consume
  /\ Reply("PubRel")
  /\ UNCHANGED <<last_pid, connected, outgoing_pid, incoming_pub, callVars, tx,
                 stackVars, panicked, brokerVars, handed, losses>>

HandlePubRecPanics ==
  /\ Receive("PubRec")
  /\ Id \in inflight_pub
  /\ ~Fits(outgoing_rel, Id)
  /\ inflight_pub' = inflight_pub \ {Id}
  /\ panicked' = TRUE
  /\ UNCHANGED <<last_pid, connected, outgoing_pid, outgoing_rel, incoming_pub,
                 callVars, tx, stackVars, netVars, brokerVars, handed, losses>>

HandlePubComp ==
  /\ Receive("PubComp")
  /\ outgoing_rel' = outgoing_rel \ {Id}
  /\ Consume
  /\ UNCHANGED <<last_pid, connected, inflight_pub, outgoing_pid, incoming_pub,
                 callVars, tx, stackVars, panicked, uplink, brokerVars, handed,
                 losses>>

HandlePubRel ==
  /\ Receive("PubRel")
  /\ Id \in incoming_pub
  /\ incoming_pub' = incoming_pub \ {Id}
  /\ Consume
  /\ Reply("PubComp")
  /\ UNCHANGED <<last_pid, connected, inflight_pub, outgoing_pid, outgoing_rel,
                 callVars, tx, stackVars, panicked, brokerVars, handed, losses>>

\* A PUBREC or PUBREL whose id is not known is an error of select(): the
\* connection is given up.
Unsolicited ==
  /\ \/ Receive("PubRec") /\ Id \notin inflight_pub
     \/ Receive("PubRel") /\ Id \notin incoming_pub
  /\ Reset
  /\ UNCHANGED <<callVars, tx, panicked, brokerVars, handed, losses>>

Select ==
  \/ Transmit \/ TransmitFails \/ StackNotices
  \/ HandlePublish1 \/ HandlePublish2 \/ HandlePublish2Panics
  \/ DiscardPublish
  \/ HandlePubAck \/ HandlePubRec \/ HandlePubRecPanics
  \/ HandlePubComp \/ HandlePubRel \/ Unsolicited

-----------------------------------------------------------------------------
(***************************************************************************)
(* The broker and the connection (external).                               *)
(***************************************************************************)
LinkLost ==
  /\ link
  /\ losses < MaxLosses /\ Events < MaxEvents
  /\ CloseLink
  /\ losses' = losses + 1
  /\ UNCHANGED <<sharedVars, callVars, tx, stackVars, panicked, brokerVars,
                 handed>>

\* The session of a client that is away expires.
BrokerForgets ==
  /\ "forget" \in Faults
  /\ persists /\ ~link
  /\ persists' = FALSE
  /\ session' = {}
  /\ outbox' = Forgotten
  /\ UNCHANGED <<sharedVars, callVars, tx, stackVars, panicked, netVars,
                 received, rejected, handed, losses>>

BrokerSend(m) ==
  /\ link
  /\ outbox[m] = "new"
  /\ outbox' = [outbox EXCEPT ![m] = "sent"]
  /\ downlink' = Append(downlink, Packet("Publish", m))
  /\ UNCHANGED <<sharedVars, callVars, tx, stackVars, panicked, link, uplink,
                 persists, session, received, rejected, handed, losses>>

Answer(packet) == downlink' = Append(downlink, packet)

BrokerAccepts(p) ==
  LET f == p.frame IN
  /\ received' = IF f.qos = 2 /\ f.pid \in session THEN received
                 ELSE [received EXCEPT ![f.call] = @ + 1]
  /\ session' = IF f.qos = 2 THEN session \cup {f.pid} ELSE session
  /\ CASE f.qos = 0 -> UNCHANGED downlink
       [] f.qos = 1 -> Answer(Verdict("PubAck", p.id, "success"))
       [] f.qos = 2 -> Answer(Verdict("PubRec", p.id, "success"))
  /\ UNCHANGED rejected

\* A reason code of 0x80 or more (a quota, a lack of authorization, a bad topic):
\* the broker does not take the message.
BrokerRejects(p) ==
  /\ p.frame.qos > 0
  /\ Cardinality(rejected \cup {p.frame.call}) <= MaxRejected
  /\ p.frame.call \in rejected \/ Events < MaxEvents
  /\ rejected' = rejected \cup {p.frame.call}
  /\ Answer(Verdict(IF p.frame.qos = 1 THEN "PubAck" ELSE "PubRec", p.id, "refused"))
  /\ UNCHANGED <<received, session>>

BrokerOnPublish(p) ==
  /\ p.type = "Publish"
  /\ BrokerAccepts(p) \/ BrokerRejects(p)
  /\ UNCHANGED outbox

BrokerOnPubRel(p) ==
  /\ p.type = "PubRel"
  /\ session' = session \ {p.id}
  /\ Answer(Packet("PubComp", p.id))
  /\ UNCHANGED <<received, rejected, outbox>>

BrokerOnAck(p) ==
  /\ \/ /\ p.type \in {"PubAck", "PubComp"}
        /\ outbox' = [outbox EXCEPT ![p.id] = "done"]
        /\ UNCHANGED downlink
     \/ /\ p.type = "PubRec"
        /\ outbox' = [outbox EXCEPT ![p.id] = "rec"]
        /\ Answer(Packet("PubRel", p.id))
  /\ UNCHANGED <<received, rejected, session>>

\* The broker need not answer in the order in which it received.
BrokerReceive ==
  \E i \in DOMAIN uplink :
    /\ i = 1 \/ "reorder" \in Faults
    /\ \/ BrokerOnPublish(uplink[i])
       \/ BrokerOnPubRel(uplink[i])
       \/ BrokerOnAck(uplink[i])
    /\ uplink' = RemoveAt(uplink, i)
    /\ UNCHANGED <<sharedVars, callVars, tx, stackVars, panicked, link,
                   persists, handed, losses>>

-----------------------------------------------------------------------------
\* Every call has returned, or run() has and nobody connects again.
Quiescent ==
  /\ \/ \A c \in Calls : pc[c] \in Done
     \/ stack = "stopped"
     \/ panicked
  /\ UNCHANGED vars

Next ==
  \/ \E c \in Calls : Proceed(c) \/ Cancel(c)
  \/ Connect \/ ConnectFails \/ Select \/ Disconnect
  \/ LinkLost \/ BrokerForgets \/ BrokerReceive
  \/ \E m \in Inbound : BrokerSend(m)
  \/ Quiescent

Spec == Init /\ [][Next]_vars

\* Each task is polled again while it can go on: an attempt at the latest when
\* its timer fires.  The broker answers while the connection lasts.
Fairness ==
  /\ \A c \in Calls : WF_vars(Proceed(c))
  /\ WF_vars(Connect \/ Select)
  /\ WF_vars(BrokerReceive)
  /\ \A m \in Inbound : WF_vars(BrokerSend(m))

FairSpec == Spec /\ Fairness

-----------------------------------------------------------------------------
(***************************************************************************)
(* What the session promises.                                              *)
(***************************************************************************)
PacketIds == Pids \cup Inbound

\* Every variable has its type.  In particular a packet id is never 0 where
\* the code holds it in a NonZeroU16.
TypeOK ==
  /\ last_pid \in Pids
  /\ connected \in {"no", "clean", "resumed"}
  /\ inflight_pub \subseteq Pids /\ outgoing_pid \subseteq Pids
  /\ outgoing_rel \subseteq Pids /\ incoming_pub \subseteq Inbound2
  /\ pc \in [Calls -> {"new", "connecting", "locking", "granting"}
                       \cup Waiting \cup Done]
  /\ qos \in [Calls -> 0..2]
  /\ pid \in [Calls -> {0} \cup Pids]
  /\ attempt \in [Calls -> 0..MAX_ATTEMPTS]
  /\ tx_publisher \in Calls \cup {NoCall}
  /\ tx \in Seq([call : Calls \cup {NoCall}, pid : {0} \cup Pids, qos : 0..2])
  /\ stack \in {"down", "up", "stopped"}
  /\ clean_start \in BOOLEAN
  /\ connect_attempts \in 0..BackoffLimit
  /\ panicked \in BOOLEAN
  /\ link \in BOOLEAN
  /\ \A i \in DOMAIN uplink : uplink[i].id \in PacketIds
  /\ \A i \in DOMAIN downlink : downlink[i].id \in PacketIds
  /\ persists \in BOOLEAN
  /\ session \subseteq Pids
  /\ outbox \in [Inbound -> {"new", "sent", "rec", "done", "dropped"}]
  /\ received \in [Calls -> Nat]
  /\ rejected \subseteq Calls
  /\ handed \in [Inbound -> 0..HandedMax]
  /\ losses \in 0..MaxLosses

\* No packet id outlives its call: one that timed out, was cancelled or was
\* reset under takes no room in inflight_pub and outgoing_rel.  All variables
\* have their types.
PidsOwned ==
  /\ TypeOK
  /\ \A p \in inflight_pub \cup outgoing_rel :
       \E c \in Calls : pc[c] \in Waiting /\ pid[c] = p /\ qos[c] > 0

\* Whatever waits in outgoing_pid is in the transmit channel, so it leaves.
OutgoingQueued ==
  panicked \/ \A p \in outgoing_pid : \E i \in DOMAIN tx : tx[i].pid = p

\* The broker passes a message on at most once for each attempt.
DeliveriesBounded == \A c \in Calls : received[c] <= attempt[c]

\* Where the broker has decided on the message of a call: it has passed it on, or
\* refused it.
Decided(c) == received[c] > 0 \/ c \in rejected

\* Only a message that the broker has answered is released, and then it is past
\* the stages before: neither to be transmitted nor to be acknowledged.
ReleasedIsAnswered ==
  /\ \A c \in Calls : pid[c] \in outgoing_rel => Decided(c)
  /\ outgoing_rel \cap (inflight_pub \cup outgoing_pid) = {}

\* What the broker takes as acknowledged was committed to the subscribers.
AckedIsHanded == \A m \in Inbound : outbox[m] \in {"rec", "done"} => handed[m] > 0

\* No id outlives its handshake in incoming_pub: on a connection, the broker
\* has yet to complete every message the client remembers.
IncomingCurrent ==
  link => \A m \in incoming_pub : outbox[m] \in {"sent", "rec"}

\* publish() with QoS 1 or 2 returns Ok only for a message that the broker
\* answered, by taking it or by refusing it: no call takes the answer to another
\* one, or no answer at all, for its own.
OkMeansAnswered == \A c \in Calls : pc[c] = "ok" /\ qos[c] > 0 => Decided(c)

\* publish() with QoS 1 or 2 returns Ok only when the broker has the message, as
\* its doc says ("Ok if the message was published successfully").  The code does
\* not keep this: a lost connection is enough (run unacked_ok), and so is a refusal.
OkMeansReceived == \A c \in Calls : pc[c] = "ok" /\ qos[c] > 0 => received[c] > 0

\* The stack gives up only a connection that is lost.
ConnectionKept == [][connected # "no" /\ connected' = "no" => ~link]_vars

\* Every publish() is acknowledged in the end.
EveryPublishOk == \A c \in Calls : pc[c] = "connecting" ~> pc[c] = "ok"

\* Every handshake of an inbound message ends.
InboundCompletes ==
  \A m \in Inbound : outbox[m] \in {"sent", "rec"} ~> outbox[m] \in {"done", "dropped"}

=============================================================================
