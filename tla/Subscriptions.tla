--------------------------- MODULE Subscriptions ---------------------------
(***************************************************************************)
(* Subscriptions: MqttClient::subscribe(), Subscription::unsubscribe(),    *)
(* its stream of messages and its Drop, in any number of tasks, with what  *)
(* the stack and the broker do for them.  A handle is one subscribe() call *)
(* and then the Subscription that it returns.                              *)
(*                                                                         *)
(* As in Session, a step is what happens between two awaits, the transmit  *)
(* channel is a lossless FIFO and wakers are left out.  The receive        *)
(* channel is the lossy log that FrameLog specifies: grant_immediate()     *)
(* evicts what slow streams have not read.  Each handle has its cursor.    *)
(***************************************************************************)
EXTENDS TopicFilter, FiniteSets, SequencesExt

CONSTANTS
  Handles,          \* the subscribe() calls the application makes
  NoHandle,         \* no handle: the publisher's mutex is free
  FilterSets,       \* the sets of topic filters each may subscribe to
  Topics,           \* the topics the broker publishes to
  MAX_SUBSCRIBERS,  \* receivers, and the capacity of ack_status
  MAX_INFLIGHT,     \* capacity of outgoing_pid
  MAX_ATTEMPTS,     \* how often subscribe() tries
  TxFrames,         \* frames the transmit channel has room for
  PidMax,           \* 2^16 - 1: packet ids are nonzero u16s
  Faults,           \* what may go wrong
  MaxMessages,      \* bound: messages the broker publishes
  MaxFaults,        \* bound: faults, but for expired sessions
  MaxEvents         \* bound: messages, and faults counted twice, together

AllFaults == {"timeout",     \* an attempt of subscribe() takes too long
              "cancel",      \* the application drops a future
              "contention",  \* a try_lock() fails
              "refuse",      \* the broker refuses a filter
              "loss",        \* the connection is lost
              "connack",     \* a CONNACK is lost
              "forget"}      \* the broker expires the session

ASSUME HandlesAssumption        == IsFiniteSet(Handles) /\ NoHandle \notin Handles
ASSUME FilterSetsAssumption     == \A h \in Handles : \A F \in FilterSets[h] :
                                     IsFiniteSet(F) /\ F # {}
\* split('/') yields at least one field, and no topic has a wildcard.
ASSUME FieldsAssumption ==
  /\ \A h \in Handles : \A F \in FilterSets[h] : F \subseteq Seq(STRING) \ {<<>>}
  /\ Topics \subseteq Seq(STRING) \ {<<>>}
  /\ \A t \in Topics : \A i \in DOMAIN t : t[i] \notin Hashed \cup Plussed
ASSUME MaxSubscribersAssumption == MAX_SUBSCRIBERS \in Nat \ {0}
ASSUME MaxInflightAssumption    == MAX_INFLIGHT \in Nat \ {0}
ASSUME MaxAttemptsAssumption    == MAX_ATTEMPTS \in Nat \ {0}
ASSUME TxFramesAssumption       == TxFrames \in Nat \ {0}
ASSUME PidMaxAssumption         == PidMax \in Nat \ {0}
ASSUME FaultsAssumption         == Faults \subseteq AllFaults
ASSUME BoundsAssumption         == /\ MaxMessages \in Nat /\ MaxFaults \in Nat
                                   /\ MaxEvents \in Nat

VARIABLES
  last_pid,             \* Shared::last_pid
  connected,            \* Shared::connected: "no", "clean" or "resumed"
  clean_session_count,  \* Shared::clean_session_count
  ack_status,           \* Shared::ack_status, "none" for an id that has no entry
  outgoing_pid,         \* Shared::outgoing_pid
  pc,                   \* where each handle is
  op,                   \* the packet it sends: "Subscribe" or "Unsubscribe"
  filters,              \* its topic filters
  pid,                  \* the packet id of its current attempt
  attempt,              \* the number of that attempt
  created,              \* Subscription::created_clean_session_count
  cursor,               \* the next message its FrameSubscriber reads
  tx_publisher,         \* the handle that holds the mutex around the publisher
  tx,                   \* the transmit channel, oldest frame first
  clean_start,          \* MqttStack::clean_start
  link,                 \* the connection carries data
  uplink,               \* packets on their way to the broker
  downlink,             \* packets on their way to the client
  persists,             \* broker: it has a session for this client
  subscribed,           \* broker: the filters of that session
  rx,                   \* the messages committed to the receive channel
  floor,                \* the oldest of them that was not evicted
  yielded,              \* history: what each stream has yielded
  sessions,             \* history: the sessions the broker has made
  born,                 \* history: the session each subscription was made in
  missed,               \* history: the client took a new session for the old one
  leaked,               \* history: ids that nobody will take out of Shared
  published,            \* messages published so far
  losses,               \* connections and CONNACKs lost so far
  faults                \* faults out of the budget so far

sharedVars == <<last_pid, connected, clean_session_count, ack_status, outgoing_pid>>
callVars   == <<pc, op, filters, pid, attempt, tx_publisher>>
streamVars == <<created, cursor, yielded, born>>
netVars    == <<link, uplink, downlink>>
brokerVars == <<persists, subscribed, sessions, missed, published>>
vars == <<sharedVars, callVars, streamVars, tx, clean_start, netVars,
          brokerVars, rx, floor, leaked, losses, faults>>

Pids     == 1..PidMax
Sending  == {"connecting", "locking", "granting", "waiting"}
Alive    == {"active", "ended"}
Finished == {"failed", "dropped", "unsubscribed"}

\* AckStatus: the flag of AwaitingUnsubAck tells unsubscribe() from drop(), and
\* of the codes only whether one of them is an error matters.
AckStatus == {"none", "AwaitingSubAck", "AwaitingUnsubAck", "AwaitingDropAck",
              "Acked", "Refused"}

Packet(type, id, F) == [type |-> type, id |-> id, filters |-> F]
Answer(type, id, ok) == [type |-> type, id |-> id, ok |-> ok]
Message(topic)      == [type |-> "Publish", topic |-> topic]

\* A frame's header has the id by which wait_tx() knows it, 0 where nobody does.
Frame(header, packet) == [pid |-> header, packet |-> packet]
EmptyFrame            == Frame(0, Packet("Empty", 0, {}))

\* Mutant: hands out the same packet id again.
NextPidStuck(p) == p

\* Pid::add(1) wraps past 2^16 - 1 and skips 0.
NextPid(p) == IF p = PidMax THEN 1 ELSE p + 1

\* IndexMap::insert() and IndexSet::insert() succeed.
AckFits(status, id) ==
  status[id] # "none" \/
  Cardinality({p \in Pids : status[p] # "none"}) < MAX_SUBSCRIBERS
OutgoingFits(id) ==
  id \in outgoing_pid \/ Cardinality(outgoing_pid) < MAX_INFLIGHT

Init ==
  /\ last_pid = 1
  /\ connected = "no"
  /\ clean_session_count = 0
  /\ ack_status = [p \in Pids |-> "none"]
  /\ outgoing_pid = {}
  /\ pc = [h \in Handles |-> "new"]
  /\ op = [h \in Handles |-> "Subscribe"]
  /\ filters = [h \in Handles |-> {}]
  /\ pid = [h \in Handles |-> 0]
  /\ attempt = [h \in Handles |-> 0]
  /\ created = [h \in Handles |-> 0]
  /\ cursor = [h \in Handles |-> 0]
  /\ tx_publisher = NoHandle
  /\ tx = <<>>
  /\ clean_start = TRUE
  /\ link = FALSE
  /\ uplink = <<>> /\ downlink = <<>>
  /\ persists = FALSE
  /\ subscribed = {}
  /\ rx = <<>> /\ floor = 1
  /\ yielded = [h \in Handles |-> <<>>]
  /\ sessions = 0
  /\ born = [h \in Handles |-> 0]
  /\ missed = FALSE
  /\ leaked = {}
  /\ published = 0
  /\ losses = 0
  /\ faults = 0

\* What goes wrong in a step comes out of the budget.
Spend(kinds) ==
  /\ kinds \subseteq Faults
  /\ faults' = faults + Cardinality(kinds)
  /\ faults' <= MaxFaults /\ published + 2 * faults' <= MaxEvents

\* A try_lock() of what another executor may hold at the moment.
TryLock(succeeds) == IF succeeds THEN {} ELSE {"contention"}

-----------------------------------------------------------------------------
(***************************************************************************)
(* send() and the waits behind it, for subscribe() and unsubscribe().      *)
(***************************************************************************)
At(h, place)   == pc[h] = place
Goto(h, place) == pc' = [pc EXCEPT ![h] = place]

\* The call or the Subscription is over and drops its receiver.
Leave(h, place) ==
  /\ Goto(h, place)
  /\ cursor' = [cursor EXCEPT ![h] = 0]
  /\ yielded' = [yielded EXCEPT ![h] = <<>>]

\* The end of a failed attempt: another one, or the error is returned.
Retry(h) ==
  IF attempt[h] < MAX_ATTEMPTS
  THEN /\ Goto(h, "connecting")
       /\ attempt' = [attempt EXCEPT ![h] = @ + 1]
       /\ UNCHANGED <<cursor, yielded>>
  ELSE Leave(h, "failed") /\ UNCHANGED attempt

\* subscribe() is called and takes a receiver, which reads what is committed
\* from now on; without a free one it fails at once.
Start(h, F) ==
  /\ At(h, "new")
  /\ IF Cardinality({o \in Handles : pc[o] \in Sending \cup Alive}) < MAX_SUBSCRIBERS
     THEN Goto(h, "connecting") /\ cursor' = [cursor EXCEPT ![h] = Len(rx) + 1]
     ELSE Goto(h, "failed") /\ UNCHANGED cursor
  /\ filters' = [filters EXCEPT ![h] = F]
  /\ attempt' = [attempt EXCEPT ![h] = 1]
  /\ UNCHANGED <<sharedVars, op, pid, tx_publisher, created, yielded, born, tx,
                 clean_start, netVars, brokerVars, rx, floor, leaked, losses, faults>>

\* unsubscribe() is called; it does not wait for a connection.
StartUnsubscribe(h) ==
  /\ pc[h] \in Alive
  /\ Goto(h, "connecting")
  /\ op' = [op EXCEPT ![h] = "Unsubscribe"]
  /\ UNCHANGED <<sharedVars, filters, pid, attempt, tx_publisher, streamVars,
                 tx, clean_start, netVars, brokerVars, rx, floor, leaked, losses, faults>>

TakePid(h) ==
  /\ At(h, "connecting")
  /\ op[h] = "Subscribe" => connected # "no"
  /\ last_pid' = NextPid(last_pid)
  /\ pid' = [pid EXCEPT ![h] = NextPid(last_pid)]
  /\ Goto(h, "locking")
  /\ UNCHANGED <<connected, clean_session_count, ack_status, outgoing_pid, op,
                 filters, attempt, tx_publisher, streamVars, tx, clean_start,
                 netVars, brokerVars, rx, floor, leaked, losses, faults>>

\* The mutex around the publisher is held across an await only while
\* grant_async() waits for room.
LockPublisher(h) ==
  /\ At(h, "locking")
  /\ tx_publisher = NoHandle
  /\ Len(tx) >= TxFrames
  /\ tx_publisher' = h
  /\ Goto(h, "granting")
  /\ UNCHANGED <<sharedVars, op, filters, pid, attempt, streamVars, tx,
                 clean_start, netVars, brokerVars, rx, floor, leaked, losses, faults>>

\* The call has the publisher, and a region for its packet.
Granted(h) ==
  /\ At(h, "granting") \/ (At(h, "locking") /\ tx_publisher = NoHandle)
  /\ Len(tx) < TxFrames

\* The id goes into both sets and the frame is committed.
Enqueue(h) ==
  /\ Granted(h)
  /\ OutgoingFits(pid[h]) /\ AckFits(ack_status, pid[h])
  /\ outgoing_pid' = outgoing_pid \cup {pid[h]}
  /\ ack_status' = [ack_status EXCEPT ![pid[h]] =
                      IF op[h] = "Subscribe" THEN "AwaitingSubAck"
                                             ELSE "AwaitingUnsubAck"]
  /\ tx' = Append(tx, Frame(pid[h], Packet(op[h], pid[h], filters[h])))
  /\ tx_publisher' = NoHandle
  /\ Goto(h, "waiting")
  /\ UNCHANGED <<last_pid, connected, clean_session_count, op, filters, pid,
                 attempt, streamVars, clean_start, netVars, brokerVars, rx,
                 floor, leaked, losses, faults>>

\* The Subscription is dropped: an UNSUBSCRIBE that nobody waits for, if its
\* frame can be had at once.  `lock`, `frames` and `status` are what it finds of
\* tx_publisher, tx and ack_status.  A try_lock() that another executor makes
\* fail costs the fresh id (the first), the entry in ack_status (the second) or
\* the whole request (the publisher's).
Drop(h, kinds, lock, frames, status) ==
  \E first, second, publisher \in BOOLEAN :
    LET id == IF first THEN NextPid(last_pid) ELSE 1
    IN  /\ Spend(kinds \cup TryLock(first /\ second /\ publisher))
        /\ last_pid' = IF first THEN id ELSE last_pid
        /\ IF publisher /\ lock = NoHandle /\ Len(frames) < TxFrames
           THEN /\ tx' = Append(frames, Frame(0, Packet("Unsubscribe", id, filters[h])))
                /\ ack_status' = IF second /\ AckFits(status, id)
                                 THEN [status EXCEPT ![id] = "AwaitingDropAck"]
                                 ELSE status
           ELSE tx' = frames /\ ack_status' = status
        /\ Leave(h, "dropped")
        /\ UNCHANGED <<connected, clean_session_count, op, filters, pid, attempt>>

\* outgoing_pid or ack_status is full.  The dropped grant commits an empty
\* frame; an id that went into outgoing_pid stays there.
EnqueueFails(h) ==
  /\ Granted(h)
  /\ ~(OutgoingFits(pid[h]) /\ AckFits(ack_status, pid[h]))
  /\ IF OutgoingFits(pid[h])
     THEN /\ outgoing_pid' = outgoing_pid \cup {pid[h]}
          /\ leaked' = leaked \cup {pid[h]}
     ELSE UNCHANGED <<outgoing_pid, leaked>>
  /\ tx_publisher' = NoHandle
  /\ IF op[h] = "Subscribe"
     THEN /\ Retry(h)
          /\ tx' = Append(tx, EmptyFrame)
          /\ UNCHANGED <<last_pid, connected, clean_session_count, ack_status,
                         op, filters, pid, faults>>
     ELSE Drop(h, {}, NoHandle, Append(tx, EmptyFrame), ack_status)
  /\ UNCHANGED <<created, born, clean_start, netVars, brokerVars, rx, floor, losses>>

\* wait_tx(): the frame was written, known by its id having left outgoing_pid,
\* and then the answer is in ack_status.
Answered(h) ==
  /\ pid[h] \notin outgoing_pid
  /\ ack_status[pid[h]] \in {"Acked", "Refused"}

AnswerTaken(h) == [ack_status EXCEPT ![pid[h]] = "none"]

\* subscribe() has its SUBACK: a refusal is one more failed attempt, else the
\* filters are checked and the count of clean sessions is noted.
SubscribeAcked(h) ==
  /\ At(h, "waiting") /\ op[h] = "Subscribe" /\ Answered(h)
  /\ ack_status' = AnswerTaken(h)
  /\ \/ /\ ack_status[pid[h]] = "Refused"
        /\ Retry(h)
        /\ UNCHANGED <<created, born>>
     \/ /\ ack_status[pid[h]] = "Acked"
        /\ IF \A f \in filters[h] : new(f) = "ok"
           THEN /\ Goto(h, "active")
                /\ created' = [created EXCEPT ![h] = clean_session_count]
                /\ born' = [born EXCEPT ![h] = sessions]
                /\ UNCHANGED <<cursor, yielded>>
           ELSE Leave(h, "failed") /\ UNCHANGED <<created, born>>
        /\ UNCHANGED attempt
  /\ UNCHANGED <<last_pid, connected, clean_session_count, outgoing_pid, op,
                 filters, pid, tx_publisher, tx, clean_start, netVars,
                 brokerVars, rx, floor, leaked, losses, faults>>

\* unsubscribe() has its UNSUBACK; after a refusal the Subscription is dropped.
UnsubscribeAcked(h) ==
  /\ At(h, "waiting") /\ op[h] = "Unsubscribe" /\ Answered(h)
  /\ \/ /\ ack_status[pid[h]] = "Acked"
        /\ ack_status' = AnswerTaken(h)
        /\ Leave(h, "unsubscribed")
        /\ UNCHANGED <<last_pid, connected, clean_session_count, op, filters,
                       pid, attempt, tx, faults>>
     \/ /\ ack_status[pid[h]] = "Refused"
        /\ Drop(h, {}, tx_publisher, tx, AnswerTaken(h))
  /\ UNCHANGED <<outgoing_pid, tx_publisher, created, born, clean_start,
                 netVars, brokerVars, rx, floor, leaked, losses>>

\* Mutant: leaves the id in ack_status.
OnDropKeepsStatus(h) ==
  outgoing_pid' = outgoing_pid \ {pid[h]} /\ UNCHANGED <<ack_status, leaked>>

\* The OnDrop of wait_subscribe_tx().
OnDrop(h) ==
  /\ ack_status' = [ack_status EXCEPT ![pid[h]] = "none"]
  /\ outgoing_pid' = outgoing_pid \ {pid[h]}
  /\ UNCHANGED leaked

\* The future of an attempt is dropped, and with it the guard of the publisher.
\* The cleanup is skipped when its try_lock() fails.
DropAttempt(h, kinds) ==
  /\ tx_publisher' = IF tx_publisher = h THEN NoHandle ELSE tx_publisher
  /\ IF At(h, "waiting")
     THEN \/ Spend(kinds) /\ OnDrop(h)
          \/ /\ Spend(kinds \cup TryLock(FALSE))
             /\ leaked' = leaked \cup {pid[h]}
             /\ UNCHANGED <<ack_status, outgoing_pid>>
     ELSE Spend(kinds) /\ UNCHANGED <<ack_status, outgoing_pid, leaked>>

\* with_timeout() polls the attempt before the timer, so only an attempt that
\* cannot go on times out.
Blocked(h) ==
  \/ At(h, "locking") /\ tx_publisher # NoHandle
  \/ At(h, "granting") /\ Len(tx) >= TxFrames
  \/ At(h, "waiting") /\ ~Answered(h)

Timeout(h) ==
  /\ op[h] = "Subscribe" /\ Blocked(h)
  /\ DropAttempt(h, {"timeout"})
  /\ Retry(h)
  /\ UNCHANGED <<last_pid, connected, clean_session_count, op, filters, pid,
                 created, born, tx, clean_start, netVars, brokerVars, rx, floor, losses>>

\* The application drops the future of subscribe().
CancelSubscribe(h) ==
  /\ pc[h] \in Sending /\ op[h] = "Subscribe"
  /\ DropAttempt(h, {"cancel"})
  /\ Leave(h, "failed")
  /\ UNCHANGED <<last_pid, connected, clean_session_count, op, filters, pid,
                 attempt, created, born, tx, clean_start, netVars, brokerVars,
                 rx, floor, losses>>

\* The application drops the Subscription, or the future of unsubscribe() and
\* the Subscription with it: that future cleans nothing up.
DropSubscription(h) ==
  /\ pc[h] \in Alive \/ (pc[h] \in Sending /\ op[h] = "Unsubscribe")
  /\ tx_publisher' = IF tx_publisher = h THEN NoHandle ELSE tx_publisher
  /\ leaked' = IF At(h, "waiting") THEN leaked \cup {pid[h]} ELSE leaked
  /\ Drop(h, IF pc[h] \in Alive THEN {} ELSE {"cancel"},
          tx_publisher', tx, ack_status)
  /\ UNCHANGED <<outgoing_pid, created, born, clean_start, netVars, brokerVars,
                 rx, floor, losses>>

-----------------------------------------------------------------------------
(***************************************************************************)
(* The stream.                                                             *)
(***************************************************************************)
Wanted(h, topic) == \E f \in filters[h] : is_match(f, topic)

\* Mutant: a stream that lags reads on behind the message it missed.
NextReadSkips(h) == IF cursor[h] < floor THEN floor + 1 ELSE cursor[h]

\* A stream that lags behind the oldest message in the channel goes on there.
NextRead(h) == IF cursor[h] < floor THEN floor ELSE cursor[h]

\* poll_next(): None once the session is another one, else the next message is
\* taken and yielded if a filter matches.
PollNext(h) ==
  /\ At(h, "active")
  /\ IF created[h] # clean_session_count
     THEN Goto(h, "ended") /\ UNCHANGED <<cursor, yielded>>
     ELSE /\ NextRead(h) <= Len(rx)
          /\ cursor' = [cursor EXCEPT ![h] = NextRead(h) + 1]
          /\ yielded' = IF Wanted(h, rx[NextRead(h)].topic)
                        THEN [yielded EXCEPT ![h] = Append(@, NextRead(h))]
                        ELSE yielded
          /\ UNCHANGED pc
  /\ UNCHANGED <<sharedVars, op, filters, pid, attempt, tx_publisher, created,
                 born, tx, clean_start, netVars, brokerVars, rx, floor, leaked, losses, faults>>

-----------------------------------------------------------------------------
(***************************************************************************)
(* The stack.                                                              *)
(***************************************************************************)
SessionPresent == persists /\ ~clean_start

\* The broker's half of a handshake that it accepts.
BrokerConnect ==
  /\ persists' = TRUE
  /\ subscribed' = IF SessionPresent THEN subscribed ELSE {}
  /\ sessions' = IF SessionPresent THEN sessions ELSE sessions + 1
  /\ UNCHANGED published

\* Mutant: every connection counts.
CountSessionsAlways == clean_session_count' = (clean_session_count + 1) % 256

\* Mutant: no connection counts.
CountSessionsNever == UNCHANGED clean_session_count

\* set_connected() counts the connections without a session in a u8.
CountSessions ==
  clean_session_count' = IF SessionPresent THEN clean_session_count
                                           ELSE (clean_session_count + 1) % 256

Connect ==
  /\ connected = "no"
  /\ connected' = IF SessionPresent THEN "resumed" ELSE "clean"
  /\ CountSessions
  /\ clean_start' = FALSE
  /\ BrokerConnect
  /\ missed' = (missed /\ SessionPresent)
  /\ link' = TRUE
  /\ UNCHANGED <<last_pid, ack_status, outgoing_pid, callVars, streamVars, tx,
                 uplink, downlink, rx, floor, leaked, losses, faults>>

\* The broker accepts but the CONNACK does not arrive: run() tries again.
ConnackLost ==
  /\ Spend({"connack"})
  /\ connected = "no"
  /\ BrokerConnect
  /\ missed' = (missed \/ (~SessionPresent /\ ~clean_start))
  /\ losses' = losses + 1
  /\ UNCHANGED <<sharedVars, callVars, streamVars, tx, clean_start, netVars,
                 rx, floor, leaked>>

CloseLink == link' = FALSE /\ uplink' = <<>> /\ downlink' = <<>>

\* select() returned an error: the connection is closed and Shared reset.
Reset ==
  /\ CloseLink
  /\ connected' = "no"
  /\ ack_status' = [p \in Pids |-> "none"]
  /\ outgoing_pid' = {}
  /\ leaked' = {}
  /\ UNCHANGED <<last_pid, clean_session_count>>

\* The transmit branch of select().  A connection that was lost may still take
\* the bytes; they go nowhere.
Transmit ==
  /\ connected # "no"
  /\ tx # <<>>
  /\ uplink' = IF link /\ Head(tx) # EmptyFrame
               THEN Append(uplink, Head(tx).packet) ELSE uplink
  /\ outgoing_pid' = outgoing_pid \ {Head(tx).pid}
  /\ tx' = Tail(tx)
  /\ UNCHANGED <<last_pid, connected, clean_session_count, ack_status, callVars,
                 streamVars, clean_start, link, downlink, brokerVars, rx,
                 floor, leaked, losses, faults>>

\* A write fails, with the frame released, or a read fails.
StackNotices ==
  /\ connected # "no"
  /\ ~link
  /\ tx' = tx \/ (tx # <<>> /\ tx' = Tail(tx))
  /\ Reset
  /\ UNCHANGED <<callVars, streamVars, clean_start, brokerVars, rx, floor, losses, faults>>

Receive(type) ==
  /\ connected # "no"
  /\ downlink # <<>>
  /\ Head(downlink).type = type
  /\ downlink' = Tail(downlink)

Id     == Head(downlink).id
Result == IF Head(downlink).ok THEN "Acked" ELSE "Refused"

\* An answer that nobody waits for is logged.
HandleSubAck ==
  /\ Receive("SubAck")
  /\ ack_status' = IF ack_status[Id] = "AwaitingSubAck"
                   THEN [ack_status EXCEPT ![Id] = Result] ELSE ack_status
  /\ UNCHANGED <<last_pid, connected, clean_session_count, outgoing_pid,
                 callVars, streamVars, tx, clean_start, link, uplink,
                 brokerVars, rx, floor, leaked, losses, faults>>

\* Mutant: the codes are not looked at.
UnsubAckAnyCode ==
  ack_status' = CASE ack_status[Id] = "AwaitingUnsubAck" ->
                       [ack_status EXCEPT ![Id] = "Acked"]
                  [] ack_status[Id] = "AwaitingDropAck" ->
                       [ack_status EXCEPT ![Id] = "none"]
                  [] OTHER -> ack_status

UnsubAck ==
  ack_status' = CASE ack_status[Id] = "AwaitingUnsubAck" ->
                       [ack_status EXCEPT ![Id] = Result]
                  [] ack_status[Id] = "AwaitingDropAck" ->
                       [ack_status EXCEPT ![Id] = "none"]
                  [] OTHER -> ack_status

HandleUnsubAck ==
  /\ Receive("UnsubAck")
  /\ UnsubAck
  /\ UNCHANGED <<last_pid, connected, clean_session_count, outgoing_pid,
                 callVars, streamVars, tx, clean_start, link, uplink,
                 brokerVars, rx, floor, leaked, losses, faults>>

\* grant_immediate() evicts the oldest messages, read or not, until there is
\* room; with a message in front that is being read there may be none, and the
\* new message is discarded.  `due` is history: the handles that have a receiver
\* when it is committed.
HandlePublish ==
  /\ Receive("Publish")
  /\ \E n \in floor..(Len(rx) + 1) : floor' = n
  /\ \/ rx' = Append(rx, [topic |-> Head(downlink).topic,
                          due   |-> {h \in Handles : pc[h] \in Sending \cup Alive}])
     \/ UNCHANGED rx
  /\ UNCHANGED <<sharedVars, callVars, streamVars, tx, clean_start, link,
                 uplink, brokerVars, leaked, losses, faults>>

-----------------------------------------------------------------------------
(***************************************************************************)
(* The broker and the connection (external).                               *)
(***************************************************************************)
LinkLost ==
  /\ link
  /\ Spend({"loss"})
  /\ CloseLink
  /\ losses' = losses + 1
  /\ UNCHANGED <<sharedVars, callVars, streamVars, tx, clean_start, brokerVars,
                 rx, floor, leaked>>

BrokerForgets ==
  /\ "forget" \in Faults
  /\ persists /\ ~link
  /\ persists' = FALSE
  /\ subscribed' = {}
  /\ UNCHANGED <<sharedVars, callVars, streamVars, tx, clean_start, netVars,
                 sessions, missed, published, rx, floor, leaked, losses, faults>>

\* A SUBSCRIBE or UNSUBSCRIBE is carried out for each filter or refused for it.
BrokerReceive ==
  /\ uplink # <<>>
  /\ uplink' = Tail(uplink)
  /\ LET p == Head(uplink) IN \E done \in SUBSET p.filters :
       /\ Spend(IF done = p.filters THEN {} ELSE {"refuse"})
       /\ \/ /\ p.type = "Subscribe"
             /\ subscribed' = subscribed \cup done
             /\ downlink' = Append(downlink, Answer("SubAck", p.id, done = p.filters))
          \/ /\ p.type = "Unsubscribe"
             /\ subscribed' = subscribed \ done
             /\ downlink' = Append(downlink, Answer("UnsubAck", p.id, done = p.filters))
  /\ UNCHANGED <<sharedVars, callVars, streamVars, tx, clean_start, link,
                 persists, sessions, missed, published, rx, floor, leaked, losses>>

\* A message for a filter, which may overtake the SUBACK in front of it.
BrokerPublish(topic) ==
  /\ link
  /\ published < MaxMessages /\ published + 2 * faults < MaxEvents
  /\ \E f \in subscribed : Matches(f, topic)
  /\ published' = published + 1
  /\ \/ downlink' = Append(downlink, Message(topic))
     \/ /\ downlink # <<>> /\ Last(downlink).type = "SubAck"
        /\ downlink' = Front(downlink) \o <<Message(topic), Last(downlink)>>
  /\ UNCHANGED <<sharedVars, callVars, streamVars, tx, clean_start, link,
                 uplink, persists, subscribed, sessions, missed, rx, floor, leaked,
                 losses, faults>>

-----------------------------------------------------------------------------
Proceed(h) ==
  \/ TakePid(h) \/ LockPublisher(h) \/ Enqueue(h) \/ EnqueueFails(h)
  \/ SubscribeAcked(h) \/ UnsubscribeAcked(h) \/ Timeout(h)
  \/ PollNext(h)

Choose(h) ==
  \/ \E F \in FilterSets[h] : Start(h, F)
  \/ StartUnsubscribe(h) \/ CancelSubscribe(h) \/ DropSubscription(h)

Select == Transmit \/ StackNotices \/ HandleSubAck \/ HandleUnsubAck \/ HandlePublish

Next ==
  \/ \E h \in Handles : Proceed(h) \/ Choose(h)
  \/ Connect \/ ConnackLost \/ Select
  \/ LinkLost \/ BrokerForgets \/ BrokerReceive
  \/ \E t \in Topics : BrokerPublish(t)

Spec == Init /\ [][Next]_vars

-----------------------------------------------------------------------------
(***************************************************************************)
(* What subscriptions promise.                                             *)
(***************************************************************************)
\* Every variable has its type.
TypeOK ==
  /\ last_pid \in Pids
  /\ connected \in {"no", "clean", "resumed"}
  /\ clean_session_count \in 0..255
  /\ ack_status \in [Pids -> AckStatus]
  /\ outgoing_pid \subseteq Pids /\ Cardinality(outgoing_pid) <= MAX_INFLIGHT
  /\ pc \in [Handles -> {"new"} \cup Sending \cup Alive \cup Finished]
  /\ op \in [Handles -> {"Subscribe", "Unsubscribe"}]
  /\ \A h \in Handles : filters[h] \in {{}} \cup FilterSets[h]
  /\ pid \in [Handles -> {0} \cup Pids]
  /\ attempt \in [Handles -> 0..MAX_ATTEMPTS]
  /\ created \in [Handles -> 0..255]
  /\ cursor \in [Handles -> 0..(Len(rx) + 1)]
  /\ tx_publisher \in Handles \cup {NoHandle}
  /\ Len(tx) <= TxFrames
  /\ clean_start \in BOOLEAN /\ link \in BOOLEAN /\ persists \in BOOLEAN
  /\ subscribed \subseteq UNION UNION {FilterSets[h] : h \in Handles}
  /\ \A i \in DOMAIN rx : rx[i].topic \in Topics
  /\ floor \in 1..(Len(rx) + 1)
  /\ \A h \in Handles : \A i \in DOMAIN yielded[h] : yielded[h][i] < cursor[h]
  /\ \A h \in Handles : born[h] <= sessions
  /\ missed \in BOOLEAN
  /\ leaked \subseteq Pids
  /\ published <= MaxMessages /\ losses <= faults /\ faults <= MaxFaults

\* A request with this id is queued, or it or its answer is on the wire.
OnItsWay(id) ==
  \/ \E i \in DOMAIN tx : tx[i].packet.id = id
  \/ \E i \in DOMAIN uplink : uplink[i].id = id
  \/ \E i \in DOMAIN downlink : downlink[i].type # "Publish" /\ downlink[i].id = id

\* The few places of ack_status and outgoing_pid go to calls that wait, to
\* UNSUBSCRIBEs of drop() that will be answered and to frames that are queued.
\* All others are leaks that the code has: an unsubscribe() that was cancelled,
\* a SUBSCRIBE refused for a full ack_status, a cleanup without the lock.  All
\* variables have their types.
PlacesAccounted ==
  /\ TypeOK
  /\ \A id \in Pids \ leaked :
       CASE ack_status[id] = "none" -> TRUE
         [] ack_status[id] = "AwaitingDropAck" -> OnItsWay(id) \/ ~link
         [] OTHER -> \E h \in Handles : At(h, "waiting") /\ pid[h] = id
  /\ \A id \in outgoing_pid \ leaked : \E i \in DOMAIN tx : tx[i].pid = id

\* While the first connection lasts, a call that waits for its answer has it or
\* it is on its way: no handler takes it for another's.  (After a reset, which
\* wakes nobody, subscribe() goes on at its time-out and unsubscribe() waits for
\* ever.)
AnswerComes ==
  \A h \in Handles : At(h, "waiting") /\ losses = 0 => Answered(h) \/ OnItsWay(pid[h])

\* A subscription that would still yield messages.
Live(h) == At(h, "active") /\ created[h] = clean_session_count

\* A stream that would wait for messages does so with reason: on a connection
\* the broker has its filters.  The two ways out that the code has: another
\* Subscription with the same filter was dropped or unsubscribed, and a CONNACK
\* that said that the session is new was lost.
LiveIsSubscribed ==
  \A h \in Handles : Live(h) /\ link /\ connected # "no" /\ ~missed =>
    \A f \in filters[h] :
      \/ f \in subscribed
      \/ \E o \in Handles \ {h} : f \in filters[o] /\ (op[o] = "Unsubscribe" \/ At(o, "dropped"))

\* A stream ends only when the broker has lost its filters with their session:
\* a connection that resumes the session does not end it.
EndsWithSession == \A h \in Handles : At(h, "ended") => born[h] < sessions

\* The messages behind the cursor of a stream that are for it: committed since
\* subscribe() was called, also those that overtook the SUBACK, and matched by
\* one of its filters.
ForStream(h) ==
  {i \in 1..(cursor[h] - 1) : /\ h \in rx[i].due
                              /\ \E f \in filters[h] : Matches(f, rx[i].topic)}

\* A stream yields only messages for it, each once and in order, and passes over
\* none that is still in the channel: what it misses was discarded on arrival or
\* evicted by grant_immediate() before it was polled.
YieldsMatching ==
  \A h \in Handles : At(h, "active") =>
    /\ \A i, j \in DOMAIN yielded[h] : i < j => yielded[h][i] < yielded[h][j]
    /\ ToSet(yielded[h]) \subseteq ForStream(h)
    /\ {i \in ForStream(h) : i >= floor} \subseteq ToSet(yielded[h])

\* unsubscribe() returns Ok only when the broker has none of its filters, but
\* for those that another call has subscribed to.
OkMeansUnsubscribed ==
  [][\A h \in Handles : pc[h] # "unsubscribed" /\ pc'[h] = "unsubscribed" =>
       \A f \in filters[h] \cap subscribed :
         \E o \in Handles \ {h} : f \in filters[o]]_vars
=============================================================================
