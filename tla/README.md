# mqttrust: a verification development

TLA+ models of the MQTT client in `src/src`, TLC configurations that check them
on small instances, and TLAPS proofs of what matters most for every instance.
Paths below are relative to the repository root, `src/`.

## 1. The system

`mqttrust` is an async, allocation-free MQTT client for embedded targets. The
application holds an `MqttClient`; a long-running task drives an `MqttStack`
that owns the socket. They share three things:

```
 application tasks                                        stack task
 MqttClient::publish  --frames-->  tx PubSubChannel --read_async--> socket
 MqttClient::subscribe             (1 subscriber)
 Subscription         <--frames--  rx PubSubChannel <--grant_immediate-- socket
                                   (MAX_SUBSCRIBERS)
            \______________  Mutex<Shared>  ______________/
               pids in flight, ack status, connection state, wakers
```

### Inventory

| component | source | state | operations | what is hard |
|---|---|---|---|---|
| pub/sub channel | `src/pubsub/` | ring buffer, deque of headers, per-frame reader counts, read and write marks, two waker registrations, one cursor per subscriber | grant, grant_immediate, grant_async, commit, to_commit, drop of a grant; read, read_async, release, drop; subscriber, publisher, clear | placement in the ring, eviction under readers, counts when subscribers join, lag and leave, lost wake-ups, dropped futures |
| packet reader | `src/packet.rs` | a header-sized buffer, bytes read, packet length once known | recv, reset | short reads and receives cancelled in the middle of a packet |
| shared session state | `src/state.rs` | packet ids in flight (out, released, in), ack status, connection state, clean-session counter, wakers | next_pid, reset, set_connected | checked under one lock and used under the next; reset under waiting tasks |
| client | `src/client.rs` | one future per call, its attempt and packet id | publish, subscribe, unsubscribe, Subscription::poll_next, drop | timeouts and retries racing late answers, cancelled futures, capacity checks across awaits |
| stack | `src/stack.rs` | connection phase, keep-alive, attempts, packet reader | run, select, one handler per packet, reset, disconnect | reconnects between any two steps of a handshake, duplicates after a resume |
| topic filters | `src/topic_filter.rs` | none | new, is_match | wildcards at the edges |
| encoding | `src/encoding/` | none | one encoder and one decoder per packet | lengths, and what one end accepts that the other never writes |
| configuration | `src/config.rs` | the keep-alive interval, which a CONNACK may lower | back-off | its last attempt |
| broker address | `src/broker.rs` | a cached address | get_address | stale once the broker moves |
| transports | `src/transport/` | a socket, one pair of TLS buffers | connect, disconnect, drop | buffers on the error paths and in dropped futures |

### What makes each part correct

* **channel** - frames never share bytes with each other or with a grant; a
  frame in a reader's hands is not rewritten; every subscriber gets every frame
  published since it subscribed, in order and once; a frame is freed when, and
  only when, nobody is left to read it; whoever sleeps is woken when it can go on.
* **packet reader** - packets are handed on whole, in order, at packet boundaries.
* **session** - a call that reports success had its effect at the broker; ids in
  flight are unique and bounded; every call returns; an acknowledgement is sent
  for what was stored and for nothing else.
* **stack** - it reconnects as long as the back-off allows, and a handshake cut
  short by a disconnect does not wedge the next connection.
* **connection** - clients see a connection exactly when the broker accepted one;
  a peer that is gone is noticed, one that answers is kept; no failure costs a
  buffer for good.
* **subscriptions** - a stream that waits is subscribed at the broker, ends when the
  broker lost it, and yields what matches, once and in order.
* **topic filters, encoding** - agree with the reference definitions of MQTT.

## 2. Modules

| module | models | extends |
|---|---|---|
| `PubSub` | the channel: one action per critical section of `PubSubChannel::inner` | - |
| `FrameLog` | what the channel promises: an append-only log with members | - |
| `MCPubSub` | the symmetry set for TLC | `PubSub` |
| `PubSubProofs` | theorems about `PubSub`: the ring buffer | `PubSub` |
| `ChannelProofs` | theorems about `PubSub`: readers, wakers, the refinement of `FrameLog` | `PubSubProofs` |
| `Session` | `publish()`, `Shared`, the stack's `run()` and `select()`, and a broker behind a connection that fails | - |
| `MCSession` | the symmetry set for TLC | `Session` |
| `SequenceFacts` | lemmas about the members and the order of sequences and about `FlattenSeq`; no variables | - |
| `SessionProofs` | theorems about `Session`: types, inbound messages, packet ids, outbound messages | `Session`, `SequenceFacts` |
| `Codec` | `src/encoding`: every packet's encoder, `max_packet_size()` and decoder, over bytes; no variables | - |
| `Wire` | `PacketReader`, the framing of the byte stream, the copying of a PUBLISH payload; `encode_packet()` | `Codec` |
| `MCWire` | the scripts of the broker and the requests of the client | `Wire` |
| `CodecProofs` | theorems about `Codec`: what is written is read back | `Codec`, `SequenceFacts` |
| `WireProofs` | theorems about `Wire`: framing, order of receipt, room for what is sent | `Wire`, `CodecProofs` |
| `TopicFilter` | `TopicFilter::new()` and `is_match()`, and the definition that its doc gives; no variables | - |
| `Subscriptions` | `subscribe()`, `unsubscribe()`, `Subscription`, `ack_status`, the clean-session counter | `TopicFilter` |
| `MCSubscriptions` | two handles, their filters, the topics | `Subscriptions` |
| `SubscriptionProofs` | theorems about `TopicFilter` and `Subscriptions` | `Subscriptions`, `SequenceFacts` |
| `Connection` | `run()`, backoff, keep-alive, `disconnect()`, the TLS transport, the broker's address | - |
| `ConnectionProofs` | theorems about `Connection` | `Connection` |

The stack is modelled four times over, each time for one question, and each time
with what the others are about cut down to what it can do to this one: in `Session`
and `Subscriptions` a packet is a record and a connection comes and goes at any
time; in `Wire` a connection is a stream of bytes; in `Connection` a packet is one
that was sent or received, and time passes. The channels
appear in `Session` and `Subscriptions` as the logs that `FrameLog` promises: the transmit
channel, which never evicts, as a lossless one, the receive channel of `Subscriptions` as a
lossy one; `Session` looks no further than the commit to it.

### PubSub: state and actions

The variables are the fields of `State` and of the handles around it, under the
names the code gives them: `messages`, `write_in_progress`, `next_message_id`,
`subscriber_count`, `publisher_taken`, the two waker registrations; `live` and
`cursor` for the `FrameSubscriber`s, `wgrants` and `rgrants` for the grants that
exist, `pub_task` and `sub_task` for the futures and whether the executor would
poll them. Buffer bytes are abstracted to the regions `[start, start + len)`;
the history variable `torn` records the ids of frames some byte of which was
handed out for writing after their commit, so what the bytes hold needs no
model. `Header::pid` is opaque to the channel and left out.

The code takes the mutex once per operation, so an operation is one action, with
one exception: `grant_immediate()` evicts under one lock and takes its grant
under the next, and is two actions (`GrantImmediate`, `FinishImmediate`).
Futures are explicit: `grant_async()` and `read_async()` create one, `PollGrant`
and `PollRead` poll it when its task was woken (`"ready"`), a poll that fails
registers the waker and parks the task, and `CancelGrant`/`CancelRead` drop it, as
a timeout or a `select` does. The wakers are embassy's: `WakerRegistration`
remembers one task, `MultiWakerRegistration` as many as it has slots, and wakes
them all when one more comes.

`Calls` says which optional operations the application uses. The repository's two
channels use different ones: the transmit channel `grant_async`, `commit` and
drops of futures and grants, with one subscriber that never leaves; the receive
channel `grant_immediate`, with subscribers that come and go.

`FrameLog` is the promise with no buffer, no grants and no wakers: frames are
numbered, a member takes those published since it joined in order and once each;
a *lossless* log lets frames go only when all members took them, a *lossy* one
any time. `PubSub` implements it under the mapping `floor <- StartId`,
`next[s] <- ReadId(s)`: lossy exactly when `grant_immediate()` or `clear()` is used.

### Session: state and actions

The variables are the sets of packet ids in `Shared` (`inflight_pub`,
`outgoing_pid`, `outgoing_rel`, `incoming_pub`), `last_pid` and `connected`; for
each `publish()` call the await it stands at (`pc`), its QoS, its attempt and the
packet id of that attempt; who holds the mutex around the publisher; the transmit
channel, here the lossless queue that `FrameLog` promises; and `clean_start` and
`connect_attempts` of the stack. The wakers of `Shared` are left out.

A call is `new`, then `connecting` (`wait_connected()`), `locking` (it has its
packet id and waits for the publisher), `granting` (it waits for room), `tx`,
`ack` and `rel` (the three waits of `wait_publish_tx()`), and ends `ok` or
`failed`. What lies between two of these awaits is one action: `TakePid` is the
first critical section of `send()`, `Enqueue` the encoding, the second critical
section and the commit. Each early return and each `unwrap!` is an action of its
own (`RefuseCall`, `EnqueueFails`, `EnqueuePanics`). A packet larger than the transmit
buffer is not refused: `GrantFuture` returns `Pending` for it (`publisher.rs:365`), so the
call stays in `granting`, with the publisher's mutex, until its timer (`Blocked`). A failed attempt
ends in `Retry`. `Timeout` and `Cancel` drop the future: the publisher's guard goes
with it, and in `wait_publish_tx()` the `OnDrop` closure cleans up. Since
`with_timeout` polls the call before the timer, only a call that is `Blocked` times
out.

The stack is `down`, `up` or `stopped`. `Transmit` and one `Handle...` action for each
type of packet are the branches of `select()`; a branch that returns an error ends
in `Reset`, which is `transport.disconnect()` and `reset()` together. `disconnect()` returns early, with
nothing changed, when DISCONNECT cannot be written. A message is committed to the receive
channel (`HandOver`) whether or not anybody subscribes to it, and acknowledged either way:
with no subscriber the commit drops the frame (`publisher.rs:555-562`), so "handed" means
committed, and what streams get of it is in `Subscriptions`. `panicked` is set
where an `unwrap` fails, and then neither calls nor stack move.

External are the connection, which loses whatever is on its way, and the broker,
which follows MQTT: it answers QoS 1 and 2 publishes, by taking the message
(`BrokerAccepts`) or by refusing it with a reason code of 0x80 or more in its PUBACK or
PUBREC (`BrokerRejects`, at most `MaxRejected` calls), ignores the repetition of a
QoS 2 id it has not released, repeats its own unfinished handshakes in a session it
resumes, and forgets them with a session it does not. The handlers do with a refusal what the
code does: `handle_pub_ack()` warns and removes the id, `handle_pub_rec()` does not look at
the code and sends PUBREL, which a broker that refused answers like any other. A session is present when
the broker kept one and CONNECT did not ask for a clean start. Answers come in order
unless the fault `reorder` is on.

Histories: `received` counts how often the broker passed a call's message on, `rejected`
has the calls whose message it refused, `handed` how often an inbound message was committed to the subscribers (0, 1, or
2 for "more").

### Codec and Wire

An encoder in `Codec` is the sequence of its writes: one that checks the room left
fails with `BufferSize`, one that does not panics. A decoder is a chain of reads,
each a value and the offset behind it, or an error. `Encode` is what a broker (or
the client) puts on the wire; `Decode` what the client makes of it.

`Wire` has the fields of `PacketReader` (`buf` with `read_bytes`, `packet_len`), the
bytes of the connection that have arrived and have been taken, and where
`select()` or `connect_mqtt()` stands: idle, in a receive, or in the payload of a
PUBLISH. `read` is a `read_chunk()`, which parses the header first and then asks the
socket for exactly what it still needs; `Cancel` is `select3` dropping a receive that
pends; `copy_all` and `ReadExact` are the two ways a payload is taken, into a frame or
to be discarded; `Lose` is a lost connection, which resets the reader only when
`select()` was on it, and `ConnectFails` a refusal, which never does.
`encode_packet` encodes any request into the room that the client reserves for it.

### Subscriptions

`TopicFilter` splits names into fields, as the code does at `/`; `new` is "ok" or the
error, `is_match` the loop over both in lockstep, and `Matches` the definition.

A handle is a call of `subscribe()` that becomes a `Subscription` and may end in
`unsubscribe()`, a drop, the end of its stream or an error. Its `pc` is the await it
stands at. `ack_status` maps a packet id to what the code stores for it; `Refused` and
`Acked` are the statuses that a handler leaves for the call. `try_lock()` may fail
(`TryLock`), so the cleanups of dropped futures and the drop of a `Subscription` are
there with and without the lock. The transmit channel is the lossless log of `FrameLog`, the
receive channel the lossy one: `rx` is all that was committed to it and `floor` the oldest frame
still there. `HandlePublish` may evict (`grant_immediate()` forces out what slow streams
have not read) or find no room and discard the message; a stream that was overtaken goes on
at the floor (`NextRead`). The broker keeps the filters, in a session that it
may forget and that a clean start ends; CONNACKs may be lost. Histories: `due`, which
handles a message was sent to; `sessions` and `born`, the broker's sessions counted as
they really are; `missed`, a CONNACK of a new session was lost; `leaked`, ids whose
places the code gives up.

### Connection

`run` is the place of `run()`: `dialling` (name resolution and TCP), `opening` (the TLS
handshake), `greeting` (CONNECT is written), `backoff`, `select` (that is, in `select3()`),
`reading`, `pinging` or `writing` (behind `select3()`: the rest of a PUBLISH payload, a
PINGREQ, anything else that is written), `stopped` (it has returned) or `dropped` (its future was dropped, and may be created again). Time passes
in ticks; `idle` is the time since `last_network_action`, and a timer that is due, or a
PINGRESP that has arrived, comes before the next tick. A PINGREQ to a live broker is
answered within `AnswerWithin`. Where `run()` stands behind `select3()`
(`Untimed`) no timer is armed: there it waits for the peer (`PayloadRead`, `Written`) and for
nothing else, as `copy_all()`, `discard()` and `write_all()` do. A `silent` peer takes no more
than a socket buffers and sends nothing; a `closed` one fails the next read or write. The stack
and the clients are taken to share an executor, and nobody holds the lock of `Shared` over an
await, so what `run()` does between two waits for the network or a timer is one step:
`Loop` is the closing of the transport, `reset()` and `set_connected(None)` together. What a packet does beyond moving the
clock is left to the other modules: an error that a handler returns is there, not
here. Histories: `silent`, `wrote`, `stale`, `failures`.

## 3. Runs

| run | cfg | expects | shows |
|---|---|---|---|
| `channel` | `PubSubChannel` | pass | two subscribers, all three ways of granting, frames shrunk at commit, cancelled futures: regions disjoint, frames intact, held grants pinned, counts exact, spent frames freed, no lost wake-up |
| `churn` | `PubSubChurn` | pass | publisher and subscribers dropped and recreated, eviction and `clear()` under held and never-released grants: the lossy log is implemented, the proofs' invariant holds, counts never underflow |
| `progress` | `PubSubLive` | pass | a channel without eviction, as the transmit channel is, here with subscribers that come and go: every `grant_async()` resolves, every frame is delivered to every subscriber that stays, the lossless log is implemented; a drop takes the subscriber off exactly the frames it has not read, and wakes the publisher that waits for the room |
| `drop_while_read` | `PubSubDropWhileRead` | violation | a subscriber's drop frees a frame another one is reading |
| `publish` | `SessionPublish` | pass | two publishes of two attempts, capacities of one, timeouts, encoding errors, packets that are too large, answers out of order, and a refusal or a lost connection: no id leaks or is in two stages, no id waits for a frame that is gone, no attempt is delivered twice, what is released was answered; every call can go on |
| `inbound` | `SessionInbound` | pass | QoS 1 and 2 messages to the client, a full receive channel, failed connects, expired sessions, `disconnect()`: only what was handed on is acknowledged, and `incoming_pub` matches the broker's open handshakes |
| `session_progress` | `SessionLive` | pass | on a connection that lasts and with room for every call, each publish returns `Ok`, and only once the broker has taken or refused it; each handshake ends, the connection is kept |
| `unacked_ok` | `SessionUnacked` | violation | a publish waiting when the connection is lost returns `Ok` though nothing was sent |
| `wire` | `Wire` | pass | MQTT 5, every type of packet the broker sends, reason codes and properties, segments that end inside headers and inside payloads of a PUBLISH, a dropped receive, a lost connection: packets come out in order and unchanged, the stream stays in step, every packet is handled in the end; every request of the client reads back, and fits the room reserved for it unless that room leaves its properties out |
| `framing` | `WireFraming` | violation | MQTT 3.1.1, segments that end anywhere: a receive cut off behind its header loses the packet boundary |
| `subscriptions` | `Subscriptions` | pass | two handles whose filters may coincide, timeouts, cancelled futures, contended locks, refusals, a lost connection, a lost CONNACK, an expired session, up to three messages, frames evicted under slow streams and messages discarded: see the properties below |
| `connection` | `Connection` | pass | up to six faults of any kind in a row, a `ServerKeepAlive` of 0 or 2 under an interval of 3: see the properties below |

`SafeCut` in `Wire` is where a segment may end without harm; `framing` lets it end anywhere.
The type invariants of `Session`, `Wire` and `Subscriptions` are the first conjunct of `PidsOwned`,
`RxInOrder` and `PlacesAccounted`; that of the channel is part of `ChannelInv`; that of
`Connection` is proved.

Deadlock is checked in `channel`, `churn`, `connection` and the runs of `Session`, where
`Quiescent` lets a behaviour stop only when every call has returned, `run()` has
returned, or the program panicked. In `progress`, `subscriptions` and the runs of `Wire` a behaviour ends
when its messages, scripts or faults are used up, so there it is not.

`Subscriptions` states: the few places of `ack_status` and `outgoing_pid` are all held for
a reason, but for three leaks that are named (`PlacesAccounted`); while a connection
lasts, who waits for an answer has it or it is on its way (`AnswerComes`); a stream that
waits is subscribed (`LiveIsSubscribed`) and ends only when its session did
(`EndsWithSession`); it yields only what matches, each message once and in order, and passes
over nothing that is still in the receive channel, which may have lost what it was too slow
for (`YieldsMatching`); `unsubscribe()`
returns `Ok` only when the broker agrees (`OkMeansUnsubscribed`).

`Connection` states: `PoolExact`, `ConnectedIsGreeted`, `StopsWhenExhausted`, `SilenceNoticed`
(two intervals bound the life with a silent peer, where the timer is armed), `PeerKept` (one that answers in time
is never given up by the keep-alive), `Reconnects` (a lost connection is replaced, or
`run()` ends, or it waits behind `select3()` for a peer that fell silent).

### Bounds

Buffers of 3 to 5 bytes with frames of 1 to 3, and a deque of 2 or 3, make every
case of `free_space()` and of the placement happen: empty, one frame, wrapped and
not, exact fit, full deque with room in the buffer and the reverse. Two
subscribers are enough for a frame with a reader ahead, a reader behind and one
that left. `MaxId` (3 to 5 messages) is more than the deque holds, so the ring
wraps and lagging cursors are overtaken. `MaxHeld = 1` says a subscriber holds at
most one read grant, as `Subscription` and the stack do; with two, grants released
out of order leave a frame with count 0 queued until the next eviction, drop or
`clear()` (`release_inner()` pops index 0 only), and `SpentFramesFreed` is false.
`LenMod` is 2^16, the width of `Header::len`; frames in the runs are shorter.

In `Session`, capacities of one (`MAX_INFLIGHT`, eight in the default build) are
enough for every set to be full when somebody wants to insert, and two calls for
one to come between a check and its use. `PidMax` is as small as uniqueness allows,
so ids wrap in every passing run. One lost connection (`MaxLosses`) is enough to cut any
handshake at any step; further reconnects, caused by the stack itself, are not
bounded. One call refused (`MaxRejected`) beside one accepted is enough for an answer
of either kind to meet the other call; in `session_progress` both may be refused.
`MaxEvents` of 1 keeps a refusal and a lost connection out of one behaviour of `publish`. Its
`Faults` leave out cancellation, which reaches few states (4% more) that a last
attempt's timeout does not; `inbound` has it, and the theorems about the four invariants of `publish` need neither bound.
`BackoffLimit` is 1, for 10 in `DEFAULT_BACKOFF`. `session_progress` has room for both calls:
with `MAX_INFLIGHT` below the number of calls a publish may fail at once, as all its attempts run into `MaxInflight` without a pause.

In `Wire` the scripts of `MCWire` are each a CONNACK and one to three packets, between
them with every type, the shortest and the longest form of each, and payloads that end
before, at and behind the end of the reader's buffer; a PUBLISH has two bytes or more
behind its topic, as the reader panics on shorter ones (see "On the wire" below); `MAX_TOPIC_LEN` of 12 makes that
buffer 21 bytes, so that a payload of a few bytes crosses it. One dropped receive and one
lost connection can fall anywhere. The requests are one of each type and form, with and
without properties, and a PUBLISH long enough for a remaining length of two bytes. The
acknowledgements of the model broker are the forms the client's own encoder writes: the 3-byte form of MQTT 5, a reason code without properties, is legal and not among them (see
"On the wire" below).

In `Subscriptions`, two attempts and two faults are enough
for an answer to come after its attempt, for a session to end under a stream, and for one handle to take
what the other needs; three messages for a stream to be overtaken by one or two of them, to skip
one that does not match, and for one to be discarded between two that are not. `MaxEvents` of 4
keeps both from coming at once: two faults without messages, one with up to two, none with three.
`TxFrames` of 1 lets a drop find the channel full. `PidMax` is larger
than the ids a behaviour can take, so ids do not wrap here (they do in `Session`).

In `Connection`, six faults are enough for the attempts of the backoff (`BackoffLimit` of 2)
to be used up twice; an interval of 3, lowered to 2 or 0, against an answer within 1
leaves the timer before, at and behind the answer. The theorems need no such bound.

### Fairness

`FairSpec` assumes that a woken task is polled (any executor does that), that the
holder of a write grant commits it (in the client nothing but encoding lies in
between), and that each subscriber reads on and drops what it read (the stack's
`select` loop on the transmit channel). Nothing is assumed of subscribers
joining or of new grants being asked for. Strong fairness is not needed.

In `Session`, each call and the stack are polled again as long as they can go on.
`Shared::reset()` wakes nobody, but every attempt has a timer, whose poll finds
what a missed wake-up would have told. The broker answers and sends what it has to
send while the connection lasts. Losing a connection is not fair, nor is any
fault; the broker's fairness is an assumption on an external party.

In `Wire`, what the broker sent arrives and the client is polled while it can go on; drops and
losses are not fair. In `Connection`, `run()` is polled while it can go on, time passes, and
from a peer that is alive the rest of a payload and a PINGRESP that is due are received, and
writes to it end; nothing makes the application write, the network
fail, or anybody call `run()` again. `Reconnects` uses that the faults of a behaviour are
finitely many: with endless ones, no reconnect need succeed.

`subscribe()` and `unsubscribe()` return under the fairness of `Session` while the
connection lasts: `AnswerComes` is the safety part of this, and it is what is checked.

### Disagreements with docs and tests

The `violation` runs and the "findings" of `PROJECT.json` quote the lines. Met as
well, and not given a run of their own:

* a subscriber that was overtaken when it is dropped (`subscriber.rs:124`) is taken off no frame,
  against "All messages that haven't been read yet by this subscriber must have their counter
  decremented" (`subscriber.rs:122`): frames that nobody waits for keep a count above zero and stay
  until they are evicted. `CountExact` fails with `grant_immediate()` and drops together, which is
  why `churn` checks `CountCovers`;
* `grant_async()` of more than the capacity parks for ever (`publisher.rs:365`): in `Session`
  such a `publish()` holds the publisher's mutex until its timer, and every other call
  waits for it; `unsubscribe()`, which has no timer, waits for ever;
* a `GrantFuture` that waits for an uncommitted grant of the same publisher is
  not woken by its commit (`publisher.rs:580-584`);
* dropping a write grant publishes an empty frame (`publisher.rs:399`), though the
  doc says "no frame will be committed for writing" (`publisher.rs:378-380`); in
  `Session` this is `EmptyFrame`, for which the stack writes nothing;
* `clear()`, which the crate itself never calls, empties the queue without waking a
  publisher that waits for room (`mod.rs:200`);
* a commit with no subscriber drops the frame (`publisher.rs:555-562`), and the stack
  acknowledges the message all the same;
* `handle_pub_rec()` and the QoS 2 branch of PUBLISH unwrap an insertion into a set
  that may be full (`stack.rs:435`, `stack.rs:280`): the runs `publish` and `inbound`
  reach both panics. The first takes a broker that answers a PUBREL later than a
  PUBLISH sent after it; with answers in order it is out of reach;
* a PUBREC that comes after its call timed out is an error that ends the connection
  (`stack.rs:448`), and with it the wait of every other call;
* a QoS 2 publish that is retried takes a new packet id (`client.rs:263`), so the
  broker cannot tell that it is a repetition: `DeliveriesBounded` bounds the
  deliveries by the attempts, not by one;
* a frame longer than 65535 bytes is committed with its length modulo 2^16
  (`publisher.rs:566`).

In the session:

* a publish that the broker refuses returns `Ok` too, on a connection that lasts: `handle_pub_ack()`
  only warns (`stack.rs:399`), `handle_pub_rec()` does not look at the reason code (`stack.rs:434`),
  and the doc says "`Ok(())` if the message was published successfully" (`client.rs:237`). With
  `MaxRejected` of 1 and no losses `OkMeansReceived` fails as in `unacked_ok`; what holds is `OkMeansAnswered`;
* two publishes that pass the capacity check of `send()` together overfill
  `inflight_pub`, and the second one panics in `unwrap!`, under the comment "# Safety:
  Capacity checked above by returning `Error::MaxInflight` if full" (`client.rs:175-176`): the run
  `publish`, with capacities of one for two calls, reaches that panic, and its properties hold up to it;
* a QoS 2 PUBLISH is committed to the receive channel before `incoming_pub` is looked at,
  and `reset()` forgets `incoming_pub` although the session is resumed (`stack.rs:238`,
  `state.rs:93`): a message whose PUBREC was lost reaches the subscribers twice (`handed` is 2 in
  states of the run `inbound`); the README offers "QoS 2 (Exactly Once) support" (`README.md:62`), and
  no property here claims it;
* after such a reset the broker repeats its PUBREL, `handle_pub_rel()` answers an unknown
  id with an error instead of PUBCOMP (`stack.rs:423`), `run()` reconnects, and the same
  PUBREL comes again: `InboundCompletes` needs a connection that lasts;
* a call that timed out gets its PUBREC late: the error gives up a good connection, and
  with it what inbound messages were not acknowledged, which are then handed on twice.

On the wire:

* a packet other than PUBLISH that is longer than the reader's buffer is decoded from
  what fits and its rest is taken for the next packet (`packet.rs:65`);
* a PUBLISH of QoS 0 is not recognised until two bytes have come behind its topic, as the reader
  waits for a packet id that it does not have (`packet.rs:92`): with an empty payload in
  MQTT 5, and with less than two bytes of payload in MQTT 3.1.1, these are the
  first bytes of the next packet, and with more bytes than the packet is long the reader
  panics (`packet.rs:70`). A script with such a PUBLISH and
  another packet behind it violates `EveryPacketHandled`. The runs of `Wire` and its theorems are
  about a PUBLISH with two bytes behind its topic;
* a topic longer than `MAX_TOPIC_LEN` leaves the reader no room to read into and it spins;
* a failed or timed-out connect does not reset the reader (`stack.rs:101-117`), so a
  half-read CONNACK begins the first packet of the next connection: the passing run of
  `Wire` cuts no CONNACK;
* PUBREL is written with the flags 0 where MQTT wants 2; acknowledgements with a reason
  code and no properties (remaining length 3) are decoded as successes, and a DISCONNECT
  with a reason code alone as a normal one: no run has these forms, as the broker of `Wire`
  writes with the client's encoder, which does not know them, so `RxInOrder` says nothing of them;
* `max_packet_size()` of PUBLISH, SUBSCRIBE and UNSUBSCRIBE adds the length of the length of the
  properties and not the properties (`publish.rs:168-171`), against "Returns the maximum packet size in bytes" (`encoder.rs:221`):
  the grant of such a packet is too small, and the encoder returns `BufferSize` or, in `write_u8()`, which
  checks nothing, panics. The run `wire` has such requests, and `RequestsReadBack` excepts them
  (`RoomLeavesOut`) from what it says of the room; `Property::size()` counts the value of
  a SubscriptionIdentifier as if it were bytes (`properties.rs:100`); `Message::properties()`
  starts one length prefix too early (`message.rs:53-57`);
* a SUBACK with more codes than `MAX_SUB_TOPICS_PER_MSG` panics in `collect()`.

In the subscriptions:

* the receive channel evicts what a slow stream has not read (`stack.rs:238`, `grant_immediate()`),
  and a message that finds no room although everything was evicted that may be is discarded
  with a warning and no answer (`stack.rs:245-253`): a stream may miss messages, of any QoS, and those
  that were evicted have been acknowledged;
* `unsubscribe()` has no timeout: after a reset it waits for ever (`client.rs:514`), and
  cancelled it leaves its place in `ack_status` taken until the next reset (`leaked`);
* a SUBSCRIBE refused because `ack_status` is full leaves its id in `outgoing_pid`
  (`client.rs:184`);
* of two subscriptions with one filter, the first that is dropped ends both at the broker,
  and the other one waits on;
* a CONNACK that reports a new session and is lost on the way leaves subscriptions that
  wait for a session which is gone: the next CONNACK reports it present;
* dropped while the lock is held, a `Subscription` sends UNSUBSCRIBE with the id 1
  (`client.rs:613`), and with the publisher locked or the channel full it sends none
  (`client.rs:616-630`); a filter that `TopicFilter::new()` refuses is refused after the
  broker has accepted it (`client.rs:335`);
* "a/#" does not match "a", as MQTT has it, and "a#" is accepted: the theorem is about the
  definition in the doc of `TopicFilter`, which says one or more fields;
* `clean_session_count` is a `u8`: after 256 new sessions an old `Subscription` looks current.

In the connection:

* `disconnect()` does not reset `awaiting_pingresp` (`stack.rs:161-162`): if it was set, the
  first keep-alive of the next connection gives up a broker that was never asked
  (`PeerKept` fails without its exception `stale`);
* the rest of a payload is read, and a frame or a PINGREQ written, after `select3()` has returned, with
  no timer (`stack.rs:183-188`, `240`, `250`), though `run()` "handles connection, reconnection with backoff, keep-alive
  pings" (`stack.rs:77`): a peer that falls silent there, in the middle of a payload, is waited for
  for ever. In the run `connection` it happens; `SilenceNoticed` is about the places with a timer, and
  `Reconnects` excepts the others;
* `run()` dropped while it writes a PINGREQ leaves `awaiting_pingresp` set for a PINGREQ that
  was not sent: called again it gives up, at the next keep-alive, a peer that it did not ask
  (`stale`);
* `run()` dropped before the CONNACK and called again finds the transport connected,
  sends no CONNECT and calls no `set_connected()`: a client that waits for the
  connection waits on (`stack.rs:82`; excepted in `Reconnects`);
* every receive moves `last_network_action`, so no PINGREQ is sent while packets come in,
  though `keepalive_interval` is documented as the time between transmissions
  (`config.rs:50-51`); every transmit moves it too, so a silent peer goes unnoticed while
  the application writes (`wrote` in `SilenceNoticed`);
* a ServerKeepAlive of 0 makes the timer fire at once (`stack.rs:509`), where MQTT says that
  it turns the keep-alive off;
* `DEFAULT_BACKOFF` gives up "if the number of attempts exceeds 10" (`config.rs:12`), by
  `attempt >= 10`: eleven connects, ten retries; `connect_attempts` is not reset by
  a new call of `run()`, which then stops after one failure;
* the address of a `DomainBroker` "is resolved to an IP address when `get_address` is called"
  (`broker.rs:34`), but only the first time: a broker that moved is never found again;
* a received DISCONNECT is only logged; `select3` polls the transmit branch first, so an
  application that always has something to send keeps the stack from receiving;
* `ConnectedSocketTransport` is always connected, so `run()` never sends CONNECT on it;
* a CONNACK's MaximumQoS can only raise `max_qos` (`stack.rs:513-517`).

## 4. Proofs

All theorems hold for every value of the constants: any capacity, any number of
subscribers, calls, handles, messages, attempts and faults. They rest on the named
`ASSUME`s of the modules (constants are naturals, sets of handles are finite, a topic
has no wildcard), which the runs evaluate. Where a theorem has a hypothesis, the code
needs it: each names a use of the channel, or a stretch of a behaviour, outside of which
the property is false, and the runs or section 3 say how.

| theorem | states | hypothesis |
|---|---|---|
| `PubSubProofs`: `ChannelInvariance`, `TypeCorrect`, `IdsNeverGap`, `RegionsNeverOverlap` | `ChannelInv`, `TypeOK`, `IdsContiguous`, `RegionsDisjoint` | - |
| `ChannelProofs`: `CountsCover` | `CountCovers` | - |
| `ChannelImplementsLog` | `ImplementsLog` | - |
| `CountsAreExact` | `CountExact` | `SafeToLeave`: no subscriber is dropped, or the channel is lossless |
| `GrantsStayPinned` | `HeldGrantsPinned` | `HandsOff`: no subscriber is dropped, no `clear()` |
| `FramesStayIntact` | `FramesIntact` | `HandsOff`, the publisher is taken once |
| `NoWakeupIsLost` | `NoLostWakeup` | `HandsOff`, no grant is asked for while one stands |
| `SpentFramesGo` | `SpentFramesFreed` | `HandsOff`, `TakesTurns`: one frame at a time, given back |
| `SessionProofs`: `TypeCorrect`, `AckedHanded`, `IncomingIsCurrent` | `TypeOK`, `AckedIsHanded`, `IncomingCurrent` | - |
| `OutgoingIsQueued`, `DeliveriesAreBounded` | `OutgoingQueued`, `DeliveriesBounded` | - |
| `PidsAreOwned`, `ReleasedAreAnswered` | `PidsOwned`, `ReleasedIsAnswered` | `FreshIds` |
| `OkIsAnswered` | `OkMeansAnswered` | `FreshIds`, `ConnectionLasts` |
| `ConnectionIsKept`, `OkUnlessLost` | `ConnectionKept`, `OkMeansAnswered` | `FreshIds`, `Patient`: no QoS 2 publish is given up before its PUBREC; no connection lost |
| `FreshUntilWrap` | `FreshIds` | no id has wrapped yet |
| `CodecProofs`: `PropertiesReadBack` | properties take `size()` bytes and are read from them in order | `TypedProperties` |
| `PacketsReadBack` | what is encoded is decoded, for every packet a client receives | `WellFormed`, `Readable` |
| `WireProofs`: `ReaderInSync` | `InSync` | `FramedScripts`, `~AnyCut` |
| `ReceivesInOrder` | `RxInOrder` | `FramedScripts`, `ReadableScripts`, `~AnyCut` |
| `RequestsFit` | `RequestsReadBack` | every request is `Encodable` |
| `SubscriptionProofs`: `PlacesAreAccounted`, `StreamsEndWithSession`, `StreamsYieldMatching` | `PlacesAccounted`, `EndsWithSession`, `YieldsMatching` | - |
| `AnswersCome`, `OkIsUnsubscribed` | `AnswerComes`, `OkMeansUnsubscribed` | `BeforeWrap` |
| `LiveAreSubscribed` | `LiveIsSubscribed` | `BeforeWrap`, `PolledInTime` |
| `MatchIsReference` | `is_match` is `Matches` | - |
| `ConnectionProofs`: `TypeCorrect`, `PoolIsExact`, `SeenIsGreeted`, `StopIsExhaustion`, `SilenceIsNoticed`, `AnsweringPeerKept` | `TypeOK`, `PoolExact`, `ConnectedIsGreeted`, `StopsWhenExhausted`, `SilenceNoticed`, `PeerKept` | - |

`SequenceFacts` has the lemmas about queues that the proofs of `Session` and
`Subscriptions` share: the members of a queue after an append, a tail, a removal or an
overtaking, and what one queue adds to another. For `Codec` and `Wire` it has the lemmas
about concatenation, `FlattenSeq` and induction up to a number.

### The channel

`RegionsDisjoint` is not inductive: a step sees the first and the last
header only, and the next grant is placed by comparing their offsets. `Layout`
says what these comparisons rely on: the regions, oldest first, climb through the
buffer and at most once start over from the bottom, and if they did the newest
ends at or below the oldest. `Reserved` asks this of the queue with the pending
write grant appended at its full size, because `commit()` may shrink it and the
front may be popped while it is out. `OneWriter` ties the grant to
`write_in_progress` and keeps a place for it in the deque, without which
`commit_inner()` would spend an id and lose the header, and `IdsContiguous` would
fail. The lemmas follow the ways a queue changes: `LayoutGrows` (a grant is
placed), `LayoutWeakens` (popped from the front, or shrunk in place),
`LayoutButLast` (a grant that publishes nothing), `LayoutApart` (in order implies
disjoint). `StepPreserves` has one step per action.

`ChannelProofs` stands on that invariant. `LogSteps` says what a step does to the frames
and cursors, as one of few kinds; every proof after it goes by these kinds and not by the
actions. *Counts:* `CountCovers` is inductive with `ReadersInv` (cursors lie behind the next id):
whoever leaves or is forced on is taken out of the count only where it was in it. The
count may stay too high when a subscriber that was overtaken leaves, so equality needs
`SafeToLeave`. *Refinement:* `ChannelImplementsLog` maps `floor` to `StartId` and `next[s]` to
`ReadId(s)`, and shows that each kind of step is a step of `FrameLog` or a stutter. The
lossless log needs `KeepUp`: without eviction no cursor is behind the oldest frame, since a
frame goes at count 0 and a count covers its readers. *Grants:* a read grant's frame is
queued and marked (`HeldGrantsPinned`), with `OneReader`; eviction stops at a mark and
`release_inner()` pops only frames without readers. A dropped subscriber or `clear()` takes
frames from under a reader (`drop_while_read`), hence `HandsOff`. *Bytes:* a grant's
region is apart from every queued frame (`Layout`), so a frame is written to only once
it has left the queue. *Wake-ups:* `WriterAwake` and `ReadersAwake` relate a parked task
to its registration and to the room or frame it waits for; with two grants of one
publisher the commit of the first wakes nobody, hence the second hypothesis. *Spent frames:*
only the front is popped, so a spent frame behind another stays; `LastRead` says that a
subscriber with one grant has read up to that frame, so all behind it still wait for it.

### The session

*Inbound* (`InboundInv`). A handshake has one token on its way, in one direction and
once (`OneToken`), and the token tells the state of the broker and what was handed on
(`TokenInv`); `MemoryInv` is what is left of it when no token is under way, and `StackInv` ties the
connection to `run()`. Without `OneToken` a second PUBREL would find the id gone.

*Outbound.* `SetsInv` needs no assumption on ids: whatever is in `outgoing_pid` has its frame in the
channel, whatever is in `inflight_pub` has a call that waits. Everything else needs that an id
in use is not handed out again: `next_pid()` counts modulo 2^16 and does not look.
`FreshIds` says just that, of the ids of calls, frames and answers under way and of the
broker's session; `FreshUntilWrap` proves it for the first 65534 ids. `IdInv` then says that
ids, frames and answers belong together: one call for an id (`OwnIds`), one frame for it, in
the channel or sent (`QueuedOnce`, `FramesOwned`), and an answer only if the broker has
decided about the message, by taking or refusing it (`Decided`, `AnswersTrue`). `OkIsAnswered` adds
`AckInv`: an id leaves `inflight_pub` by an answer. By a `reset()` it leaves too, which is the
finding of `unacked_ok` and why the connection must last. More than an answer cannot be had:
the code returns `Ok` for a refusal too (section 3).

*The connection.* The handlers give a connection up over a PUBREC whose id is not in `inflight_pub` or a
PUBREL whose id is not in `incoming_pub`. `KeptInv` says that none comes: a message is in `incoming_pub`
from its PUBREC to its PUBREL (`ReleasesKnown`, on top of `OneToken`); a frame is sent once and
answered once (`SentOnce`, `AnsweredOnce`), and while it or its PUBREC is queued or on the wire its id
is in `inflight_pub` (`AnswersAwaited`). Each hypothesis is needed: a QoS 2 `publish()` that times out or is
dropped takes its id out with the PUBREC still to come (`Patient`; QoS 0 and 1 may time out, and QoS 2
after the PUBREC); an id handed out twice gets two PUBRECs; after a loss the
broker repeats PUBRELs that `reset()` has made the client forget. Other faults are allowed: answers
out of order, refused connects, a full receive channel, packets that cannot be encoded.
`KeptInv` was checked with TLC, under these hypotheses and with those faults, before it was proved. It discharges
the hypothesis of `OkIsAnswered` (`OkUnlessLost`).

*Deliveries.* `CreditInv`: deliveries so far, plus frames queued, plus PUBLISHes on the wire, plus
an attempt that has not queued its frame, are at most the attempts. The invariant counts in
sequences and needs no fresh ids.

### Subscriptions

`CallDoes` and `PeerDoes` say what a step of a handle, or of stack, broker and connection,
does to ids, queues and `ack_status`; most proofs go by them. `BeforeWrap` is the
simplest form of fresh ids: `last_pid` has not come round. It also keeps the id 1, which a
`drop()` without the lock sends, from anybody else.

* `PlacesInv`: a place held for a `drop()` has its UNSUBSCRIBE in the channel or on the wire, or its
  UNSUBACK, as long as there is a connection; a place held for a call has the call.
* `RequestInv`: ids are used once, and what is under way with the id of a handle is its request or
  the answer to it. `AnswerInv` follows the request to its answer through the channel, the wire,
  the broker and back.
* `SessionInv` relates the counter of `Shared` to the sessions that the broker made: a stream made
  in the broker's current session has the count of `Shared`, so it is not ended.
* `LiveInv`: a stream has the current count and its filters are with the broker, or its count is
  `Behind` by the number of sessions since. Distances of 256 look like none:
  `PolledInTime`. `UnsubsInv` shows that only filters which some handle gave up are taken
  away, `SubAckInv` that a good SUBACK was true when sent and stays so.
* `OrderInv`, for `OkIsUnsubscribed`: the SUBSCRIBEs of attempts that timed out may still be queued
  when `unsubscribe()` sends. They are all in front of its UNSUBSCRIBE, in the channel
  (`TxOrder`) and on the wire (`UpOrder`), so behind it no SUBSCRIBE brings its filters back,
  unless another handle has them.
* `YieldInv`: the messages due to a handle are those from its receiver's start on. What the
  stream has yielded, in increasing order, is among those of them that it passed and that match
  (`Passed`), and has all of these that are not below `floor` (`Yields`); `NextReadIs` says where a
  stream that was overtaken goes on.
  `MatchIsReference` turns `is_match()` into the definition.

### Bytes and packets

*Induction.* The theorems about `Codec` and `Wire` hold for strings, payloads, properties, topics and
scripts of any length. The library's induction rules cannot be used here (they take an
operator), but its theorem that a well-founded set of numbers has a minimal one can:
`LeastNumber` and `CountUp` (`SequenceFacts`) do induction over a *set* of numbers, and from
them come `FlattenPrefixes`, `FlattenConcat` and `TotalIs`, which say what the folds and
the recursive functions of the models compute.

*Reading back.* `Puts(w, t)` says that an encoder's writes `w` put the bytes `t`, `Holds(b, at, t)` that a
buffer holds them at an offset. Each `write_x()` has a `Puts` lemma and each `read_x()` a lemma that
reads what is held; a packet is a concatenation of both. `VarintRead` also says that no proper prefix of
a varint is taken for one, which framing needs. For properties, `PropertyCarries` covers every type of value
and `PropertyAdvances` shows that `read_property()` moves on whatever it finds, so the
iterator's recursion is well-founded (`GoesUp`) and `IterIs` says what it yields.
`PacketsReadBack` has one lemma per type of packet, with the short forms that leave out
a reason code of 0 or empty properties.

*Framing.* `InSync` relates the bytes taken from the socket to the packets handled; a step of the
reader sees neither. `IInv` says, for every place the reader may be at, what its buffer holds:
nothing between packets (`Between`); a beginning of the packet under way, too short for its
header to be parsed, or just long enough (`InHeader`); more than a header only while the
socket still has bytes (`BehindHeader`); the whole packet, or of a PUBLISH at least its
header, when `decode()` is called (`Decodes`); a beginning of the PUBLISH in `copy_all()` and
`discard()` (`Copies`). `NoLength` is what saves the reader: a receive that is dropped has not
yet seen a length, because the stream is not cut behind a header. `ParseHeader` ties
it to the code: `try_parse_header()` succeeds on exactly the beginnings of at least `HeaderLen` bytes.
TLC has checked `IInv` on the instances of the runs. `ReceivesInOrder` adds that what was received is
what was sent (`Received`), by `PacketsReadBack`.

*The hypotheses*, all evaluated by TLC for the packets of both runs (`MCWire`):

* `~AnyCut`: a segment ends at the end of a packet, inside a header or in the payload of a PUBLISH, and a
  CONNACK arrives whole (`SafeCut`). Without it `InSync` is false: that is the finding of `framing`.
* `FramedScripts`: a topic is at most `MAX_TOPIC_LEN` long and a PUBLISH has two bytes behind its topic,
  which `try_parse_header()` waits for; any other packet fits the reader's buffer. `WellFormed` asks
  in addition for what the types of the code give (lengths that fit their fields, bytes that are
  bytes) and for an id where the QoS needs one.
* `ReadableScripts`: reason codes that the client knows, ids above 0, no more codes than `heapless::Vec` has
  room for, and properties with values of their types (`TypedProperties`). A `SubscriptionIdentifier`
  other than 0 is excluded: `Property::size()` counts its value into its length (`properties.rs:78-122`),
  and the announced length is wrong.
* `Encodable`: what the types of the code give, with any properties on a PUBLISH, SUBSCRIBE or
  UNSUBSCRIBE; answers have at most 23 bytes of them, which is what `write_buf` has room for; a CONNECT
  is no longer than `connect_buf`.

`RequestsReadBack` has one exception, `RoomLeavesOut`: the room of a PUBLISH, SUBSCRIBE or UNSUBSCRIBE
with properties leaves these out, and the encoder may fail (section 3). That the bytes
it would write read back as the request is claimed for those packets too. The rest of
`RequestsFit` needs only lengths: `RoomEnough` shows that an encoder with room for all its
bytes neither fails nor panics at any of its writes, and one lemma for each type of packet
counts them.

### Filters and connection

`MatchIsReference` is in `SubscriptionProofs`: for every filter that `TopicFilter::new()` accepts
and every topic, of any length, what the loop of `is_match()` computes is what the
definition says. A '#' can only be the last field of such a filter, so the loop either
runs over all fields or ends there.

In `ConnectionProofs`, `IInv` adds to the properties what each needs of the others. `SocketHeld` ties
the transport to the place of `run()`. `PeerFresh` says that without a connection nothing is
left of the last peer. `ConnectingUnseen`: no client sees a connection while `run()`
connects, because a failed attempt does not touch `Shared`. `AttemptsFailed` and
`RetryBelow` relate `connect_attempts` to the failures there really were. `SilenceClocked`, where the timer is armed or will be before anything else happens (not in
`Untimed`), splits the silence into the interval before the PINGREQ and the one after it, each
measured by `idle`; `PingAwaited` says that `awaiting_pingresp` is about a PINGREQ on this
very socket, sent no later than `idle` was last reset or still being written, or else is stale. One lemma per
conjunct has one step per action.

### Only model-checked

* Liveness (`GrantFutureResolves`, `EveryFrameDelivered`, `EveryPublishOk`, `InboundCompletes`,
  `EveryPacketHandled`, `Reconnects`): fairness and ENABLED are out of the prover's reach.

## 5. Not modelled, and the plan

`Session` assumes that client and stack run on one executor, as the quick start of the
repository has it (`State<NoopRawMutex, ..>` cannot be shared between threads), so
that no `try_lock()` meets a held lock (no await happens under it): on several
executors the cleanup of a dropped future may be skipped (`client.rs:355`).

`Subscriptions` lets every `try_lock()` fail, and is so far about several executors too; it takes
the two locks at the end of `subscribe()` together.

Left out: logging, error enumerations and `lib.rs`, which wires the parts together once; UTF-8
beyond ASCII; the iterators over borrowed properties and topics; the wakers of `Shared`
(`reset()` and `set_connected()` wake, or fail to wake, tasks that the models poll at any
time); the durations of the backoff; credentials and the contents of a will;
`ConnectedSocketTransport`, which no user can construct; the sockets, TLS sessions and
resolvers behind the transports.

What could be added next: liveness of `subscribe()` and `unsubscribe()` on a smaller
instance; `Session` and `Connection` composed, so that keep-alive and handshakes share a
connection.
