----------------------------- MODULE Connection -----------------------------
(***************************************************************************)
(* The life of a connection: MqttStack::run() with its connect timeout,    *)
(* backoff and keep-alive, MqttStack::disconnect(), the TLS transport with *)
(* its one pair of record buffers, and the address of a DomainBroker.      *)
(*                                                                         *)
(* Time passes in ticks; a timer that is due fires before the next one.    *)
(* The stack and the clients share an executor, and nobody holds the lock  *)
(* of Shared over an await: run() finds it free, and what it does between  *)
(* two waits for the network or a timer is one step.                       *)
(* What a packet says is left to Session and Subscriptions: here a packet  *)
(* is one that was sent or received.                                       *)
(***************************************************************************)
EXTENDS Integers

CONSTANTS
  KEEPALIVE,         \* Config::keepalive_interval, in ticks
  ServerKeepAlives,  \* the ServerKeepAlive values the broker may answer with
  CONNECT_TIMEOUT,   \* Config::connect_timeout, in ticks
  BackoffLimit,      \* the attempt for which backoff_algo returns None
  AnswerWithin,      \* a broker that is alive answers a PINGREQ in so many ticks
  Addresses,         \* where the broker may be
  Unspecified,       \* the address of a DomainBroker that is not resolved yet
  MaxFaults          \* bound: what goes wrong in a behaviour

ASSUME KeepAliveAssumption      == KEEPALIVE \in Nat \ {0}
ASSUME ServerKeepAlivesAssumption == ServerKeepAlives \subseteq Nat
ASSUME ConnectTimeoutAssumption == CONNECT_TIMEOUT \in Nat \ {0}
ASSUME BackoffLimitAssumption   == BackoffLimit \in Nat
ASSUME AnswerWithinAssumption   == AnswerWithin \in Nat
ASSUME AddressesAssumption      == Addresses # {} /\ Unspecified \notin Addresses
ASSUME MaxFaultsAssumption      == MaxFaults \in Nat

VARIABLES
  run,                 \* where run() is
  socket,              \* the transport has a socket
  pool,                \* Pool::used of the TLS buffers
  addr,                \* DomainBroker::addr
  connected,           \* Shared::connected is Some
  connect_attempts,    \* MqttStack::connect_attempts
  awaiting_pingresp,   \* MqttStack::awaiting_pingresp
  keepalive_interval,  \* Config::keepalive_interval, which a CONNACK may lower
  idle,                \* ticks since MqttStack::last_network_action
  peer,                \* the far end of the socket: "alive", "silent" or "closed"
  place,               \* where the broker is
  greeted,             \* the broker has accepted a CONNECT on this socket
  ping,                \* ticks since a PINGREQ that is not answered, or NoPing
  silent,              \* history: ticks of run() since the peer fell silent
  wrote,               \* history: the stack wrote application data meanwhile
  stale,               \* history: awaiting_pingresp, for a PINGREQ never sent here
  failures,            \* history: failed connects in a row
  faults               \* what has gone wrong so far

stackVars == <<connected, connect_attempts, awaiting_pingresp, keepalive_interval, idle>>
transportVars == <<socket, pool, addr>>
peerVars  == <<peer, greeted, ping, silent, wrote>>
vars == <<run, stackVars, transportVars, peerVars, place, stale, failures, faults>>

\* get_address() and the TCP connect, the TLS handshake, the wait for the
\* CONNACK, the backoff, select3(); behind select3() the rest of a payload, and
\* the writing of a PINGREQ or of anything else; run() has returned, or its future
\* is dropped.
Places == {"dialling", "opening", "greeting", "backoff", "select", "reading",
           "pinging", "writing", "stopped", "dropped"}

\* Where select() waits for the peer and for nothing else: its timer is part of
\* select3(), which has returned.
Untimed == {"reading", "pinging", "writing"}

NoPing     == -1
MaxSilence == 2 * KEEPALIVE + 1
MaxIdle    == KEEPALIVE + CONNECT_TIMEOUT
Shorter(m, n) == IF m < n THEN m ELSE n
Later(n, cap) == IF n < cap THEN n + 1 ELSE cap

Init ==
  /\ run = "dialling"
  /\ socket = FALSE /\ pool = FALSE
  /\ addr = Unspecified
  /\ connected = FALSE
  /\ connect_attempts = 0
  /\ awaiting_pingresp = FALSE
  /\ keepalive_interval = KEEPALIVE
  /\ idle = 0
  /\ peer = "closed"
  /\ place \in Addresses
  /\ greeted = FALSE
  /\ ping = NoPing
  /\ silent = 0 /\ wrote = FALSE
  /\ stale = FALSE
  /\ failures = 0
  /\ faults = 0

Fault == faults < MaxFaults /\ faults' = faults + 1

-----------------------------------------------------------------------------
(***************************************************************************)
(* The transport.                                                          *)
(***************************************************************************)
\* The far end of no socket.
NoPeer ==
  /\ peer' = "closed" /\ greeted' = FALSE /\ ping' = NoPing
  /\ silent' = 0 /\ wrote' = FALSE

\* Mutant: the buffers stay taken.
FreeNothing == UNCHANGED pool

\* There is a TlsConnection, in connect() or in the transport.
Secured == run = "opening" \/ socket

\* TlsConnection::drop().
Free == pool' = (pool /\ ~Secured)

\* Transport::disconnect(), or an early return of connect(): the connection is
\* dropped with its buffers.
Hangup ==
  /\ socket' = FALSE
  /\ Free
  /\ NoPeer

\* DomainBroker::get_address() resolves until it has an address, then never
\* again.
Resolved == IF addr = Unspecified THEN place ELSE addr

-----------------------------------------------------------------------------
(***************************************************************************)
(* Connecting.                                                             *)
(***************************************************************************)
\* Mutant: a client still sees the connection that was given up.
LoopQuietly ==
  /\ run' = IF socket' THEN "select" ELSE "dialling"
  /\ UNCHANGED connected

\* The loop of run(): connect, with Shared::connected None, when the transport
\* has no socket.
Loop ==
  /\ run' = IF socket' THEN "select" ELSE "dialling"
  /\ connected' = (connected /\ socket')

\* A failed attempt, whatever failed: back off, or return.
Fails ==
  /\ Hangup
  /\ run' = IF connect_attempts < BackoffLimit THEN "backoff" ELSE "stopped"
  /\ failures' = Later(failures, BackoffLimit + 1)
  /\ UNCHANGED <<connected, connect_attempts, awaiting_pingresp, idle, place, stale>>

\* The broker is at the address: a TcpConnect connection, then the buffers.
Dial ==
  /\ run = "dialling"
  /\ Resolved = place
  /\ ~pool
  /\ addr' = Resolved
  /\ pool' = TRUE
  /\ run' = "opening"
  /\ peer' = "alive"
  /\ UNCHANGED <<stackVars, socket, greeted, ping, silent, wrote, place, stale,
                 failures, faults>>

\* DNS or the TCP connect fails, or nobody is at the address any more, or the
\* buffers are taken.
DialFails ==
  /\ run = "dialling"
  /\ \/ Fault /\ addr' \in {addr, Resolved}
     \/ (Resolved # place \/ pool) /\ addr' = Resolved /\ UNCHANGED faults
  /\ Fails
  /\ UNCHANGED keepalive_interval

\* TlsConnection::open() within five seconds, then CONNECT is written.  The
\* connect timeout is counted from here: what comes before takes no tick.
Open ==
  /\ run = "opening"
  /\ peer = "alive"
  /\ socket' = TRUE
  /\ run' = "greeting"
  /\ idle' = 0
  /\ UNCHANGED <<connected, connect_attempts, awaiting_pingresp,
                 keepalive_interval, pool, addr, peerVars, place, stale,
                 failures, faults>>

\* The handshake fails or is too slow, CONNECT cannot be written, something
\* else than a CONNACK comes, or connect_timeout is over.
GreetFails ==
  /\ \/ run \in {"opening", "greeting"} /\ Fault
     \/ run = "opening" /\ peer # "alive" /\ UNCHANGED faults
     \/ /\ run = "greeting"
        /\ peer = "closed" \/ idle >= CONNECT_TIMEOUT
        /\ UNCHANGED faults
  /\ Fails
  /\ UNCHANGED <<keepalive_interval, addr>>

\* handle_connack() refuses, after it has taken the properties.
Refused(k) ==
  /\ run = "greeting"
  /\ peer = "alive"
  /\ Fault
  /\ keepalive_interval' = Shorter(keepalive_interval, k)
  /\ Fails
  /\ UNCHANGED addr

\* Mutant: the attempts of a connect that succeeded still count.
AttemptsKept == UNCHANGED connect_attempts

AttemptsOver == connect_attempts' = 0

\* handle_connack() accepts; ServerKeepAlive can only lower the interval.
Greet(k) ==
  /\ run = "greeting"
  /\ peer = "alive"
  /\ keepalive_interval' = Shorter(keepalive_interval, k)
  /\ AttemptsOver
  /\ connected' = TRUE
  /\ greeted' = TRUE
  /\ run' = "select"
  /\ failures' = 0
  /\ UNCHANGED <<awaiting_pingresp, idle, transportVars, peer, ping, silent,
                 wrote, place, stale, faults>>

\* The backoff timer fires.
Retry ==
  /\ run = "backoff"
  /\ connect_attempts' = connect_attempts + 1
  /\ run' = "dialling"
  /\ UNCHANGED <<connected, awaiting_pingresp, keepalive_interval, idle,
                 transportVars, peerVars, place, stale, failures, faults>>

-----------------------------------------------------------------------------
(***************************************************************************)
(* select(): the transmit branch, the receive branch and the timer.        *)
(***************************************************************************)
Action == idle' = 0

\* Mutant: forgets that it waits for nothing any more.
ResetKeepsPing == UNCHANGED <<awaiting_pingresp, stale>>

ResetPing == awaiting_pingresp' = FALSE /\ stale' = FALSE

\* select() returned an error: run() hangs up and resets.
GiveUp ==
  /\ Hangup
  /\ ResetPing
  /\ connect_attempts' = 0
  /\ Loop
  /\ UNCHANGED <<keepalive_interval, idle, addr, place, failures, faults>>

\* select() is through with a packet, or waits for the peer at one of the places.
Done(places) ==
  \/ run' = "select" /\ Action
  \/ run' \in places /\ UNCHANGED idle

\* A frame of the application is written.  A send buffer with room takes it, and a
\* peer that has gone does not say so; a full one waits for the peer.
Transmit ==
  /\ run = "select"
  /\ peer # "closed"
  /\ Done({"writing"})
  /\ wrote' = (wrote \/ peer = "silent")
  /\ UNCHANGED <<connected, connect_attempts, awaiting_pingresp,
                 keepalive_interval, transportVars, peer, greeted, ping, silent,
                 place, stale, failures, faults>>

\* Any packet but a PINGRESP: of a PUBLISH, the rest of the payload may still have to
\* come (copy_all() or discard()), and the answer to it may find the buffer full.
Receive ==
  /\ run = "select"
  /\ peer = "alive" /\ greeted
  /\ Done({"reading", "writing"})
  /\ UNCHANGED <<connected, connect_attempts, awaiting_pingresp,
                 keepalive_interval, transportVars, peerVars, place, stale,
                 failures, faults>>

\* The rest of the payload has come.
PayloadRead ==
  /\ run = "reading"
  /\ peer = "alive"
  /\ Done({"writing"})
  /\ UNCHANGED <<connected, connect_attempts, awaiting_pingresp,
                 keepalive_interval, transportVars, peerVars, place, stale,
                 failures, faults>>

\* The peer has taken what the buffer had no room for.
Written ==
  /\ run \in {"writing", "pinging"}
  /\ peer = "alive"
  /\ ping' = IF run = "pinging" THEN 0 ELSE ping
  /\ run' = "select" /\ Action
  /\ UNCHANGED <<connected, connect_attempts, awaiting_pingresp,
                 keepalive_interval, transportVars, peer, greeted, silent, wrote,
                 place, stale, failures, faults>>

\* The CONNACK for a run() that was dropped while it waited: logged.
ReceiveConnAck ==
  /\ run = "select"
  /\ peer = "alive" /\ ~greeted
  /\ greeted' = TRUE
  /\ Action
  /\ UNCHANGED <<run, connected, connect_attempts, awaiting_pingresp,
                 keepalive_interval, transportVars, peer, ping, silent, wrote,
                 place, stale, failures, faults>>

ReceivePingResp ==
  /\ run = "select"
  /\ peer = "alive" /\ greeted /\ ping # NoPing
  /\ ResetPing
  /\ ping' = NoPing
  /\ Action
  /\ UNCHANGED <<run, connected, connect_attempts, keepalive_interval,
                 transportVars, peer, greeted, silent, wrote, place, failures,
                 faults>>

\* A PINGRESP has arrived that nobody has read.
AnswerDue == peer = "alive" /\ greeted /\ ping = AnswerWithin

\* select3() polls the timer last: it fires when nothing has been received.
TimerFires ==
  /\ run = "select"
  /\ idle >= keepalive_interval
  /\ ~AnswerDue /\ peer # "closed"

\* Mutant: does not wait for an answer.
AwaitNothing == UNCHANGED awaiting_pingresp

Await == awaiting_pingresp' = TRUE

KeepAlive ==
  /\ TimerFires
  /\ ~awaiting_pingresp
  /\ Await
  /\ Done({"pinging"})
  /\ ping' = IF run' = "select" THEN 0 ELSE ping
  /\ UNCHANGED <<connected, connect_attempts, keepalive_interval,
                 transportVars, peer, greeted, silent, wrote, place, stale,
                 failures, faults>>

\* StateError::AwaitPingResp.
PingOverdue == TimerFires /\ awaiting_pingresp /\ GiveUp

\* Mutant: takes an error of the socket for nothing received.
SocketFailsIgnored ==
  /\ run = "select" /\ peer = "closed"
  /\ Action
  /\ UNCHANGED <<run, connected, connect_attempts, awaiting_pingresp,
                 keepalive_interval, transportVars, peerVars, place, stale,
                 failures, faults>>

\* A read or a write fails, in select3() or behind it.
SocketFails == run \in {"select"} \cup Untimed /\ peer = "closed" /\ GiveUp

-----------------------------------------------------------------------------
(***************************************************************************)
(* The application.                                                        *)
(***************************************************************************)
\* The future of run() is dropped; a connection that is not in the transport
\* yet goes with it.  A PINGREQ that was not written is still waited for.
DropRun ==
  /\ run \notin {"stopped", "dropped"}
  /\ Fault
  /\ run' = "dropped"
  /\ IF socket
     THEN /\ silent' = IF run \in Untimed THEN 0 ELSE silent
          /\ UNCHANGED <<socket, pool, peer, greeted, ping, wrote>>
     ELSE Hangup
  /\ stale' = (stale \/ run = "pinging")
  /\ UNCHANGED <<stackVars, addr, place, failures>>

\* run() is called again.
Run ==
  /\ run \in {"stopped", "dropped"}
  /\ UNCHANGED <<transportVars, connect_attempts, awaiting_pingresp,
                 keepalive_interval, idle, peerVars, place, stale, failures,
                 faults>>
  /\ Loop

\* disconnect(): DISCONNECT is written, the transport closed, Shared reset; an
\* error on the way ends it.
Disconnect ==
  /\ run = "dropped"
  /\ socket /\ peer # "closed"
  /\ Hangup
  /\ connected' = FALSE
  /\ stale' = awaiting_pingresp
  /\ UNCHANGED <<run, connect_attempts, awaiting_pingresp, keepalive_interval,
                 idle, addr, place, failures, faults>>

-----------------------------------------------------------------------------
(***************************************************************************)
(* The network and the broker (external).                                  *)
(***************************************************************************)
\* The connection is closed, or the peer is gone without a word.
PeerGoes ==
  /\ peer = "alive"
  /\ Fault
  /\ peer' \in {"silent", "closed"}
  /\ UNCHANGED <<run, stackVars, transportVars, greeted, ping, silent, wrote,
                 place, stale, failures>>

\* The broker moves to another address; its connections are closed.
BrokerMoves ==
  /\ Fault
  /\ place' \in Addresses \ {place}
  /\ peer' = "closed"
  /\ UNCHANGED <<run, stackVars, transportVars, greeted, ping, silent, wrote,
                 stale, failures>>

\* A tick, unless something is due.
Tick ==
  /\ run \in {"greeting", "select", "dropped"} \cup Untimed
  /\ run = "select" => idle < keepalive_interval /\ peer # "closed" /\ ~AnswerDue
  /\ run \in Untimed => peer # "closed"
  /\ run = "greeting" => idle < CONNECT_TIMEOUT
  /\ idle' = Later(idle, MaxIdle)
  /\ ping' = IF ping = NoPing THEN NoPing ELSE Later(ping, AnswerWithin)
  /\ silent' = IF run \in {"select"} \cup Untimed /\ peer = "silent"
               THEN Later(silent, MaxSilence) ELSE silent
  /\ UNCHANGED <<run, connected, connect_attempts, awaiting_pingresp,
                 keepalive_interval, transportVars, peer, greeted, wrote, place,
                 stale, failures, faults>>

-----------------------------------------------------------------------------
Connecting ==
  \/ Dial \/ DialFails \/ Open \/ GreetFails \/ Retry
  \/ \E k \in ServerKeepAlives \cup {KEEPALIVE} : Greet(k) \/ Refused(k)
Select ==
  \/ Receive \/ PayloadRead \/ Written \/ ReceiveConnAck \/ ReceivePingResp
  \/ KeepAlive \/ PingOverdue \/ SocketFails

Next ==
  \/ Connecting \/ Select \/ Transmit
  \/ DropRun \/ Run \/ Disconnect
  \/ PeerGoes \/ BrokerMoves \/ Tick

Spec == Init /\ [][Next]_vars

\* run() is polled while it can go on, time passes, and a peer that is alive answers
\* a PINGREQ, sends the rest of what it began to send and takes what is written.
\* Nobody has to send anything else.
Fairness ==
  /\ WF_vars(Connecting)
  /\ WF_vars(ReceivePingResp) /\ WF_vars(KeepAlive)
  /\ WF_vars(PayloadRead) /\ WF_vars(Written)
  /\ WF_vars(PingOverdue) /\ WF_vars(SocketFails)
  /\ WF_vars(Tick)

FairSpec == Spec /\ Fairness

-----------------------------------------------------------------------------
(***************************************************************************)
(* What a connection promises.                                             *)
(***************************************************************************)
\* The types of the variables; connect_attempts never passes the attempt at
\* which backoff_algo ends the retries.
TypeOK ==
  /\ run \in Places
  /\ socket \in BOOLEAN /\ pool \in BOOLEAN
  /\ addr \in Addresses \cup {Unspecified}
  /\ connected \in BOOLEAN
  /\ connect_attempts \in 0..BackoffLimit
  /\ awaiting_pingresp \in BOOLEAN
  /\ keepalive_interval \in 0..KEEPALIVE
  /\ idle \in 0..MaxIdle
  /\ peer \in {"alive", "silent", "closed"}
  /\ place \in Addresses
  /\ greeted \in BOOLEAN
  /\ ping \in {NoPing} \cup 0..AnswerWithin
  /\ silent \in 0..MaxSilence /\ wrote \in BOOLEAN
  /\ stale \in BOOLEAN
  /\ failures \in 0..(BackoffLimit + 1)
  /\ faults \in 0..MaxFaults

\* The TLS buffers are taken exactly while there is a TlsConnection, whatever
\* fails, times out or is dropped on the way: one failure never makes every
\* later connect() fail for want of a buffer.
PoolExact == pool <=> Secured

\* Shared::connected is Some only on a socket on which the broker accepted a
\* CONNECT: wait_connected() and publish() are not let through on one that was
\* given up, nor on one opened by a run() that was dropped.
ConnectedIsGreeted == connected => socket /\ greeted

\* run() returns only after more failed connects in a row than backoff_algo
\* allows: a connection that was up in between starts the count again.
StopsWhenExhausted == run = "stopped" => failures > BackoffLimit

\* Where the timer is armed, in select3(), a peer that falls silent is given up
\* within two keep-alive intervals: one until the PINGREQ, one until it is
\* overdue.  What the application writes meanwhile puts that off (select() moves
\* last_network_action), so the promise is for a stack that writes nothing; and a
\* run() that waits for a silent peer behind select3(), in the middle of a PUBLISH
\* payload or of a write, never comes back to the timer.
SilenceNoticed ==
  run = "select" /\ peer = "silent" /\ ~wrote => silent <= 2 * keepalive_interval

\* A broker that is alive, has accepted the CONNECT and answers a PINGREQ
\* before the next keep-alive is never given up by the keep-alive, over any
\* number of reconnects and dropped run()s.  Two exceptions the code makes (stale):
\* disconnect() leaves awaiting_pingresp set for the next connection, and a run()
\* dropped before its PINGREQ is written leaves it set for this one.
PeerKept ==
  [][/\ run = "select" /\ peer = "alive" /\ greeted
     /\ keepalive_interval > AnswerWithin
     /\ ~stale
     => run' # "dialling"]_vars

\* A connection whose peer is gone does not stay up: the stack connects again,
\* or run() returns or is dropped.  Three exceptions that the code makes: it may hang
\* on while the application writes into it; a run() dropped before its CONNACK and
\* called again takes the socket for a connection and never tells the clients of
\* it; and behind select3() a peer that fell silent is waited for for ever, in the
\* middle of a payload or of a write into a full buffer.
Reconnects ==
  connected /\ peer # "alive"
    ~> \/ connected /\ peer = "alive"
       \/ run \in {"stopped", "dropped"}
       \/ wrote
       \/ run \in {"select"} \cup Untimed /\ ~connected
       \/ run \in Untimed /\ peer = "silent"

=============================================================================
