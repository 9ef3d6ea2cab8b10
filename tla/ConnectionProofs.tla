-------------------------- MODULE ConnectionProofs --------------------------
(***************************************************************************)
(* Theorems about Connection for every keep-alive interval, time-out,      *)
(* number of retries and number of faults.                                 *)
(***************************************************************************)
EXTENDS Connection, TLAPS

\* NoPing is no number of ticks.
LEMMA NoPingNotNat == NoPing \notin Nat
BY DEF NoPing

\* The transport has a socket exactly where run() works on one; a future that
\* was dropped may leave one behind.
SocketHeld ==
  /\ run \in {"dialling", "opening", "backoff", "stopped"} => ~socket
  /\ run \in {"greeting", "select"} \cup Untimed => socket

\* Without a TlsConnection nothing is left of the peer; before select() the
\* histories of its silence have not begun.
PeerFresh ==
  /\ ~Secured => peer = "closed" /\ ~greeted /\ ping = NoPing
  /\ (run \in {"opening", "greeting"} \/ ~Secured \/ peer = "alive")
       => silent = 0 /\ ~wrote

\* While run() connects no client sees a connection.
ConnectingUnseen == connected => run \in {"select", "dropped"} \cup Untimed /\ socket /\ greeted

Booleans ==
  /\ socket \in BOOLEAN /\ pool \in BOOLEAN /\ connected \in BOOLEAN
  /\ awaiting_pingresp \in BOOLEAN /\ greeted \in BOOLEAN
  /\ wrote \in BOOLEAN /\ stale \in BOOLEAN

Ranges ==
  /\ run \in Places
  /\ addr \in Addresses \cup {Unspecified}
  /\ connect_attempts \in 0..BackoffLimit
  /\ keepalive_interval \in 0..KEEPALIVE
  /\ idle \in 0..MaxIdle
  /\ peer \in {"alive", "silent", "closed"}
  /\ place \in Addresses
  /\ ping \in {NoPing} \cup 0..AnswerWithin
  /\ silent \in 0..MaxSilence
  /\ failures \in 0..(BackoffLimit + 1)
  /\ faults \in 0..MaxFaults

\* The backoff is for an attempt below the limit.
RetryBelow == run = "backoff" => connect_attempts < BackoffLimit

\* Every attempt that counts has failed.
AttemptsFailed ==
  /\ connect_attempts <= failures
  /\ run = "backoff" => connect_attempts < failures
  /\ StopsWhenExhausted

\* Where the timer will be armed, a silence is as old as the clocks that end it.
SilenceClocked ==
  peer = "silent" /\ ~wrote /\ run \notin Untimed =>
    IF awaiting_pingresp
    THEN silent <= keepalive_interval + idle /\ silent <= 2 * keepalive_interval
    ELSE silent <= idle /\ silent <= keepalive_interval

\* awaiting_pingresp is about a PINGREQ on this very socket, sent no later
\* than the clock of the next keep-alive was set, or still being written.
PingAwaited ==
  awaiting_pingresp /\ ~stale =>
    /\ run \in {"select", "dropped"} \cup Untimed /\ socket
    /\ run # "pinging" => ping # NoPing /\ (ping = AnswerWithin \/ idle <= ping)

\* The inductive invariant.
IInv ==
  /\ TypeOK
  /\ RetryBelow
  /\ SocketHeld
  /\ PoolExact
  /\ PeerFresh
  /\ ConnectingUnseen
  /\ AttemptsFailed
  /\ SilenceClocked
  /\ PingAwaited

\* The parts of the type invariant: the solver for numbers is a poor one for
\* flags.
LEMMA TypeParts == TypeOK <=> Booleans /\ Ranges
BY DEF TypeOK, Booleans, Ranges

\* A behaviour starts with the invariant: no socket, no history.
LEMMA InitIInv == Init => IInv
<1> SUFFICES ASSUME Init PROVE IInv
  OBVIOUS
<1> USE DEF Init
<1>1. Booleans
  BY Zenon DEF Booleans
<1>2. Ranges
  BY KeepAliveAssumption, ConnectTimeoutAssumption, BackoffLimitAssumption,
     AnswerWithinAssumption, AddressesAssumption, MaxFaultsAssumption
     DEF Ranges, Places, MaxIdle, MaxSilence
<1>3. SocketHeld /\ PoolExact /\ PeerFresh /\ ConnectingUnseen
  BY DEF SocketHeld, PoolExact, Secured, PeerFresh, ConnectingUnseen, Untimed
<1>4. RetryBelow /\ AttemptsFailed /\ SilenceClocked /\ PingAwaited
  BY DEF RetryBelow, AttemptsFailed, StopsWhenExhausted, SilenceClocked, PingAwaited
<1> QED
  BY <1>1, <1>2, <1>3, <1>4, TypeParts DEF IInv

\* Every step keeps the flags Boolean.
LEMMA BooleanStep == Booleans /\ [Next]_vars => Booleans'
<1> SUFFICES ASSUME Booleans, [Next]_vars PROVE Booleans'
  OBVIOUS
<1> USE DEF Booleans
<1>1. CASE Dial
  BY <1>1, Zenon DEF Dial, Resolved, stackVars, transportVars, peerVars
<1>2. CASE DialFails
  BY <1>2, Zenon DEF DialFails, Fails, Hangup, Free, NoPeer, Resolved, Later, Fault,
         stackVars, transportVars, peerVars
<1>3. CASE Open
  BY <1>3, Zenon DEF Open, stackVars, transportVars, peerVars
<1>4. CASE GreetFails
  BY <1>4, Zenon DEF GreetFails, Fails, Hangup, Free, NoPeer, Later, Fault, stackVars,
         transportVars, peerVars
<1>5. CASE Retry
  BY <1>5, Zenon DEF Retry, stackVars, transportVars, peerVars
<1>6. ASSUME NEW k \in ServerKeepAlives \cup {KEEPALIVE}, Refused(k)
     PROVE  Booleans'
  BY <1>6, Zenon
     DEF Refused, Fails, Hangup, Free, NoPeer, Later, Fault, Shorter,
         stackVars, transportVars, peerVars
<1>7. ASSUME NEW k \in ServerKeepAlives \cup {KEEPALIVE}, Greet(k)
     PROVE  Booleans'
  BY <1>7, Zenon
     DEF Greet, AttemptsOver, Shorter, stackVars, transportVars, peerVars
<1>8. CASE Receive
  BY <1>8, Zenon DEF Receive, Done, Action, stackVars, transportVars, peerVars
<1>9. CASE ReceiveConnAck
  BY <1>9, Zenon DEF ReceiveConnAck, Action, stackVars, transportVars, peerVars
<1>10. CASE ReceivePingResp
  BY <1>10, Zenon DEF ReceivePingResp, ResetPing, Action, stackVars, transportVars,
         peerVars
<1>11. CASE KeepAlive
  BY <1>11, Zenon DEF KeepAlive, TimerFires, AnswerDue, Await, Done, Action, stackVars,
         transportVars, peerVars
<1>12. CASE PingOverdue
  BY <1>12, Zenon DEF PingOverdue, TimerFires, AnswerDue, GiveUp, Hangup, Free, NoPeer,
         ResetPing, Loop, stackVars, transportVars, peerVars
<1>13. CASE SocketFails
  BY <1>13, Zenon DEF SocketFails, GiveUp, Hangup, Free, NoPeer, ResetPing, Loop,
         stackVars, transportVars, peerVars
<1>14. CASE Transmit
  BY <1>14, Zenon DEF Transmit, Done, Action, stackVars, transportVars, peerVars
<1>15. CASE DropRun
  BY <1>15, Zenon DEF DropRun, Fault, Hangup, Free, NoPeer, stackVars, transportVars,
         peerVars
<1>16. CASE Run
  BY <1>16, Zenon DEF Run, Loop, stackVars, transportVars, peerVars
<1>17. CASE Disconnect
  BY <1>17, Zenon DEF Disconnect, Hangup, Free, NoPeer, stackVars, transportVars, peerVars
<1>18. CASE PeerGoes
  BY <1>18, Zenon DEF PeerGoes, Fault, stackVars, transportVars, peerVars
<1>19. CASE BrokerMoves
  BY <1>19, Zenon DEF BrokerMoves, Fault, stackVars, transportVars, peerVars
<1>20. CASE Tick
  BY <1>20, Zenon DEF Tick, Later, AnswerDue, stackVars, transportVars, peerVars
<1>21. CASE UNCHANGED vars
  BY <1>21, Zenon DEF vars, stackVars, transportVars, peerVars
<1>22. CASE PayloadRead
  BY <1>22, Zenon DEF PayloadRead, Done, Action, stackVars, transportVars, peerVars
<1>23. CASE Written
  BY <1>23, Zenon DEF Written, Action, stackVars, transportVars, peerVars
<1> QED
  BY <1>1, <1>2, <1>3, <1>4, <1>5, <1>6, <1>7, <1>8, <1>9, <1>10, <1>11,
     <1>12, <1>13, <1>14, <1>15, <1>16, <1>17, <1>18, <1>19, <1>20, <1>21, <1>22, <1>23
     DEF Next, Connecting, Select

\* Every step keeps the ranges: in particular a retry happens only below
\* BackoffLimit, and what a CONNACK proposes never lengthens the interval.
LEMMA RangeStep == Ranges /\ RetryBelow /\ [Next]_vars => (Ranges /\ RetryBelow)'
<1> SUFFICES ASSUME Ranges, RetryBelow, [Next]_vars PROVE (Ranges /\ RetryBelow)'
  OBVIOUS
<1> USE KeepAliveAssumption, ConnectTimeoutAssumption, BackoffLimitAssumption,
     AnswerWithinAssumption, AddressesAssumption, MaxFaultsAssumption, NoPingNotNat
    DEF Ranges, Places, RetryBelow, MaxIdle, MaxSilence, Untimed
<1>1. CASE Dial
  BY <1>1 DEF Dial, Resolved, stackVars, transportVars, peerVars
<1>2. CASE DialFails
  BY <1>2 DEF DialFails, Fails, Hangup, Free, NoPeer, Resolved, Later, Fault,
         stackVars, transportVars, peerVars
<1>3. CASE Open
  BY <1>3 DEF Open, stackVars, transportVars, peerVars
<1>4. CASE GreetFails
  BY <1>4 DEF GreetFails, Fails, Hangup, Free, NoPeer, Later, Fault, stackVars,
         transportVars, peerVars
<1>5. CASE Retry
  BY <1>5 DEF Retry, stackVars, transportVars, peerVars
<1>6. ASSUME NEW k \in ServerKeepAlives \cup {KEEPALIVE}, Refused(k)
     PROVE  (Ranges /\ RetryBelow)'
  BY <1>6, ServerKeepAlivesAssumption
     DEF Refused, Fails, Hangup, Free, NoPeer, Later, Fault, Shorter,
         stackVars, transportVars, peerVars
<1>7. ASSUME NEW k \in ServerKeepAlives \cup {KEEPALIVE}, Greet(k)
     PROVE  (Ranges /\ RetryBelow)'
  BY <1>7, ServerKeepAlivesAssumption
     DEF Greet, AttemptsOver, Shorter, stackVars, transportVars, peerVars
<1>8. CASE Receive
  BY <1>8 DEF Receive, Done, Action, stackVars, transportVars, peerVars
<1>9. CASE ReceiveConnAck
  BY <1>9 DEF ReceiveConnAck, Action, stackVars, transportVars, peerVars
<1>10. CASE ReceivePingResp
  BY <1>10 DEF ReceivePingResp, ResetPing, Action, stackVars, transportVars,
         peerVars
<1>11. CASE KeepAlive
  BY <1>11 DEF KeepAlive, TimerFires, AnswerDue, Await, Done, Action, stackVars,
         transportVars, peerVars
<1>12. CASE PingOverdue
  BY <1>12 DEF PingOverdue, TimerFires, AnswerDue, GiveUp, Hangup, Free, NoPeer,
         ResetPing, Loop, stackVars, transportVars, peerVars
<1>13. CASE SocketFails
  BY <1>13 DEF SocketFails, GiveUp, Hangup, Free, NoPeer, ResetPing, Loop,
         stackVars, transportVars, peerVars
<1>14. CASE Transmit
  BY <1>14 DEF Transmit, Done, Action, stackVars, transportVars, peerVars
<1>15. CASE DropRun
  BY <1>15 DEF DropRun, Fault, Hangup, Free, NoPeer, stackVars, transportVars,
         peerVars
<1>16. CASE Run
  BY <1>16 DEF Run, Loop, stackVars, transportVars, peerVars
<1>17. CASE Disconnect
  BY <1>17 DEF Disconnect, Hangup, Free, NoPeer, stackVars, transportVars, peerVars
<1>18. CASE PeerGoes
  BY <1>18 DEF PeerGoes, Fault, stackVars, transportVars, peerVars
<1>19. CASE BrokerMoves
  BY <1>19 DEF BrokerMoves, Fault, stackVars, transportVars, peerVars
<1>20. CASE Tick
  BY <1>20 DEF Tick, Later, AnswerDue, stackVars, transportVars, peerVars
<1>21. CASE UNCHANGED vars
  BY <1>21 DEF vars, stackVars, transportVars, peerVars
<1>22. CASE PayloadRead
  BY <1>22 DEF PayloadRead, Done, Action, stackVars, transportVars, peerVars
<1>23. CASE Written
  BY <1>23 DEF Written, Action, stackVars, transportVars, peerVars
<1> QED
  BY <1>1, <1>2, <1>3, <1>4, <1>5, <1>6, <1>7, <1>8, <1>9, <1>10, <1>11,
     <1>12, <1>13, <1>14, <1>15, <1>16, <1>17, <1>18, <1>19, <1>20, <1>21, <1>22, <1>23
     DEF Next, Connecting, Select

\* Every step keeps SocketHeld and the buffers in step with the TlsConnection.
LEMMA SocketStep == TypeOK /\ SocketHeld /\ PoolExact /\ [Next]_vars => (SocketHeld /\ PoolExact)'
<1> SUFFICES ASSUME TypeOK, SocketHeld, PoolExact, [Next]_vars PROVE (SocketHeld /\ PoolExact)'
  OBVIOUS
<1> USE KeepAliveAssumption, ConnectTimeoutAssumption, BackoffLimitAssumption,
     AnswerWithinAssumption, AddressesAssumption, MaxFaultsAssumption, NoPingNotNat
    DEF TypeOK, SocketHeld, PoolExact, Secured, Untimed
<1>1. CASE Dial
  BY <1>1 DEF Dial, Resolved, stackVars, transportVars, peerVars
<1>2. CASE DialFails
  BY <1>2 DEF DialFails, Fails, Hangup, Free, NoPeer, Resolved, Later, Fault,
         stackVars, transportVars, peerVars
<1>3. CASE Open
  BY <1>3 DEF Open, stackVars, transportVars, peerVars
<1>4. CASE GreetFails
  BY <1>4 DEF GreetFails, Fails, Hangup, Free, NoPeer, Later, Fault, stackVars,
         transportVars, peerVars
<1>5. CASE Retry
  BY <1>5 DEF Retry, stackVars, transportVars, peerVars
<1>6. ASSUME NEW k \in ServerKeepAlives \cup {KEEPALIVE}, Refused(k)
     PROVE  (SocketHeld /\ PoolExact)'
  BY <1>6, ServerKeepAlivesAssumption
     DEF Refused, Fails, Hangup, Free, NoPeer, Later, Fault, Shorter,
         stackVars, transportVars, peerVars
<1>7. ASSUME NEW k \in ServerKeepAlives \cup {KEEPALIVE}, Greet(k)
     PROVE  (SocketHeld /\ PoolExact)'
  BY <1>7, ServerKeepAlivesAssumption
     DEF Greet, AttemptsOver, Shorter, stackVars, transportVars, peerVars
<1>8. CASE Receive
  BY <1>8 DEF Receive, Done, Action, stackVars, transportVars, peerVars
<1>9. CASE ReceiveConnAck
  BY <1>9 DEF ReceiveConnAck, Action, stackVars, transportVars, peerVars
<1>10. CASE ReceivePingResp
  BY <1>10 DEF ReceivePingResp, ResetPing, Action, stackVars, transportVars,
         peerVars
<1>11. CASE KeepAlive
  BY <1>11 DEF KeepAlive, TimerFires, AnswerDue, Await, Done, Action, stackVars,
         transportVars, peerVars
<1>12. CASE PingOverdue
  BY <1>12 DEF PingOverdue, TimerFires, AnswerDue, GiveUp, Hangup, Free, NoPeer,
         ResetPing, Loop, stackVars, transportVars, peerVars
<1>13. CASE SocketFails
  BY <1>13 DEF SocketFails, GiveUp, Hangup, Free, NoPeer, ResetPing, Loop,
         stackVars, transportVars, peerVars
<1>14. CASE Transmit
  BY <1>14 DEF Transmit, Done, Action, stackVars, transportVars, peerVars
<1>15. CASE DropRun
  BY <1>15 DEF DropRun, Fault, Hangup, Free, NoPeer, stackVars, transportVars,
         peerVars
<1>16. CASE Run
  BY <1>16 DEF Run, Loop, stackVars, transportVars, peerVars
<1>17. CASE Disconnect
  BY <1>17 DEF Disconnect, Hangup, Free, NoPeer, stackVars, transportVars, peerVars
<1>18. CASE PeerGoes
  BY <1>18 DEF PeerGoes, Fault, stackVars, transportVars, peerVars
<1>19. CASE BrokerMoves
  BY <1>19 DEF BrokerMoves, Fault, stackVars, transportVars, peerVars
<1>20. CASE Tick
  BY <1>20 DEF Tick, Later, AnswerDue, stackVars, transportVars, peerVars
<1>21. CASE UNCHANGED vars
  BY <1>21 DEF vars, stackVars, transportVars, peerVars
<1>22. CASE PayloadRead
  BY <1>22 DEF PayloadRead, Done, Action, stackVars, transportVars, peerVars
<1>23. CASE Written
  BY <1>23 DEF Written, Action, stackVars, transportVars, peerVars
<1> QED
  BY <1>1, <1>2, <1>3, <1>4, <1>5, <1>6, <1>7, <1>8, <1>9, <1>10, <1>11,
     <1>12, <1>13, <1>14, <1>15, <1>16, <1>17, <1>18, <1>19, <1>20, <1>21, <1>22, <1>23
     DEF Next, Connecting, Select

\* Every step keeps PeerFresh: what hangs up forgets the peer.
LEMMA PeerStep == TypeOK /\ SocketHeld /\ PeerFresh /\ [Next]_vars => PeerFresh'
<1> SUFFICES ASSUME TypeOK, SocketHeld, PeerFresh, [Next]_vars PROVE PeerFresh'
  OBVIOUS
<1> USE KeepAliveAssumption, ConnectTimeoutAssumption, BackoffLimitAssumption,
     AnswerWithinAssumption, AddressesAssumption, MaxFaultsAssumption, NoPingNotNat
    DEF TypeOK, SocketHeld, PeerFresh, Secured, Untimed
<1>1. CASE Dial
  BY <1>1 DEF Dial, Resolved, stackVars, transportVars, peerVars
<1>2. CASE DialFails
  BY <1>2 DEF DialFails, Fails, Hangup, Free, NoPeer, Resolved, Later, Fault,
         stackVars, transportVars, peerVars
<1>3. CASE Open
  BY <1>3 DEF Open, stackVars, transportVars, peerVars
<1>4. CASE GreetFails
  BY <1>4 DEF GreetFails, Fails, Hangup, Free, NoPeer, Later, Fault, stackVars,
         transportVars, peerVars
<1>5. CASE Retry
  BY <1>5 DEF Retry, stackVars, transportVars, peerVars
<1>6. ASSUME NEW k \in ServerKeepAlives \cup {KEEPALIVE}, Refused(k)
     PROVE  PeerFresh'
  BY <1>6, ServerKeepAlivesAssumption
     DEF Refused, Fails, Hangup, Free, NoPeer, Later, Fault, Shorter,
         stackVars, transportVars, peerVars
<1>7. ASSUME NEW k \in ServerKeepAlives \cup {KEEPALIVE}, Greet(k)
     PROVE  PeerFresh'
  BY <1>7, ServerKeepAlivesAssumption
     DEF Greet, AttemptsOver, Shorter, stackVars, transportVars, peerVars
<1>8. CASE Receive
  BY <1>8 DEF Receive, Done, Action, stackVars, transportVars, peerVars
<1>9. CASE ReceiveConnAck
  BY <1>9 DEF ReceiveConnAck, Action, stackVars, transportVars, peerVars
<1>10. CASE ReceivePingResp
  BY <1>10 DEF ReceivePingResp, ResetPing, Action, stackVars, transportVars,
         peerVars
<1>11. CASE KeepAlive
  BY <1>11 DEF KeepAlive, TimerFires, AnswerDue, Await, Done, Action, stackVars,
         transportVars, peerVars
<1>12. CASE PingOverdue
  BY <1>12 DEF PingOverdue, TimerFires, AnswerDue, GiveUp, Hangup, Free, NoPeer,
         ResetPing, Loop, stackVars, transportVars, peerVars
<1>13. CASE SocketFails
  BY <1>13 DEF SocketFails, GiveUp, Hangup, Free, NoPeer, ResetPing, Loop,
         stackVars, transportVars, peerVars
<1>14. CASE Transmit
  BY <1>14 DEF Transmit, Done, Action, stackVars, transportVars, peerVars
<1>15. CASE DropRun
  BY <1>15 DEF DropRun, Fault, Hangup, Free, NoPeer, stackVars, transportVars,
         peerVars
<1>16. CASE Run
  BY <1>16 DEF Run, Loop, stackVars, transportVars, peerVars
<1>17. CASE Disconnect
  BY <1>17 DEF Disconnect, Hangup, Free, NoPeer, stackVars, transportVars, peerVars
<1>18. CASE PeerGoes
  BY <1>18 DEF PeerGoes, Fault, stackVars, transportVars, peerVars
<1>19. CASE BrokerMoves
  BY <1>19 DEF BrokerMoves, Fault, stackVars, transportVars, peerVars
<1>20. CASE Tick
  BY <1>20 DEF Tick, Later, AnswerDue, stackVars, transportVars, peerVars
<1>21. CASE UNCHANGED vars
  BY <1>21 DEF vars, stackVars, transportVars, peerVars
<1>22. CASE PayloadRead
  BY <1>22 DEF PayloadRead, Done, Action, stackVars, transportVars, peerVars
<1>23. CASE Written
  BY <1>23 DEF Written, Action, stackVars, transportVars, peerVars
<1> QED
  BY <1>1, <1>2, <1>3, <1>4, <1>5, <1>6, <1>7, <1>8, <1>9, <1>10, <1>11,
     <1>12, <1>13, <1>14, <1>15, <1>16, <1>17, <1>18, <1>19, <1>20, <1>21, <1>22, <1>23
     DEF Next, Connecting, Select

\* Every step keeps a connection that clients see a greeted one.
LEMMA SeenStep == TypeOK /\ SocketHeld /\ ConnectingUnseen /\ [Next]_vars => ConnectingUnseen'
<1> SUFFICES ASSUME TypeOK, SocketHeld, ConnectingUnseen, [Next]_vars PROVE ConnectingUnseen'
  OBVIOUS
<1> USE KeepAliveAssumption, ConnectTimeoutAssumption, BackoffLimitAssumption,
     AnswerWithinAssumption, AddressesAssumption, MaxFaultsAssumption, NoPingNotNat
    DEF TypeOK, SocketHeld, ConnectingUnseen, Untimed
<1>1. CASE Dial
  BY <1>1 DEF Dial, Resolved, stackVars, transportVars, peerVars
<1>2. CASE DialFails
  BY <1>2 DEF DialFails, Fails, Hangup, Free, NoPeer, Resolved, Later, Fault,
         stackVars, transportVars, peerVars
<1>3. CASE Open
  BY <1>3 DEF Open, stackVars, transportVars, peerVars
<1>4. CASE GreetFails
  BY <1>4 DEF GreetFails, Fails, Hangup, Free, NoPeer, Later, Fault, stackVars,
         transportVars, peerVars
<1>5. CASE Retry
  BY <1>5 DEF Retry, stackVars, transportVars, peerVars
<1>6. ASSUME NEW k \in ServerKeepAlives \cup {KEEPALIVE}, Refused(k)
     PROVE  ConnectingUnseen'
  BY <1>6, ServerKeepAlivesAssumption
     DEF Refused, Fails, Hangup, Free, NoPeer, Later, Fault, Shorter,
         stackVars, transportVars, peerVars
<1>7. ASSUME NEW k \in ServerKeepAlives \cup {KEEPALIVE}, Greet(k)
     PROVE  ConnectingUnseen'
  BY <1>7, ServerKeepAlivesAssumption
     DEF Greet, AttemptsOver, Shorter, stackVars, transportVars, peerVars
<1>8. CASE Receive
  BY <1>8 DEF Receive, Done, Action, stackVars, transportVars, peerVars
<1>9. CASE ReceiveConnAck
  BY <1>9 DEF ReceiveConnAck, Action, stackVars, transportVars, peerVars
<1>10. CASE ReceivePingResp
  BY <1>10 DEF ReceivePingResp, ResetPing, Action, stackVars, transportVars,
         peerVars
<1>11. CASE KeepAlive
  BY <1>11 DEF KeepAlive, TimerFires, AnswerDue, Await, Done, Action, stackVars,
         transportVars, peerVars
<1>12. CASE PingOverdue
  BY <1>12 DEF PingOverdue, TimerFires, AnswerDue, GiveUp, Hangup, Free, NoPeer,
         ResetPing, Loop, stackVars, transportVars, peerVars
<1>13. CASE SocketFails
  BY <1>13 DEF SocketFails, GiveUp, Hangup, Free, NoPeer, ResetPing, Loop,
         stackVars, transportVars, peerVars
<1>14. CASE Transmit
  BY <1>14 DEF Transmit, Done, Action, stackVars, transportVars, peerVars
<1>15. CASE DropRun
  BY <1>15 DEF DropRun, Fault, Hangup, Free, NoPeer, stackVars, transportVars,
         peerVars
<1>16. CASE Run
  BY <1>16 DEF Run, Loop, stackVars, transportVars, peerVars
<1>17. CASE Disconnect
  BY <1>17 DEF Disconnect, Hangup, Free, NoPeer, stackVars, transportVars, peerVars
<1>18. CASE PeerGoes
  BY <1>18 DEF PeerGoes, Fault, stackVars, transportVars, peerVars
<1>19. CASE BrokerMoves
  BY <1>19 DEF BrokerMoves, Fault, stackVars, transportVars, peerVars
<1>20. CASE Tick
  BY <1>20 DEF Tick, Later, AnswerDue, stackVars, transportVars, peerVars
<1>21. CASE UNCHANGED vars
  BY <1>21 DEF vars, stackVars, transportVars, peerVars
<1>22. CASE PayloadRead
  BY <1>22 DEF PayloadRead, Done, Action, stackVars, transportVars, peerVars
<1>23. CASE Written
  BY <1>23 DEF Written, Action, stackVars, transportVars, peerVars
<1> QED
  BY <1>1, <1>2, <1>3, <1>4, <1>5, <1>6, <1>7, <1>8, <1>9, <1>10, <1>11,
     <1>12, <1>13, <1>14, <1>15, <1>16, <1>17, <1>18, <1>19, <1>20, <1>21, <1>22, <1>23
     DEF Next, Connecting, Select

\* Every step keeps the attempts that count below the failures.
LEMMA AttemptsStep == TypeOK /\ SocketHeld /\ AttemptsFailed /\ [Next]_vars => AttemptsFailed'
<1> SUFFICES ASSUME TypeOK, SocketHeld, AttemptsFailed, [Next]_vars PROVE AttemptsFailed'
  OBVIOUS
<1> USE KeepAliveAssumption, ConnectTimeoutAssumption, BackoffLimitAssumption,
     AnswerWithinAssumption, AddressesAssumption, MaxFaultsAssumption, NoPingNotNat
    DEF TypeOK, SocketHeld, AttemptsFailed, StopsWhenExhausted, Untimed
<1>1. CASE Dial
  BY <1>1 DEF Dial, Resolved, stackVars, transportVars, peerVars
<1>2. CASE DialFails
  BY <1>2 DEF DialFails, Fails, Hangup, Free, NoPeer, Resolved, Later, Fault,
         stackVars, transportVars, peerVars
<1>3. CASE Open
  BY <1>3 DEF Open, stackVars, transportVars, peerVars
<1>4. CASE GreetFails
  BY <1>4 DEF GreetFails, Fails, Hangup, Free, NoPeer, Later, Fault, stackVars,
         transportVars, peerVars
<1>5. CASE Retry
  BY <1>5 DEF Retry, stackVars, transportVars, peerVars
<1>6. ASSUME NEW k \in ServerKeepAlives \cup {KEEPALIVE}, Refused(k)
     PROVE  AttemptsFailed'
  BY <1>6, ServerKeepAlivesAssumption
     DEF Refused, Fails, Hangup, Free, NoPeer, Later, Fault, Shorter,
         stackVars, transportVars, peerVars
<1>7. ASSUME NEW k \in ServerKeepAlives \cup {KEEPALIVE}, Greet(k)
     PROVE  AttemptsFailed'
  BY <1>7, ServerKeepAlivesAssumption
     DEF Greet, AttemptsOver, Shorter, stackVars, transportVars, peerVars
<1>8. CASE Receive
  BY <1>8 DEF Receive, Done, Action, stackVars, transportVars, peerVars
<1>9. CASE ReceiveConnAck
  BY <1>9 DEF ReceiveConnAck, Action, stackVars, transportVars, peerVars
<1>10. CASE ReceivePingResp
  BY <1>10 DEF ReceivePingResp, ResetPing, Action, stackVars, transportVars,
         peerVars
<1>11. CASE KeepAlive
  BY <1>11 DEF KeepAlive, TimerFires, AnswerDue, Await, Done, Action, stackVars,
         transportVars, peerVars
<1>12. CASE PingOverdue
  BY <1>12 DEF PingOverdue, TimerFires, AnswerDue, GiveUp, Hangup, Free, NoPeer,
         ResetPing, Loop, stackVars, transportVars, peerVars
<1>13. CASE SocketFails
  BY <1>13 DEF SocketFails, GiveUp, Hangup, Free, NoPeer, ResetPing, Loop,
         stackVars, transportVars, peerVars
<1>14. CASE Transmit
  BY <1>14 DEF Transmit, Done, Action, stackVars, transportVars, peerVars
<1>15. CASE DropRun
  BY <1>15 DEF DropRun, Fault, Hangup, Free, NoPeer, stackVars, transportVars,
         peerVars
<1>16. CASE Run
  BY <1>16 DEF Run, Loop, stackVars, transportVars, peerVars
<1>17. CASE Disconnect
  BY <1>17 DEF Disconnect, Hangup, Free, NoPeer, stackVars, transportVars, peerVars
<1>18. CASE PeerGoes
  BY <1>18 DEF PeerGoes, Fault, stackVars, transportVars, peerVars
<1>19. CASE BrokerMoves
  BY <1>19 DEF BrokerMoves, Fault, stackVars, transportVars, peerVars
<1>20. CASE Tick
  BY <1>20 DEF Tick, Later, AnswerDue, stackVars, transportVars, peerVars
<1>21. CASE UNCHANGED vars
  BY <1>21 DEF vars, stackVars, transportVars, peerVars
<1>22. CASE PayloadRead
  BY <1>22 DEF PayloadRead, Done, Action, stackVars, transportVars, peerVars
<1>23. CASE Written
  BY <1>23 DEF Written, Action, stackVars, transportVars, peerVars
<1> QED
  BY <1>1, <1>2, <1>3, <1>4, <1>5, <1>6, <1>7, <1>8, <1>9, <1>10, <1>11,
     <1>12, <1>13, <1>14, <1>15, <1>16, <1>17, <1>18, <1>19, <1>20, <1>21, <1>22, <1>23
     DEF Next, Connecting, Select

\* Every step keeps a silence within the clocks: a tick of select() counts
\* for both, the PINGREQ starts the second interval.
LEMMA SilenceStep == TypeOK /\ PeerFresh /\ SilenceClocked /\ [Next]_vars => SilenceClocked'
<1> SUFFICES ASSUME TypeOK, PeerFresh, SilenceClocked, [Next]_vars PROVE SilenceClocked'
  OBVIOUS
<1> USE KeepAliveAssumption, ConnectTimeoutAssumption, BackoffLimitAssumption,
     AnswerWithinAssumption, AddressesAssumption, MaxFaultsAssumption, NoPingNotNat
    DEF TypeOK, PeerFresh, SilenceClocked, MaxIdle, MaxSilence, Untimed
<1>1. CASE Dial
  BY <1>1 DEF Dial, Resolved, stackVars, transportVars, peerVars
<1>2. CASE DialFails
  BY <1>2 DEF DialFails, Fails, Hangup, Free, NoPeer, Resolved, Later, Fault,
         stackVars, transportVars, peerVars
<1>3. CASE Open
  BY <1>3 DEF Open, stackVars, transportVars, peerVars
<1>4. CASE GreetFails
  BY <1>4 DEF GreetFails, Fails, Hangup, Free, NoPeer, Later, Fault, stackVars,
         transportVars, peerVars
<1>5. CASE Retry
  BY <1>5 DEF Retry, stackVars, transportVars, peerVars
<1>6. ASSUME NEW k \in ServerKeepAlives \cup {KEEPALIVE}, Refused(k)
     PROVE  SilenceClocked'
  BY <1>6, ServerKeepAlivesAssumption
     DEF Refused, Fails, Hangup, Free, NoPeer, Later, Fault, Shorter,
         stackVars, transportVars, peerVars
<1>7. ASSUME NEW k \in ServerKeepAlives \cup {KEEPALIVE}, Greet(k)
     PROVE  SilenceClocked'
  BY <1>7, ServerKeepAlivesAssumption
     DEF Greet, AttemptsOver, Shorter, stackVars, transportVars, peerVars
<1>8. CASE Receive
  BY <1>8 DEF Receive, Done, Action, stackVars, transportVars, peerVars
<1>9. CASE ReceiveConnAck
  BY <1>9 DEF ReceiveConnAck, Action, stackVars, transportVars, peerVars
<1>10. CASE ReceivePingResp
  BY <1>10 DEF ReceivePingResp, ResetPing, Action, stackVars, transportVars,
         peerVars
<1>11. CASE KeepAlive
  BY <1>11 DEF KeepAlive, TimerFires, AnswerDue, Await, Done, Action, stackVars,
         transportVars, peerVars
<1>12. CASE PingOverdue
  BY <1>12 DEF PingOverdue, TimerFires, AnswerDue, GiveUp, Hangup, Free, NoPeer,
         ResetPing, Loop, stackVars, transportVars, peerVars
<1>13. CASE SocketFails
  BY <1>13 DEF SocketFails, GiveUp, Hangup, Free, NoPeer, ResetPing, Loop,
         stackVars, transportVars, peerVars
<1>14. CASE Transmit
  BY <1>14 DEF Transmit, Done, Action, stackVars, transportVars, peerVars
<1>15. CASE DropRun
  BY <1>15 DEF DropRun, Fault, Hangup, Free, NoPeer, stackVars, transportVars,
         peerVars
<1>16. CASE Run
  BY <1>16 DEF Run, Loop, stackVars, transportVars, peerVars
<1>17. CASE Disconnect
  BY <1>17 DEF Disconnect, Hangup, Free, NoPeer, stackVars, transportVars, peerVars
<1>18. CASE PeerGoes
  BY <1>18 DEF PeerGoes, Fault, stackVars, transportVars, peerVars
<1>19. CASE BrokerMoves
  BY <1>19 DEF BrokerMoves, Fault, stackVars, transportVars, peerVars
<1>20. CASE Tick
  BY <1>20 DEF Tick, Later, AnswerDue, stackVars, transportVars, peerVars
<1>21. CASE UNCHANGED vars
  BY <1>21 DEF vars, stackVars, transportVars, peerVars
<1>22. CASE PayloadRead
  BY <1>22 DEF PayloadRead, Done, Action, stackVars, transportVars, peerVars
<1>23. CASE Written
  BY <1>23 DEF Written, Action, stackVars, transportVars, peerVars
<1> QED
  BY <1>1, <1>2, <1>3, <1>4, <1>5, <1>6, <1>7, <1>8, <1>9, <1>10, <1>11,
     <1>12, <1>13, <1>14, <1>15, <1>16, <1>17, <1>18, <1>19, <1>20, <1>21, <1>22, <1>23
     DEF Next, Connecting, Select

\* Every step keeps awaiting_pingresp about this socket: what hangs up in
\* select() resets it, what hangs up elsewhere finds it unset or stale.
LEMMA PingStep == TypeOK /\ SocketHeld /\ PingAwaited /\ [Next]_vars => PingAwaited'
<1> SUFFICES ASSUME TypeOK, SocketHeld, PingAwaited, [Next]_vars PROVE PingAwaited'
  OBVIOUS
<1> USE KeepAliveAssumption, ConnectTimeoutAssumption, BackoffLimitAssumption,
     AnswerWithinAssumption, AddressesAssumption, MaxFaultsAssumption, NoPingNotNat
    DEF TypeOK, SocketHeld, PingAwaited, MaxIdle, Untimed
<1>1. CASE Dial
  BY <1>1 DEF Dial, Resolved, stackVars, transportVars, peerVars
<1>2. CASE DialFails
  BY <1>2 DEF DialFails, Fails, Hangup, Free, NoPeer, Resolved, Later, Fault,
         stackVars, transportVars, peerVars
<1>3. CASE Open
  BY <1>3 DEF Open, stackVars, transportVars, peerVars
<1>4. CASE GreetFails
  BY <1>4 DEF GreetFails, Fails, Hangup, Free, NoPeer, Later, Fault, stackVars,
         transportVars, peerVars
<1>5. CASE Retry
  BY <1>5 DEF Retry, stackVars, transportVars, peerVars
<1>6. ASSUME NEW k \in ServerKeepAlives \cup {KEEPALIVE}, Refused(k)
     PROVE  PingAwaited'
  BY <1>6, ServerKeepAlivesAssumption
     DEF Refused, Fails, Hangup, Free, NoPeer, Later, Fault, Shorter,
         stackVars, transportVars, peerVars
<1>7. ASSUME NEW k \in ServerKeepAlives \cup {KEEPALIVE}, Greet(k)
     PROVE  PingAwaited'
  BY <1>7, ServerKeepAlivesAssumption
     DEF Greet, AttemptsOver, Shorter, stackVars, transportVars, peerVars
<1>8. CASE Receive
  BY <1>8 DEF Receive, Done, Action, stackVars, transportVars, peerVars
<1>9. CASE ReceiveConnAck
  BY <1>9 DEF ReceiveConnAck, Action, stackVars, transportVars, peerVars
<1>10. CASE ReceivePingResp
  BY <1>10 DEF ReceivePingResp, ResetPing, Action, stackVars, transportVars,
         peerVars
<1>11. CASE KeepAlive
  BY <1>11 DEF KeepAlive, TimerFires, AnswerDue, Await, Done, Action, stackVars,
         transportVars, peerVars
<1>12. CASE PingOverdue
  BY <1>12 DEF PingOverdue, TimerFires, AnswerDue, GiveUp, Hangup, Free, NoPeer,
         ResetPing, Loop, stackVars, transportVars, peerVars
<1>13. CASE SocketFails
  BY <1>13 DEF SocketFails, GiveUp, Hangup, Free, NoPeer, ResetPing, Loop,
         stackVars, transportVars, peerVars
<1>14. CASE Transmit
  BY <1>14 DEF Transmit, Done, Action, stackVars, transportVars, peerVars
<1>15. CASE DropRun
  BY <1>15 DEF DropRun, Fault, Hangup, Free, NoPeer, stackVars, transportVars,
         peerVars
<1>16. CASE Run
  BY <1>16 DEF Run, Loop, stackVars, transportVars, peerVars
<1>17. CASE Disconnect
  BY <1>17 DEF Disconnect, Hangup, Free, NoPeer, stackVars, transportVars, peerVars
<1>18. CASE PeerGoes
  BY <1>18 DEF PeerGoes, Fault, stackVars, transportVars, peerVars
<1>19. CASE BrokerMoves
  BY <1>19 DEF BrokerMoves, Fault, stackVars, transportVars, peerVars
<1>20. CASE Tick
  BY <1>20 DEF Tick, Later, AnswerDue, stackVars, transportVars, peerVars
<1>21. CASE UNCHANGED vars
  BY <1>21 DEF vars, stackVars, transportVars, peerVars
<1>22. CASE PayloadRead
  BY <1>22 DEF PayloadRead, Done, Action, stackVars, transportVars, peerVars
<1>23. CASE Written
  BY <1>23 DEF Written, Action, stackVars, transportVars, peerVars
<1> QED
  BY <1>1, <1>2, <1>3, <1>4, <1>5, <1>6, <1>7, <1>8, <1>9, <1>10, <1>11,
     <1>12, <1>13, <1>14, <1>15, <1>16, <1>17, <1>18, <1>19, <1>20, <1>21, <1>22, <1>23
     DEF Next, Connecting, Select

\* The invariant is inductive.
LEMMA StepIInv == IInv /\ [Next]_vars => IInv'
<1> SUFFICES ASSUME IInv, [Next]_vars PROVE IInv'
  OBVIOUS
<1>1. Booleans' /\ Ranges' /\ RetryBelow'
  BY TypeParts, BooleanStep, RangeStep DEF IInv
<1>2. TypeOK'
  BY <1>1 DEF TypeOK, Booleans, Ranges
<1>3. SocketHeld' /\ PoolExact' /\ PeerFresh' /\ ConnectingUnseen'
  BY SocketStep, PeerStep, SeenStep DEF IInv
<1>4. AttemptsFailed' /\ SilenceClocked' /\ PingAwaited'
  BY AttemptsStep, SilenceStep, PingStep DEF IInv
<1> QED
  BY <1>1, <1>2, <1>3, <1>4 DEF IInv

\* Every reachable state has the invariant.
LEMMA SpecIInv == Spec => []IInv
BY InitIInv, StepIInv, PTL DEF Spec

-----------------------------------------------------------------------------
\* run() never retries past the attempt at which backoff_algo ends it, and the
\* other variables of the stack keep their ranges.
THEOREM TypeCorrect == Spec => []TypeOK
<1>1. IInv => TypeOK
  BY DEF IInv
<1> QED
  BY <1>1, SpecIInv, PTL

\* No failure of connect(), no time-out and no dropped future loses the TLS
\* buffers or frees them under a connection.
THEOREM PoolIsExact == Spec => []PoolExact
<1>1. IInv => PoolExact
  BY DEF IInv
<1> QED
  BY <1>1, SpecIInv, PTL

\* What set_connected() tells the clients is a connection with its CONNACK.
THEOREM SeenIsGreeted == Spec => []ConnectedIsGreeted
<1>1. IInv => ConnectedIsGreeted
  BY DEF IInv, ConnectingUnseen, ConnectedIsGreeted
<1> QED
  BY <1>1, SpecIInv, PTL

\* run() returns only when all the attempts in a row have failed.
THEOREM StopIsExhaustion == Spec => []StopsWhenExhausted
<1>1. IInv => StopsWhenExhausted
  BY DEF IInv, AttemptsFailed
<1> QED
  BY <1>1, SpecIInv, PTL

\* Two keep-alive intervals bound how long run() stays with a silent peer where
\* its timer is armed.  Behind select3() there is none.
THEOREM SilenceIsNoticed == Spec => []SilenceNoticed
<1>1. IInv => SilenceNoticed
  BY KeepAliveAssumption DEF IInv, TypeOK, SilenceClocked, SilenceNoticed, Untimed
<1> QED
  BY <1>1, SpecIInv, PTL

\* The keep-alive never gives up a broker that answers in time.
THEOREM AnsweringPeerKept == Spec => PeerKept
<1> DEFINE Kept == run = "select" /\ peer = "alive" /\ greeted
                   /\ keepalive_interval > AnswerWithin /\ ~stale => run' # "dialling"
<1>1. IInv /\ [Next]_vars => [Kept]_vars
  <2> SUFFICES ASSUME IInv, Next, run = "select", peer = "alive", greeted,
                      keepalive_interval > AnswerWithin, ~stale,
                      run' = "dialling"
               PROVE  FALSE
    OBVIOUS
  <2>1. PingOverdue
    BY DEF Next, Connecting, Select, Dial, DialFails, Open, GreetFails, Retry,
       Refused, Greet, Receive, PayloadRead, Written, Done, Untimed,
       ReceiveConnAck, ReceivePingResp, KeepAlive,
       SocketFails, Transmit, DropRun, Run, Disconnect, PeerGoes, BrokerMoves,
       Tick, stackVars
  <2>2. awaiting_pingresp /\ idle >= keepalive_interval /\ ping # AnswerWithin
    BY <2>1 DEF PingOverdue, TimerFires, AnswerDue
  <2>3. ping \in 0..AnswerWithin /\ idle <= ping
    BY <2>2 DEF IInv, TypeOK, PingAwaited
  <2> QED
    BY <2>2, <2>3, AnswerWithinAssumption, KeepAliveAssumption DEF IInv, TypeOK
<1> QED
  BY <1>1, SpecIInv, PTL DEF Spec, PeerKept

=============================================================================
