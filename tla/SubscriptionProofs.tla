------------------------- MODULE SubscriptionProofs -------------------------
(***************************************************************************)
(* What Subscriptions promises, for any number of handles, filters, packet *)
(* ids, attempts, messages and faults.                                     *)
(***************************************************************************)
EXTENDS Subscriptions, SequenceFacts

-----------------------------------------------------------------------------
(* TopicFilter::is_match() against the definition in its doc *)

\* The fields of topics and filters.
Topic  == {t \in Seq(STRING) : Len(t) > 0 /\ \A i \in 1..Len(t) : t[i] \notin Hashed \cup Plussed}
Filter == {f \in Seq(STRING) : Len(f) > 0 /\ new(f) = "ok"}

\* Two sequences with the same fields are the same: what `==` on two strings
\* says of their fields.
LEMMA SameFields ==
  ASSUME NEW S, NEW s \in Seq(S), NEW t \in Seq(S),
         Len(s) = Len(t), \A i \in 1..Len(s) : s[i] = t[i]
  PROVE  s = t
<1>1. /\ s \in [1..Len(s) -> S] /\ t \in [1..Len(t) -> S]
      /\ DOMAIN s = 1..Len(s) /\ DOMAIN t = 1..Len(s)
  OBVIOUS
<1>2. s = [i \in 1..Len(s) |-> s[i]] /\ t = [i \in 1..Len(s) |-> t[i]]
  BY <1>1
<1> QED BY <1>2

\* For every filter that new() accepts and every topic, the loop of is_match()
\* computes what the doc of TopicFilter says.
THEOREM MatchIsReference ==
  ASSUME NEW f \in Filter, NEW t \in Topic
  PROVE  is_match(f, t) <=> Matches(f, t)
<1> DEFINE n == Len(f)
<1> DEFINE m == Len(t)
<1>1. /\ n \in Nat \ {0} /\ DOMAIN f = 1..n
      /\ m \in Nat \ {0} /\ DOMAIN t = 1..m
  BY DEF Filter, Topic
<1>2. /\ \A i \in 1..(n-1) : f[i] \notin Hashed
      /\ f[n] \in Hashed => f[n] \in HashedLast
  BY <1>1 DEF Filter, new
<1>3. \A i \in 1..m : t[i] \notin Hashed \cup Plussed
  BY DEF Topic
<1> HIDE DEF n, m
<1>4. CASE ~has_wildcards(f)
  <2>1. is_match(f, t) <=> f = t
    BY <1>4 DEF is_match
  <2>2. \A i \in 1..n : f[i] # "+" /\ f[i] # "#"
    BY <1>1, <1>2, <1>4 DEF n, has_wildcards, Plussed, Hashed
  <2>3. Matches(f, t) <=> m = n /\ \A i \in 1..n : f[i] = t[i]
    <3>1. n \in 1..n /\ f[n] # "#"
      BY <1>1, <2>2
    <3>2. Matches(f, t) <=> m = n /\ \A i \in 1..n : f[i] \in {"+", t[i]}
      BY <3>1 DEF Matches, n, m
    <3> QED BY <2>2, <3>2
  <2>4. f = t <=> m = n /\ \A i \in 1..n : f[i] = t[i]
    <3>1. f \in Seq(STRING) /\ t \in Seq(STRING)
      BY DEF Filter, Topic
    <3>2. (Len(f) = Len(t) /\ \A i \in 1..Len(f) : f[i] = t[i]) => f = t
      BY <3>1, SameFields
    <3> QED BY <3>2 DEF n, m
  <2> QED BY <2>1, <2>3, <2>4
<1>5. CASE has_wildcards(f)
  <2>1. is_match(f, t) <=>
          \A i \in 1..n \cup 1..m :
            (\/ i \notin 1..n \cap 1..m
             \/ f[i] # "#" /\ f[i] \notin {"+", t[i]})
            => \E j \in 1..n \cap 1..m : f[j] = "#" /\ j < i
    BY <1>1, <1>5 DEF is_match
  <2>2. \A j \in 1..n : f[j] = "#" => j = n
    BY <1>1, <1>2 DEF Hashed
  <2>3. CASE f[n] = "#"
    <3>1. Matches(f, t) <=> m >= n /\ \A i \in 1..(n-1) : f[i] \in {"+", t[i]}
      BY <2>3 DEF Matches, n, m
    <3>2. ASSUME is_match(f, t)
          PROVE  m >= n /\ \A i \in 1..(n-1) : f[i] \in {"+", t[i]}
      <4>1. m >= n
        <5>1. SUFFICES ASSUME m < n PROVE FALSE
          BY <1>1
        <5>2. \E j \in 1..n \cap 1..m : f[j] = "#" /\ j < n
          BY <1>1, <2>1, <3>2, <5>1
        <5> QED BY <1>1, <2>2, <5>2
      <4>2. ASSUME NEW i \in 1..(n-1) PROVE f[i] \in {"+", t[i]}
        <5>1. i \in 1..n \cap 1..m /\ f[i] # "#"
          BY <1>1, <2>2, <4>1
        <5>2. ~ \E j \in 1..n \cap 1..m : f[j] = "#" /\ j < i
          BY <1>1, <2>2
        <5> QED BY <2>1, <3>2, <5>1, <5>2
      <4> QED BY <4>1, <4>2
    <3>3. ASSUME m >= n, \A i \in 1..(n-1) : f[i] \in {"+", t[i]}
          PROVE  is_match(f, t)
      <4>1. ASSUME NEW i \in 1..n \cup 1..m,
                   \/ i \notin 1..n \cap 1..m
                   \/ f[i] # "#" /\ f[i] \notin {"+", t[i]}
            PROVE  n \in 1..n \cap 1..m /\ n < i
        BY <1>1, <2>3, <3>3, <4>1
      <4> QED BY <2>1, <2>3, <4>1
    <3> QED BY <3>1, <3>2, <3>3
  <2>4. CASE f[n] # "#"
    <3>1. Matches(f, t) <=> m = n /\ \A i \in 1..n : f[i] \in {"+", t[i]}
      BY <2>4 DEF Matches, n, m
    <3>2. \A j \in 1..n : f[j] # "#"
      BY <2>2, <2>4
    <3>3. is_match(f, t) <=>
            \A i \in 1..n \cup 1..m :
              i \in 1..n \cap 1..m /\ f[i] \in {"+", t[i]}
      BY <2>1, <3>2
    <3>4. (\A i \in 1..n \cup 1..m : i \in 1..n \cap 1..m /\ f[i] \in {"+", t[i]})
          => m = n /\ \A i \in 1..n : f[i] \in {"+", t[i]}
      BY <1>1
    <3>5. (m = n /\ \A i \in 1..n : f[i] \in {"+", t[i]})
          => \A i \in 1..n \cup 1..m : i \in 1..n \cap 1..m /\ f[i] \in {"+", t[i]}
      BY <1>1
    <3> QED BY <3>1, <3>3, <3>4, <3>5
  <2> QED BY <2>3, <2>4
<1> QED BY <1>4, <1>5

-----------------------------------------------------------------------------
(* Who changes what *)

\* A step of some subscribe(), unsubscribe() or Subscription.
CallStep == \E h \in Handles : Proceed(h) \/ Choose(h)

\* A step of the stack, the broker or the connection.
PeerStep ==
  \/ Connect \/ ConnackLost \/ Select
  \/ LinkLost \/ BrokerForgets \/ BrokerReceive
  \/ \E t \in Topics : BrokerPublish(t)

\* Every step belongs to one or the other.
LEMMA Steps == [Next]_vars => CallStep \/ PeerStep \/ UNCHANGED vars
BY DEF Next, CallStep, PeerStep

\* The clients reach the stack through tx and the sets of ids only.
LEMMA CallFootprint ==
  ASSUME CallStep
  PROVE  UNCHANGED <<connected, clean_session_count, clean_start, netVars,
                     brokerVars, rx, floor, losses>>
<1>1. PICK h \in Handles : Proceed(h) \/ Choose(h)
  BY DEF CallStep
<1> USE DEF sharedVars
<1>2. CASE Proceed(h)
  BY <1>2 DEF Proceed, TakePid, LockPublisher, Enqueue, EnqueueFails, Drop,
              SubscribeAcked, UnsubscribeAcked, Timeout, PollNext
<1>3. CASE Choose(h)
  BY <1>3 DEF Choose, Start, StartUnsubscribe, CancelSubscribe, DropSubscription, Drop
<1> QED
  BY <1>1, <1>2, <1>3

\* Nobody else touches the state of a handle, nor takes a packet id.
LEMMA PeerFootprint ==
  ASSUME PeerStep
  PROVE  UNCHANGED <<last_pid, callVars, streamVars>>
<1> USE DEF sharedVars
<1>1. CASE Connect \/ ConnackLost \/ LinkLost \/ BrokerForgets \/ BrokerReceive
  BY <1>1 DEF Connect, ConnackLost, LinkLost, BrokerForgets, BrokerReceive
<1>2. CASE \E t \in Topics : BrokerPublish(t)
  BY <1>2 DEF BrokerPublish
<1>3. CASE Select
  BY <1>3 DEF Select, Transmit, StackNotices, Reset, HandleSubAck, HandleUnsubAck,
              HandlePublish
<1> QED
  BY <1>1, <1>2, <1>3 DEF PeerStep

-----------------------------------------------------------------------------
(* Types *)

\* The filters of all handles.
AllFilters == UNION UNION {FilterSets[h] : h \in Handles}

\* What the client sends, and how it is queued.
Requests == [type : {"Subscribe", "Unsubscribe"}, id : Pids, filters : SUBSET AllFilters]
Frames   == [pid : {0} \cup Pids, packet : Requests]

\* What the broker sends.
Answers  == [type : {"SubAck", "UnsubAck"}, id : Pids, ok : BOOLEAN]
Messages == [type : {"Publish"}, topic : Topics]

\* Boolean state, which no solver below mixes with arithmetic.
Flags ==
  /\ clean_start \in BOOLEAN /\ link \in BOOLEAN
  /\ persists \in BOOLEAN /\ missed \in BOOLEAN

\* Shared, with the ids nobody will take out of it.
SharedTypes ==
  /\ last_pid \in Pids
  /\ connected \in {"no", "clean", "resumed"}
  /\ clean_session_count \in 0..255
  /\ ack_status \in [Pids -> AckStatus]
  /\ outgoing_pid \subseteq Pids /\ Cardinality(outgoing_pid) <= MAX_INFLIGHT
  /\ leaked \subseteq Pids

\* Where a handle may be.
Places == {"new"} \cup Sending \cup Alive \cup Finished

\* A call has a packet id from TakePid on.
CallTypes ==
  /\ pc \in [Handles -> Places]
  /\ op \in [Handles -> {"Subscribe", "Unsubscribe"}]
  /\ filters \in [Handles -> SUBSET AllFilters]
  /\ \A h \in Handles : filters[h] \in {{}} \cup FilterSets[h]
  /\ pid \in [Handles -> {0} \cup Pids]
  /\ attempt \in [Handles -> 0..MAX_ATTEMPTS]
  /\ tx_publisher \in Handles \cup {NoHandle}
  /\ \A h \in Handles : pc[h] \in {"locking", "granting", "waiting"} => pid[h] \in Pids

\* The streams, with the receive channel they read.
StreamTypes ==
  /\ rx \in Seq([topic : Topics, due : SUBSET Handles])
  /\ cursor \in [Handles -> Nat]
  /\ \A h \in Handles : cursor[h] <= Len(rx) + 1
  /\ floor \in Nat /\ 1 <= floor /\ floor <= Len(rx) + 1
  /\ yielded \in [Handles -> Seq(Nat)]
  /\ \A h \in Handles : \A i \in 1..Len(yielded[h]) : yielded[h][i] < cursor[h]

\* The sessions they belong to.
BirthTypes ==
  /\ created \in [Handles -> 0..255]
  /\ born \in [Handles -> Nat]
  /\ sessions \in Nat
  /\ \A h \in Handles : born[h] <= sessions

\* The transmit channel, the connection and the broker.
NetTypes ==
  /\ tx \in Seq(Frames \cup {EmptyFrame}) /\ Len(tx) <= TxFrames
  /\ uplink \in Seq(Requests)
  /\ downlink \in Seq(Answers \cup Messages)
  /\ subscribed \subseteq AllFilters
  /\ published \in 0..MaxMessages

\* A lost connection is a fault.
BudgetTypes ==
  losses \in Nat /\ faults \in Nat /\ losses <= faults /\ faults <= MaxFaults

\* The type invariant the proofs use.
Types ==
  /\ Flags /\ SharedTypes /\ CallTypes /\ StreamTypes /\ BirthTypes
  /\ NetTypes /\ BudgetTypes

\* The client starts well typed.
LEMMA TypesInit == Init => Types
<1> SUFFICES ASSUME Init PROVE Types
  OBVIOUS
<1> USE DEF Init
<1>1. Flags
  BY Zenon DEF Flags
<1>2. SharedTypes
  BY PidMaxAssumption, MaxInflightAssumption, FS_EmptySet DEF SharedTypes, Pids, AckStatus
<1>3. CallTypes
  BY MaxAttemptsAssumption DEF CallTypes, Places
<1>4. StreamTypes
  <2>1. /\ rx \in Seq([topic : Topics, due : SUBSET Handles]) /\ Len(rx) = 0
        /\ <<>> \in Seq(Nat) /\ Len(<<>>) = 0
    BY EmptySeq
  <2>2. yielded \in [Handles -> Seq(Nat)] /\ \A h \in Handles : Len(yielded[h]) = 0
    BY <2>1
  <2> QED
    BY <2>1, <2>2 DEF StreamTypes
<1>5. BirthTypes
  BY DEF BirthTypes
<1>6. NetTypes
  BY EmptySeq, TxFramesAssumption, BoundsAssumption DEF NetTypes
<1>7. BudgetTypes
  BY BoundsAssumption DEF BudgetTypes
<1> QED
  BY <1>1, <1>2, <1>3, <1>4, <1>5, <1>6, <1>7 DEF Types

\* Types is what Subscriptions calls TypeOK.
LEMMA TypesImplyTypeOK == Types => TypeOK
<1> SUFFICES ASSUME Types PROVE TypeOK
  OBVIOUS
<1> USE DEF Types
<1>1. /\ Len(rx) \in Nat /\ DOMAIN rx = 1..Len(rx)
      /\ \A i \in 1..Len(rx) : rx[i] \in [topic : Topics, due : SUBSET Handles]
  BY LenProperties, ElementOfSeq DEF StreamTypes
<1>2. \A i \in DOMAIN rx : rx[i].topic \in Topics
  BY <1>1
<1>3. cursor \in [Handles -> 0..(Len(rx) + 1)] /\ floor \in 1..(Len(rx) + 1)
  BY <1>1 DEF StreamTypes
<1>4. \A h \in Handles : DOMAIN yielded[h] = 1..Len(yielded[h])
  BY LenProperties DEF StreamTypes
<1>5. \A h \in Handles : \A i \in DOMAIN yielded[h] : yielded[h][i] < cursor[h]
  BY <1>4 DEF StreamTypes
<1>6. /\ clean_start \in BOOLEAN /\ link \in BOOLEAN /\ persists \in BOOLEAN
      /\ missed \in BOOLEAN
  BY Zenon DEF Flags
<1>7. subscribed \subseteq UNION UNION {FilterSets[h] : h \in Handles} /\ Len(tx) <= TxFrames
  BY DEF NetTypes, AllFilters
<1>8. published <= MaxMessages
  BY BoundsAssumption DEF NetTypes
<1> QED
  BY <1>2, <1>3, <1>5, <1>6, <1>7, <1>8
     DEF TypeOK, SharedTypes, CallTypes, Places, BirthTypes, BudgetTypes

\* There are finitely many kinds of faults.
LEMMA FaultsFinite == IsFiniteSet(AllFaults)
<1>0. IsFiniteSet({"timeout"})
  BY FS_Singleton
<1>1. IsFiniteSet({"timeout"} \cup {"cancel"} \cup {"contention"} \cup {"refuse"})
  BY <1>0, FS_AddElement
<1>2. IsFiniteSet({"timeout"} \cup {"cancel"} \cup {"contention"} \cup {"refuse"}
                  \cup {"loss"} \cup {"connack"} \cup {"forget"})
  BY <1>1, FS_AddElement
<1>3. AllFaults = {"timeout"} \cup {"cancel"} \cup {"contention"} \cup {"refuse"}
                  \cup {"loss"} \cup {"connack"} \cup {"forget"}
  BY DEF AllFaults
<1> QED
  BY <1>2, <1>3

\* What goes wrong is counted, within the budget.
LEMMA SpendGrows ==
  ASSUME BudgetTypes, NEW kinds, Spend(kinds)
  PROVE  /\ faults' \in Nat /\ faults <= faults' /\ faults' <= MaxFaults
         /\ \A k : kinds = {k} => faults' = faults + 1
<1>1. kinds \in SUBSET AllFaults
  BY FaultsAssumption DEF Spend
<1>2. Cardinality(kinds) \in Nat
  BY <1>1, FaultsFinite, FS_Subset, FS_CardinalityType
<1>3. \A k : kinds = {k} => Cardinality(kinds) = 1
  BY FS_Singleton
<1>4. /\ faults' = faults + Cardinality(kinds) /\ faults' <= MaxFaults
      /\ faults \in Nat
  BY DEF Spend, BudgetTypes
<1>5. faults' \in Nat /\ faults <= faults' /\ faults' <= MaxFaults
  BY <1>2, <1>4
<1> QED
  BY <1>3, <1>4, <1>5

\* NextPid() yields a packet id.
LEMMA NextPidType == \A p \in Pids : NextPid(p) \in Pids
BY PidMaxAssumption DEF NextPid, Pids

\* Drop for Subscription: the receiver goes, and an UNSUBSCRIBE with a fresh id,
\* or the id 1, is queued if its frame can be had; ack_status may know of it.
LEMMA DropEffect ==
  ASSUME last_pid \in Pids, NEW h, NEW kinds, NEW lock, NEW frames, NEW status,
         Drop(h, kinds, lock, frames, status)
  PROVE  /\ last_pid' \in Pids
         /\ last_pid' \in {last_pid, NextPid(last_pid)}
         /\ \E k : Spend(k)
         /\ Leave(h, "dropped")
         /\ UNCHANGED <<op, filters, pid, attempt>>
         /\ \/ tx' = frames /\ ack_status' = status
            \/ \E id \in Pids :
                 /\ \/ id = NextPid(last_pid) /\ last_pid' = id
                    \/ id = 1 /\ last_pid' = last_pid
                 /\ Len(frames) < TxFrames
                 /\ tx' = Append(frames, Frame(0, Packet("Unsubscribe", id, filters[h])))
                 /\ ack_status' \in {status, [status EXCEPT ![id] = "AwaitingDropAck"]}
<1>1. PICK first, second, publisher \in BOOLEAN :
        LET id == IF first THEN NextPid(last_pid) ELSE 1
        IN  /\ Spend(kinds \cup TryLock(first /\ second /\ publisher))
            /\ last_pid' = IF first THEN id ELSE last_pid
            /\ IF publisher /\ lock = NoHandle /\ Len(frames) < TxFrames
               THEN /\ tx' = Append(frames, Frame(0, Packet("Unsubscribe", id, filters[h])))
                    /\ ack_status' = IF second /\ AckFits(status, id)
                                     THEN [status EXCEPT ![id] = "AwaitingDropAck"]
                                     ELSE status
               ELSE tx' = frames /\ ack_status' = status
            /\ Leave(h, "dropped")
            /\ UNCHANGED <<connected, clean_session_count, op, filters, pid, attempt>>
  BY DEF Drop
<1> DEFINE id == IF first THEN NextPid(last_pid) ELSE 1
<1>2. /\ id \in Pids
      /\ \/ id = NextPid(last_pid) /\ last_pid' = id
         \/ id = 1 /\ last_pid' = last_pid
  <2>1. 1 \in Pids /\ NextPid(last_pid) \in Pids
    BY NextPidType, PidMaxAssumption DEF Pids
  <2>2. CASE first
    BY <1>1, <2>1, <2>2, Zenon
  <2>3. CASE ~first
    BY <1>1, <2>1, <2>3, Zenon
  <2> QED
    BY <2>2, <2>3
<1>3. /\ Spend(kinds \cup TryLock(first /\ second /\ publisher))
      /\ Leave(h, "dropped") /\ UNCHANGED <<op, filters, pid, attempt>>
  BY <1>1
<1>4. CASE publisher /\ lock = NoHandle /\ Len(frames) < TxFrames
  <2>1. /\ tx' = Append(frames, Frame(0, Packet("Unsubscribe", id, filters[h])))
        /\ ack_status' \in {status, [status EXCEPT ![id] = "AwaitingDropAck"]}
    BY <1>1, <1>4
  <2> HIDE DEF id
  <2> QED
    BY <1>2, <1>3, <1>4, <2>1
<1>5. CASE ~(publisher /\ lock = NoHandle /\ Len(frames) < TxFrames)
  <2>1. tx' = frames /\ ack_status' = status
    BY <1>1, <1>5
  <2> HIDE DEF id
  <2> QED
    BY <1>2, <1>3, <2>1
<1> QED
  BY <1>4, <1>5

\* One lemma per part of Types: no step leaves it.
LEMMA FlagsStep ==
  ASSUME Flags, [Next]_vars
  PROVE  Flags'
<1> USE DEF Flags
<1>1. CASE CallStep
  BY <1>1, CallFootprint, Zenon DEF netVars, brokerVars
<1>2. CASE Connect
  <2>1. SessionPresent \in BOOLEAN
    BY Zenon DEF SessionPresent
  <2> QED
    BY <1>2, <2>1, Zenon DEF Connect, BrokerConnect
<1>3. CASE ConnackLost
  <2>1. SessionPresent \in BOOLEAN
    BY Zenon DEF SessionPresent
  <2> QED
    BY <1>3, <2>1, Zenon DEF ConnackLost, BrokerConnect, netVars
<1>4. CASE LinkLost \/ BrokerForgets \/ BrokerReceive \/ \E t \in Topics : BrokerPublish(t)
  BY <1>4, Zenon DEF LinkLost, BrokerForgets, BrokerReceive, BrokerPublish, CloseLink,
                     netVars, brokerVars
<1>5. CASE Select
  BY <1>5, Zenon DEF Select, Transmit, StackNotices, Reset, CloseLink, HandleSubAck,
                     HandleUnsubAck, HandlePublish, netVars, brokerVars
<1>6. CASE UNCHANGED vars
  BY <1>6, Zenon DEF vars, netVars, brokerVars
<1> QED
  BY <1>1, <1>2, <1>3, <1>4, <1>5, <1>6, Steps DEF PeerStep

\* outgoing_pid is finite, so that its places can be counted.
LEMMA OutgoingCounts ==
  ASSUME SharedTypes
  PROVE  /\ IsFiniteSet(outgoing_pid) /\ Cardinality(outgoing_pid) \in Nat
         /\ \A S \in SUBSET outgoing_pid : Cardinality(S) <= MAX_INFLIGHT
         /\ \A id \in Pids : OutgoingFits(id) =>
              Cardinality(outgoing_pid \cup {id}) <= MAX_INFLIGHT
<1>1. IsFiniteSet(Pids)
  BY FS_Interval, PidMaxAssumption DEF Pids
<1>2. IsFiniteSet(outgoing_pid)
  BY <1>1, FS_Subset DEF SharedTypes
<1>3. Cardinality(outgoing_pid) \in Nat /\ Cardinality(outgoing_pid) <= MAX_INFLIGHT
  BY <1>2, FS_CardinalityType DEF SharedTypes
<1>4. ASSUME NEW S \in SUBSET outgoing_pid PROVE Cardinality(S) <= MAX_INFLIGHT
  <2>1. IsFiniteSet(S) /\ Cardinality(S) <= Cardinality(outgoing_pid)
    BY <1>2, FS_Subset
  <2>2. Cardinality(S) \in Nat
    BY <2>1, FS_CardinalityType
  <2> QED
    BY <1>3, <2>1, <2>2, MaxInflightAssumption
<1>5. ASSUME NEW id \in Pids, OutgoingFits(id)
      PROVE  Cardinality(outgoing_pid \cup {id}) <= MAX_INFLIGHT
  <2>1. Cardinality(outgoing_pid \cup {id}) =
          IF id \in outgoing_pid THEN Cardinality(outgoing_pid) ELSE Cardinality(outgoing_pid) + 1
    BY <1>2, FS_AddElement
  <2> QED
    BY <1>3, <1>5, <2>1, MaxInflightAssumption DEF OutgoingFits
<1> QED
  BY <1>2, <1>3, <1>4, <1>5

\* The sets of Shared hold packet ids and stay within their capacity.
LEMMA SharedTypesStep ==
  ASSUME Types, [Next]_vars
  PROVE  SharedTypes'
<1>0. SharedTypes /\ CallTypes /\ NetTypes
  BY DEF Types
\* What ids are put into the sets, or taken out of them.
<1>1. ASSUME UNCHANGED <<connected, clean_session_count>>,
             last_pid' \in Pids,
             ack_status' \in [Pids -> AckStatus],
             \/ outgoing_pid' \subseteq outgoing_pid
             \/ \E id \in Pids : OutgoingFits(id) /\ outgoing_pid' = outgoing_pid \cup {id},
             leaked' \subseteq Pids
      PROVE  SharedTypes'
  <2>1. outgoing_pid' \subseteq Pids
    BY <1>0, <1>1 DEF SharedTypes
  <2>2. Cardinality(outgoing_pid') <= MAX_INFLIGHT
    BY <1>0, <1>1, OutgoingCounts
  <2> QED
    BY <1>0, <1>1, <2>1, <2>2 DEF SharedTypes
<1>2. ASSUME UNCHANGED <<last_pid, connected, clean_session_count, ack_status,
                         outgoing_pid, leaked>>
      PROVE  SharedTypes'
  BY <1>0, <1>2 DEF SharedTypes
<1>3. ASSUME NEW h \in Handles, NEW kinds, NEW lock, NEW frames, NEW status,
             Drop(h, kinds, lock, frames, status), status \in [Pids -> AckStatus]
      PROVE  last_pid' \in Pids /\ ack_status' \in [Pids -> AckStatus]
  <2>1. last_pid \in Pids
    BY <1>0 DEF SharedTypes
  <2>2. \A id \in Pids : [status EXCEPT ![id] = "AwaitingDropAck"] \in [Pids -> AckStatus]
    BY <1>3 DEF AckStatus
  <2>3. /\ last_pid' \in Pids
        /\ \/ ack_status' = status
           \/ \E id \in Pids : ack_status' \in {status, [status EXCEPT ![id] = "AwaitingDropAck"]}
    BY <1>3, <2>1, DropEffect
  <2> QED
    BY <1>3, <2>2, <2>3
<1>4. ASSUME NEW h \in Handles, TakePid(h) PROVE SharedTypes'
  BY <1>0, <1>1, <1>4, NextPidType DEF TakePid, SharedTypes
<1>5. ASSUME NEW h \in Handles, Granted(h) PROVE pid[h] \in Pids
  BY <1>0, <1>5 DEF Granted, At, CallTypes
<1>6. ASSUME NEW h \in Handles, Enqueue(h) PROVE SharedTypes'
  <2>1. pid[h] \in Pids
    BY <1>5, <1>6 DEF Enqueue
  <2> QED
    BY <1>0, <1>1, <1>6, <2>1 DEF Enqueue, SharedTypes, AckStatus
<1>7. ASSUME NEW h \in Handles, EnqueueFails(h) PROVE SharedTypes'
  <2>1. pid[h] \in Pids
    BY <1>5, <1>7 DEF EnqueueFails
  <2>2. last_pid' \in Pids /\ ack_status' \in [Pids -> AckStatus]
    BY <1>0, <1>3, <1>7 DEF EnqueueFails, SharedTypes
  <2>3. UNCHANGED <<connected, clean_session_count>>
    BY <1>7 DEF EnqueueFails, Drop
  <2>4. /\ leaked' \subseteq Pids
        /\ \/ outgoing_pid' \subseteq outgoing_pid
           \/ OutgoingFits(pid[h]) /\ outgoing_pid' = outgoing_pid \cup {pid[h]}
    BY <1>0, <1>7, <2>1 DEF EnqueueFails, SharedTypes
  <2> QED
    BY <1>1, <2>1, <2>2, <2>3, <2>4
<1>8. ASSUME NEW h \in Handles PROVE AnswerTaken(h) \in [Pids -> AckStatus]
  BY <1>0 DEF AnswerTaken, SharedTypes, AckStatus
<1>9. ASSUME NEW h \in Handles, SubscribeAcked(h) PROVE SharedTypes'
  BY <1>0, <1>1, <1>8, <1>9 DEF SubscribeAcked, SharedTypes
<1>10. ASSUME NEW h \in Handles, UnsubscribeAcked(h) PROVE SharedTypes'
  <2>1. last_pid' \in Pids /\ ack_status' \in [Pids -> AckStatus]
    BY <1>0, <1>3, <1>8, <1>10 DEF UnsubscribeAcked, SharedTypes
  <2> QED
    BY <1>0, <1>1, <1>10, <2>1 DEF UnsubscribeAcked, Drop, SharedTypes
<1>11. ASSUME NEW h \in Handles, NEW kinds, DropAttempt(h, kinds),
              UNCHANGED <<last_pid, connected, clean_session_count>>
       PROVE  SharedTypes'
  <2>1. At(h, "waiting") => pid[h] \in Pids
    BY <1>0 DEF At, CallTypes
  <2>2. /\ ack_status' \in [Pids -> AckStatus] /\ outgoing_pid' \subseteq outgoing_pid
        /\ leaked' \subseteq Pids
    BY <1>0, <1>11, <2>1 DEF DropAttempt, OnDrop, SharedTypes, AckStatus
  <2> QED
    BY <1>0, <1>1, <1>11, <2>2 DEF SharedTypes
<1>12. ASSUME NEW h \in Handles, Timeout(h) \/ CancelSubscribe(h) PROVE SharedTypes'
  BY <1>11, <1>12 DEF Timeout, CancelSubscribe
<1>13. ASSUME NEW h \in Handles, DropSubscription(h) PROVE SharedTypes'
  <2>1. last_pid' \in Pids /\ ack_status' \in [Pids -> AckStatus]
    BY <1>0, <1>3, <1>13 DEF DropSubscription, SharedTypes
  <2>2. At(h, "waiting") => pid[h] \in Pids
    BY <1>0 DEF At, CallTypes
  <2> QED
    BY <1>0, <1>1, <1>13, <2>1, <2>2 DEF DropSubscription, Drop, SharedTypes
<1>14. ASSUME NEW h \in Handles,
              \/ \E F \in FilterSets[h] : Start(h, F)
              \/ StartUnsubscribe(h) \/ LockPublisher(h) \/ PollNext(h)
       PROVE  SharedTypes'
  BY <1>2, <1>14 DEF Start, StartUnsubscribe, LockPublisher, PollNext, sharedVars
<1>15. CASE Connect
  <2>1. clean_session_count' \in 0..255
    BY <1>0, <1>15 DEF Connect, CountSessions, SharedTypes
  <2> QED
    BY <1>0, <1>15, <2>1 DEF Connect, SharedTypes
<1>16. CASE \/ ConnackLost \/ LinkLost \/ BrokerForgets \/ BrokerReceive \/ HandlePublish
            \/ \E t \in Topics : BrokerPublish(t)
  BY <1>2, <1>16 DEF ConnackLost, LinkLost, BrokerForgets, BrokerReceive, HandlePublish,
                     BrokerPublish, sharedVars
<1>17. CASE StackNotices
  BY <1>0, <1>17, FS_EmptySet, MaxInflightAssumption
     DEF StackNotices, Reset, SharedTypes, AckStatus
<1>18. CASE Transmit
  BY <1>0, <1>1, <1>18 DEF Transmit, SharedTypes
<1>19. CASE HandleSubAck \/ HandleUnsubAck
  <2>1. Result \in AckStatus /\ "none" \in AckStatus
    BY DEF Result, AckStatus
  <2>2. ack_status' \in [Pids -> AckStatus]
    <3>1. CASE HandleSubAck
      BY <1>0, <2>1, <3>1 DEF HandleSubAck, SharedTypes
    <3>2. CASE HandleUnsubAck
      <4>1. \/ ack_status' = [ack_status EXCEPT ![Id] = Result]
            \/ ack_status' = [ack_status EXCEPT ![Id] = "none"]
            \/ ack_status' = ack_status
        BY <3>2 DEF HandleUnsubAck, UnsubAck
      <4> QED
        BY <1>0, <2>1, <4>1 DEF SharedTypes
    <3> QED
      BY <1>19, <3>1, <3>2
  <2> QED
    BY <1>0, <1>1, <1>19, <2>2 DEF HandleSubAck, HandleUnsubAck, SharedTypes
<1>20. CASE UNCHANGED vars
  BY <1>2, <1>20 DEF vars, sharedVars
<1> QED
  BY <1>4, <1>6, <1>7, <1>9, <1>10, <1>12, <1>13, <1>14, <1>15, <1>16, <1>17, <1>18,
     <1>19, <1>20, Steps DEF CallStep, PeerStep, Proceed, Choose, Select

\* A handle moves between the positions of subscribe(), the Subscription and
\* unsubscribe().
LEMMA CallTypesStep ==
  ASSUME Types, [Next]_vars
  PROVE  CallTypes'
<1>0. SharedTypes /\ CallTypes
  BY DEF Types
<1> USE DEF Places, Sending, Alive, Finished
<1>1. ASSUME NEW h \in Handles, NEW F \in FilterSets[h], Start(h, F) PROVE CallTypes'
  <2>1. F \subseteq AllFilters
    BY DEF AllFilters
  <2>2. \/ pc' = [pc EXCEPT ![h] = "connecting"]
        \/ pc' = [pc EXCEPT ![h] = "failed"]
    BY <1>1 DEF Start, Goto
  <2>3. /\ filters' = [filters EXCEPT ![h] = F] /\ attempt' = [attempt EXCEPT ![h] = 1]
        /\ UNCHANGED <<op, pid, tx_publisher>>
    BY <1>1 DEF Start
  <2> QED
    BY <1>0, <2>1, <2>2, <2>3, MaxAttemptsAssumption DEF CallTypes
<1>2. ASSUME NEW h \in Handles, StartUnsubscribe(h) PROVE CallTypes'
  BY <1>0, <1>2 DEF StartUnsubscribe, Goto, CallTypes
<1>3. ASSUME NEW h \in Handles, TakePid(h) PROVE CallTypes'
  BY <1>0, <1>3, NextPidType DEF TakePid, Goto, CallTypes, SharedTypes
<1>4. ASSUME NEW h \in Handles, LockPublisher(h) PROVE CallTypes'
  BY <1>0, <1>4 DEF LockPublisher, Goto, At, CallTypes
<1>5. ASSUME NEW h \in Handles, Enqueue(h) PROVE CallTypes'
  BY <1>0, <1>5 DEF Enqueue, Granted, Goto, At, CallTypes
\* However an attempt ends, the next one starts over.
<1>6. ASSUME NEW h \in Handles, NEW place \in {"connecting", "active"} \cup Alive \cup Finished,
             Goto(h, place), UNCHANGED <<op, filters, pid>>,
             \/ UNCHANGED attempt
             \/ attempt[h] < MAX_ATTEMPTS /\ attempt' = [attempt EXCEPT ![h] = @ + 1],
             tx_publisher' \in {NoHandle, tx_publisher}
      PROVE  CallTypes'
  <2>1. attempt' \in [Handles -> 0..MAX_ATTEMPTS]
    BY <1>0, <1>6, MaxAttemptsAssumption DEF CallTypes
  <2> QED
    BY <1>0, <1>6, <2>1 DEF Goto, CallTypes
<1>7. ASSUME NEW h \in Handles, Retry(h), UNCHANGED <<op, filters, pid>>,
             tx_publisher' \in {NoHandle, tx_publisher}
      PROVE  CallTypes'
  BY <1>6, <1>7 DEF Retry, Leave
<1>8. ASSUME NEW h \in Handles, NEW kinds, NEW lock, NEW frames, NEW status,
             Drop(h, kinds, lock, frames, status), tx_publisher' \in {NoHandle, tx_publisher}
      PROVE  CallTypes'
  BY <1>6, <1>8 DEF Drop, Leave
<1>9. ASSUME NEW h \in Handles, NEW kinds, DropAttempt(h, kinds)
      PROVE  tx_publisher' \in {NoHandle, tx_publisher}
  BY <1>9 DEF DropAttempt
<1>10. ASSUME NEW h \in Handles, EnqueueFails(h) PROVE CallTypes'
  BY <1>7, <1>8, <1>10 DEF EnqueueFails
<1>11. ASSUME NEW h \in Handles, SubscribeAcked(h) PROVE CallTypes'
  BY <1>6, <1>7, <1>11 DEF SubscribeAcked, Leave
<1>12. ASSUME NEW h \in Handles, UnsubscribeAcked(h) PROVE CallTypes'
  BY <1>6, <1>8, <1>12 DEF UnsubscribeAcked, Leave
<1>13. ASSUME NEW h \in Handles, Timeout(h) PROVE CallTypes'
  BY <1>7, <1>9, <1>13 DEF Timeout
<1>14. ASSUME NEW h \in Handles, CancelSubscribe(h) PROVE CallTypes'
  BY <1>6, <1>9, <1>14 DEF CancelSubscribe, Leave
<1>15. ASSUME NEW h \in Handles, DropSubscription(h) PROVE CallTypes'
  BY <1>8, <1>15 DEF DropSubscription
<1>16. ASSUME NEW h \in Handles, PollNext(h) PROVE CallTypes'
  BY <1>0, <1>16 DEF PollNext, Goto, CallTypes
<1>17. CASE PeerStep \/ UNCHANGED vars
  BY <1>0, <1>17, PeerFootprint DEF CallTypes, callVars, vars
<1> QED
  BY <1>1, <1>2, <1>3, <1>4, <1>5, <1>10, <1>11, <1>12, <1>13, <1>14, <1>15, <1>16, <1>17,
     Steps DEF CallStep, Proceed, Choose

\* A stream goes on at its cursor, or at the oldest message if that is behind.
LEMMA NextReadIs ==
  ASSUME StreamTypes, NEW h \in Handles
  PROVE  /\ NextRead(h) \in Nat /\ NextRead(h) >= cursor[h] /\ NextRead(h) >= floor
         /\ NextRead(h) \in {cursor[h], floor}
BY DEF StreamTypes, NextRead

\* What a step of a call does to its stream: nothing, it starts at the end of
\* the log, it is dropped, or it takes the next message.
LEMMA StreamSteps ==
  ASSUME NEW h \in Handles, Proceed(h) \/ Choose(h)
  PROVE  \/ UNCHANGED <<cursor, yielded>>
         \/ cursor' = [cursor EXCEPT ![h] = Len(rx) + 1] /\ UNCHANGED yielded /\ At(h, "new")
         \/ /\ cursor' = [cursor EXCEPT ![h] = 0]
            /\ yielded' = [yielded EXCEPT ![h] = <<>>]
         \/ /\ At(h, "active") /\ NextRead(h) <= Len(rx)
            /\ cursor' = [cursor EXCEPT ![h] = NextRead(h) + 1]
            /\ yielded' \in {yielded, [yielded EXCEPT ![h] = Append(@, NextRead(h))]}
<1>1. CASE \/ StartUnsubscribe(h) \/ TakePid(h) \/ LockPublisher(h) \/ Enqueue(h)
  BY <1>1 DEF StartUnsubscribe, TakePid, LockPublisher, Enqueue, streamVars
<1>2. ASSUME NEW F \in FilterSets[h], Start(h, F)
      PROVE  \/ UNCHANGED <<cursor, yielded>>
             \/ cursor' = [cursor EXCEPT ![h] = Len(rx) + 1] /\ UNCHANGED yielded /\ At(h, "new")
  BY <1>2 DEF Start
<1>3. CASE EnqueueFails(h) \/ SubscribeAcked(h) \/ UnsubscribeAcked(h) \/ Timeout(h)
  BY <1>3 DEF EnqueueFails, SubscribeAcked, UnsubscribeAcked, Timeout, Retry, Drop, Leave
<1>4. CASE CancelSubscribe(h) \/ DropSubscription(h)
  BY <1>4 DEF CancelSubscribe, DropSubscription, Drop, Leave
<1>5. CASE PollNext(h)
  BY <1>5 DEF PollNext
<1> QED
  BY <1>1, <1>2, <1>3, <1>4, <1>5 DEF Proceed, Choose

\* A stream has yielded only what its receiver has passed.
LEMMA StreamTypesStep ==
  ASSUME Types, [Next]_vars
  PROVE  StreamTypes'
<1>0. StreamTypes /\ NetTypes
  BY DEF Types
<1>1. Len(rx) \in Nat /\ \A h \in Handles : cursor[h] \in Nat /\ yielded[h] \in Seq(Nat)
  BY <1>0, LenProperties DEF StreamTypes
<1>2. ASSUME NEW h \in Handles, Proceed(h) \/ Choose(h) PROVE StreamTypes'
  <2>0. UNCHANGED <<rx, floor>>
    BY <1>2, CallFootprint DEF CallStep
  <2>1. CASE UNCHANGED <<cursor, yielded>>
    BY <1>0, <2>0, <2>1 DEF StreamTypes
  <2>2. CASE cursor' = [cursor EXCEPT ![h] = Len(rx) + 1] /\ UNCHANGED yielded
    <3>1. cursor' \in [Handles -> Nat] /\ \A g \in Handles : cursor'[g] <= Len(rx) + 1
      BY <1>0, <1>1, <2>2 DEF StreamTypes
    <3>2. \A g \in Handles : cursor[g] <= cursor'[g]
      BY <1>0, <1>1, <2>2 DEF StreamTypes
    <3>3. ASSUME NEW g \in Handles, NEW i \in 1..Len(yielded[g]) PROVE yielded[g][i] < cursor'[g]
      <4>1. yielded[g][i] \in Nat /\ yielded[g][i] < cursor[g]
        BY <1>0, <1>1, ElementOfSeq DEF StreamTypes
      <4> QED
        BY <1>1, <3>1, <3>2, <4>1, SMTT(30)
    <3> QED
      BY <1>0, <2>0, <2>2, <3>1, <3>3 DEF StreamTypes
  <2>3. CASE /\ cursor' = [cursor EXCEPT ![h] = 0]
             /\ yielded' = [yielded EXCEPT ![h] = <<>>]
    <3>1. <<>> \in Seq(Nat) /\ Len(<<>>) = 0
      BY EmptySeq
    <3> QED
      BY <1>0, <1>1, <2>0, <2>3, <3>1 DEF StreamTypes
  <2>4. CASE /\ NextRead(h) <= Len(rx)
             /\ cursor' = [cursor EXCEPT ![h] = NextRead(h) + 1]
             /\ yielded' \in {yielded, [yielded EXCEPT ![h] = Append(@, NextRead(h))]}
    <3> DEFINE y == yielded[h]
               c == NextRead(h)
    <3>0. c \in Nat /\ c >= cursor[h]
      BY <1>0, NextReadIs
    <3>1. /\ Len(y) \in Nat
          /\ Append(y, c) \in Seq(Nat) /\ Len(Append(y, c)) = Len(y) + 1
          /\ \A i \in 1..Len(y) : Append(y, c)[i] = y[i] /\ y[i] \in Nat /\ y[i] < c
          /\ Append(y, c)[Len(y) + 1] = c
      <4> HIDE DEF c
      <4>1. \A i \in 1..Len(y) : y[i] \in Nat /\ y[i] < cursor[h]
        BY <1>0, <1>1, ElementOfSeq DEF StreamTypes
      <4> QED
        BY <1>1, <3>0, <4>1, AppendProperties, LenProperties, SMTT(30)
    <3>2. c \in Nat /\ c <= Len(rx)
      BY <2>4, <3>0
    <3>3. yielded'[h] \in {y, Append(y, c)} /\ cursor'[h] = c + 1
      BY <1>0, <2>4 DEF StreamTypes
    <3>4. \A g \in Handles \ {h} : yielded'[g] = yielded[g] /\ cursor'[g] = cursor[g]
      BY <1>0, <2>4 DEF StreamTypes
    <3>5. cursor' \in [Handles -> Nat] /\ yielded' \in [Handles -> Seq(Nat)]
      <4>1. cursor' \in [Handles -> Nat]
        BY <1>0, <1>1, <2>4, <3>0 DEF StreamTypes
      <4>2. yielded' \in {yielded, [yielded EXCEPT ![h] = Append(y, c)]}
        BY <2>4
      <4> HIDE DEF y, c
      <4>3. yielded' \in [Handles -> Seq(Nat)]
        BY <1>0, <3>1, <4>2 DEF StreamTypes
      <4> QED
        BY <4>1, <4>3
    <3>6. \A i \in 1..Len(yielded'[h]) : yielded'[h][i] < c + 1
      <4> HIDE DEF y, c
      <4>1. \A i \in 1..Len(y) : y[i] < c + 1
        BY <3>1, <3>2
      <4>2. \A i \in 1..Len(Append(y, c)) : Append(y, c)[i] < c + 1
        <5>1. \A i \in 1..(Len(y) + 1) : i \in 1..Len(y) \/ i = Len(y) + 1
          BY <3>1
        <5> QED
          BY <3>1, <3>2, <4>1, <5>1
      <4> QED
        BY <3>3, <4>1, <4>2
    <3>7. c + 1 <= Len(rx) + 1
      BY <1>1, <3>2
    <3> HIDE DEF c, y
    <3> QED
      BY <1>0, <2>0, <3>3, <3>4, <3>5, <3>6, <3>7 DEF StreamTypes
  <2> QED
    BY <1>2, <2>1, <2>2, <2>3, <2>4, StreamSteps
<1>3. CASE HandlePublish
  <2>1. /\ downlink # <<>> /\ Head(downlink).type = "Publish" /\ UNCHANGED <<cursor, yielded>>
        /\ floor' \in floor..(Len(rx) + 1)
        /\ \/ rx' = Append(rx, [topic |-> Head(downlink).topic,
                                due |-> {h \in Handles : pc[h] \in Sending \cup Alive}])
           \/ UNCHANGED rx
    BY <1>3 DEF HandlePublish, Receive, streamVars
  <2>2. Head(downlink) \in Answers \cup Messages
    BY <1>0, <2>1, HeadTailProperties DEF NetTypes
  <2>3. Head(downlink).topic \in Topics
    BY <2>1, <2>2 DEF Answers, Messages
  <2> DEFINE m == [topic |-> Head(downlink).topic,
                   due |-> {h \in Handles : pc[h] \in Sending \cup Alive}]
  <2>4. m \in [topic : Topics, due : SUBSET Handles]
    BY <2>3
  <2> HIDE DEF m
  <2>5. /\ Append(rx, m) \in Seq([topic : Topics, due : SUBSET Handles])
        /\ Len(Append(rx, m)) = Len(rx) + 1
    BY <1>0, <2>4, AppendProperties DEF StreamTypes
  <2>6. /\ rx' \in Seq([topic : Topics, due : SUBSET Handles])
        /\ Len(rx') \in Nat /\ Len(rx) <= Len(rx')
    <3>1. rx' = Append(rx, m) \/ rx' = rx
      BY <2>1 DEF m
    <3>2. rx \in Seq([topic : Topics, due : SUBSET Handles])
      BY <1>0 DEF StreamTypes
    <3>3. CASE rx' = Append(rx, m)
      <4>1. Len(rx') = Len(rx) + 1
        BY <2>5, <3>3, Zenon
      <4> QED
        BY <1>1, <2>5, <3>3, <4>1
    <3>4. CASE rx' = rx
      BY <1>1, <3>2, <3>4
    <3> QED
      BY <3>1, <3>3, <3>4
  <2>7. \A h \in Handles : cursor[h] <= Len(rx') + 1
    BY <1>0, <1>1, <2>6 DEF StreamTypes
  <2>8. floor' \in Nat /\ 1 <= floor' /\ floor' <= Len(rx') + 1
    BY <1>0, <1>1, <2>1, <2>6 DEF StreamTypes
  <2>9. cursor' = cursor /\ yielded' = yielded
    BY <2>1
  <2>10. /\ cursor' \in [Handles -> Nat] /\ yielded' \in [Handles -> Seq(Nat)]
         /\ \A h \in Handles : cursor'[h] <= Len(rx') + 1
         /\ \A h \in Handles : \A i \in 1..Len(yielded'[h]) : yielded'[h][i] < cursor'[h]
    BY <1>0, <2>7, <2>9 DEF StreamTypes
  <2> QED
    BY <2>6, <2>8, <2>10 DEF StreamTypes
<1>4. ASSUME UNCHANGED <<rx, floor, cursor, yielded>> PROVE StreamTypes'
  BY <1>0, <1>4 DEF StreamTypes
<1>5. CASE PeerStep /\ ~HandlePublish
  <2>1. UNCHANGED <<rx, floor>>
    BY <1>5 DEF PeerStep, Connect, ConnackLost, Select, LinkLost, BrokerForgets, BrokerReceive,
                BrokerPublish, Transmit, StackNotices, HandleSubAck, HandleUnsubAck
  <2> QED
    BY <1>4, <1>5, <2>1, PeerFootprint DEF streamVars
<1>6. CASE UNCHANGED vars
  BY <1>4, <1>6 DEF vars, streamVars
<1> QED
  BY <1>2, <1>3, <1>5, <1>6, Steps DEF CallStep

\* created and born are noted together, as subscribe() returns.
LEMMA BirthSteps ==
  ASSUME NEW h \in Handles, Proceed(h) \/ Choose(h)
  PROVE  \/ UNCHANGED <<created, born>>
         \/ /\ created' = [created EXCEPT ![h] = clean_session_count]
            /\ born' = [born EXCEPT ![h] = sessions]
            /\ Goto(h, "active")
            /\ SubscribeAcked(h)
<1>1. CASE SubscribeAcked(h)
  BY <1>1 DEF SubscribeAcked
<1>2. CASE Proceed(h) /\ ~SubscribeAcked(h)
  BY <1>2 DEF Proceed, TakePid, LockPublisher, Enqueue, EnqueueFails, UnsubscribeAcked,
              Timeout, PollNext, streamVars
<1>3. CASE Choose(h)
  BY <1>3 DEF Choose, Start, StartUnsubscribe, CancelSubscribe, DropSubscription, streamVars
<1> QED
  BY <1>1, <1>2, <1>3

\* The broker makes sessions only as a connection is made.
LEMMA SessionSteps ==
  ASSUME PeerStep
  PROVE  \/ UNCHANGED <<sessions, clean_session_count>>
         \/ sessions' = sessions + 1
<1>1. CASE Connect
  BY <1>1 DEF Connect, BrokerConnect, CountSessions
<1>2. CASE ConnackLost
  BY <1>2 DEF ConnackLost, BrokerConnect, sharedVars
<1>3. CASE PeerStep /\ ~Connect /\ ~ConnackLost
  BY <1>3 DEF PeerStep, Select, LinkLost, BrokerForgets, BrokerReceive, BrokerPublish,
              Transmit, StackNotices, Reset, HandleSubAck, HandleUnsubAck, HandlePublish,
              sharedVars, brokerVars
<1> QED
  BY <1>1, <1>2, <1>3

\* No subscription is made in a session that is still to come.
LEMMA BirthTypesStep ==
  ASSUME Types, [Next]_vars
  PROVE  BirthTypes'
<1>0. BirthTypes /\ clean_session_count \in 0..255
  BY DEF Types, SharedTypes
<1>1. CASE CallStep
  <2>1. UNCHANGED sessions
    BY <1>1, CallFootprint DEF brokerVars
  <2>2. PICK h \in Handles :
          \/ UNCHANGED <<created, born>>
          \/ /\ created' = [created EXCEPT ![h] = clean_session_count]
             /\ born' = [born EXCEPT ![h] = sessions]
    BY <1>1, BirthSteps DEF CallStep
  <2> QED
    BY <1>0, <2>1, <2>2 DEF BirthTypes
<1>2. CASE PeerStep
  <2>1. UNCHANGED <<created, born>>
    BY <1>2, PeerFootprint DEF streamVars
  <2>2. sessions' \in Nat /\ sessions' >= sessions
    BY <1>0, <1>2, SessionSteps DEF BirthTypes
  <2> QED
    BY <1>0, <2>1, <2>2 DEF BirthTypes
<1>3. CASE UNCHANGED vars
  BY <1>0, <1>3 DEF BirthTypes, vars, streamVars, brokerVars
<1> QED
  BY <1>1, <1>2, <1>3, Steps

\* An answer carries the id of its request.
LEMMA AnswerType ==
  ASSUME NEW p \in Requests, NEW ok \in BOOLEAN
  PROVE  Answer("SubAck", p.id, ok) \in Answers /\ Answer("UnsubAck", p.id, ok) \in Answers
BY DEF Answer, Answers, Requests

\* An UNSUBSCRIBE of drop() is a frame.
LEMMA DropFrameType ==
  ASSUME CallTypes, NEW h \in Handles, NEW id \in Pids
  PROVE  Frame(0, Packet("Unsubscribe", id, filters[h])) \in Frames
BY DEF CallTypes, Frame, Packet, Frames, Requests

\* The transmit channel after drop() has used it.
LEMMA DropTx ==
  ASSUME CallTypes, last_pid \in Pids, NEW h \in Handles, NEW kinds, NEW lock, NEW status,
         NEW frames \in Seq(Frames \cup {EmptyFrame}), Len(frames) <= TxFrames,
         Drop(h, kinds, lock, frames, status)
  PROVE  tx' \in Seq(Frames \cup {EmptyFrame}) /\ Len(tx') <= TxFrames
<1>0. Len(frames) \in Nat /\ TxFrames \in Nat
  BY LenProperties, TxFramesAssumption
<1>1. CASE tx' = frames
  BY <1>1
<1>2. ASSUME NEW id \in Pids, Len(frames) < TxFrames,
             tx' = Append(frames, Frame(0, Packet("Unsubscribe", id, filters[h])))
      PROVE  tx' \in Seq(Frames \cup {EmptyFrame}) /\ Len(tx') <= TxFrames
  <2> DEFINE f == Frame(0, Packet("Unsubscribe", id, filters[h]))
  <2>1. f \in Frames \cup {EmptyFrame} /\ tx' = Append(frames, f)
    BY <1>2, DropFrameType
  <2> HIDE DEF f
  <2>2. tx' \in Seq(Frames \cup {EmptyFrame}) /\ Len(tx') = Len(frames) + 1
    BY <2>1, AppendProperties
  <2> QED
    BY <1>0, <1>2, <2>2
<1> QED
  BY <1>1, <1>2, DropEffect

\* Queues hold requests, and the connection carries requests and answers.
LEMMA NetTypesStep ==
  ASSUME Types, [Next]_vars
  PROVE  NetTypes'
<1>0. SharedTypes /\ CallTypes /\ NetTypes /\ BudgetTypes
  BY DEF Types
<1> DEFINE FS == Frames \cup {EmptyFrame}
           DS == Answers \cup Messages
<1>1. tx \in Seq(FS) /\ Len(tx) \in Nat /\ Len(tx) <= TxFrames /\ TxFrames \in Nat
  BY <1>0, LenProperties, TxFramesAssumption DEF NetTypes
<1>2. uplink \in Seq(Requests) /\ downlink \in Seq(DS)
  BY <1>0 DEF NetTypes
<1>3. EmptyFrame \in FS /\ <<>> \in Seq(Requests) /\ <<>> \in Seq(DS)
  BY EmptySeq
<1> HIDE DEF FS, DS
<1>4. ASSUME UNCHANGED <<netVars, brokerVars>>, tx' \in Seq(FS), Len(tx') <= TxFrames
      PROVE  NetTypes'
  BY <1>0, <1>4 DEF NetTypes, netVars, brokerVars, FS
<1>5. ASSUME NEW frames \in Seq(FS), Len(frames) < TxFrames, NEW f \in FS
      PROVE  Append(frames, f) \in Seq(FS) /\ Len(Append(frames, f)) <= TxFrames
  <2>1. Append(frames, f) \in Seq(FS) /\ Len(Append(frames, f)) = Len(frames) + 1
        /\ Len(frames) \in Nat
    BY AppendProperties, LenProperties
  <2> QED
    BY <1>1, <1>5, <2>1
<1>6. ASSUME NEW h \in Handles, Proceed(h) \/ Choose(h) PROVE NetTypes'
  <2>0. UNCHANGED <<netVars, brokerVars>> /\ last_pid \in Pids
    BY <1>0, <1>6, CallFootprint DEF CallStep, SharedTypes
  <2>1. ASSUME NEW frames \in Seq(FS), Len(frames) <= TxFrames, NEW kinds, NEW lock, NEW status,
               Drop(h, kinds, lock, frames, status)
        PROVE  NetTypes'
    BY <1>0, <1>4, <2>0, <2>1, DropTx DEF FS
  <2>2. CASE Enqueue(h)
    <3> DEFINE f == Frame(pid[h], Packet(op[h], pid[h], filters[h]))
    <3>1. pid[h] \in Pids /\ Len(tx) < TxFrames /\ tx' = Append(tx, f)
      BY <1>0, <2>2 DEF Enqueue, Granted, At, CallTypes
    <3>2. f \in FS
      BY <1>0, <3>1 DEF Frame, Packet, Frames, Requests, CallTypes, FS
    <3> HIDE DEF f
    <3> QED
      BY <1>1, <1>4, <1>5, <2>0, <3>1, <3>2
  <2>3. CASE EnqueueFails(h)
    <3>1. Len(tx) < TxFrames
      BY <2>3 DEF EnqueueFails, Granted
    <3>2. Append(tx, EmptyFrame) \in Seq(FS) /\ Len(Append(tx, EmptyFrame)) <= TxFrames
      BY <1>1, <1>3, <1>5, <3>1
    <3>3. \/ tx' = Append(tx, EmptyFrame)
          \/ Drop(h, {}, NoHandle, Append(tx, EmptyFrame), ack_status)
      BY <2>3 DEF EnqueueFails
    <3> QED
      BY <1>4, <2>0, <2>1, <3>2, <3>3
  <2>4. CASE UnsubscribeAcked(h)
    <3>1. UNCHANGED tx \/ Drop(h, {}, tx_publisher, tx, AnswerTaken(h))
      BY <2>4 DEF UnsubscribeAcked
    <3> QED
      BY <1>1, <1>4, <2>0, <2>1, <3>1
  <2>5. CASE DropSubscription(h)
    <3>1. \E kinds : Drop(h, kinds, tx_publisher', tx, ack_status)
      BY <2>5 DEF DropSubscription
    <3> QED
      BY <1>1, <2>1, <3>1
  <2>6. CASE \/ TakePid(h) \/ LockPublisher(h) \/ SubscribeAcked(h) \/ Timeout(h) \/ PollNext(h)
             \/ \E F \in FilterSets[h] : Start(h, F)
             \/ StartUnsubscribe(h) \/ CancelSubscribe(h)
    <3>1. UNCHANGED tx
      BY <2>6 DEF TakePid, LockPublisher, SubscribeAcked, Timeout, PollNext, Start,
                  StartUnsubscribe, CancelSubscribe
    <3> QED
      BY <1>1, <1>4, <2>0, <3>1
  <2> QED
    BY <1>6, <2>2, <2>3, <2>4, <2>5, <2>6 DEF Proceed, Choose
<1>7. CASE Connect \/ ConnackLost
  <2>1. UNCHANGED <<tx, uplink, downlink, published>> /\ subscribed' \in {subscribed, {}}
    BY <1>7 DEF Connect, ConnackLost, BrokerConnect, netVars
  <2> QED
    BY <1>0, <2>1 DEF NetTypes
<1>8. ASSUME CloseLink, UNCHANGED brokerVars, tx' = tx \/ (tx # <<>> /\ tx' = Tail(tx))
      PROVE  NetTypes'
  <2>1. tx' \in Seq(FS) /\ Len(tx') <= TxFrames
    <3>1. CASE tx # <<>> /\ tx' = Tail(tx)
      <4>1. Tail(tx) \in Seq(FS) /\ Len(Tail(tx)) = Len(tx) - 1
        BY <1>1, <3>1, HeadTailProperties
      <4> QED
        BY <1>1, <3>1, <4>1
    <3> QED
      BY <1>1, <1>8, <3>1
  <2> QED
    BY <1>0, <1>3, <1>8, <2>1 DEF NetTypes, CloseLink, brokerVars, FS, DS
<1>9. CASE StackNotices \/ LinkLost
  BY <1>8, <1>9 DEF StackNotices, Reset, LinkLost
<1>10. CASE BrokerForgets
  BY <1>0, <1>10 DEF BrokerForgets, NetTypes, netVars
<1>11. CASE HandleSubAck \/ HandleUnsubAck \/ HandlePublish
  <2>1. /\ downlink # <<>> /\ downlink' = Tail(downlink)
        /\ UNCHANGED <<tx, uplink, brokerVars>>
    BY <1>11 DEF HandleSubAck, HandleUnsubAck, HandlePublish, Receive
  <2>2. downlink' \in Seq(DS)
    BY <1>2, <2>1, HeadTailProperties
  <2> QED
    BY <1>0, <2>1, <2>2 DEF NetTypes, brokerVars, DS
<1>12. CASE Transmit
  <2>1. /\ tx # <<>> /\ tx' = Tail(tx) /\ UNCHANGED <<downlink, brokerVars>>
        /\ uplink' = uplink \/ (Head(tx) # EmptyFrame /\ uplink' = Append(uplink, Head(tx).packet))
    BY <1>12 DEF Transmit
  <2>2. Head(tx) \in FS /\ Tail(tx) \in Seq(FS) /\ Len(Tail(tx)) = Len(tx) - 1
    BY <1>1, <2>1, HeadTailProperties
  <2>3. Head(tx) # EmptyFrame => Head(tx).packet \in Requests
    BY <2>2 DEF FS, Frames
  <2>4. uplink' \in Seq(Requests)
    BY <1>2, <2>1, <2>3, AppendProperties, SMTT(30)
  <2>5. tx' \in Seq(FS) /\ Len(tx') <= TxFrames
    BY <1>1, <2>1, <2>2
  <2> QED
    BY <1>0, <2>1, <2>4, <2>5 DEF NetTypes, brokerVars, FS
<1>13. CASE BrokerReceive
  <2>1. uplink # <<>> /\ uplink' = Tail(uplink) /\ UNCHANGED <<tx, published>>
    BY <1>13 DEF BrokerReceive
  <2> DEFINE p == Head(uplink)
  <2>2. p \in Requests /\ uplink' \in Seq(Requests)
    BY <1>2, <2>1, HeadTailProperties
  <2>3. PICK done \in SUBSET p.filters :
          \/ /\ subscribed' = subscribed \cup done
             /\ downlink' = Append(downlink, Answer("SubAck", p.id, done = p.filters))
          \/ /\ subscribed' = subscribed \ done
             /\ downlink' = Append(downlink, Answer("UnsubAck", p.id, done = p.filters))
    BY <1>13 DEF BrokerReceive
  <2> HIDE DEF p
  <2>4. p.filters \subseteq AllFilters
    BY <2>2 DEF Requests
  <2>5. \A a \in Answers : Append(downlink, a) \in Seq(DS)
    BY <1>2, AppendProperties DEF DS
  <2>6. (done = p.filters) \in BOOLEAN
    OBVIOUS
  <2>7. downlink' \in Seq(DS)
    BY <2>2, <2>3, <2>5, <2>6, AnswerType, ZenonT(60)
  <2>8. subscribed' \subseteq AllFilters
    BY <1>0, <2>3, <2>4 DEF NetTypes
  <2> QED
    BY <1>0, <2>1, <2>2, <2>7, <2>8 DEF NetTypes, DS
<1>14. ASSUME NEW t \in Topics, BrokerPublish(t) PROVE NetTypes'
  <2>1. /\ published < MaxMessages /\ published' = published + 1
        /\ UNCHANGED <<tx, uplink, subscribed>>
        /\ \/ downlink' = Append(downlink, Message(t))
           \/ /\ downlink # <<>>
              /\ downlink' = Front(downlink) \o <<Message(t), Last(downlink)>>
    BY <1>14 DEF BrokerPublish
  <2>2. Message(t) \in DS
    BY DEF Message, Messages, DS
  <2>3. published' \in 0..MaxMessages
    BY <1>0, <2>1, BoundsAssumption DEF NetTypes
  <2>4. downlink # <<>> => Front(downlink) \o <<Message(t), Last(downlink)>> \in Seq(DS)
    BY <1>2, <2>2, ElemsOvertake
  <2>5. Append(downlink, Message(t)) \in Seq(DS)
    BY <1>2, <2>2, AppendProperties
  <2>6. downlink' \in Seq(DS)
    BY <2>1, <2>4, <2>5
  <2> QED
    BY <1>0, <2>1, <2>3, <2>6 DEF NetTypes, DS
<1>15. CASE UNCHANGED vars
  BY <1>1, <1>4, <1>15 DEF vars
<1> QED
  BY <1>6, <1>7, <1>9, <1>10, <1>11, <1>12, <1>13, <1>14, <1>15, Steps
     DEF CallStep, PeerStep, Select

\* Faults and losses are counted together.
LEMMA BudgetTypesStep ==
  ASSUME Types, [Next]_vars
  PROVE  BudgetTypes'
<1>0. BudgetTypes
  BY DEF Types
<1>1. ASSUME UNCHANGED losses, UNCHANGED faults \/ \E k : Spend(k) PROVE BudgetTypes'
  <2>1. faults' \in Nat /\ faults <= faults' /\ faults' <= MaxFaults
    BY <1>0, <1>1, SpendGrows DEF BudgetTypes
  <2> QED
    BY <1>0, <1>1, <2>1 DEF BudgetTypes
<1>2. ASSUME NEW k, Spend({k}), losses' = losses + 1 PROVE BudgetTypes'
  <2>1. faults' = faults + 1 /\ faults' <= MaxFaults
    BY <1>0, <1>2, SpendGrows
  <2> QED
    BY <1>0, <1>2, <2>1 DEF BudgetTypes
<1>3. CASE CallStep
  <2>0. UNCHANGED losses
    BY <1>3, CallFootprint
  <2>1. PICK h \in Handles : Proceed(h) \/ Choose(h)
    BY <1>3 DEF CallStep
  <2>2. ASSUME NEW kinds, NEW lock, NEW frames, NEW status, Drop(h, kinds, lock, frames, status)
        PROVE  \E k : Spend(k)
    BY <2>2 DEF Drop
  <2>3. ASSUME NEW kinds, DropAttempt(h, kinds) PROVE \E k : Spend(k)
    BY <2>3 DEF DropAttempt
  <2>4. CASE \/ TakePid(h) \/ LockPublisher(h) \/ Enqueue(h) \/ SubscribeAcked(h)
             \/ PollNext(h) \/ (\E F \in FilterSets[h] : Start(h, F)) \/ StartUnsubscribe(h)
    <3>1. UNCHANGED faults
      BY <2>4 DEF TakePid, LockPublisher, Enqueue, SubscribeAcked, PollNext, Start,
                  StartUnsubscribe
    <3> QED
      BY <1>1, <2>0, <3>1
  <2>5. CASE EnqueueFails(h) \/ UnsubscribeAcked(h) \/ DropSubscription(h)
    <3>1. UNCHANGED faults \/ \E k : Spend(k)
      BY <2>2, <2>5 DEF EnqueueFails, UnsubscribeAcked, DropSubscription
    <3> QED
      BY <1>1, <2>0, <3>1
  <2>6. CASE Timeout(h) \/ CancelSubscribe(h)
    <3>1. \E k : Spend(k)
      BY <2>3, <2>6 DEF Timeout, CancelSubscribe
    <3> QED
      BY <1>1, <2>0, <3>1
  <2> QED
    BY <2>1, <2>4, <2>5, <2>6 DEF Proceed, Choose
<1>4. CASE ConnackLost \/ LinkLost
  BY <1>2, <1>4 DEF ConnackLost, LinkLost
<1>5. CASE BrokerReceive
  <2>1. UNCHANGED losses /\ \E k : Spend(k)
    BY <1>5 DEF BrokerReceive
  <2> QED
    BY <1>1, <2>1
<1>6. CASE PeerStep /\ ~ConnackLost /\ ~LinkLost /\ ~BrokerReceive
  <2>1. UNCHANGED <<losses, faults>>
    BY <1>6 DEF PeerStep, Connect, Select, BrokerForgets, BrokerPublish, Transmit,
                StackNotices, HandleSubAck, HandleUnsubAck, HandlePublish
  <2> QED
    BY <1>1, <2>1
<1>7. CASE UNCHANGED vars
  BY <1>0, <1>7 DEF vars, BudgetTypes
<1> QED
  BY <1>3, <1>4, <1>5, <1>6, <1>7, Steps

\* Types is inductive.
LEMMA TypesInvariance == Spec => []Types
<1>1. Types /\ [Next]_vars => Types'
  <2> SUFFICES ASSUME Types, [Next]_vars PROVE Types'
    OBVIOUS
  <2>1. Flags'
    BY FlagsStep DEF Types
  <2> QED
    BY <2>1, SharedTypesStep, CallTypesStep, StreamTypesStep, BirthTypesStep,
       NetTypesStep, BudgetTypesStep DEF Types
<1> QED
  BY <1>1, TypesInit, PTL DEF Spec

-----------------------------------------------------------------------------
(* A stream ends with its session *)

\* The count of clean sessions that a subscription notes changes only with the
\* broker's session.
SessionInv ==
  /\ \A h \in Handles :
       At(h, "active") /\ born[h] = sessions => created[h] = clean_session_count
  /\ EndsWithSession

\* poll_next() sees another count only after another session was made.
LEMMA SessionInvStep ==
  ASSUME Types, SessionInv, [Next]_vars
  PROVE  SessionInv'
<1>0. CallTypes /\ BirthTypes
  BY DEF Types
<1>1. CASE CallStep
  <2>1. UNCHANGED <<sessions, clean_session_count>>
    BY <1>1, CallFootprint DEF brokerVars
  <2>2. PICK h \in Handles : Proceed(h) \/ Choose(h)
    BY <1>1 DEF CallStep
  <2>3. /\ \A g \in Handles \ {h} : pc'[g] = pc[g]
        /\ \/ pc'[h] \notin {"active", "ended"} \/ pc'[h] = pc[h]
           \/ PollNext(h) /\ pc'[h] = "ended"
           \/ SubscribeAcked(h) /\ pc'[h] = "active" /\ pc[h] = "waiting"
    <3> USE <1>0 DEF CallTypes, At, Goto, Leave
    <3>1. CASE \/ \E F \in FilterSets[h] : Start(h, F)
               \/ StartUnsubscribe(h) \/ TakePid(h) \/ LockPublisher(h) \/ Enqueue(h)
      BY <3>1, ZenonT(60) DEF Start, StartUnsubscribe, TakePid, LockPublisher, Enqueue
    <3>2. CASE EnqueueFails(h) \/ UnsubscribeAcked(h) \/ Timeout(h) \/ CancelSubscribe(h)
               \/ DropSubscription(h)
      BY <3>2 DEF EnqueueFails, UnsubscribeAcked, Timeout, CancelSubscribe, DropSubscription,
                  Retry, Drop
    <3>3. CASE SubscribeAcked(h)
      BY <3>3 DEF SubscribeAcked, Retry
    <3>4. CASE PollNext(h)
      BY <3>4 DEF PollNext
    <3> QED
      BY <2>2, <3>1, <3>2, <3>3, <3>4 DEF Proceed, Choose
  <2>4. CASE /\ created' = [created EXCEPT ![h] = clean_session_count]
             /\ born' = [born EXCEPT ![h] = sessions] /\ Goto(h, "active")
    BY <1>0, <2>1, <2>3, <2>4 DEF SessionInv, EndsWithSession, At, Goto, CallTypes, BirthTypes
  <2>5. CASE UNCHANGED <<created, born>>
    <3>1. CASE PollNext(h) /\ pc'[h] = "ended"
      <4>1. pc[h] = "active" /\ created[h] # clean_session_count
        BY <1>0, <3>1 DEF PollNext, At, CallTypes
      <4>2. born[h] # sessions /\ born[h] <= sessions /\ born[h] \in Nat /\ sessions \in Nat
        BY <1>0, <4>1 DEF SessionInv, At, BirthTypes
      <4>3. born[h] < sessions
        BY <4>2
      <4> QED
        BY <2>1, <2>3, <2>5, <3>1, <4>3 DEF SessionInv, EndsWithSession, At
    <3>2. CASE pc'[h] \notin {"active", "ended"} \/ pc'[h] = pc[h]
      BY <2>1, <2>3, <2>5, <3>2 DEF SessionInv, EndsWithSession, At
    <3>3. CASE SubscribeAcked(h) /\ pc'[h] = "active" /\ pc[h] = "waiting"
      <4>1. created' = [created EXCEPT ![h] = clean_session_count]
            /\ born' = [born EXCEPT ![h] = sessions] /\ Goto(h, "active")
        BY <1>0, <3>3 DEF SubscribeAcked, Retry, Goto, Leave, CallTypes
      <4> QED
        BY <2>4, <4>1
    <3> QED
      BY <2>3, <3>1, <3>2, <3>3
  <2> QED
    BY <2>2, <2>4, <2>5, BirthSteps
<1>2. CASE PeerStep
  <2>1. UNCHANGED <<pc, created, born>>
    BY <1>2, PeerFootprint DEF streamVars, callVars
  <2>2. CASE UNCHANGED <<sessions, clean_session_count>>
    BY <2>1, <2>2 DEF SessionInv, EndsWithSession, At
  <2>3. CASE sessions' = sessions + 1
    <3>1. \A h \in Handles : born[h] < sessions'
      BY <1>0, <2>3 DEF BirthTypes
    <3>2. \A h \in Handles : born[h] # sessions'
      BY <1>0, <2>3, <3>1 DEF BirthTypes
    <3> QED
      BY <2>1, <3>1, <3>2 DEF SessionInv, EndsWithSession, At
  <2> QED
    BY <1>2, <2>2, <2>3, SessionSteps
<1>3. CASE UNCHANGED vars
  BY <1>3 DEF SessionInv, EndsWithSession, At, vars, sharedVars, callVars, streamVars, brokerVars
<1> QED
  BY <1>1, <1>2, <1>3, Steps

\* A stream ends only once the broker has lost its filters with their session,
\* however often the connection, or a CONNACK, was lost and the session resumed:
\* created_clean_session_count differs from the count of Shared only then, the
\* u8 wrapping around or not.
THEOREM StreamsEndWithSession == Spec => []EndsWithSession
<1>1. Init => SessionInv
  BY DEF Init, SessionInv, EndsWithSession, At
<1>2. Types /\ SessionInv /\ [Next]_vars => SessionInv'
  BY SessionInvStep
<1>3. SessionInv => EndsWithSession
  BY DEF SessionInv
<1> QED
  BY <1>1, <1>2, <1>3, TypesInvariance, PTL DEF Spec

-----------------------------------------------------------------------------
(* The places of Shared *)

\* An UNSUBSCRIBE with this id is queued, or it or its answer is on the wire.
UnsubQueued(id)   == \E f \in Elems(tx) : f.packet.type = "Unsubscribe" /\ f.packet.id = id
UnsubSent(id)     == \E p \in Elems(uplink) : p.type = "Unsubscribe" /\ p.id = id
UnsubAnswered(id) == \E p \in Elems(downlink) : p.type = "UnsubAck" /\ p.id = id

\* What drop() left in ack_status will be answered: its request waits in the
\* transmit channel for a connection, or belongs to the one there is.
DropsInv ==
  \A id \in Pids \ leaked : ack_status[id] = "AwaitingDropAck" =>
    \/ UnsubQueued(id)
    \/ connected # "no" /\ (~link \/ UnsubSent(id) \/ UnsubAnswered(id))

\* Somebody waits for each of the other answers.
WaitsInv ==
  \A id \in Pids \ leaked : ack_status[id] \notin {"none", "AwaitingDropAck"} =>
    \E h \in Handles : At(h, "waiting") /\ pid[h] = id

\* An id leaves outgoing_pid with its frame.
QueuedInv == \A id \in outgoing_pid \ leaked : \E f \in Elems(tx) : f.pid = id

\* The invariant that PlacesAreAccounted rests on.
PlacesInv == DropsInv /\ WaitsInv /\ QueuedInv

\* What a call may do to the places: take one with its frame, give one back, or
\* leak it.
LEMMA PlacesCall ==
  ASSUME PlacesInv, NEW h \in Handles,
         UNCHANGED <<connected, netVars>>,
         leaked \subseteq leaked',
         Elems(tx) \subseteq Elems(tx'),
         \A id \in Pids \ leaked' :
           \/ ack_status'[id] \in {ack_status[id], "none"}
           \/ ack_status'[id] = "AwaitingDropAck" /\ UnsubQueued(id)'
           \/ /\ pc'[h] = "waiting" /\ pid'[h] = id
              /\ ack_status'[id] # "AwaitingDropAck",
         \A id \in outgoing_pid' \ leaked' :
           id \in outgoing_pid \/ \E f \in Elems(tx') : f.pid = id,
         \A g \in Handles \ {h} : pc'[g] = pc[g] /\ pid'[g] = pid[g],
         pc[h] = "waiting" =>
           \/ pid[h] \in leaked'
           \/ ack_status'[pid[h]] \in {"none", "AwaitingDropAck"}
  PROVE  PlacesInv'
<1>1. DropsInv'
  <2> SUFFICES ASSUME NEW id \in Pids \ leaked', ack_status'[id] = "AwaitingDropAck"
               PROVE  \/ UnsubQueued(id)'
                      \/ connected' # "no" /\ (~link' \/ UnsubSent(id)' \/ UnsubAnswered(id)')
    BY DEF DropsInv
  <2>1. CASE ack_status[id] = "AwaitingDropAck"
    <3>1. \/ UnsubQueued(id)
          \/ connected # "no" /\ (~link \/ UnsubSent(id) \/ UnsubAnswered(id))
      BY <2>1 DEF PlacesInv, DropsInv
    <3>2. UnsubQueued(id) => UnsubQueued(id)'
      BY DEF UnsubQueued
    <3>3. UNCHANGED <<connected, link, uplink, downlink>>
      BY DEF netVars
    <3>4. (UnsubSent(id) => UnsubSent(id)') /\ (UnsubAnswered(id) => UnsubAnswered(id)')
      BY <3>3 DEF UnsubSent, UnsubAnswered
    <3> QED
      BY <3>1, <3>2, <3>3, <3>4
  <2>2. CASE ack_status[id] # "AwaitingDropAck"
    BY <2>2
  <2> QED
    BY <2>1, <2>2
<1>2. WaitsInv'
  <2> SUFFICES ASSUME NEW id \in Pids \ leaked',
                      ack_status'[id] \notin {"none", "AwaitingDropAck"}
               PROVE  \E g \in Handles : pc'[g] = "waiting" /\ pid'[g] = id
    BY DEF WaitsInv, At
  <2>1. CASE ack_status'[id] = ack_status[id]
    <3>1. PICK g \in Handles : pc[g] = "waiting" /\ pid[g] = id
      BY <2>1 DEF PlacesInv, WaitsInv, At
    <3>2. g # h
      BY <3>1
    <3> QED
      BY <3>1, <3>2
  <2> QED
    BY <2>1
<1>3. QueuedInv'
  BY DEF PlacesInv, QueuedInv
<1> QED
  BY <1>1, <1>2, <1>3 DEF PlacesInv

\* The requests of drop() are UNSUBSCRIBEs.
LEMMA DropPlaces ==
  ASSUME CallTypes, last_pid \in Pids, NEW h \in Handles, NEW kinds, NEW lock,
         NEW status \in [Pids -> AckStatus],
         NEW frames \in Seq(Frames \cup {EmptyFrame}),
         Drop(h, kinds, lock, frames, status)
  PROVE  /\ Elems(frames) \subseteq Elems(tx')
         /\ \A id \in Pids : \/ ack_status'[id] = status[id]
                             \/ ack_status'[id] = "AwaitingDropAck" /\ UnsubQueued(id)'
         /\ pc' = [pc EXCEPT ![h] = "dropped"] /\ UNCHANGED pid
<1>1. pc' = [pc EXCEPT ![h] = "dropped"] /\ UNCHANGED pid
  BY DEF Drop, Leave, Goto
<1>2. CASE tx' = frames /\ ack_status' = status
  BY <1>1, <1>2
<1>3. ASSUME NEW n \in Pids,
             tx' = Append(frames, Frame(0, Packet("Unsubscribe", n, filters[h]))),
             ack_status' \in {status, [status EXCEPT ![n] = "AwaitingDropAck"]}
      PROVE  /\ Elems(frames) \subseteq Elems(tx')
             /\ \A id \in Pids : \/ ack_status'[id] = status[id]
                                 \/ ack_status'[id] = "AwaitingDropAck" /\ UnsubQueued(id)'
  <2> DEFINE f == Frame(0, Packet("Unsubscribe", n, filters[h]))
  <2>1. f \in Frames \cup {EmptyFrame} /\ tx' = Append(frames, f)
    BY <1>3, DropFrameType
  <2>2. f.packet.type = "Unsubscribe" /\ f.packet.id = n
    BY DEF Frame, Packet
  <2> HIDE DEF f
  <2>3. Elems(tx') = Elems(frames) \cup {f}
    BY <2>1, ElemsAppend
  <2>4. UnsubQueued(n)'
    BY <2>2, <2>3 DEF UnsubQueued
  <2>5. ASSUME NEW id \in Pids
        PROVE  \/ ack_status'[id] = status[id]
               \/ ack_status'[id] = "AwaitingDropAck" /\ UnsubQueued(id)'
    <3>1. CASE id = n
      <4>1. ack_status'[n] \in {status[n], "AwaitingDropAck"}
        BY <1>3
      <4>2. UnsubQueued(id)'
        BY <2>4, <3>1 DEF UnsubQueued
      <4> QED
        BY <3>1, <4>1, <4>2
    <3>2. CASE id # n
      BY <1>3, <3>2
    <3> QED
      BY <3>1, <3>2
  <2> QED
    BY <2>3, <2>5
<1> QED
  BY <1>1, <1>2, <1>3, DropEffect

\* A call moves its own handle only.
LEMMA OthersStay ==
  ASSUME CallTypes, NEW h \in Handles, Proceed(h) \/ Choose(h)
  PROVE  \A g \in Handles \ {h} : pc'[g] = pc[g] /\ pid'[g] = pid[g]
<1> USE DEF CallTypes, Goto, Leave
<1>1. CASE \/ \E F \in FilterSets[h] : Start(h, F)
           \/ StartUnsubscribe(h) \/ TakePid(h) \/ LockPublisher(h) \/ Enqueue(h) \/ PollNext(h)
  BY <1>1, ZenonT(60) DEF Start, StartUnsubscribe, TakePid, LockPublisher, Enqueue, PollNext
<1>2. CASE \/ EnqueueFails(h) \/ SubscribeAcked(h) \/ UnsubscribeAcked(h) \/ Timeout(h)
           \/ CancelSubscribe(h) \/ DropSubscription(h)
  BY <1>2 DEF EnqueueFails, SubscribeAcked, UnsubscribeAcked, Timeout, CancelSubscribe,
              DropSubscription, Retry, Drop
<1> QED
  BY <1>1, <1>2 DEF Proceed, Choose

\* Each step of a call takes a place with its frame, gives it back, or leaks it.
LEMMA PlacesCallStep ==
  ASSUME Types, PlacesInv, NEW h \in Handles, Proceed(h) \/ Choose(h)
  PROVE  PlacesInv'
<1>0. SharedTypes /\ CallTypes /\ NetTypes
  BY DEF Types
<1>1. UNCHANGED <<connected, netVars>>
  BY CallFootprint DEF CallStep
<1>2. \A g \in Handles \ {h} : pc'[g] = pc[g] /\ pid'[g] = pid[g]
  BY <1>0, OthersStay
<1>3. \A id \in Pids : ack_status[id] \in AckStatus
  BY <1>0 DEF SharedTypes
<1> DEFINE FS == Frames \cup {EmptyFrame}
<1>4. /\ tx \in Seq(FS) /\ EmptyFrame \in FS /\ last_pid \in Pids
      /\ ack_status \in [Pids -> AckStatus]
  BY <1>0 DEF NetTypes, SharedTypes
<1> HIDE DEF FS
<1>5. Append(tx, EmptyFrame) \in Seq(FS) /\ Elems(tx) \subseteq Elems(Append(tx, EmptyFrame))
  BY <1>4, ElemsAppend
<1>6. pc[h] \in {"locking", "granting", "waiting"} => pid[h] \in Pids
  BY <1>0 DEF CallTypes
\* Steps that leave the sets and the channel alone.
<1>7. ASSUME UNCHANGED <<ack_status, outgoing_pid, leaked, tx>>, pc[h] # "waiting"
      PROVE  PlacesInv'
  BY <1>1, <1>2, <1>7, PlacesCall
<1>8. CASE \/ \E F \in FilterSets[h] : Start(h, F)
           \/ StartUnsubscribe(h) \/ TakePid(h) \/ LockPublisher(h) \/ PollNext(h)
  <2>1. UNCHANGED <<ack_status, outgoing_pid, leaked, tx>> /\ pc[h] # "waiting"
    BY <1>8 DEF Start, StartUnsubscribe, TakePid, LockPublisher, PollNext, At, Alive, sharedVars
  <2> QED
    BY <1>7, <2>1
<1>9. CASE Enqueue(h)
  <2> DEFINE f == Frame(pid[h], Packet(op[h], pid[h], filters[h]))
             s == IF op[h] = "Subscribe" THEN "AwaitingSubAck" ELSE "AwaitingUnsubAck"
  <2>1. /\ pc[h] # "waiting" /\ pid[h] \in Pids
        /\ outgoing_pid' = outgoing_pid \cup {pid[h]}
        /\ ack_status' = [ack_status EXCEPT ![pid[h]] = s]
        /\ tx' = Append(tx, f)
        /\ pc'[h] = "waiting" /\ UNCHANGED <<pid, leaked>>
    BY <1>0, <1>6, <1>9 DEF Enqueue, Granted, At, Goto, CallTypes
  <2>2. f \in FS /\ f.pid = pid[h]
    BY <1>0, <2>1 DEF CallTypes, Frame, Packet, Frames, Requests, FS
  <2>3. s # "AwaitingDropAck"
    OBVIOUS
  <2> HIDE DEF f, s
  <2>4. Elems(tx') = Elems(tx) \cup {f}
    BY <1>4, <2>1, <2>2, ElemsAppend
  <2>5. \A id \in Pids : \/ ack_status'[id] = ack_status[id]
                         \/ /\ pc'[h] = "waiting" /\ pid'[h] = id
                            /\ ack_status'[id] # "AwaitingDropAck"
    BY <1>4, <2>1, <2>3
  <2>6. \A id \in outgoing_pid' : id \in outgoing_pid \/ \E g \in Elems(tx') : g.pid = id
    BY <2>1, <2>2, <2>4
  <2>7. Elems(tx) \subseteq Elems(tx') /\ leaked \subseteq leaked'
    BY <2>1, <2>4
  <2> QED
    BY <1>1, <1>2, <2>1, <2>5, <2>6, <2>7, PlacesCall
\* The Drop at the end of a call that has given its places back, or leaks them.
<1>10. ASSUME NEW kinds, NEW lock, NEW frames \in Seq(FS), NEW status \in [Pids -> AckStatus],
              Drop(h, kinds, lock, frames, status),
              Elems(tx) \subseteq Elems(frames),
              \A id \in Pids : status[id] \in {ack_status[id], "none"},
              leaked \subseteq leaked',
              outgoing_pid' \ leaked' \subseteq outgoing_pid,
              pc[h] = "waiting" => pid[h] \in leaked' \/ status[pid[h]] = "none"
       PROVE  PlacesInv'
  <2>1. /\ Elems(frames) \subseteq Elems(tx')
        /\ \A id \in Pids : \/ ack_status'[id] = status[id]
                            \/ ack_status'[id] = "AwaitingDropAck" /\ UnsubQueued(id)'
    <3>1. /\ CallTypes /\ last_pid \in Pids /\ frames \in Seq(Frames \cup {EmptyFrame})
          /\ status \in [Pids -> AckStatus] /\ Drop(h, kinds, lock, frames, status)
      BY <1>0, <1>4, <1>10 DEF FS
    <3> QED
      BY <3>1, DropPlaces, Zenon
  <2>2. Elems(tx) \subseteq Elems(tx')
    BY <1>10, <2>1
  <2>3. \A id \in Pids : \/ ack_status'[id] \in {ack_status[id], "none"}
                         \/ ack_status'[id] = "AwaitingDropAck" /\ UnsubQueued(id)'
    BY <1>10, <2>1
  <2>4. \A id \in outgoing_pid' \ leaked' : id \in outgoing_pid
    BY <1>10
  <2>5. pc[h] = "waiting" => \/ pid[h] \in leaked'
                             \/ ack_status'[pid[h]] \in {"none", "AwaitingDropAck"}
    BY <1>6, <1>10, <2>1
  <2> QED
    BY <1>1, <1>2, <1>10, <2>2, <2>3, <2>4, <2>5, PlacesCall
<1>11. CASE EnqueueFails(h)
  <2>1. /\ pc[h] # "waiting" /\ leaked \subseteq leaked'
        /\ outgoing_pid' \ leaked' \subseteq outgoing_pid
    BY <1>11 DEF EnqueueFails, Granted, At
  <2>2. CASE op[h] = "Subscribe"
    <3>1. tx' = Append(tx, EmptyFrame) /\ UNCHANGED ack_status
      BY <1>11, <2>2 DEF EnqueueFails
    <3> QED
      BY <1>1, <1>2, <1>5, <2>1, <3>1, PlacesCall
  <2>3. CASE op[h] # "Subscribe"
    <3>1. Drop(h, {}, NoHandle, Append(tx, EmptyFrame), ack_status)
      BY <1>11, <2>3 DEF EnqueueFails
    <3> QED
      BY <1>4, <1>5, <1>10, <2>1, <3>1
  <2> QED
    BY <2>2, <2>3
\* The answer is taken: the place is free.
<1>12. /\ AnswerTaken(h) \in [Pids -> AckStatus]
       /\ \A id \in Pids : AnswerTaken(h)[id] \in {ack_status[id], "none"}
       /\ pc[h] = "waiting" => AnswerTaken(h)[pid[h]] = "none"
  BY <1>4, <1>6 DEF AnswerTaken, AckStatus
<1>13. ASSUME pc[h] = "waiting", ack_status' = AnswerTaken(h), UNCHANGED <<tx, leaked>>,
              outgoing_pid' \subseteq outgoing_pid
       PROVE  PlacesInv'
  <2>1. \A id \in Pids : ack_status'[id] \in {ack_status[id], "none"}
    BY <1>12, <1>13
  <2>2. ack_status'[pid[h]] = "none"
    BY <1>12, <1>13
  <2> QED
    BY <1>1, <1>2, <1>13, <2>1, <2>2, PlacesCall
<1>14. CASE SubscribeAcked(h)
  <2>1. /\ pc[h] = "waiting" /\ ack_status' = AnswerTaken(h)
        /\ UNCHANGED <<tx, leaked, outgoing_pid>>
    BY <1>14 DEF SubscribeAcked, At
  <2> QED
    BY <1>13, <2>1
<1>15. CASE UnsubscribeAcked(h)
  <2>1. pc[h] = "waiting" /\ UNCHANGED <<leaked, outgoing_pid>>
    BY <1>15 DEF UnsubscribeAcked, At
  <2>2. CASE ack_status' = AnswerTaken(h) /\ UNCHANGED tx
    BY <1>13, <2>1, <2>2
  <2>3. CASE Drop(h, {}, tx_publisher, tx, AnswerTaken(h))
    BY <1>4, <1>10, <1>12, <2>1, <2>3
  <2> QED
    BY <1>15, <2>2, <2>3 DEF UnsubscribeAcked
\* A dropped attempt cleans up after itself, unless it cannot take the lock.
<1>16. ASSUME NEW kinds, DropAttempt(h, kinds), UNCHANGED tx
       PROVE  PlacesInv'
  <2>1. CASE pc[h] # "waiting"
    <3>1. UNCHANGED <<ack_status, outgoing_pid, leaked>>
      BY <1>16, <2>1 DEF DropAttempt, At
    <3> QED
      BY <1>7, <1>16, <2>1, <3>1
  <2>2. CASE pc[h] = "waiting" /\ OnDrop(h)
    <3>1. /\ ack_status' = AnswerTaken(h) /\ UNCHANGED leaked
          /\ outgoing_pid' \subseteq outgoing_pid
      BY <2>2 DEF OnDrop, AnswerTaken
    <3> QED
      BY <1>13, <1>16, <2>2, <3>1
  <2>3. CASE /\ pc[h] = "waiting" /\ leaked' = leaked \cup {pid[h]}
             /\ UNCHANGED <<ack_status, outgoing_pid>>
    <3>1. pid[h] \in leaked' /\ leaked \subseteq leaked'
      BY <2>3
    <3> QED
      BY <1>1, <1>2, <1>16, <2>3, <3>1, PlacesCall
  <2> QED
    BY <1>16, <2>1, <2>2, <2>3 DEF DropAttempt, At
<1>17. CASE Timeout(h) \/ CancelSubscribe(h)
  <2>1. PICK kinds : DropAttempt(h, kinds)
    BY <1>17 DEF Timeout, CancelSubscribe
  <2>2. UNCHANGED tx
    BY <1>17 DEF Timeout, CancelSubscribe
  <2> QED
    BY <1>16, <2>1, <2>2
<1>18. CASE DropSubscription(h)
  <2>1. /\ leaked \subseteq leaked' /\ UNCHANGED outgoing_pid
        /\ pc[h] = "waiting" => pid[h] \in leaked'
    BY <1>18 DEF DropSubscription, At
  <2>2. PICK kinds, lock : Drop(h, kinds, lock, tx, ack_status)
    BY <1>18 DEF DropSubscription
  <2> QED
    BY <1>4, <1>10, <2>1, <2>2
<1> QED
  BY <1>8, <1>9, <1>11, <1>14, <1>15, <1>17, <1>18 DEF Proceed, Choose

\* What the stack, the broker and the connection do to the places.
LEMMA PlacesPeerStep ==
  ASSUME Types, PlacesInv, PeerStep
  PROVE  PlacesInv'
<1>0. Flags /\ SharedTypes /\ NetTypes /\ UNCHANGED <<pc, pid>>
  BY PeerFootprint DEF Types, callVars
<1> DEFINE FS == Frames \cup {EmptyFrame}
           DS == Answers \cup Messages
<1>1. tx \in Seq(FS) /\ uplink \in Seq(Requests) /\ downlink \in Seq(DS)
  BY <1>0 DEF NetTypes
<1>2. ack_status \in [Pids -> AckStatus]
  BY <1>0 DEF SharedTypes
\* A request of drop() that waits for its answer goes on waiting, or has it.
<1>3. ASSUME UNCHANGED leaked,
             \A id \in Pids : \/ ack_status'[id] \in {ack_status[id], "none"}
                              \/ ack_status[id] \in {"AwaitingSubAck", "AwaitingUnsubAck"}
                                 /\ ack_status'[id] # "AwaitingDropAck",
             \A id \in Pids : ack_status[id] = "AwaitingDropAck" =>
               \/ ack_status'[id] = "none"
               \/ UnsubQueued(id)'
               \/ connected' # "no" /\ (~link' \/ UnsubSent(id)' \/ UnsubAnswered(id)')
               \/ ~UnsubQueued(id)
                  /\ ~(connected # "no" /\ (~link \/ UnsubSent(id) \/ UnsubAnswered(id))),
             \A id \in outgoing_pid' : id \in outgoing_pid,
             \A id \in outgoing_pid' : \A f \in Elems(tx) : f.pid = id => f \in Elems(tx')
      PROVE  PlacesInv'
  <2>1. WaitsInv'
    BY <1>0, <1>3 DEF PlacesInv, WaitsInv, At
  <2>2. QueuedInv'
    BY <1>3 DEF PlacesInv, QueuedInv
  <2>3. DropsInv'
    BY <1>3 DEF PlacesInv, DropsInv
  <2> QED
    BY <2>1, <2>2, <2>3 DEF PlacesInv
<1> HIDE DEF FS, DS
\* Nothing is taken from the queue or the wire.
<1>4. ASSUME UNCHANGED <<ack_status, outgoing_pid, leaked, tx, uplink>>,
             Elems(downlink) \subseteq Elems(downlink'),
             \/ UNCHANGED <<connected, link>>
             \/ connected = "no"
      PROVE  PlacesInv'
  <2>1. \A id \in Pids : /\ UnsubQueued(id) => UnsubQueued(id)'
                         /\ UnsubSent(id) => UnsubSent(id)'
                         /\ UnsubAnswered(id) => UnsubAnswered(id)'
    BY <1>4 DEF UnsubQueued, UnsubSent, UnsubAnswered
  <2>2. CASE UNCHANGED <<connected, link>>
    BY <1>3, <1>4, <2>1, <2>2
  <2>3. CASE connected = "no"
    BY <1>3, <1>4, <2>1, <2>3
  <2> QED
    BY <1>4, <2>2, <2>3
<1>5. CASE Connect
  BY <1>4, <1>5 DEF Connect
<1>6. CASE ConnackLost \/ BrokerForgets
  BY <1>4, <1>6 DEF ConnackLost, BrokerForgets, sharedVars, netVars
\* The connection goes, and with it the requests; nobody answers until Shared
\* is reset.
<1>7. CASE LinkLost
  <2>1. UNCHANGED <<ack_status, outgoing_pid, leaked, tx, connected>> /\ link' = FALSE
    BY <1>7 DEF LinkLost, CloseLink, sharedVars
  <2>2. \A id \in Pids : UnsubQueued(id) => UnsubQueued(id)'
    BY <2>1 DEF UnsubQueued
  <2>3. ~link'
    BY <2>1
  <2> QED
    BY <1>3, <2>1, <2>2, <2>3
<1>8. CASE StackNotices
  <2>1. /\ ack_status' = [p \in Pids |-> "none"] /\ outgoing_pid' = {}
    BY <1>8 DEF StackNotices, Reset
  <2>2. \A id \in Pids : ack_status'[id] = "none"
    BY <2>1
  <2> QED
    BY <2>1, <2>2 DEF PlacesInv, DropsInv, WaitsInv, QueuedInv
\* The oldest frame is written: its id leaves outgoing_pid, its packet may be
\* on the wire.
<1>9. CASE Transmit
  <2>1. /\ connected # "no" /\ tx # <<>> /\ tx' = Tail(tx)
        /\ uplink' = IF link /\ Head(tx) # EmptyFrame
                     THEN Append(uplink, Head(tx).packet) ELSE uplink
        /\ outgoing_pid' = outgoing_pid \ {Head(tx).pid}
        /\ UNCHANGED <<ack_status, leaked, connected, link, downlink>>
    BY <1>9 DEF Transmit
  <2>2. Elems(tx) = Elems(tx') \cup {Head(tx)} /\ Head(tx) \in FS
    BY <1>1, <2>1, ElemsTail
  <2>3. Head(tx).packet.type = "Unsubscribe" => Head(tx) # EmptyFrame
    BY DEF EmptyFrame, Frame, Packet
  <2>4. Head(tx) # EmptyFrame => Head(tx).packet \in Requests
    BY <2>2 DEF FS, Frames
  <2>5. /\ Elems(uplink) \subseteq Elems(uplink')
        /\ link /\ Head(tx) # EmptyFrame => Head(tx).packet \in Elems(uplink')
    <3>1. CASE link /\ Head(tx) # EmptyFrame
      <4>1. Elems(uplink') = Elems(uplink) \cup {Head(tx).packet}
        BY <1>1, <2>1, <2>4, <3>1, ElemsAppend
      <4> QED
        BY <4>1
    <3>2. CASE ~(link /\ Head(tx) # EmptyFrame)
      BY <2>1, <3>2
    <3> QED
      BY <3>1, <3>2
  <2>6. ASSUME NEW id \in Pids
        PROVE  /\ UnsubQueued(id) => UnsubQueued(id)' \/ ~link' \/ UnsubSent(id)'
               /\ UnsubSent(id) => UnsubSent(id)'
               /\ UnsubAnswered(id) => UnsubAnswered(id)'
    <3>1. UnsubQueued(id) => UnsubQueued(id)' \/ ~link' \/ UnsubSent(id)'
      <4>1. ASSUME UnsubQueued(id), link' PROVE UnsubQueued(id)' \/ UnsubSent(id)'
        <5>1. PICK f \in Elems(tx) : f.packet.type = "Unsubscribe" /\ f.packet.id = id
          BY <4>1 DEF UnsubQueued
        <5>2. CASE f \in Elems(tx')
          BY <5>1, <5>2 DEF UnsubQueued
        <5>3. CASE f = Head(tx)
          BY <2>1, <2>3, <2>5, <4>1, <5>1, <5>3 DEF UnsubSent
        <5> QED
          BY <2>2, <5>2, <5>3
      <4> QED
        BY <4>1
    <3>2. UnsubSent(id) => UnsubSent(id)'
      BY <2>5 DEF UnsubSent
    <3>3. UnsubAnswered(id) => UnsubAnswered(id)'
      BY <2>1 DEF UnsubAnswered
    <3> QED
      BY <3>1, <3>2, <3>3
  <2>7. \A id \in outgoing_pid' : id \in outgoing_pid
    BY <2>1
  <2>8. \A id \in outgoing_pid' : \A f \in Elems(tx) : f.pid = id => f \in Elems(tx')
    BY <2>1, <2>2
  <2>9. UNCHANGED <<ack_status, leaked, connected, link>> /\ connected # "no"
    BY <2>1
  <2> QED
    BY <1>3, <2>6, <2>7, <2>8, <2>9
\* A packet of the broker is handled.
<1>10. ASSUME NEW type, Receive(type), UNCHANGED <<outgoing_pid, leaked, tx, connected, link, uplink>>,
              \A id \in Pids : ack_status'[id] = ack_status[id]
                 \/ (Id = id /\ \/ ack_status[id] \in {"AwaitingSubAck", "AwaitingUnsubAck"}
                                   /\ ack_status'[id] # "AwaitingDropAck"
                                \/ ack_status'[id] = "none"),
              type = "UnsubAck" /\ Id \in Pids /\ ack_status[Id] = "AwaitingDropAck" =>
                ack_status'[Id] = "none"
       PROVE  PlacesInv'
  <2>1. /\ downlink # <<>> /\ Head(downlink).type = type /\ downlink' = Tail(downlink)
    BY <1>10 DEF Receive
  <2>2. Elems(downlink) = Elems(downlink') \cup {Head(downlink)}
    BY <1>1, <2>1, ElemsTail
  <2>3. ASSUME NEW id \in Pids, ack_status[id] = "AwaitingDropAck"
        PROVE  /\ UnsubQueued(id) => UnsubQueued(id)'
               /\ UnsubSent(id) => UnsubSent(id)'
               /\ UnsubAnswered(id) => UnsubAnswered(id)' \/ ack_status'[id] = "none"
    <3>1. UnsubQueued(id) => UnsubQueued(id)'
      BY <1>10 DEF UnsubQueued
    <3>2. UnsubSent(id) => UnsubSent(id)'
      BY <1>10 DEF UnsubSent
    <3>3. ASSUME UnsubAnswered(id) PROVE UnsubAnswered(id)' \/ ack_status'[id] = "none"
      <4>1. PICK p \in Elems(downlink) : p.type = "UnsubAck" /\ p.id = id
        BY <3>3 DEF UnsubAnswered
      <4>2. CASE p \in Elems(downlink')
        BY <4>1, <4>2 DEF UnsubAnswered
      <4>3. CASE p = Head(downlink)
        <5>1. type = "UnsubAck" /\ Id = id
          BY <2>1, <4>1, <4>3 DEF Id
        <5> QED
          BY <1>10, <2>3, <5>1
      <4> QED
        BY <2>2, <4>2, <4>3
    <3> QED
      BY <3>1, <3>2, <3>3
  <2>4. \A id \in Pids : \/ ack_status'[id] \in {ack_status[id], "none"}
                         \/ ack_status[id] \in {"AwaitingSubAck", "AwaitingUnsubAck"}
                            /\ ack_status'[id] # "AwaitingDropAck"
    BY <1>10
  <2>5. /\ \A id \in outgoing_pid' : id \in outgoing_pid
        /\ \A id \in outgoing_pid' : \A f \in Elems(tx) : f.pid = id => f \in Elems(tx')
        /\ UNCHANGED <<leaked, connected, link>>
    BY <1>10
  <2> QED
    BY <1>3, <2>3, <2>4, <2>5
<1>11. CASE HandleSubAck
  <2>1. /\ Receive("SubAck")
        /\ UNCHANGED <<outgoing_pid, leaked, tx, connected, link, uplink>>
        /\ ack_status' = IF ack_status[Id] = "AwaitingSubAck"
                         THEN [ack_status EXCEPT ![Id] = Result] ELSE ack_status
    BY <1>11 DEF HandleSubAck
  <2>2. Result # "AwaitingDropAck"
    BY DEF Result
  <2>3. \A id \in Pids : \/ ack_status'[id] = ack_status[id]
                         \/ /\ Id = id /\ ack_status[id] = "AwaitingSubAck"
                            /\ ack_status'[id] # "AwaitingDropAck"
    BY <1>2, <2>1, <2>2
  <2> QED
    BY <1>10, <2>1, <2>3
<1>12. CASE HandleUnsubAck
  <2>1. /\ Receive("UnsubAck")
        /\ UNCHANGED <<outgoing_pid, leaked, tx, connected, link, uplink>>
        /\ \/ /\ ack_status[Id] = "AwaitingUnsubAck"
              /\ ack_status' = [ack_status EXCEPT ![Id] = Result]
           \/ /\ ack_status[Id] = "AwaitingDropAck"
              /\ ack_status' = [ack_status EXCEPT ![Id] = "none"]
           \/ /\ ack_status[Id] # "AwaitingDropAck"
              /\ ack_status' = ack_status
    BY <1>12 DEF HandleUnsubAck, UnsubAck
  <2>2. Result # "AwaitingDropAck"
    BY DEF Result
  <2>3. \A id \in Pids : \/ ack_status'[id] = ack_status[id]
                         \/ /\ Id = id /\ ack_status[id] = "AwaitingUnsubAck"
                            /\ ack_status'[id] # "AwaitingDropAck"
                         \/ Id = id /\ ack_status'[id] = "none"
    BY <1>2, <2>1, <2>2
  <2>4. Id \in Pids /\ ack_status[Id] = "AwaitingDropAck" => ack_status'[Id] = "none"
    BY <1>2, <2>1
  <2> QED
    BY <1>10, <2>1, <2>3, <2>4
<1>13. CASE HandlePublish
  <2>1. /\ Receive("Publish")
        /\ UNCHANGED <<outgoing_pid, leaked, tx, connected, link, uplink, ack_status>>
    BY <1>13 DEF HandlePublish, sharedVars
  <2> QED
    BY <1>10, <2>1
\* The broker answers a request with its id.
<1>14. CASE BrokerReceive
  <2> DEFINE p == Head(uplink)
  <2>1. /\ uplink # <<>> /\ uplink' = Tail(uplink)
        /\ UNCHANGED <<ack_status, outgoing_pid, leaked, tx, connected, link>>
    BY <1>14 DEF BrokerReceive, sharedVars
  <2>2. p \in Requests /\ Elems(uplink) = Elems(uplink') \cup {p}
    BY <1>1, <2>1, ElemsTail
  <2>3. PICK ok \in BOOLEAN :
          \/ p.type = "Subscribe" /\ downlink' = Append(downlink, Answer("SubAck", p.id, ok))
          \/ p.type = "Unsubscribe" /\ downlink' = Append(downlink, Answer("UnsubAck", p.id, ok))
    BY <1>14 DEF BrokerReceive
  <2> HIDE DEF p
  <2>4. Answer("SubAck", p.id, ok) \in DS /\ Answer("UnsubAck", p.id, ok) \in DS
    BY <2>2, AnswerType DEF DS
  <2>5. /\ Elems(downlink) \subseteq Elems(downlink')
        /\ p.type = "Unsubscribe" => Answer("UnsubAck", p.id, ok) \in Elems(downlink')
    <3>1. \A a \in DS : /\ Elems(downlink) \subseteq Elems(Append(downlink, a))
                        /\ a \in Elems(Append(downlink, a))
      BY <1>1, ElemsAppend
    <3>2. \E a \in DS : /\ downlink' = Append(downlink, a)
                        /\ p.type = "Unsubscribe" => a = Answer("UnsubAck", p.id, ok)
      BY <2>3, <2>4
    <3> QED
      BY <3>1, <3>2
  <2>6. Answer("UnsubAck", p.id, ok).type = "UnsubAck" /\ Answer("UnsubAck", p.id, ok).id = p.id
    BY DEF Answer
  <2>7. \A id \in Pids : /\ UnsubQueued(id) => UnsubQueued(id)'
                         /\ UnsubSent(id) => UnsubSent(id)' \/ UnsubAnswered(id)'
                         /\ UnsubAnswered(id) => UnsubAnswered(id)'
    BY <2>1, <2>2, <2>5, <2>6 DEF UnsubQueued, UnsubSent, UnsubAnswered
  <2> QED
    BY <1>3, <2>1, <2>7
<1>15. ASSUME NEW t \in Topics, BrokerPublish(t) PROVE PlacesInv'
  <2>1. /\ UNCHANGED <<ack_status, outgoing_pid, leaked, tx, uplink, connected, link>>
        /\ \/ downlink' = Append(downlink, Message(t))
           \/ /\ downlink # <<>>
              /\ downlink' = Front(downlink) \o <<Message(t), Last(downlink)>>
    BY <1>15 DEF BrokerPublish, sharedVars
  <2>2. Message(t) \in DS
    BY DEF Message, Messages, DS
  <2>3. CASE downlink' = Append(downlink, Message(t))
    <3>1. Elems(downlink') = Elems(downlink) \cup {Message(t)}
      BY <1>1, <2>2, <2>3, ElemsAppend
    <3> QED
      BY <1>4, <2>1, <3>1
  <2>4. CASE downlink # <<>> /\ downlink' = Front(downlink) \o <<Message(t), Last(downlink)>>
    <3> DEFINE d == Front(downlink) \o <<Message(t), Last(downlink)>>
    <3>0. downlink # <<>> => \A e \in DS :
            Elems(Front(downlink) \o <<e, Last(downlink)>>) = Elems(downlink) \cup {e}
      BY <1>1, ElemsOvertake, SMTT(30)
    <3>1. Elems(d) = Elems(downlink) \cup {Message(t)}
      BY <2>2, <2>4, <3>0
    <3> HIDE DEF d
    <3>2. Elems(downlink') = Elems(d)
      BY <2>4 DEF Elems, d
    <3> QED
      BY <1>4, <2>1, <3>1, <3>2
  <2> QED
    BY <2>1, <2>3, <2>4
<1> QED
  BY <1>5, <1>6, <1>7, <1>8, <1>9, <1>11, <1>12, <1>13, <1>14, <1>15 DEF PeerStep, Select

\* An invariant of the places and the wire, inductive with Types.
LEMMA PlacesInvariance == Spec => []PlacesInv
<1>1. Init => PlacesInv
  <2> SUFFICES ASSUME Init PROVE PlacesInv
    OBVIOUS
  <2>1. outgoing_pid = {} /\ \A id \in Pids : ack_status[id] = "none"
    BY DEF Init
  <2> QED
    BY <2>1 DEF PlacesInv, DropsInv, WaitsInv, QueuedInv
<1>2. Types /\ PlacesInv /\ [Next]_vars => PlacesInv'
  <2> SUFFICES ASSUME Types, PlacesInv, [Next]_vars PROVE PlacesInv'
    OBVIOUS
  <2>1. CASE CallStep
    BY <2>1, PlacesCallStep DEF CallStep
  <2>2. CASE UNCHANGED vars
    BY <2>2 DEF PlacesInv, DropsInv, WaitsInv, QueuedInv, UnsubQueued, UnsubSent,
                UnsubAnswered, At, vars, sharedVars, callVars, netVars
  <2> QED
    BY <2>1, <2>2, PlacesPeerStep, Steps
<1> QED
  BY <1>1, <1>2, TypesInvariance, PTL DEF Spec

\* Every place in ack_status and outgoing_pid is held by a call that waits, by an
\* UNSUBSCRIBE of drop() that is on its way to its answer, or by a queued frame;
\* all others are the leaks that the code has.  For every number of handles,
\* any capacity of the sets and any sequence of faults.
THEOREM PlacesAreAccounted == Spec => []PlacesAccounted
<1>1. Types /\ PlacesInv => PlacesAccounted
  <2> SUFFICES ASSUME Types, PlacesInv PROVE PlacesAccounted
    OBVIOUS
  <2>0. SharedTypes /\ NetTypes /\ TypeOK
    BY TypesImplyTypeOK DEF Types
  <2>1. DOMAIN tx = 1..Len(tx) /\ DOMAIN uplink = 1..Len(uplink)
        /\ DOMAIN downlink = 1..Len(downlink)
    BY <2>0, LenProperties DEF NetTypes
  <2>2. ASSUME NEW id \in Pids, UnsubQueued(id) \/ UnsubSent(id) \/ UnsubAnswered(id)
        PROVE  OnItsWay(id)
    BY <2>1, <2>2 DEF OnItsWay, UnsubQueued, UnsubSent, UnsubAnswered, Elems
  <2>3. \A id \in outgoing_pid \ leaked : \E i \in DOMAIN tx : tx[i].pid = id
    BY <2>1 DEF PlacesInv, QueuedInv, Elems
  <2>4. \A id \in Pids \ leaked :
          ack_status[id] = "AwaitingDropAck" => OnItsWay(id) \/ ~link
    BY <2>2 DEF PlacesInv, DropsInv
  <2> QED
    BY <2>0, <2>3, <2>4 DEF PlacesAccounted, PlacesInv, WaitsInv
<1> QED
  BY <1>1, TypesInvariance, PlacesInvariance, PTL

-----------------------------------------------------------------------------
(* Requests and their answers *)

\* The first 2^16 - 2 packet ids: until then no id comes back.  (An id that a
\* drop() could not take is 1, which NextPid() yields only after that.)
BeforeWrap == last_pid < PidMax

\* Nobody else has the id of a handle.
OwnIds ==
  /\ \A h \in Handles : pid[h] = 0 \/ pid[h] \in 2..last_pid
  /\ \A g, h \in Handles : pid[g] = pid[h] /\ pid[h] # 0 => g = h

\* No id is on its way before it was taken.
WireIds ==
  /\ \A f \in Elems(tx) : f.packet.id \in 0..last_pid
  /\ \A p \in Elems(uplink) : p.id \in 0..last_pid
  /\ \A p \in Elems(downlink) : p.type # "Publish" => p.id \in 0..last_pid

\* Nothing is on its way with the id of h.
Unused(h) ==
  /\ \A f \in Elems(tx) : f.packet.id # pid[h]
  /\ \A p \in Elems(uplink) : p.id # pid[h]
  /\ \A p \in Elems(downlink) : p.type # "Publish" => p.id # pid[h]

\* What the handle sends, and the packet that answers it.
Request(h) == Packet(op[h], pid[h], filters[h])
AckType(h) == IF op[h] = "Subscribe" THEN "SubAck" ELSE "UnsubAck"
Awaiting(h) == IF op[h] = "Subscribe" THEN "AwaitingSubAck" ELSE "AwaitingUnsubAck"

\* What is on its way with the id of h is its request or the answer to it, and
\* wait_tx() no longer waits for a frame that was written.
Ours(h) ==
  /\ \A f \in Elems(tx) : f.packet.id = pid[h] => f = Frame(pid[h], Request(h))
  /\ \A p \in Elems(uplink) : p.id = pid[h] => p = Request(h) /\ pid[h] \notin outgoing_pid
  /\ \A p \in Elems(downlink) : p.type # "Publish" /\ p.id = pid[h] =>
       p.type = AckType(h) /\ pid[h] \notin outgoing_pid

\* The request of h, or its answer, is on its way.
Coming(h) ==
  \/ \E f \in Elems(tx) : f.packet.id = pid[h]
  \/ \E p \in Elems(uplink) : p.id = pid[h]
  \/ \E p \in Elems(downlink) : p.type # "Publish" /\ p.id = pid[h]

\* Ids are used once.
RequestInv ==
  /\ OwnIds /\ WireIds
  /\ \A h \in Handles : pc[h] \in {"locking", "granting"} => Unused(h)
  /\ \A h \in Handles : pc[h] = "waiting" => Ours(h)

\* While the first connection lasts it carries data.
LastsInv == losses = 0 /\ connected # "no" => link

\* A call that waits has its answer, or waits for it with reason.
AnswerInv ==
  losses = 0 => \A h \in Handles : pc[h] = "waiting" =>
    \/ Answered(h)
    \/ Coming(h) /\ ack_status[pid[h]] = Awaiting(h)

\* A frame that a step of h queues: its request, the UNSUBSCRIBE of its drop()
\* with a fresh id or the id 1, or what a dropped grant leaves.
NewFrame(h, f) ==
  \/ f = EmptyFrame
  \/ pc'[h] = "waiting" /\ f = Frame(pid[h], Request(h))
  \/ /\ pc'[h] = "dropped" /\ f.pid = 0
     /\ f.packet.type = "Unsubscribe" /\ f.packet.filters = filters[h]
     /\ f.packet.id = 1 \/ (f.packet.id = last_pid + 1 /\ last_pid' = last_pid + 1)

\* Before the ids wrap around, the next one is new.
LEMMA NextPidBeforeWrap ==
  ASSUME last_pid \in Pids, BeforeWrap
  PROVE  /\ NextPid(last_pid) = last_pid + 1
         /\ last_pid \in Nat /\ last_pid >= 1
BY PidMaxAssumption DEF BeforeWrap, NextPid, Pids

\* The Drop of a Subscription that finds the channel continued by `frames`.
LEMMA DropQueues ==
  ASSUME CallTypes, NetTypes, last_pid \in Pids, BeforeWrap,
         NEW h \in Handles, NEW kinds, NEW lock, NEW status \in [Pids -> AckStatus],
         NEW frames \in Seq(Frames \cup {EmptyFrame}),
         Continues(frames, tx), \A f \in Added(tx, frames) : NewFrame(h, f),
         Drop(h, kinds, lock, frames, status)
  PROVE  /\ Continues(tx', tx) /\ \A f \in Added(tx, tx') : NewFrame(h, f)
         /\ last_pid' \in {last_pid, last_pid + 1}
         /\ \A id \in Pids \ {1, last_pid + 1} : ack_status'[id] = status[id]
         /\ \A id \in Pids : ack_status'[id] = "Acked" => status[id] = "Acked"
         /\ pc' = [pc EXCEPT ![h] = "dropped"] /\ UNCHANGED <<pid, op, filters>>
<1> DEFINE FS == Frames \cup {EmptyFrame}
<1>1. NextPid(last_pid) = last_pid + 1
  BY NextPidBeforeWrap
<1>2. /\ last_pid' \in {last_pid, last_pid + 1}
      /\ pc' = [pc EXCEPT ![h] = "dropped"] /\ UNCHANGED <<pid, op, filters>>
  BY <1>1, DropEffect DEF Leave, Goto
<1>3. pc'[h] = "dropped"
  BY <1>2 DEF CallTypes
<1>4. CASE tx' = frames /\ ack_status' = status
  BY <1>2, <1>4
<1>5. ASSUME NEW id \in Pids,
             \/ id = NextPid(last_pid) /\ last_pid' = id
             \/ id = 1 /\ last_pid' = last_pid,
             tx' = Append(frames, Frame(0, Packet("Unsubscribe", id, filters[h]))),
             ack_status' \in {status, [status EXCEPT ![id] = "AwaitingDropAck"]}
      PROVE  /\ Continues(tx', tx) /\ \A f \in Added(tx, tx') : NewFrame(h, f)
             /\ \A p \in Pids \ {1, last_pid + 1} : ack_status'[p] = status[p]
             /\ \A p \in Pids : ack_status'[p] = "Acked" => status[p] = "Acked"
  <2> DEFINE f == Frame(0, Packet("Unsubscribe", id, filters[h]))
  <2>1. f \in FS /\ tx' = Append(frames, f)
    BY <1>5, DropFrameType
  <2>2. /\ f.pid = 0 /\ f.packet.type = "Unsubscribe" /\ f.packet.id = id
        /\ f.packet.filters = filters[h]
    BY DEF Frame, Packet
  <2> HIDE DEF f
  <2>3. NewFrame(h, f)
    BY <1>1, <1>3, <1>5, <2>2 DEF NewFrame
  <2>4. tx \in Seq(FS) /\ frames \in Seq(FS)
    BY DEF NetTypes
  <2> HIDE DEF FS
  <2>5. Continues(Append(frames, f), tx) /\ Added(tx, Append(frames, f)) = Added(tx, frames) \cup {f}
    BY <2>1, <2>4, AddedAppend
  <2>6. /\ \A p \in Pids \ {1, last_pid + 1} : ack_status'[p] = status[p]
        /\ \A p \in Pids : ack_status'[p] = "Acked" => status[p] = "Acked"
    BY <1>1, <1>5
  <2> QED
    BY <2>1, <2>3, <2>5, <2>6
<1>6. \/ tx' = frames /\ ack_status' = status
      \/ \E id \in Pids :
           /\ \/ id = NextPid(last_pid) /\ last_pid' = id
              \/ id = 1 /\ last_pid' = last_pid
           /\ tx' = Append(frames, Frame(0, Packet("Unsubscribe", id, filters[h])))
           /\ ack_status' \in {status, [status EXCEPT ![id] = "AwaitingDropAck"]}
  BY DropEffect
<1> QED
  BY <1>2, <1>4, <1>5, <1>6

\* What a step of a handle does to the ids, the channel and Shared: its own id
\* and a fresh one apart, nothing.
CallDoes(h) ==
  /\ last_pid' \in {last_pid, last_pid + 1}
  /\ Continues(tx', tx) /\ \A f \in Added(tx, tx') : NewFrame(h, f)
  /\ \A g \in Handles \ {h} : /\ pc'[g] = pc[g] /\ pid'[g] = pid[g]
                              /\ op'[g] = op[g] /\ filters'[g] = filters[g]
  /\ \A id \in Pids \ {pid[h]} : id \in outgoing_pid' => id \in outgoing_pid
  /\ \A id \in Pids \ {1, last_pid + 1, pid[h]} : ack_status'[id] = ack_status[id]
  /\ \A id \in Pids : ack_status'[id] = "Acked" => ack_status[id] = "Acked"
  /\ op'[h] = op[h] \/ (op'[h] = "Unsubscribe" /\ pc[h] \in Alive /\ pc'[h] = "connecting")
  /\ filters'[h] = filters[h] \/ (pc[h] = "new" /\ pc'[h] \in {"connecting", "failed"})
  /\ \/ pc'[h] \notin {"locking", "granting", "waiting"} /\ UNCHANGED pid
     \/ /\ pc[h] = "connecting" /\ pc'[h] = "locking"
        /\ pid' = [pid EXCEPT ![h] = last_pid + 1]
        /\ last_pid' = last_pid + 1
        /\ op[h] = "Subscribe" => connected # "no"
        /\ UNCHANGED <<tx, ack_status>>
     \/ /\ pc[h] = "locking" /\ pc'[h] = "granting"
        /\ UNCHANGED <<tx, pid, ack_status>>
     \/ Enqueue(h) /\ pc[h] \in {"locking", "granting"} /\ pc'[h] = "waiting"

\* That is what its steps do.
LEMMA CallEffect ==
  ASSUME Types, BeforeWrap, NEW h \in Handles, Proceed(h) \/ Choose(h)
  PROVE  CallDoes(h)
<1> DEFINE FS == Frames \cup {EmptyFrame}
<1> USE DEF CallDoes
<1>0. SharedTypes /\ CallTypes /\ NetTypes /\ last_pid \in Pids
  BY DEF Types, SharedTypes
<1>1. NextPid(last_pid) = last_pid + 1
  BY <1>0, NextPidBeforeWrap
<1>2. /\ tx \in Seq(FS) /\ EmptyFrame \in FS
      /\ ack_status \in [Pids -> AckStatus]
  BY <1>0 DEF NetTypes, SharedTypes
<1>3. \A g \in Handles \ {h} : pc'[g] = pc[g] /\ pid'[g] = pid[g]
  BY <1>0, OthersStay
<1> HIDE DEF FS
<1>4. Continues(tx, tx) /\ Added(tx, tx) = {}
  BY <1>2, AddedElems
<1>5. /\ Append(tx, EmptyFrame) \in Seq(FS) /\ Continues(Append(tx, EmptyFrame), tx)
      /\ Added(tx, Append(tx, EmptyFrame)) = {EmptyFrame}
  BY <1>2, <1>4, AddedAppend, AppendProperties
<1>6. NewFrame(h, EmptyFrame)
  BY DEF NewFrame
<1>7. UNCHANGED tx => Continues(tx', tx) /\ \A f \in Added(tx, tx') : NewFrame(h, f)
  BY <1>4
<1>8. CASE \E F \in FilterSets[h] : Start(h, F)
  <2>1. /\ UNCHANGED <<last_pid, tx, outgoing_pid, ack_status, op, pid>>
        /\ pc[h] = "new" /\ pc'[h] \in {"connecting", "failed"}
        /\ \A g \in Handles \ {h} : filters'[g] = filters[g]
    BY <1>0, <1>8 DEF Start, At, Goto, sharedVars, CallTypes
  <2> QED
    BY <1>3, <1>7, <2>1
<1>9. CASE StartUnsubscribe(h) \/ PollNext(h)
  <2>1. /\ UNCHANGED <<last_pid, tx, outgoing_pid, ack_status, filters, pid>>
        /\ pc'[h] \notin {"locking", "granting", "waiting"}
        /\ \A g \in Handles \ {h} : op'[g] = op[g]
        /\ op'[h] = op[h] \/ (op'[h] = "Unsubscribe" /\ pc[h] \in Alive /\ pc'[h] = "connecting")
    BY <1>0, <1>9 DEF StartUnsubscribe, PollNext, At, Goto, sharedVars, CallTypes, Alive
  <2> QED
    BY <1>3, <1>7, <2>1
<1>10. CASE TakePid(h)
  <2>1. /\ UNCHANGED <<tx, outgoing_pid, ack_status, op, filters>>
        /\ last_pid' = last_pid + 1 /\ pid' = [pid EXCEPT ![h] = last_pid + 1]
        /\ op[h] = "Subscribe" => connected # "no"
        /\ pc[h] = "connecting" /\ pc'[h] = "locking"
    BY <1>0, <1>1, <1>10 DEF TakePid, At, Goto, CallTypes
  <2> QED
    BY <1>3, <1>7, <2>1
<1>11. CASE LockPublisher(h)
  <2>1. /\ UNCHANGED <<last_pid, tx, outgoing_pid, ack_status, op, filters, pid>>
        /\ pc[h] = "locking" /\ pc'[h] = "granting"
    BY <1>0, <1>11 DEF LockPublisher, At, Goto, CallTypes, sharedVars
  <2> QED
    BY <1>3, <1>7, <2>1
<1>12. CASE Enqueue(h)
  <2> DEFINE f == Frame(pid[h], Request(h))
  <2>1. /\ UNCHANGED <<last_pid, op, filters, pid>> /\ tx' = Append(tx, f)
        /\ outgoing_pid' = outgoing_pid \cup {pid[h]}
        /\ pc[h] \in {"locking", "granting"} /\ pc'[h] = "waiting" /\ pid[h] \in Pids
        /\ \A id \in Pids \ {pid[h]} : ack_status'[id] = ack_status[id]
        /\ ack_status'[pid[h]] # "Acked"
    BY <1>0, <1>2, <1>12 DEF Enqueue, Granted, At, Goto, CallTypes, Request
  <2>2. f \in FS
    BY <1>0, <2>1 DEF CallTypes, Frame, Packet, Frames, Requests, FS, Request
  <2> HIDE DEF f
  <2>3. NewFrame(h, f)
    BY <2>1 DEF NewFrame, f
  <2>4. Continues(Append(tx, f), tx) /\ Added(tx, Append(tx, f)) = {f}
    BY <1>2, <1>4, <2>2, AddedAppend
  <2>5. Continues(tx', tx) /\ \A g \in Added(tx, tx') : NewFrame(h, g)
    BY <2>1, <2>3, <2>4
  <2> QED
    BY <1>3, <1>12, <2>1, <2>5
\* The calls that end in Drop.
<1>13. ASSUME NEW kinds, NEW lock, NEW frames \in {tx, Append(tx, EmptyFrame)},
              NEW status \in {ack_status, AnswerTaken(h)},
              Drop(h, kinds, lock, frames, status),
              outgoing_pid' \subseteq outgoing_pid \cup {pid[h]}
       PROVE  CallDoes(h)
  <2>1. frames \in Seq(FS) /\ Continues(frames, tx) /\ \A f \in Added(tx, frames) : NewFrame(h, f)
    BY <1>2, <1>4, <1>5, <1>6
  <2>2. /\ status \in [Pids -> AckStatus]
        /\ \A id \in Pids \ {pid[h]} : status[id] = ack_status[id]
        /\ \A id \in Pids : status[id] = "Acked" => ack_status[id] = "Acked"
    BY <1>2 DEF AnswerTaken, AckStatus
  <2>3. /\ Continues(tx', tx) /\ \A f \in Added(tx, tx') : NewFrame(h, f)
        /\ last_pid' \in {last_pid, last_pid + 1}
        /\ \A id \in Pids \ {1, last_pid + 1} : ack_status'[id] = status[id]
        /\ \A id \in Pids : ack_status'[id] = "Acked" => status[id] = "Acked"
        /\ pc' = [pc EXCEPT ![h] = "dropped"] /\ UNCHANGED <<pid, op, filters>>
    <3>1. frames \in Seq(Frames \cup {EmptyFrame})
      BY <2>1 DEF FS
    <3> QED
      BY <1>0, <1>13, <2>1, <2>2, <3>1, DropQueues, Zenon
  <2>4. pc'[h] = "dropped"
    BY <1>0, <2>3 DEF CallTypes
  <2>5. /\ \A id \in Pids \ {1, last_pid + 1, pid[h]} : ack_status'[id] = ack_status[id]
        /\ \A id \in Pids : ack_status'[id] = "Acked" => ack_status[id] = "Acked"
    BY <2>2, <2>3
  <2> QED
    BY <1>3, <1>13, <2>3, <2>4, <2>5
\* The calls that do not.
<1>14. ASSUME UNCHANGED <<last_pid, op, filters, pid>>,
              tx' \in {tx, Append(tx, EmptyFrame)},
              outgoing_pid' \subseteq outgoing_pid \cup {pid[h]},
              ack_status' \in {ack_status, AnswerTaken(h)},
              pc'[h] \notin {"locking", "granting", "waiting"}
       PROVE  CallDoes(h)
  <2>1. Continues(tx', tx) /\ \A f \in Added(tx, tx') : NewFrame(h, f)
    <3>1. CASE tx' = tx
      BY <1>7, <3>1
    <3>2. CASE tx' = Append(tx, EmptyFrame)
      BY <1>5, <1>6, <3>2
    <3> QED
      BY <1>14, <3>1, <3>2
  <2>2. /\ \A id \in Pids \ {pid[h]} : ack_status'[id] = ack_status[id]
        /\ \A id \in Pids : ack_status'[id] = "Acked" => ack_status[id] = "Acked"
    BY <1>2, <1>14 DEF AnswerTaken
  <2> QED
    BY <1>3, <1>14, <2>1, <2>2
<1>15. Retry(h) => pc'[h] \in {"connecting", "failed"}
  BY <1>0 DEF Retry, Leave, Goto, CallTypes
<1>16. CASE EnqueueFails(h)
  <2>1. outgoing_pid' \subseteq outgoing_pid \cup {pid[h]}
    BY <1>16 DEF EnqueueFails
  <2>2. CASE op[h] = "Subscribe"
    <3>1. /\ tx' = Append(tx, EmptyFrame) /\ UNCHANGED <<last_pid, op, filters, pid, ack_status>>
          /\ pc'[h] \in {"connecting", "failed"}
      BY <1>15, <1>16, <2>2 DEF EnqueueFails
    <3> QED
      BY <1>14, <2>1, <3>1
  <2>3. CASE op[h] # "Subscribe"
    <3>1. Drop(h, {}, NoHandle, Append(tx, EmptyFrame), ack_status)
      BY <1>16, <2>3 DEF EnqueueFails
    <3> QED
      BY <1>13, <2>1, <3>1
  <2> QED
    BY <2>2, <2>3
<1>17. CASE SubscribeAcked(h)
  <2>1. /\ UNCHANGED <<last_pid, op, filters, pid, tx, outgoing_pid>>
        /\ ack_status' = AnswerTaken(h)
        /\ pc'[h] \in {"connecting", "failed", "active"}
    BY <1>0, <1>15, <1>17 DEF SubscribeAcked, Goto, Leave, CallTypes
  <2> QED
    BY <1>14, <2>1
<1>18. CASE UnsubscribeAcked(h)
  <2>1. UNCHANGED outgoing_pid
    BY <1>18 DEF UnsubscribeAcked
  <2>2. CASE Drop(h, {}, tx_publisher, tx, AnswerTaken(h))
    BY <1>13, <2>1, <2>2
  <2>3. CASE /\ ack_status' = AnswerTaken(h) /\ Leave(h, "unsubscribed")
             /\ UNCHANGED <<last_pid, op, filters, pid, tx>>
    <3>1. pc'[h] = "unsubscribed"
      BY <1>0, <2>3 DEF Leave, Goto, CallTypes
    <3> QED
      BY <1>14, <2>1, <2>3, <3>1
  <2> QED
    BY <1>18, <2>2, <2>3 DEF UnsubscribeAcked
<1>19. CASE Timeout(h) \/ CancelSubscribe(h)
  <2>1. /\ UNCHANGED <<last_pid, op, filters, pid, tx>>
        /\ pc'[h] \in {"connecting", "failed"}
    BY <1>0, <1>15, <1>19 DEF Timeout, CancelSubscribe, Leave, Goto, CallTypes
  <2>2. PICK kinds : DropAttempt(h, kinds)
    BY <1>19 DEF Timeout, CancelSubscribe
  <2>3. outgoing_pid' \subseteq outgoing_pid /\ ack_status' \in {ack_status, AnswerTaken(h)}
    BY <2>2 DEF DropAttempt, OnDrop, AnswerTaken
  <2> QED
    BY <1>14, <2>1, <2>3
<1>20. CASE DropSubscription(h)
  <2>1. UNCHANGED outgoing_pid
    BY <1>20 DEF DropSubscription
  <2>2. PICK kinds, lock : Drop(h, kinds, lock, tx, ack_status)
    BY <1>20 DEF DropSubscription
  <2> QED
    BY <1>13, <2>1, <2>2
<1> QED
  BY <1>8, <1>9, <1>10, <1>11, <1>12, <1>16, <1>17, <1>18, <1>19, <1>20 DEF Proceed, Choose

\* The answer to a request, with whether the broker carried it out.
AnswerTo(q, p) ==
  /\ p.id = q.id
  /\ \/ /\ q.type = "Subscribe" /\ p.type = "SubAck"
        /\ p.ok => q.filters \subseteq subscribed'
     \/ /\ q.type = "Unsubscribe" /\ p.type = "UnsubAck"
        /\ p.ok => q.filters \cap subscribed' = {}

\* What a handler makes of the answer p in ack_status.
Takes(p) ==
  /\ \/ p.type = "SubAck" /\ ack_status[p.id] = "AwaitingSubAck"
     \/ p.type = "UnsubAck" /\ ack_status[p.id] = "AwaitingUnsubAck"
  /\ ack_status'[p.id] = IF p.ok THEN "Acked" ELSE "Refused"

\* The connection is gone, or goes in this step.
Breaks == (~link /\ connected # "no") \/ losses' # losses

\* What a step of the stack, the broker or the connection does: requests go from
\* the channel to the broker and come back as answers, none of them lost before
\* a connection is, and a handler changes only what an answer is for.
PeerDoes ==
  /\ Elems(tx') \subseteq Elems(tx)
  /\ outgoing_pid' \subseteq outgoing_pid
  /\ \A p \in Elems(uplink') :
       \/ p \in Elems(uplink)
       \/ \E f \in Elems(tx) : f # EmptyFrame /\ p = f.packet /\ f.pid \notin outgoing_pid'
  /\ \A p \in Elems(downlink') :
       \/ p \in Elems(downlink) \/ p.type = "Publish"
       \/ \E q \in Elems(uplink) : AnswerTo(q, p) /\ q = Head(uplink) /\ uplink' = Tail(uplink)
  /\ \A f \in Elems(tx) :
       f \in Elems(tx') \/ f = EmptyFrame \/ f.packet \in Elems(uplink') \/ Breaks
  /\ \A q \in Elems(uplink) :
       q \in Elems(uplink') \/ (\E p \in Elems(downlink') : AnswerTo(q, p)) \/ Breaks
  /\ \A p \in Elems(downlink) :
       \/ p \in Elems(downlink') \/ p.type = "Publish" \/ Breaks
       \/ ack_status[p.id] \notin {"AwaitingSubAck", "AwaitingUnsubAck"} \/ Takes(p)
       \/ p.type = "SubAck" /\ ack_status[p.id] = "AwaitingUnsubAck"
       \/ p.type = "UnsubAck" /\ ack_status[p.id] = "AwaitingSubAck"
  /\ \A id \in Pids :
       \/ ack_status'[id] = ack_status[id]
       \/ ack_status'[id] = "none" /\ (Breaks \/ ack_status[id] = "AwaitingDropAck")
       \/ \E p \in Elems(downlink) : p.type # "Publish" /\ p.id = id /\ Takes(p)

\* That is what their steps do.
LEMMA PeerEffect ==
  ASSUME Types, PeerStep
  PROVE  PeerDoes
<1> DEFINE FS == Frames \cup {EmptyFrame}
           DS == Answers \cup Messages
<1>0. Flags /\ SharedTypes /\ NetTypes
  BY DEF Types
<1>1. tx \in Seq(FS) /\ uplink \in Seq(Requests) /\ downlink \in Seq(DS)
  BY <1>0 DEF NetTypes
<1>2. ack_status \in [Pids -> AckStatus]
  BY <1>0 DEF SharedTypes
<1> HIDE DEF FS, DS
<1>3. ASSUME UNCHANGED <<tx, uplink, ack_status, outgoing_pid>>,
             Elems(downlink) \subseteq Elems(downlink'),
             \A p \in Elems(downlink') : p \in Elems(downlink) \/ p.type = "Publish"
      PROVE  PeerDoes
  BY <1>3 DEF PeerDoes
<1>4. CASE Connect \/ ConnackLost \/ BrokerForgets
  <2>1. UNCHANGED <<tx, uplink, downlink, ack_status, outgoing_pid>>
    BY <1>4 DEF Connect, ConnackLost, BrokerForgets, sharedVars, netVars
  <2> QED
    BY <1>3, <2>1
<1>5. ASSUME NEW t \in Topics, BrokerPublish(t) PROVE PeerDoes
  <2>1. /\ UNCHANGED <<ack_status, outgoing_pid, tx, uplink>>
        /\ \/ downlink' = Append(downlink, Message(t))
           \/ /\ downlink # <<>>
              /\ downlink' = Front(downlink) \o <<Message(t), Last(downlink)>>
    BY <1>5 DEF BrokerPublish, sharedVars
  <2>2. Message(t) \in DS /\ Message(t).type = "Publish"
    BY DEF Message, Messages, DS
  <2>3. Elems(downlink') = Elems(downlink) \cup {Message(t)}
    <3>1. CASE downlink' = Append(downlink, Message(t))
      BY <1>1, <2>2, <3>1, ElemsAppend
    <3>2. CASE downlink # <<>> /\ downlink' = Front(downlink) \o <<Message(t), Last(downlink)>>
      <4> DEFINE d == Front(downlink) \o <<Message(t), Last(downlink)>>
      <4>0. downlink # <<>> => \A e \in DS :
              Elems(Front(downlink) \o <<e, Last(downlink)>>) = Elems(downlink) \cup {e}
        BY <1>1, ElemsOvertake, SMTT(30)
      <4>1. Elems(d) = Elems(downlink) \cup {Message(t)}
        BY <2>2, <3>2, <4>0
      <4> HIDE DEF d
      <4>2. Elems(downlink') = Elems(d)
        BY <3>2 DEF Elems, d
      <4> QED
        BY <4>1, <4>2
    <3> QED
      BY <2>1, <3>1, <3>2
  <2> QED
    BY <1>3, <2>1, <2>2, <2>3
<1>6. CASE LinkLost
  <2>1. /\ UNCHANGED <<ack_status, outgoing_pid, tx>> /\ losses' = losses + 1
        /\ uplink' = <<>> /\ downlink' = <<>>
    BY <1>6 DEF LinkLost, CloseLink, sharedVars
  <2>2. Elems(uplink') = {} /\ Elems(downlink') = {}
    BY <2>1, ElemsEmpty
  <2>3. losses' # losses
    BY <2>1 DEF Types, BudgetTypes
  <2> QED
    BY <2>1, <2>2, <2>3 DEF PeerDoes, Breaks
<1>7. CASE StackNotices
  <2>1. /\ ack_status' = [p \in Pids |-> "none"] /\ outgoing_pid' = {}
        /\ connected # "no" /\ ~link
        /\ uplink' = <<>> /\ downlink' = <<>>
        /\ tx' = tx \/ (tx # <<>> /\ tx' = Tail(tx))
    BY <1>7 DEF StackNotices, Reset, CloseLink
  <2>2. Elems(uplink') = {} /\ Elems(downlink') = {}
    BY <2>1, ElemsEmpty
  <2>3. Elems(tx') \subseteq Elems(tx)
    BY <1>1, <2>1, ElemsTail, ZenonT(60)
  <2>4. Breaks
    BY <2>1 DEF Breaks
  <2> QED
    BY <2>1, <2>2, <2>3, <2>4 DEF PeerDoes
<1>8. CASE Transmit
  <2>1. /\ tx # <<>> /\ tx' = Tail(tx) /\ connected # "no"
        /\ uplink' = IF link /\ Head(tx) # EmptyFrame
                     THEN Append(uplink, Head(tx).packet) ELSE uplink
        /\ outgoing_pid' = outgoing_pid \ {Head(tx).pid}
        /\ UNCHANGED <<ack_status, downlink>>
    BY <1>8 DEF Transmit
  <2>2. Elems(tx) = Elems(tx') \cup {Head(tx)} /\ Head(tx) \in FS
    BY <1>1, <2>1, ElemsTail
  <2>3. CASE link /\ Head(tx) # EmptyFrame
    <3>1. Head(tx).packet \in Requests
      BY <2>2, <2>3 DEF FS, Frames
    <3>2. Elems(uplink') = Elems(uplink) \cup {Head(tx).packet}
      BY <1>1, <2>1, <2>3, <3>1, ElemsAppend
    <3> QED
      BY <2>1, <2>2, <2>3, <3>2 DEF PeerDoes
  <2>4. CASE ~(link /\ Head(tx) # EmptyFrame)
    <3>1. uplink' = uplink /\ (Head(tx) = EmptyFrame \/ Breaks)
      BY <2>1, <2>4 DEF Breaks
    <3> QED
      BY <2>1, <2>2, <3>1 DEF PeerDoes
  <2> QED
    BY <2>3, <2>4
<1>9. CASE BrokerReceive
  <2> DEFINE q == Head(uplink)
  <2>1. /\ uplink # <<>> /\ uplink' = Tail(uplink)
        /\ UNCHANGED <<ack_status, outgoing_pid, tx>>
    BY <1>9 DEF BrokerReceive, sharedVars
  <2>2. q \in Requests /\ Elems(uplink) = Elems(uplink') \cup {q}
    BY <1>1, <2>1, ElemsTail
  <2>3. PICK done \in SUBSET q.filters :
          \/ /\ q.type = "Subscribe" /\ subscribed' = subscribed \cup done
             /\ downlink' = Append(downlink, Answer("SubAck", q.id, done = q.filters))
          \/ /\ q.type = "Unsubscribe" /\ subscribed' = subscribed \ done
             /\ downlink' = Append(downlink, Answer("UnsubAck", q.id, done = q.filters))
    BY <1>9 DEF BrokerReceive
  <2> HIDE DEF q
  <2>4. PICK a \in DS : downlink' = Append(downlink, a) /\ AnswerTo(q, a)
    <3>0. (done = q.filters) \in BOOLEAN
      OBVIOUS
    <3> DEFINE A(type) == Answer(type, q.id, done = q.filters)
    <3>1. A("SubAck") \in DS /\ A("UnsubAck") \in DS
      BY <2>2, <3>0, AnswerType DEF DS
    <3>2. \A type : A(type).type = type /\ A(type).id = q.id /\ A(type).ok = (done = q.filters)
      BY DEF Answer
    <3> HIDE DEF A
    <3>3. CASE q.type = "Subscribe" /\ subscribed' = subscribed \cup done /\ downlink' = Append(downlink, A("SubAck"))
      <4>1. AnswerTo(q, A("SubAck"))
        BY <3>2, <3>3 DEF AnswerTo
      <4> QED
        BY <3>1, <3>3, <4>1
    <3>4. CASE q.type = "Unsubscribe" /\ subscribed' = subscribed \ done /\ downlink' = Append(downlink, A("UnsubAck"))
      <4>1. AnswerTo(q, A("UnsubAck"))
        BY <3>2, <3>4 DEF AnswerTo
      <4> QED
        BY <3>1, <3>4, <4>1
    <3> QED
      BY <2>3, <3>3, <3>4 DEF A
  <2>5. Elems(downlink') = Elems(downlink) \cup {a}
    BY <1>1, <2>4, ElemsAppend
  <2>6. q \in Elems(uplink) /\ a \in Elems(downlink') /\ q = Head(uplink)
    BY <2>2, <2>5 DEF q
  <2> QED
    BY <2>1, <2>2, <2>4, <2>5, <2>6 DEF PeerDoes
\* The handlers.
<1>10. ASSUME NEW type, Receive(type), UNCHANGED <<outgoing_pid, tx, uplink>>,
              LET p == Head(downlink)
              IN  \/ /\ type \in {"SubAck", "UnsubAck"} /\ Takes(p) /\ p.id \in Pids
                     /\ \A id \in Pids \ {p.id} : ack_status'[id] = ack_status[id]
                  \/ /\ ack_status[p.id] = "AwaitingDropAck"
                     /\ \A id \in Pids : ack_status'[id] \in {ack_status[id], "none"}
                     /\ \A id \in Pids \ {p.id} : ack_status'[id] = ack_status[id]
                  \/ /\ UNCHANGED ack_status
                     /\ type = "SubAck" => ack_status[p.id] # "AwaitingSubAck"
                     /\ type = "UnsubAck" => ack_status[p.id] # "AwaitingUnsubAck"
       PROVE  PeerDoes
  <2> DEFINE p == Head(downlink)
  <2>1. /\ downlink # <<>> /\ p.type = type /\ downlink' = Tail(downlink)
    BY <1>10 DEF Receive
  <2>2. Elems(downlink) = Elems(downlink') \cup {p} /\ p \in DS
    BY <1>1, <2>1, ElemsTail
  <2>3. p.type \in {"SubAck", "UnsubAck", "Publish"}
    BY <2>2 DEF DS, Answers, Messages
  <2>4. CASE /\ type \in {"SubAck", "UnsubAck"} /\ Takes(p) /\ p.id \in Pids
             /\ \A id \in Pids \ {p.id} : ack_status'[id] = ack_status[id]
    <3> HIDE DEF p
    <3> QED
      BY <1>10, <2>1, <2>2, <2>4 DEF PeerDoes
  <2>5. CASE /\ ack_status[p.id] = "AwaitingDropAck"
             /\ \A id \in Pids : ack_status'[id] \in {ack_status[id], "none"}
             /\ \A id \in Pids \ {p.id} : ack_status'[id] = ack_status[id]
    <3> HIDE DEF p
    <3> QED
      BY <1>10, <2>1, <2>2, <2>5 DEF PeerDoes
  <2>6. CASE /\ UNCHANGED ack_status
             /\ type = "SubAck" => ack_status[p.id] # "AwaitingSubAck"
             /\ type = "UnsubAck" => ack_status[p.id] # "AwaitingUnsubAck"
    <3> HIDE DEF p
    <3> QED
      BY <1>10, <2>1, <2>2, <2>3, <2>6 DEF PeerDoes
  <2> QED
    BY <1>10, <2>4, <2>5, <2>6
<1>11. downlink # <<>> => Head(downlink) \in DS
  BY <1>1, ElemsTail
<1>12. downlink # <<>> /\ Head(downlink).type \in {"SubAck", "UnsubAck"} => Id \in Pids
  BY <1>11 DEF DS, Answers, Messages, Id
<1>13. CASE HandleSubAck
  <2>1. /\ Receive("SubAck")
        /\ UNCHANGED <<outgoing_pid, tx, uplink>>
        /\ ack_status' = IF ack_status[Id] = "AwaitingSubAck"
                         THEN [ack_status EXCEPT ![Id] = Result] ELSE ack_status
    BY <1>13 DEF HandleSubAck
  <2>2. Head(downlink).type = "SubAck" /\ Id \in Pids /\ Id = Head(downlink).id
    BY <1>12, <2>1 DEF Receive, Id
  <2>3. CASE ack_status[Id] = "AwaitingSubAck"
    <3>1. Takes(Head(downlink))
      BY <1>2, <2>1, <2>2, <2>3 DEF Takes, Result, Id
    <3>2. \A id \in Pids \ {Id} : ack_status'[id] = ack_status[id]
      BY <1>2, <2>1
    <3> QED
      BY <1>10, <2>1, <2>2, <3>1, <3>2
  <2>4. CASE ack_status[Id] # "AwaitingSubAck"
    BY <1>10, <2>1, <2>2, <2>4
  <2> QED
    BY <2>3, <2>4
<1>14. CASE HandleUnsubAck
  <2>1. /\ Receive("UnsubAck")
        /\ UNCHANGED <<outgoing_pid, tx, uplink>>
        /\ \/ /\ ack_status[Id] = "AwaitingUnsubAck"
              /\ ack_status' = [ack_status EXCEPT ![Id] = Result]
           \/ /\ ack_status[Id] = "AwaitingDropAck"
              /\ ack_status' = [ack_status EXCEPT ![Id] = "none"]
           \/ /\ ack_status[Id] \notin {"AwaitingDropAck", "AwaitingUnsubAck"}
              /\ ack_status' = ack_status
    BY <1>14 DEF HandleUnsubAck, UnsubAck
  <2>2. Head(downlink).type = "UnsubAck" /\ Id \in Pids /\ Id = Head(downlink).id
    BY <1>12, <2>1 DEF Receive, Id
  <2>3. CASE /\ ack_status[Id] = "AwaitingUnsubAck"
             /\ ack_status' = [ack_status EXCEPT ![Id] = Result]
    <3>1. Takes(Head(downlink))
      BY <1>2, <2>2, <2>3 DEF Takes, Result, Id
    <3>2. \A id \in Pids \ {Id} : ack_status'[id] = ack_status[id]
      BY <1>2, <2>3
    <3> QED
      BY <1>10, <2>1, <2>2, <3>1, <3>2
  <2>4. CASE /\ ack_status[Id] = "AwaitingDropAck"
             /\ ack_status' = [ack_status EXCEPT ![Id] = "none"]
    <3>1. /\ \A id \in Pids : ack_status'[id] \in {ack_status[id], "none"}
          /\ \A id \in Pids \ {Id} : ack_status'[id] = ack_status[id]
      BY <1>2, <2>4
    <3> QED
      BY <1>10, <2>1, <2>2, <2>4, <3>1
  <2>5. CASE /\ ack_status[Id] \notin {"AwaitingDropAck", "AwaitingUnsubAck"}
             /\ ack_status' = ack_status
    BY <1>10, <2>1, <2>2, <2>5
  <2> QED
    BY <2>1, <2>3, <2>4, <2>5
<1>15. CASE HandlePublish
  <2>1. Receive("Publish") /\ UNCHANGED <<outgoing_pid, tx, uplink, ack_status>>
    BY <1>15 DEF HandlePublish, sharedVars
  <2> QED
    BY <1>10, <2>1
<1> QED
  BY <1>4, <1>5, <1>6, <1>7, <1>8, <1>9, <1>13, <1>14, <1>15 DEF PeerStep, Select

\* A step of a handle uses its own id, or a fresh one.
LEMMA RequestCallStep ==
  ASSUME Types, NetTypes', BeforeWrap, RequestInv, NEW h \in Handles, Proceed(h) \/ Choose(h)
  PROVE  RequestInv'
<1>0. CallTypes /\ NetTypes /\ last_pid \in Pids
  BY DEF Types, SharedTypes
<1>1. CallDoes(h)
  BY CallEffect
<1>2. last_pid \in Nat /\ last_pid >= 1 /\ last_pid' \in {last_pid, last_pid + 1}
  BY <1>0, <1>1, NextPidBeforeWrap DEF CallDoes
<1>3. UNCHANGED <<uplink, downlink, connected>>
  BY CallFootprint DEF CallStep, netVars
<1>4. \A f \in Elems(tx') : f \in Elems(tx) \/ NewFrame(h, f)
  <2>1. Elems(tx') = Elems(tx) \cup Added(tx, tx')
    BY <1>0, <1>1, AddedElems DEF NetTypes, CallDoes
  <2> QED
    BY <1>1, <2>1 DEF CallDoes
<1>5. \A g \in Handles : pc[g] \in {"locking", "granting", "waiting"} => pid[g] \in 2..last_pid
  <2>1. \A g \in Handles : pc[g] \in {"locking", "granting", "waiting"} => pid[g] # 0
    BY <1>0 DEF CallTypes, Pids
  <2> QED
    BY <2>1 DEF RequestInv, OwnIds
<1>6. \A g \in Handles \ {h} : pc'[g] = pc[g] /\ pid'[g] = pid[g] /\ op'[g] = op[g]
                               /\ filters'[g] = filters[g]
  BY <1>1 DEF CallDoes
<1>7. \/ UNCHANGED pid
      \/ pid' = [pid EXCEPT ![h] = last_pid + 1] /\ last_pid' = last_pid + 1
  <2>1. Enqueue(h) => UNCHANGED pid
    BY DEF Enqueue
  <2> QED
    BY <1>1, <2>1 DEF CallDoes
<1>8. \A g \in Handles : pid[g] = 0 \/ pid[g] \in 2..last_pid
  BY DEF RequestInv, OwnIds
<1>9. OwnIds'
  <2>1. CASE UNCHANGED pid
    BY <1>2, <2>1 DEF RequestInv, OwnIds
  <2>2. CASE pid' = [pid EXCEPT ![h] = last_pid + 1] /\ last_pid' = last_pid + 1
    <3>1. \A g \in Handles : pid[g] # last_pid + 1
      BY <1>2, <1>8
    <3>2. \A g \in Handles : pid'[g] = IF g = h THEN last_pid + 1 ELSE pid[g]
      BY <1>0, <2>2 DEF CallTypes
    <3>3. \A g \in Handles : pid'[g] = 0 \/ pid'[g] \in 2..last_pid'
      BY <1>2, <1>8, <2>2, <3>2
    <3>4. ASSUME NEW a \in Handles, NEW b \in Handles, pid'[a] = pid'[b], pid'[b] # 0
          PROVE  a = b
      BY <3>1, <3>2, <3>4 DEF RequestInv, OwnIds
    <3> QED
      BY <3>3, <3>4 DEF OwnIds
  <2> QED
    BY <1>7, <2>1, <2>2
\* The ids of new frames.
<1>10. \A f : NewFrame(h, f) =>
         \/ f.packet.id \in {0, 1}
         \/ f.packet.id = last_pid + 1 /\ last_pid' = last_pid + 1
         \/ pc'[h] = "waiting" /\ f = Frame(pid[h], Request(h)) /\ f.packet.id = pid[h]
  BY DEF NewFrame, EmptyFrame, Frame, Packet, Request
<1>11. pc'[h] = "waiting" => Enqueue(h) /\ pc[h] \in {"locking", "granting"}
  BY <1>1 DEF CallDoes
<1>12. WireIds'
  <2>1. ASSUME NEW f \in Elems(tx') PROVE f.packet.id \in 0..last_pid'
    <3>1. CASE f \in Elems(tx)
      BY <1>2, <3>1 DEF RequestInv, WireIds
    <3>2. CASE NewFrame(h, f)
      BY <1>2, <1>5, <1>10, <1>11, <3>2
    <3> QED
      BY <1>4, <3>1, <3>2
  <2>2. 0..last_pid \subseteq 0..last_pid'
    BY <1>2
  <2> QED
    BY <1>3, <2>1, <2>2 DEF RequestInv, WireIds
<1>13. ASSUME NEW g \in Handles \ {h}, pc[g] \in {"locking", "granting", "waiting"}
       PROVE  \A f \in Elems(tx') : f.packet.id = pid[g] => f \in Elems(tx)
  <2>1. pid[g] \in 2..last_pid
    BY <1>5, <1>13
  <2>2. pid[g] # 0 /\ pid[g] # 1 /\ pid[g] # last_pid + 1
    BY <1>2, <2>1
  <2>3. pid[h] # pid[g]
    BY <2>2 DEF RequestInv, OwnIds
  <2> QED
    BY <1>4, <1>10, <2>2, <2>3
<1>14. ASSUME NEW g \in Handles, pc'[g] \in {"locking", "granting"} PROVE Unused(g)'
  <2>1. CASE g # h
    <3>1. pc[g] \in {"locking", "granting"} /\ pid'[g] = pid[g]
      BY <1>6, <1>14, <2>1
    <3>2. Unused(g)
      BY <3>1 DEF RequestInv
    <3>3. \A f \in Elems(tx') : f.packet.id = pid[g] => f \in Elems(tx)
      BY <1>13, <2>1, <3>1
    <3> QED
      BY <1>3, <3>1, <3>2, <3>3 DEF Unused
  <2>2. CASE g = h /\ pid' = [pid EXCEPT ![h] = last_pid + 1] /\ UNCHANGED tx
    <3>1. pid'[h] = last_pid + 1
      BY <1>0, <2>2 DEF CallTypes
    <3>2. last_pid + 1 \notin 0..last_pid
      BY <1>2
    <3> QED
      BY <1>3, <2>2, <3>1, <3>2 DEF RequestInv, WireIds, Unused
  <2>3. CASE g = h /\ pc[h] = "locking" /\ UNCHANGED <<tx, pid>>
    <3>1. Unused(h)
      BY <2>3 DEF RequestInv
    <3> QED
      BY <1>3, <2>3, <3>1 DEF Unused
  <2> QED
    BY <1>1, <1>14, <2>1, <2>2, <2>3 DEF CallDoes
<1>15. ASSUME NEW g \in Handles, pc'[g] = "waiting" PROVE Ours(g)'
  <2>1. CASE g # h
    <3>1. /\ pc[g] = "waiting" /\ pid'[g] = pid[g] /\ op'[g] = op[g]
          /\ filters'[g] = filters[g]
      BY <1>6, <1>15, <2>1
    <3>2. Ours(g)
      BY <3>1 DEF RequestInv
    <3>3. \A f \in Elems(tx') : f.packet.id = pid[g] => f \in Elems(tx)
      BY <1>13, <2>1, <3>1
    <3>4. pid[g] \in Pids /\ pid[g] # pid[h]
      BY <1>0, <1>5, <2>1, <3>1 DEF CallTypes, RequestInv, OwnIds
    <3>5. pid[g] \notin outgoing_pid => pid[g] \notin outgoing_pid'
      BY <1>1, <3>4 DEF CallDoes
    <3>6. Request(g)' = Request(g) /\ AckType(g)' = AckType(g)
      BY <3>1 DEF Request, AckType
    <3>7. \A f \in Elems(tx') : f.packet.id = pid[g] => f = Frame(pid[g], Request(g))
      BY <3>2, <3>3 DEF Ours
    <3>8. /\ \A p \in Elems(uplink) : p.id = pid[g] => p = Request(g) /\ pid[g] \notin outgoing_pid'
          /\ \A p \in Elems(downlink) : p.type # "Publish" /\ p.id = pid[g] =>
               p.type = AckType(g) /\ pid[g] \notin outgoing_pid'
      BY <3>2, <3>5 DEF Ours
    <3> QED
      BY <1>3, <3>1, <3>6, <3>7, <3>8 DEF Ours
  <2>2. CASE g = h
    <3>1. Enqueue(h) /\ pc[h] \in {"locking", "granting"} /\ pid[h] \in 2..last_pid
      BY <1>5, <1>11, <1>15, <2>2
    <3>2. UNCHANGED <<pid, op, filters, last_pid>>
      BY <3>1 DEF Enqueue
    <3>3. Unused(h)
      BY <3>1 DEF RequestInv
    <3>4. Request(h)' = Request(h)
      BY <3>2 DEF Request
    <3>5. last_pid + 1 # last_pid /\ pid[h] \notin {0, 1}
      BY <1>2, <3>1
    <3>6. \A f \in Elems(tx') : f.packet.id = pid[h] => f = Frame(pid[h], Request(h))
      BY <1>4, <1>10, <3>2, <3>3, <3>5 DEF Unused
    <3> QED
      BY <1>3, <2>2, <3>2, <3>3, <3>4, <3>6 DEF Ours, Unused
  <2> QED
    BY <2>1, <2>2
<1> QED
  BY <1>9, <1>12, <1>14, <1>15 DEF RequestInv

\* An answer has the id and the type of its request.
LEMMA RequestPeerStep ==
  ASSUME Types, RequestInv, PeerStep
  PROVE  RequestInv'
<1>1. UNCHANGED <<last_pid, pc, pid, op, filters>>
  BY PeerFootprint DEF callVars
<1>2. PeerDoes
  BY PeerEffect
<1>3. OwnIds'
  BY <1>1 DEF RequestInv, OwnIds
<1>4. WireIds'
  BY <1>1, <1>2 DEF RequestInv, WireIds, PeerDoes, AnswerTo
<1>5. ASSUME NEW h \in Handles, Unused(h) PROVE Unused(h)'
  BY <1>1, <1>2, <1>5 DEF Unused, PeerDoes, AnswerTo
<1>6. ASSUME NEW h \in Handles, Ours(h) PROVE Ours(h)'
  <2>1. Request(h)' = Request(h) /\ AckType(h)' = AckType(h) /\ pid'[h] = pid[h]
    BY <1>1 DEF Request, AckType
  <2>2. pid[h] \notin outgoing_pid => pid[h] \notin outgoing_pid'
    BY <1>2 DEF PeerDoes
  <2>3. \A f \in Elems(tx') : f.packet.id = pid[h] => f = Frame(pid[h], Request(h))
    BY <1>2, <1>6 DEF PeerDoes, Ours
  <2>4. ASSUME NEW p \in Elems(uplink'), p.id = pid[h]
        PROVE  p = Request(h) /\ pid[h] \notin outgoing_pid'
    <3>1. CASE p \in Elems(uplink)
      BY <1>6, <2>2, <2>4, <3>1 DEF Ours
    <3>2. ASSUME NEW f \in Elems(tx), p = f.packet, f.pid \notin outgoing_pid'
          PROVE  p = Request(h) /\ pid[h] \notin outgoing_pid'
      <4>1. f = Frame(pid[h], Request(h))
        BY <1>6, <2>4, <3>2 DEF Ours
      <4>2. f.pid = pid[h] /\ f.packet = Request(h)
        BY <4>1 DEF Frame
      <4> QED
        BY <3>2, <4>2
    <3> QED
      BY <1>2, <3>1, <3>2 DEF PeerDoes
  <2>5. ASSUME NEW p \in Elems(downlink'), p.type # "Publish", p.id = pid[h]
        PROVE  p.type = AckType(h) /\ pid[h] \notin outgoing_pid'
    <3>1. CASE p \in Elems(downlink)
      BY <1>6, <2>2, <2>5, <3>1 DEF Ours
    <3>2. ASSUME NEW q \in Elems(uplink), AnswerTo(q, p)
          PROVE  p.type = AckType(h) /\ pid[h] \notin outgoing_pid'
      <4>1. q.id = pid[h]
        BY <2>5, <3>2 DEF AnswerTo
      <4>2. q = Request(h) /\ pid[h] \notin outgoing_pid'
        BY <1>6, <2>2, <4>1 DEF Ours
      <4>3. q.type = op[h]
        BY <4>2 DEF Request, Packet
      <4> QED
        BY <3>2, <4>2, <4>3 DEF AnswerTo, AckType
    <3> QED
      BY <1>2, <2>5, <3>1, <3>2 DEF PeerDoes
  <2> QED
    BY <2>1, <2>3, <2>4, <2>5 DEF Ours
<1> QED
  BY <1>1, <1>3, <1>4, <1>5, <1>6 DEF RequestInv

\* Until the ids wrap around, nobody gets what is for another.
LEMMA RequestInvariance == Spec /\ []BeforeWrap => []RequestInv
<1>1. Init => RequestInv
  <2> SUFFICES ASSUME Init PROVE RequestInv
    OBVIOUS
  <2>1. Elems(tx) = {} /\ Elems(uplink) = {} /\ Elems(downlink) = {}
    BY ElemsEmpty DEF Init
  <2>2. \A h \in Handles : pid[h] = 0 /\ pc[h] = "new"
    BY DEF Init
  <2> QED
    BY <2>1, <2>2 DEF RequestInv, OwnIds, WireIds
<1>2. Types /\ Types' /\ BeforeWrap /\ RequestInv /\ [Next]_vars => RequestInv'
  <2> SUFFICES ASSUME Types, Types', BeforeWrap, RequestInv, [Next]_vars PROVE RequestInv'
    OBVIOUS
  <2>1. CASE CallStep
    BY <2>1, RequestCallStep DEF CallStep, Types
  <2>2. CASE PeerStep
    BY <2>2, RequestPeerStep
  <2>3. CASE UNCHANGED vars
    BY <2>3 DEF RequestInv, OwnIds, WireIds, Unused, Ours, Request, AckType, vars, sharedVars,
                callVars, netVars
  <2> QED
    BY <2>1, <2>2, <2>3, Steps
<1> QED
  BY <1>1, <1>2, TypesInvariance, PTL DEF Spec

\* The first connection carries data until it is lost.
LEMMA LastsStep ==
  ASSUME Types, LastsInv, [Next]_vars
  PROVE  LastsInv' /\ (losses' = 0 => losses = 0)
<1>0. losses \in Nat /\ (losses' = losses + 1 => losses' # 0)
  BY DEF Types, BudgetTypes
<1>1. CASE CallStep
  BY <1>1, CallFootprint DEF LastsInv, netVars
<1>2. CASE ConnackLost \/ LinkLost
  <2>1. losses' = losses + 1
    BY <1>2 DEF ConnackLost, LinkLost
  <2> QED
    BY <1>0, <2>1 DEF LastsInv
<1>3. CASE Connect
  <2>1. UNCHANGED losses /\ link' = TRUE
    BY <1>3 DEF Connect
  <2> QED
    BY <2>1 DEF LastsInv
<1>4. CASE BrokerForgets \/ BrokerReceive \/ \E t \in Topics : BrokerPublish(t)
  <2>1. UNCHANGED <<losses, connected, link>>
    BY <1>4 DEF BrokerForgets, BrokerReceive, BrokerPublish, sharedVars, netVars
  <2> QED
    BY <2>1 DEF LastsInv
<1>5. CASE Select
  <2>1. UNCHANGED losses /\ (UNCHANGED <<connected, link>> \/ connected' = "no")
    BY <1>5 DEF Select, Transmit, StackNotices, Reset, HandleSubAck, HandleUnsubAck,
                HandlePublish, sharedVars
  <2> QED
    BY <2>1 DEF LastsInv
<1>6. CASE UNCHANGED vars
  BY <1>6 DEF vars, LastsInv, sharedVars, netVars
<1> QED
  BY <1>1, <1>2, <1>3, <1>4, <1>5, <1>6, Steps DEF PeerStep

\* A step of some handle leaves the answers of the others alone.
LEMMA AnswerCallStep ==
  ASSUME Types, NetTypes', BeforeWrap, RequestInv, AnswerInv, losses' = 0 => losses = 0,
         NEW g \in Handles, Proceed(g) \/ Choose(g)
  PROVE  AnswerInv'
<1> SUFFICES ASSUME losses = 0, NEW h \in Handles, pc'[h] = "waiting"
             PROVE  (Answered(h) \/ (Coming(h) /\ ack_status[pid[h]] = Awaiting(h)))'
  BY DEF AnswerInv
<1>0. CallTypes /\ NetTypes /\ last_pid \in Pids /\ SharedTypes
  BY DEF Types, SharedTypes
<1>1. CallDoes(g)
  BY CallEffect
<1>2. UNCHANGED <<uplink, downlink>>
  BY CallFootprint DEF CallStep, netVars
<1>3. Elems(tx') = Elems(tx) \cup Added(tx, tx')
  BY <1>0, <1>1, AddedElems DEF NetTypes, CallDoes
<1>4. CASE h = g
  <2> DEFINE f == Frame(pid[h], Request(h))
  <2>1. Enqueue(h) /\ pc[h] \in {"locking", "granting"}
    BY <1>1, <1>4 DEF CallDoes
  <2>2. /\ tx' = Append(tx, f) /\ UNCHANGED <<pid, op>> /\ pid[h] \in Pids
        /\ ack_status' = [ack_status EXCEPT ![pid[h]] = Awaiting(h)]
    BY <1>0, <2>1 DEF Enqueue, Request, Awaiting, CallTypes
  <2>3. f \in Frames \cup {EmptyFrame} /\ f.packet.id = pid[h]
    BY <1>0, <2>2 DEF CallTypes, Frame, Packet, Frames, Requests, Request
  <2> HIDE DEF f
  <2>4. f \in Elems(tx')
    <3>1. tx \in Seq(Frames \cup {EmptyFrame})
      BY <1>0 DEF NetTypes
    <3>2. Elems(Append(tx, f)) = Elems(tx) \cup {f}
      BY <2>3, <3>1, ElemsAppend, ZenonT(30)
    <3> QED
      BY <2>2, <3>2
  <2>5. Coming(h)'
    BY <2>2, <2>3, <2>4 DEF Coming
  <2>6. ack_status'[pid'[h]] = Awaiting(h)'
    BY <1>0, <2>2 DEF SharedTypes, Awaiting
  <2> QED
    BY <2>5, <2>6
<1>5. CASE h # g
  <2>1. pc[h] = "waiting" /\ pid'[h] = pid[h] /\ op'[h] = op[h]
    BY <1>1, <1>5 DEF CallDoes
  <2>2. pid[h] \in Pids /\ pid[h] # 0
    BY <1>0, <2>1 DEF CallTypes, Pids
  <2>3. pid[h] # pid[g] /\ pid[h] \in 2..last_pid
    BY <1>5, <2>2 DEF RequestInv, OwnIds
  <2>4. pid[h] # 1 /\ pid[h] # last_pid + 1
    BY <1>0, <2>3, NextPidBeforeWrap
  <2>5. /\ ack_status'[pid[h]] = ack_status[pid[h]]
        /\ pid[h] \notin outgoing_pid => pid[h] \notin outgoing_pid'
    BY <1>1, <2>2, <2>3, <2>4 DEF CallDoes
  <2>6. CASE Answered(h)
    <3>1. Answered(h)'
      BY <2>1, <2>5, <2>6 DEF Answered
    <3> QED
      BY <3>1
  <2>7. CASE Coming(h) /\ ack_status[pid[h]] = Awaiting(h)
    <3>1. Coming(h)'
      BY <1>2, <1>3, <2>1, <2>7 DEF Coming
    <3>2. ack_status'[pid'[h]] = Awaiting(h)'
      BY <2>1, <2>5, <2>7 DEF Awaiting
    <3> QED
      BY <3>1, <3>2
  <2> QED
    BY <2>1, <2>6, <2>7 DEF AnswerInv
<1> QED
  BY <1>4, <1>5

\* Requests and answers move on, and no handler drops one.
LEMMA AnswerPeerStep ==
  ASSUME Types, RequestInv, AnswerInv, LastsInv, losses' = 0 => losses = 0, PeerStep
  PROVE  AnswerInv'
<1> SUFFICES ASSUME losses' = 0, NEW h \in Handles, pc'[h] = "waiting"
             PROVE  (Answered(h) \/ (Coming(h) /\ ack_status[pid[h]] = Awaiting(h)))'
  BY DEF AnswerInv
<1>0. CallTypes /\ losses = 0
  BY DEF Types
<1>1. UNCHANGED <<pc, pid, op, filters>>
  BY PeerFootprint DEF callVars
<1>2. PeerDoes
  BY PeerEffect
<1>3. ~Breaks
  BY <1>0 DEF Breaks, LastsInv
<1>4. pc[h] = "waiting" /\ pid[h] \in Pids /\ Ours(h) /\ pid'[h] = pid[h]
  BY <1>0, <1>1 DEF CallTypes, RequestInv
<1>5. Awaiting(h)' = Awaiting(h)
  BY <1>1 DEF Awaiting
<1>6. outgoing_pid' \subseteq outgoing_pid
  BY <1>2 DEF PeerDoes
<1>7. ASSUME NEW p \in Elems(downlink), p.type # "Publish", p.id = pid[h], Takes(p)
      PROVE  Answered(h)'
  <2>1. pid[h] \notin outgoing_pid
    BY <1>4, <1>7 DEF Ours
  <2>2. ack_status'[pid[h]] \in {"Acked", "Refused"}
    BY <1>7 DEF Takes
  <2> QED
    BY <1>4, <1>6, <2>1, <2>2 DEF Answered
<1>8. CASE Answered(h)
  <2>1. ack_status'[pid[h]] = ack_status[pid[h]]
        \/ \E p \in Elems(downlink) : p.type # "Publish" /\ p.id = pid[h] /\ Takes(p)
    BY <1>2, <1>3, <1>4, <1>8 DEF PeerDoes, Answered
  <2>2. CASE ack_status'[pid[h]] = ack_status[pid[h]]
    <3>1. Answered(h)'
      BY <1>4, <1>6, <1>8, <2>2 DEF Answered
    <3> QED
      BY <3>1
  <2> QED
    BY <1>7, <2>1, <2>2
<1>9. CASE Coming(h) /\ ack_status[pid[h]] = Awaiting(h)
  <2>0. Awaiting(h) \in {"AwaitingSubAck", "AwaitingUnsubAck"}
    BY DEF Awaiting
  <2>1. \/ ack_status'[pid[h]] = ack_status[pid[h]]
        \/ \E p \in Elems(downlink) : p.type # "Publish" /\ p.id = pid[h] /\ Takes(p)
    BY <1>2, <1>3, <1>4, <1>9, <2>0 DEF PeerDoes
  <2>2. CASE ack_status'[pid[h]] = ack_status[pid[h]]
    <3>1. ASSUME NEW f \in Elems(tx), f.packet.id = pid[h] PROVE Coming(h)'
      <4>1. f # EmptyFrame
        BY <1>4, <3>1 DEF EmptyFrame, Frame, Packet, Pids
      <4>2. f \in Elems(tx') \/ f.packet \in Elems(uplink')
        BY <1>2, <1>3, <4>1 DEF PeerDoes
      <4> QED
        BY <1>4, <3>1, <4>2 DEF Coming
    <3>2. ASSUME NEW q \in Elems(uplink), q.id = pid[h] PROVE Coming(h)'
      <4>1. q \in Elems(uplink') \/ \E p \in Elems(downlink') : AnswerTo(q, p)
        BY <1>2, <1>3 DEF PeerDoes
      <4> QED
        BY <1>4, <3>2, <4>1 DEF Coming, AnswerTo
    <3>3. ASSUME NEW p \in Elems(downlink), p.type # "Publish", p.id = pid[h] PROVE Coming(h)'
      <4>1. p.type = AckType(h)
        BY <1>4, <3>3 DEF Ours
      <4>2. \/ p.type = "SubAck" /\ ack_status[p.id] = "AwaitingSubAck"
            \/ p.type = "UnsubAck" /\ ack_status[p.id] = "AwaitingUnsubAck"
        BY <1>9, <3>3, <4>1 DEF AckType, Awaiting
      <4>3. ~Takes(p)
        BY <1>9, <2>0, <2>2, <3>3 DEF Takes
      <4>4. p \in Elems(downlink')
        BY <1>2, <1>3, <3>3, <4>2, <4>3 DEF PeerDoes
      <4> QED
        BY <1>4, <3>3, <4>4 DEF Coming
    <3>4. Coming(h)'
      BY <1>9, <3>1, <3>2, <3>3 DEF Coming
    <3>5. ack_status'[pid'[h]] = Awaiting(h)'
      BY <1>4, <1>5, <1>9, <2>2
    <3> QED
      BY <3>4, <3>5
  <2> QED
    BY <1>7, <2>1, <2>2
<1> QED
  BY <1>0, <1>4, <1>8, <1>9 DEF AnswerInv

\* While the first connection lasts and until the packet ids wrap around, a call
\* that waits for its answer has it or it is on its way: the handlers never take
\* the answer to one call for that to another, whatever is timed out, cancelled
\* or dropped meanwhile.
THEOREM AnswersCome == Spec /\ []BeforeWrap => []AnswerComes
<1>1. Init => AnswerInv /\ LastsInv
  BY DEF Init, AnswerInv, LastsInv
<1>2. /\ Types /\ Types' /\ BeforeWrap /\ RequestInv /\ AnswerInv /\ LastsInv /\ [Next]_vars
      => AnswerInv' /\ LastsInv'
  <2> SUFFICES ASSUME Types, Types', BeforeWrap, RequestInv, AnswerInv, LastsInv, [Next]_vars
               PROVE  AnswerInv' /\ LastsInv'
    OBVIOUS
  <2>0. LastsInv' /\ (losses' = 0 => losses = 0)
    BY LastsStep
  <2>1. CASE CallStep
    BY <2>0, <2>1, AnswerCallStep DEF CallStep, Types
  <2>2. CASE PeerStep
    BY <2>0, <2>2, AnswerPeerStep
  <2>3. CASE UNCHANGED vars
    <3>1. AnswerInv'
      BY <2>3 DEF AnswerInv, Answered, Coming, Awaiting, vars, sharedVars, callVars, netVars
    <3> QED
      BY <2>0, <3>1
  <2> QED
    BY <2>1, <2>2, <2>3, <2>0, Steps
<1>3. Types /\ AnswerInv => AnswerComes
  <2> SUFFICES ASSUME Types, AnswerInv, NEW h \in Handles, pc[h] = "waiting", losses = 0
               PROVE  Answered(h) \/ OnItsWay(pid[h])
    BY DEF AnswerComes, At
  <2>1. DOMAIN tx = 1..Len(tx) /\ DOMAIN uplink = 1..Len(uplink)
        /\ DOMAIN downlink = 1..Len(downlink)
    BY LenProperties DEF Types, NetTypes
  <2>2. Coming(h) => OnItsWay(pid[h])
    BY <2>1 DEF Coming, OnItsWay, Elems
  <2> QED
    BY <2>2 DEF AnswerInv
<1> QED
  BY <1>1, <1>2, <1>3, TypesInvariance, RequestInvariance, PTL DEF Spec

-----------------------------------------------------------------------------
(* A stream that waits is subscribed *)

\* Somebody gave the filter up.
GaveUp(o) == op[o] = "Unsubscribe" \/ pc[o] = "dropped"
GivenUp(h, f) == \E o \in Handles \ {h} : f \in filters[o] /\ GaveUp(o)

\* The broker has the filters of h, but for those that another gave up.
Kept(h) == \A f \in filters[h] : f \in subscribed \/ GivenUp(h, f)

\* An UNSUBSCRIBE comes from a handle that gave its filters up.
Unsubscribing(F) == \E o \in Handles : F = filters[o] /\ GaveUp(o)

\* Every UNSUBSCRIBE on its way has the filters of one who gave them up.
UnsubsInv ==
  /\ \A f \in Elems(tx) : f.packet.type = "Unsubscribe" => Unsubscribing(f.packet.filters)
  /\ \A p \in Elems(uplink) : p.type = "Unsubscribe" => Unsubscribing(p.filters)

\* Nobody unsubscribes before it has subscribed, nor subscribes before the first
\* connection.
StreamOps ==
  /\ \A h \in Handles : pc[h] \in {"new"} \cup Alive => op[h] = "Subscribe"
  /\ clean_start => \A h \in Handles : /\ op[h] = "Subscribe"
                                       /\ pc[h] \in {"new", "connecting", "failed"}

\* What a connection means: the broker has a session, and answers.
LinkInv ==
  /\ link => connected # "no" /\ persists
  /\ ~link => uplink = <<>> /\ downlink = <<>>
  /\ clean_start => connected = "no"
  /\ connected = "no" => \A id \in Pids : ack_status[id] # "Acked"

\* A SUBACK without an error was sent by a broker that has the filters.
SubAckInv ==
  \A h \in Handles : pc[h] = "waiting" /\ op[h] = "Subscribe" =>
    /\ ack_status[pid[h]] = "Acked" /\ persists => Kept(h)
    /\ (\E p \in Elems(downlink) : p.type = "SubAck" /\ p.id = pid[h] /\ p.ok) => Kept(h)

\* A stream is in the session it was made in, or some sessions behind.
Behind(h) ==
  \E d \in 1..(sessions - born[h]) : clean_session_count = (created[h] + d) % 256

\* On a connection whose session is not another one, the broker has the filters.
LiveInv ==
  \A h \in Handles : pc[h] = "active" =>
    \/ created[h] = clean_session_count /\ (persists /\ ~missed => Kept(h))
    \/ Behind(h)

\* Where a step of a handle may lead.
LEMMA CallMoves ==
  ASSUME CallTypes, BirthTypes, NEW h \in Handles, Proceed(h) \/ Choose(h)
  PROVE  /\ pc[h] \notin {"dropped", "unsubscribed", "failed"} /\ pc'[h] # "new"
         /\ pc'[h] = "active" =>
              \/ pc[h] = "active" /\ UNCHANGED <<created, born, op, filters>>
              \/ /\ pc[h] = "waiting" /\ op[h] = "Subscribe"
                 /\ ack_status[pid[h]] = "Acked"
                 /\ created' = [created EXCEPT ![h] = clean_session_count]
                 /\ born' = [born EXCEPT ![h] = sessions]
                 /\ UNCHANGED <<op, filters>>
         /\ pc'[h] = "ended" => pc[h] = "active" /\ UNCHANGED op
         /\ pc[h] \in {"new", "connecting", "failed"} /\ op[h] = "Subscribe" /\ connected = "no" =>
              pc'[h] \in {"connecting", "failed"} /\ UNCHANGED op
         /\ \A g \in Handles \ {h} : created'[g] = created[g] /\ born'[g] = born[g]
<1> USE DEF CallTypes, At, Goto, Leave, Alive, Sending
<1>1. CASE \/ \E F \in FilterSets[h] : Start(h, F)
           \/ StartUnsubscribe(h) \/ TakePid(h) \/ LockPublisher(h) \/ Enqueue(h)
  <2>1. UNCHANGED <<created, born>>
    BY <1>1 DEF Start, StartUnsubscribe, TakePid, LockPublisher, Enqueue, streamVars
  <2>2. CASE \E F \in FilterSets[h] : Start(h, F)
    <3>1. pc[h] = "new" /\ pc'[h] \in {"connecting", "failed"} /\ UNCHANGED op
      BY <2>2 DEF Start
    <3> QED
      BY <2>1, <3>1
  <2>3. CASE StartUnsubscribe(h)
    <3>1. pc[h] \in Alive /\ pc'[h] = "connecting"
      BY <2>3 DEF StartUnsubscribe
    <3> QED
      BY <2>1, <3>1
  <2>4. CASE TakePid(h)
    <3>1. pc[h] = "connecting" /\ pc'[h] = "locking" /\ (op[h] = "Subscribe" => connected # "no")
      BY <2>4 DEF TakePid
    <3> QED
      BY <2>1, <3>1
  <2>5. CASE LockPublisher(h) \/ Enqueue(h)
    <3>1. pc[h] \in {"locking", "granting"} /\ pc'[h] \in {"granting", "waiting"}
      BY <2>5 DEF LockPublisher, Enqueue, Granted
    <3> QED
      BY <2>1, <3>1
  <2> QED
    BY <1>1, <2>2, <2>3, <2>4, <2>5
<1>2. CASE PollNext(h)
  BY <1>2 DEF PollNext
<1>3. CASE EnqueueFails(h) \/ UnsubscribeAcked(h) \/ DropSubscription(h)
  <2>1. ASSUME NEW kinds, NEW lock, NEW frames, NEW status, Drop(h, kinds, lock, frames, status)
        PROVE  pc'[h] = "dropped" /\ UNCHANGED op
    BY <2>1 DEF Drop
  <2>2. UNCHANGED <<created, born>>
    BY <1>3 DEF EnqueueFails, UnsubscribeAcked, DropSubscription
  <2>3. CASE EnqueueFails(h)
    <3>1. pc[h] \in {"locking", "granting"} /\ pc'[h] \in {"connecting", "failed", "dropped"}
      BY <2>1, <2>3 DEF EnqueueFails, Granted, Retry
    <3> QED
      BY <2>2, <3>1
  <2>4. CASE UnsubscribeAcked(h)
    <3>1. pc[h] = "waiting" /\ pc'[h] \in {"unsubscribed", "dropped"}
      BY <2>1, <2>4 DEF UnsubscribeAcked
    <3> QED
      BY <2>2, <3>1
  <2>5. CASE DropSubscription(h)
    <3>1. /\ pc[h] \in Alive \/ (pc[h] \in Sending /\ op[h] = "Unsubscribe")
          /\ pc'[h] = "dropped"
      BY <2>1, <2>5 DEF DropSubscription
    <3> QED
      BY <2>2, <3>1
  <2> QED
    BY <1>3, <2>3, <2>4, <2>5
<1>4. CASE Timeout(h) \/ CancelSubscribe(h)
  BY <1>4 DEF Timeout, CancelSubscribe, Blocked, Retry
<1>5. CASE SubscribeAcked(h)
  <2>1. /\ pc[h] = "waiting" /\ op[h] = "Subscribe" /\ UNCHANGED <<op, filters>>
        /\ pc'[h] \in {"connecting", "failed", "active"}
        /\ pc'[h] = "active" =>
             /\ ack_status[pid[h]] = "Acked"
             /\ created' = [created EXCEPT ![h] = clean_session_count]
             /\ born' = [born EXCEPT ![h] = sessions]
    BY <1>5 DEF SubscribeAcked, Retry
  <2>2. \A g \in Handles \ {h} : created'[g] = created[g] /\ born'[g] = born[g]
    BY <1>5 DEF SubscribeAcked, BirthTypes
  <2> QED
    BY <2>1, <2>2
<1> QED
  BY <1>1, <1>2, <1>3, <1>4, <1>5 DEF Proceed, Choose

\* Who gave its filters up does not take them back.
LEMMA GaveUpStays ==
  ASSUME Types, BeforeWrap, StreamOps, CallStep \/ PeerStep, NEW o \in Handles, GaveUp(o)
  PROVE  GaveUp(o)' /\ filters'[o] = filters[o]
<1>1. CASE PeerStep
  BY <1>1, PeerFootprint DEF callVars, GaveUp
<1>2. CASE CallStep
  <2>1. PICK h \in Handles : Proceed(h) \/ Choose(h)
    BY <1>2 DEF CallStep
  <2>2. CallDoes(h)
    BY <2>1, CallEffect
  <2>3. CASE o # h
    BY <2>2, <2>3 DEF CallDoes, GaveUp
  <2>4. CASE o = h
    <3>1. pc[h] # "dropped" /\ op[h] = "Unsubscribe"
      BY <2>1, <2>4, CallMoves DEF GaveUp, Types
    <3>2. pc[h] # "new"
      BY <3>1 DEF StreamOps
    <3> QED
      BY <2>2, <2>4, <3>1, <3>2 DEF CallDoes, GaveUp
  <2> QED
    BY <2>3, <2>4
<1> QED
  BY <1>1, <1>2

\* The broker keeps the filters of h as long as it loses only what others gave up.
LEMMA KeptStays ==
  ASSUME Types, BeforeWrap, StreamOps, CallStep \/ PeerStep, NEW h \in Handles, Kept(h),
         filters'[h] = filters[h],
         \A f \in filters[h] : f \in subscribed => f \in subscribed' \/ GivenUp(h, f)
  PROVE  Kept(h)'
<1>1. \A f : GivenUp(h, f) => GivenUp(h, f)'
  BY GaveUpStays DEF GivenUp
<1> QED
  BY <1>1 DEF Kept

\* UNSUBSCRIBEs come from who gave up its filters.
LEMMA UnsubsStep ==
  ASSUME Types, NetTypes', BeforeWrap, StreamOps, UnsubsInv, [Next]_vars
  PROVE  UnsubsInv'
<1>1. ASSUME CallStep \/ PeerStep, NEW F, Unsubscribing(F) PROVE Unsubscribing(F)'
  BY <1>1, GaveUpStays DEF Unsubscribing
<1>2. CASE CallStep
  <2>1. PICK h \in Handles : Proceed(h) \/ Choose(h)
    BY <1>2 DEF CallStep
  <2>2. CallDoes(h)
    BY <2>1, CallEffect
  <2>3. UNCHANGED uplink
    BY <1>2, CallFootprint DEF netVars
  <2>4. Elems(tx') = Elems(tx) \cup Added(tx, tx')
    BY <2>2, AddedElems DEF NetTypes, CallDoes, Types
  <2>5. ASSUME NEW f, NewFrame(h, f), f.packet.type = "Unsubscribe"
        PROVE  Unsubscribing(f.packet.filters)'
    <3>1. CASE f = EmptyFrame
      BY <2>5, <3>1 DEF EmptyFrame, Frame, Packet
    <3>2. CASE pc'[h] = "waiting" /\ f = Frame(pid[h], Request(h))
      <4>1. Enqueue(h)
        BY <2>2, <3>2 DEF CallDoes
      <4>2. f.packet.type = op[h] /\ f.packet.filters = filters[h]
        BY <3>2 DEF Frame, Packet, Request
      <4>3. op'[h] = "Unsubscribe" /\ filters'[h] = filters[h]
        BY <2>5, <4>1, <4>2 DEF Enqueue
      <4> QED
        BY <4>2, <4>3 DEF Unsubscribing, GaveUp
    <3>3. CASE pc'[h] = "dropped" /\ f.packet.filters = filters[h]
      <4>1. filters'[h] = filters[h]
        BY <2>2, <3>3 DEF CallDoes
      <4> QED
        BY <3>3, <4>1 DEF Unsubscribing, GaveUp
    <3> QED
      BY <2>5, <3>1, <3>2, <3>3 DEF NewFrame
  <2>6. \A f \in Elems(tx') : f.packet.type = "Unsubscribe" => Unsubscribing(f.packet.filters)'
    BY <1>1, <1>2, <2>2, <2>4, <2>5 DEF UnsubsInv, CallDoes
  <2>7. \A p \in Elems(uplink') : p.type = "Unsubscribe" => Unsubscribing(p.filters)'
    BY <1>1, <1>2, <2>3 DEF UnsubsInv
  <2> QED
    BY <2>6, <2>7 DEF UnsubsInv
<1>3. CASE PeerStep
  <2>1. PeerDoes
    BY <1>3, PeerEffect
  <2>2. \A f \in Elems(tx') : f.packet.type = "Unsubscribe" => Unsubscribing(f.packet.filters)'
    BY <1>1, <1>3, <2>1 DEF UnsubsInv, PeerDoes
  <2>3. \A p \in Elems(uplink') : p.type = "Unsubscribe" => Unsubscribing(p.filters)'
    BY <1>1, <1>3, <2>1 DEF UnsubsInv, PeerDoes
  <2> QED
    BY <2>2, <2>3 DEF UnsubsInv
<1>4. CASE UNCHANGED vars
  BY <1>4 DEF UnsubsInv, Unsubscribing, GaveUp, vars, callVars, netVars
<1> QED
  BY <1>2, <1>3, <1>4, Steps

\* Only a stream can be unsubscribed, and only a connection makes one.
LEMMA StreamOpsStep ==
  ASSUME Types, BeforeWrap, StreamOps, LinkInv, [Next]_vars
  PROVE  StreamOps'
<1>1. CASE CallStep
  <2>1. PICK h \in Handles : Proceed(h) \/ Choose(h)
    BY <1>1 DEF CallStep
  <2>2. CallDoes(h)
    BY <2>1, CallEffect
  <2>3. /\ pc'[h] # "new"
        /\ pc'[h] = "active" => op[h] = "Subscribe" /\ UNCHANGED op
        /\ pc'[h] = "ended" => op[h] = "Subscribe" /\ UNCHANGED op
        /\ pc[h] \in {"new", "connecting", "failed"} /\ op[h] = "Subscribe" /\ connected = "no" =>
             pc'[h] \in {"connecting", "failed"} /\ UNCHANGED op
    BY <2>1, CallMoves DEF Types, StreamOps, Alive
  <2>4. UNCHANGED clean_start
    BY <1>1, CallFootprint
  <2>5. \A g \in Handles : pc'[g] \in {"new"} \cup Alive => op'[g] = "Subscribe"
    BY <2>2, <2>3 DEF CallDoes, StreamOps, Alive
  <2>6. ASSUME clean_start
        PROVE  \A g \in Handles : op'[g] = "Subscribe" /\ pc'[g] \in {"new", "connecting", "failed"}
    <3>1. connected = "no"
      BY <2>6 DEF LinkInv
    <3> QED
      BY <2>2, <2>3, <2>6, <3>1 DEF CallDoes, StreamOps
  <2> QED
    BY <2>4, <2>5, <2>6 DEF StreamOps
<1>2. CASE PeerStep
  <2>1. UNCHANGED <<pc, op>>
    BY <1>2, PeerFootprint DEF callVars
  <2>2. UNCHANGED clean_start \/ clean_start' = FALSE
    BY <1>2 DEF PeerStep, Connect, ConnackLost, Select, LinkLost, BrokerForgets, BrokerReceive,
                BrokerPublish, Transmit, StackNotices, HandleSubAck, HandleUnsubAck, HandlePublish
  <2> QED
    BY <2>1, <2>2 DEF StreamOps
<1>3. CASE UNCHANGED vars
  BY <1>3 DEF vars, callVars, StreamOps
<1> QED
  BY <1>1, <1>2, <1>3, Steps

\* A connection needs the session of the broker, answers need a connection.
LEMMA LinkStep ==
  ASSUME Types, BeforeWrap, LinkInv, [Next]_vars
  PROVE  LinkInv'
<1>0. Flags /\ ack_status \in [Pids -> AckStatus]
  BY DEF Types, SharedTypes
<1>1. CASE CallStep
  <2>1. PICK h \in Handles : Proceed(h) \/ Choose(h)
    BY <1>1 DEF CallStep
  <2>2. \A id \in Pids : ack_status'[id] = "Acked" => ack_status[id] = "Acked"
    BY <2>1, CallEffect DEF CallDoes
  <2>3. UNCHANGED <<link, uplink, downlink, connected, persists, clean_start>>
    BY <1>1, CallFootprint DEF netVars, brokerVars
  <2> QED
    BY <2>2, <2>3 DEF LinkInv
<1>2. CASE Connect
  <2>1. link' = TRUE /\ connected' # "no" /\ persists' = TRUE /\ clean_start' = FALSE
    BY <1>2 DEF Connect, BrokerConnect
  <2> QED
    BY <2>1 DEF LinkInv
<1>3. CASE ConnackLost
  <2>1. /\ UNCHANGED <<link, uplink, downlink, connected, clean_start, ack_status>>
        /\ persists' = TRUE
    BY <1>3 DEF ConnackLost, BrokerConnect, netVars, sharedVars
  <2> QED
    BY <2>1 DEF LinkInv
<1>4. CASE LinkLost
  <2>1. /\ UNCHANGED <<connected, clean_start, ack_status>>
        /\ link' = FALSE /\ uplink' = <<>> /\ downlink' = <<>>
    BY <1>4 DEF LinkLost, CloseLink, sharedVars
  <2> QED
    BY <2>1 DEF LinkInv
<1>5. CASE StackNotices
  <2>1. /\ UNCHANGED clean_start /\ connected' = "no"
        /\ link' = FALSE /\ uplink' = <<>> /\ downlink' = <<>>
        /\ ack_status' = [p \in Pids |-> "none"]
    BY <1>5 DEF StackNotices, Reset, CloseLink
  <2> QED
    BY <2>1 DEF LinkInv
<1>6. CASE BrokerForgets
  <2>1. UNCHANGED <<link, uplink, downlink, connected, clean_start, ack_status>> /\ ~link
    BY <1>6 DEF BrokerForgets, netVars, sharedVars
  <2> QED
    BY <2>1 DEF LinkInv
<1>7. CASE \/ Transmit \/ BrokerReceive \/ (\E t \in Topics : BrokerPublish(t))
           \/ HandleSubAck \/ HandleUnsubAck \/ HandlePublish
  <2>1. UNCHANGED <<link, connected, persists, clean_start>>
    BY <1>7 DEF Transmit, BrokerReceive, BrokerPublish, HandleSubAck, HandleUnsubAck,
                HandlePublish, brokerVars, sharedVars
  <2>2. ~link => UNCHANGED <<uplink, downlink>>
    BY <1>7 DEF Transmit, BrokerReceive, BrokerPublish, HandleSubAck, HandleUnsubAck,
                HandlePublish, Receive, LinkInv
  <2>3. connected = "no" => UNCHANGED ack_status
    BY <1>7 DEF Transmit, BrokerReceive, BrokerPublish, HandleSubAck, HandleUnsubAck,
                HandlePublish, Receive, sharedVars
  <2> QED
    BY <2>1, <2>2, <2>3 DEF LinkInv
<1>8. CASE UNCHANGED vars
  BY <1>8 DEF vars, netVars, brokerVars, sharedVars, LinkInv
<1> QED
  BY <1>1, <1>2, <1>3, <1>4, <1>5, <1>6, <1>7, <1>8, Steps DEF PeerStep, Select

\* The steps that change the sessions and filters of the broker are few.
LEMMA PeerKinds ==
  ASSUME PeerStep
  PROVE  \/ UNCHANGED <<persists, subscribed, sessions, missed, clean_session_count>>
         \/ BrokerReceive \/ BrokerForgets \/ Connect \/ ConnackLost
BY DEF PeerStep, Select, Transmit, StackNotices, Reset, HandleSubAck, HandleUnsubAck,
       HandlePublish, LinkLost, BrokerPublish, brokerVars, sharedVars

\* An UNSUBSCRIBE that the broker carries out takes only what was given up.
LEMMA KeptReceive ==
  ASSUME Types, BeforeWrap, StreamOps, UnsubsInv, BrokerReceive,
         NEW h \in Handles, ~GaveUp(h), Kept(h)
  PROVE  Kept(h)'
<1>1. PeerStep /\ UNCHANGED filters
  BY PeerFootprint DEF PeerStep, callVars
<1> DEFINE q == Head(uplink)
<1>2. uplink # <<>> /\ uplink \in Seq(Requests)
  BY DEF BrokerReceive, Types, NetTypes
<1>3. q \in Elems(uplink)
  BY <1>2, ElemsTail
<1>4. \/ q.type = "Subscribe" /\ subscribed \subseteq subscribed'
      \/ q.type = "Unsubscribe" /\ \A f \in subscribed : f \in subscribed' \/ f \in q.filters
  BY DEF BrokerReceive
<1> HIDE DEF q
<1>5. q.type = "Unsubscribe" => \A f \in q.filters : GivenUp(h, f)
  <2>1. ASSUME q.type = "Unsubscribe", NEW f \in q.filters PROVE GivenUp(h, f)
    <3>1. PICK o \in Handles : q.filters = filters[o] /\ GaveUp(o)
      BY <1>3, <2>1 DEF UnsubsInv, Unsubscribing
    <3>2. o # h
      BY <3>1
    <3> QED
      BY <2>1, <3>1, <3>2 DEF GivenUp
  <2> QED
    BY <2>1
<1>6. \A f \in filters[h] : f \in subscribed => f \in subscribed' \/ GivenUp(h, f)
  BY <1>4, <1>5
<1> QED
  BY <1>1, <1>6, KeptStays

\* The broker has what it said it has.
LEMMA SubAckStep ==
  ASSUME Types, NetTypes', BeforeWrap, RequestInv, StreamOps, UnsubsInv, LinkInv, SubAckInv,
         [Next]_vars
  PROVE  SubAckInv'
<1>0. CallTypes /\ SharedTypes /\ NetTypes /\ last_pid \in Pids
  BY DEF Types, SharedTypes
<1>1. CASE CallStep
  <2> SUFFICES ASSUME NEW h \in Handles, pc'[h] = "waiting", op'[h] = "Subscribe"
               PROVE  /\ ack_status'[pid'[h]] = "Acked" /\ persists' => Kept(h)'
                      /\ (\E p \in Elems(downlink') : p.type = "SubAck" /\ p.id = pid'[h] /\ p.ok)
                           => Kept(h)'
    BY DEF SubAckInv
  <2>1. PICK g \in Handles : Proceed(g) \/ Choose(g)
    BY <1>1 DEF CallStep
  <2>2. CallDoes(g)
    BY <2>1, CallEffect
  <2>3. UNCHANGED <<uplink, downlink, subscribed, persists>>
    BY <1>1, CallFootprint DEF netVars, brokerVars
  <2>4. CASE h = g
    <3>1. Enqueue(h) /\ pc[h] \in {"locking", "granting"}
      BY <2>2, <2>4 DEF CallDoes
    <3>2. UNCHANGED pid /\ pid[h] \in Pids /\ ack_status' = [ack_status EXCEPT ![pid[h]] = Awaiting(h)]
      BY <1>0, <3>1 DEF Enqueue, Awaiting, CallTypes
    <3>3. ack_status'[pid'[h]] # "Acked"
      BY <1>0, <3>2 DEF SharedTypes, Awaiting
    <3>4. Unused(h)
      BY <3>1 DEF RequestInv
    <3> QED
      BY <2>3, <3>2, <3>3, <3>4 DEF Unused
  <2>5. CASE h # g
    <3>1. /\ pc[h] = "waiting" /\ pid'[h] = pid[h] /\ op[h] = "Subscribe"
          /\ filters'[h] = filters[h]
      BY <2>2, <2>5 DEF CallDoes
    <3>2. pid[h] \in Pids
      BY <1>0, <3>1 DEF CallTypes
    <3>3. ack_status'[pid[h]] = "Acked" => ack_status[pid[h]] = "Acked"
      BY <2>2, <3>2 DEF CallDoes
    <3>4. Kept(h) => Kept(h)'
      BY <1>1, <2>3, <3>1, KeptStays
    <3> QED
      BY <2>3, <3>1, <3>3, <3>4 DEF SubAckInv
  <2> QED
    BY <2>4, <2>5
<1>2. CASE PeerStep
  <2> SUFFICES ASSUME NEW h \in Handles, pc'[h] = "waiting", op'[h] = "Subscribe"
               PROVE  /\ ack_status'[pid'[h]] = "Acked" /\ persists' => Kept(h)'
                      /\ (\E p \in Elems(downlink') : p.type = "SubAck" /\ p.id = pid'[h] /\ p.ok)
                           => Kept(h)'
    BY DEF SubAckInv
  <2>1. /\ UNCHANGED <<pid, op, pc, filters>> /\ pc[h] = "waiting" /\ op[h] = "Subscribe"
    BY <1>2, PeerFootprint DEF callVars
  <2>2. PeerDoes
    BY <1>2, PeerEffect
  <2>3. Ours(h) /\ ~GaveUp(h) /\ pid[h] \in Pids
    BY <1>0, <2>1 DEF RequestInv, GaveUp, CallTypes
  \* The connection that is made starts from nothing.
  <2>4. CASE Connect \/ ConnackLost
    <3>1. connected = "no" /\ UNCHANGED <<ack_status, downlink>>
      BY <2>4 DEF Connect, ConnackLost, sharedVars, netVars
    <3>2. downlink = <<>> /\ ack_status[pid[h]] # "Acked"
      BY <2>3, <3>1 DEF LinkInv
    <3>3. Elems(downlink') = {}
      BY <3>1, <3>2, ElemsEmpty
    <3> QED
      BY <2>1, <3>1, <3>2, <3>3
  <2>5. CASE BrokerForgets
    <3>1. ~link /\ persists' = FALSE /\ UNCHANGED downlink
      BY <2>5 DEF BrokerForgets, netVars
    <3>2. Elems(downlink') = {}
      BY <3>1, ElemsEmpty DEF LinkInv
    <3> QED
      BY <3>1, <3>2
  \* The broker answers, or a handler takes the answer.
  <2>6. ASSUME UNCHANGED persists, Kept(h) => Kept(h)'
        PROVE  /\ ack_status'[pid'[h]] = "Acked" /\ persists' => Kept(h)'
               /\ (\E p \in Elems(downlink') : p.type = "SubAck" /\ p.id = pid'[h] /\ p.ok)
                    => Kept(h)'
    <3>1. ASSUME ack_status'[pid[h]] = "Acked", persists PROVE Kept(h)
      <4>1. CASE ack_status[pid[h]] = "Acked"
        BY <2>1, <3>1, <4>1 DEF SubAckInv
      <4>2. ASSUME NEW p \in Elems(downlink), p.type # "Publish", p.id = pid[h], Takes(p)
            PROVE  Kept(h)
        <5>1. p.type = "SubAck"
          BY <2>1, <2>3, <4>2 DEF Ours, AckType
        <5>2. p.ok
          BY <3>1, <4>2 DEF Takes
        <5> QED
          BY <2>1, <4>2, <5>1, <5>2 DEF SubAckInv
      <4> QED
        BY <2>2, <2>3, <3>1, <4>1, <4>2 DEF PeerDoes
    <3>2. ASSUME NEW p \in Elems(downlink'), p.type = "SubAck", p.id = pid[h], p.ok
          PROVE  Kept(h)'
      <4>1. CASE p \in Elems(downlink)
        BY <2>1, <2>6, <3>2, <4>1 DEF SubAckInv
      <4>2. ASSUME NEW q \in Elems(uplink), AnswerTo(q, p) PROVE Kept(h)'
        <5>1. q.id = pid[h] /\ q.filters \subseteq subscribed'
          BY <3>2, <4>2 DEF AnswerTo
        <5>2. q = Request(h)
          BY <2>3, <5>1 DEF Ours
        <5>3. q.filters = filters[h]
          BY <5>2 DEF Request, Packet
        <5> QED
          BY <2>1, <5>1, <5>3 DEF Kept
      <4> QED
        BY <2>2, <3>2, <4>1, <4>2 DEF PeerDoes
    <3> QED
      BY <2>1, <2>6, <3>1, <3>2
  <2>7. CASE BrokerReceive
    <3>1. UNCHANGED persists
      BY <2>7 DEF BrokerReceive
    <3>2. Kept(h) => Kept(h)'
      BY <2>3, <2>7, KeptReceive
    <3> QED
      BY <2>6, <3>1, <3>2
  <2>8. CASE UNCHANGED <<persists, subscribed>>
    <3>1. Kept(h) => Kept(h)'
      BY <1>2, <2>1, <2>8, KeptStays
    <3> QED
      BY <2>6, <2>8, <3>1
  <2> QED
    BY <1>2, <2>4, <2>5, <2>7, <2>8, PeerKinds
<1>3. CASE UNCHANGED vars
  BY <1>3 DEF vars, sharedVars, callVars, netVars, brokerVars, SubAckInv, Kept, GivenUp, GaveUp
<1> QED
  BY <1>1, <1>2, <1>3, Steps

\* Fewer than 256 clean sessions show in the u8.
LEMMA CountShows ==
  ASSUME NEW c \in 0..255, NEW d \in 1..255
  PROVE  (c + d) % 256 # c
OBVIOUS

\* A stream loses its filters only with its session, and then lags behind.
LEMMA LiveStep ==
  ASSUME Types, BeforeWrap, StreamOps, UnsubsInv, SubAckInv, LiveInv, [Next]_vars
  PROVE  LiveInv'
<1>0. CallTypes /\ BirthTypes /\ clean_session_count \in 0..255
  BY DEF Types, SharedTypes
<1>1. CASE CallStep
  <2> SUFFICES ASSUME NEW h \in Handles, pc'[h] = "active"
               PROVE  \/ created'[h] = clean_session_count' /\ (persists' /\ ~missed' => Kept(h)')
                      \/ Behind(h)'
    BY DEF LiveInv
  <2>1. PICK g \in Handles : Proceed(g) \/ Choose(g)
    BY <1>1 DEF CallStep
  <2>2. CallDoes(g)
    BY <2>1, CallEffect
  <2>3. UNCHANGED <<subscribed, persists, sessions, missed, clean_session_count>>
    BY <1>1, CallFootprint DEF brokerVars
  <2>4. filters'[h] = filters[h] => (Kept(h) => Kept(h)')
    BY <1>1, <2>3, KeptStays
  <2>5. CASE pc[h] = "active" /\ created'[h] = created[h] /\ born'[h] = born[h] /\ filters'[h] = filters[h]
    <3>1. CASE created[h] = clean_session_count /\ (persists /\ ~missed => Kept(h))
      BY <2>3, <2>4, <2>5, <3>1
    <3>2. CASE Behind(h)
      BY <2>3, <2>5, <3>2 DEF Behind
    <3> QED
      BY <2>5, <3>1, <3>2 DEF LiveInv
  <2>6. CASE /\ pc[h] = "waiting" /\ op[h] = "Subscribe" /\ ack_status[pid[h]] = "Acked"
             /\ created'[h] = clean_session_count /\ filters'[h] = filters[h]
    BY <2>3, <2>4, <2>6 DEF SubAckInv
  <2>7. CASE h # g
    <3>1. pc[h] = "active" /\ filters'[h] = filters[h]
      BY <2>2, <2>7 DEF CallDoes
    <3>2. created'[h] = created[h] /\ born'[h] = born[h]
      BY <1>0, <2>1, <2>7, CallMoves
    <3> QED
      BY <2>5, <3>1, <3>2
  <2>8. CASE h = g
    <3>1. \/ pc[h] = "active" /\ UNCHANGED <<created, born, op, filters>>
          \/ /\ pc[h] = "waiting" /\ op[h] = "Subscribe"
             /\ ack_status[pid[h]] = "Acked"
             /\ created' = [created EXCEPT ![h] = clean_session_count]
             /\ born' = [born EXCEPT ![h] = sessions]
             /\ UNCHANGED <<op, filters>>
      BY <1>0, <2>1, <2>8, CallMoves
    <3>2. created' = [created EXCEPT ![h] = clean_session_count] => created'[h] = clean_session_count
      BY <1>0 DEF BirthTypes
    <3> QED
      BY <2>5, <2>6, <3>1, <3>2
  <2> QED
    BY <2>7, <2>8
<1>2. CASE PeerStep
  <2> SUFFICES ASSUME NEW h \in Handles, pc'[h] = "active"
               PROVE  \/ created'[h] = clean_session_count' /\ (persists' /\ ~missed' => Kept(h)')
                      \/ Behind(h)'
    BY DEF LiveInv
  <2>1. UNCHANGED <<pc, op, filters, created, born>> /\ pc[h] = "active"
    BY <1>2, PeerFootprint DEF callVars, streamVars
  <2>2. op[h] = "Subscribe" /\ ~GaveUp(h) /\ ~clean_start
    BY <2>1 DEF StreamOps, GaveUp, Alive
  <2>3. ASSUME UNCHANGED <<sessions, clean_session_count>>,
               persists' /\ ~missed' => persists /\ ~missed /\ (Kept(h) => Kept(h)')
        PROVE  \/ created'[h] = clean_session_count' /\ (persists' /\ ~missed' => Kept(h)')
               \/ Behind(h)'
    <3>1. CASE created[h] = clean_session_count /\ (persists /\ ~missed => Kept(h))
      BY <2>1, <2>3, <3>1
    <3>2. CASE Behind(h)
      BY <2>1, <2>3, <3>2 DEF Behind
    <3> QED
      BY <2>1, <3>1, <3>2 DEF LiveInv
  <2>4. UNCHANGED subscribed => (Kept(h) => Kept(h)')
    BY <1>2, <2>1, KeptStays
  <2>5. CASE UNCHANGED <<persists, subscribed, sessions, missed, clean_session_count>>
    BY <2>3, <2>4, <2>5
  <2>6. CASE BrokerReceive
    <3>1. UNCHANGED <<persists, sessions, missed, clean_session_count>>
      BY <2>6 DEF BrokerReceive, sharedVars
    <3>2. Kept(h) => Kept(h)'
      BY <2>2, <2>6, KeptReceive
    <3> QED
      BY <2>3, <3>1, <3>2
  <2>7. CASE BrokerForgets
    <3>1. UNCHANGED <<sessions, clean_session_count>> /\ persists' = FALSE
      BY <2>7 DEF BrokerForgets, sharedVars
    <3> QED
      BY <2>3, <3>1
  <2>8. born[h] \in Nat /\ sessions \in Nat /\ born[h] <= sessions /\ created[h] \in 0..255
    BY <1>0 DEF BirthTypes
  <2>9. CASE ConnackLost /\ ~SessionPresent
    <3>1. sessions' = sessions + 1 /\ UNCHANGED clean_session_count /\ missed'
      BY <2>2, <2>9 DEF ConnackLost, BrokerConnect, sharedVars
    <3>2. CASE created[h] = clean_session_count /\ (persists /\ ~missed => Kept(h))
      BY <2>1, <3>1, <3>2
    <3>3. CASE Behind(h)
      <4>1. 1..(sessions - born[h]) \subseteq 1..(sessions' - born[h])
        BY <2>8, <3>1
      <4> QED
        BY <2>1, <3>1, <3>3, <4>1 DEF Behind
    <3> QED
      BY <2>1, <3>2, <3>3 DEF LiveInv
  <2>10. CASE Connect /\ ~SessionPresent
    <3>1. /\ sessions' = sessions + 1
          /\ clean_session_count' = (clean_session_count + 1) % 256
      BY <2>10 DEF Connect, BrokerConnect, CountSessions
    <3>2. \E d \in 0..(sessions - born[h]) : clean_session_count = (created[h] + d) % 256
      <4>1. CASE created[h] = clean_session_count
        <5>1. 0 \in 0..(sessions - born[h]) /\ created[h] = (created[h] + 0) % 256
          BY <2>8
        <5> QED
          BY <4>1, <5>1
      <4>2. CASE Behind(h)
        <5>1. 1..(sessions - born[h]) \subseteq 0..(sessions - born[h])
          BY <2>8
        <5> QED
          BY <4>2, <5>1 DEF Behind
      <4> QED
        BY <2>1, <4>1, <4>2 DEF LiveInv
    <3>3. PICK d \in 0..(sessions - born[h]) : clean_session_count = (created[h] + d) % 256
      BY <3>2
    <3>4. d \in Nat /\ d + 1 \in 1..(sessions' - born[h])
      BY <2>8, <3>1
    <3>5. clean_session_count' = (created[h] + (d + 1)) % 256
      <4>1. (((created[h] + d) % 256) + 1) % 256 = (created[h] + (d + 1)) % 256
        <5>1. PICK c \in 0..255, e \in Nat : c = created[h] /\ e = d
          BY <2>8, <3>4
        <5>2. (((c + e) % 256) + 1) % 256 = (c + (e + 1)) % 256
          OBVIOUS
        <5> QED
          BY <5>1, <5>2
      <4> QED
        BY <3>1, <3>3, <4>1
    <3>6. Behind(h)'
      BY <2>1, <3>4, <3>5 DEF Behind
    <3> QED
      BY <3>6
  <2>11. CASE (Connect \/ ConnackLost) /\ SessionPresent
    <3>1. /\ UNCHANGED <<sessions, clean_session_count, subscribed>>
          /\ persists /\ (~missed' => ~missed)
      BY <2>11 DEF Connect, ConnackLost, BrokerConnect, CountSessions, SessionPresent, sharedVars
    <3> QED
      BY <2>3, <2>4, <3>1
  <2> QED
    BY <1>2, <2>5, <2>6, <2>7, <2>9, <2>10, <2>11, PeerKinds
<1>3. CASE UNCHANGED vars
  BY <1>3 DEF vars, sharedVars, callVars, streamVars, brokerVars, LiveInv, Behind, Kept, GivenUp,
              GaveUp
<1> QED
  BY <1>1, <1>2, <1>3, Steps

\* A stream is polled before the u8 that counts clean sessions comes around: in
\* fewer than 256 sessions after the one it was made in.
PolledInTime == \A h \in Handles : At(h, "active") => sessions < born[h] + 256

\* A stream that would wait for messages does so with reason: until the packet
\* ids wrap around, and if streams are polled in time, the broker has the filters
\* of a live stream on every connection, resumed or new, but for those that
\* another Subscription gave up and a CONNACK that was lost with the news that
\* the session is another one.
THEOREM LiveAreSubscribed == Spec /\ []BeforeWrap /\ []PolledInTime => []LiveIsSubscribed
<1> DEFINE Inv == StreamOps /\ LinkInv /\ UnsubsInv /\ SubAckInv /\ LiveInv
<1>1. Init => Inv
  <2> SUFFICES ASSUME Init PROVE Inv
    OBVIOUS
  <2>1. Elems(tx) = {} /\ Elems(uplink) = {}
    BY ElemsEmpty DEF Init
  <2>2. \A h \in Handles : pc[h] = "new" /\ op[h] = "Subscribe"
    BY DEF Init
  <2>3. /\ link = FALSE /\ uplink = <<>> /\ downlink = <<>> /\ connected = "no"
        /\ \A id \in Pids : ack_status[id] # "Acked"
    BY DEF Init
  <2> QED
    BY <2>1, <2>2, <2>3 DEF StreamOps, LinkInv, UnsubsInv, SubAckInv, LiveInv
<1>2. /\ Types /\ Types' /\ BeforeWrap /\ RequestInv /\ Inv /\ [Next]_vars
      => Inv'
  <2> SUFFICES ASSUME Types, Types', BeforeWrap, RequestInv, Inv, [Next]_vars PROVE Inv'
    OBVIOUS
  <2>0. NetTypes'
    BY DEF Types
  <2> QED
    BY <2>0, StreamOpsStep, LinkStep, UnsubsStep, SubAckStep, LiveStep
<1>3. Types /\ PolledInTime /\ Inv => LiveIsSubscribed
  <2> SUFFICES ASSUME Types, PolledInTime, LinkInv, LiveInv, NEW h \in Handles, Live(h),
                      link, ~missed
               PROVE  Kept(h)
    BY DEF LiveIsSubscribed, Kept, GivenUp, GaveUp, At
  <2>1. pc[h] = "active" /\ created[h] = clean_session_count /\ persists
    BY DEF Live, At, LinkInv
  <2>2. /\ born[h] \in Nat /\ sessions \in Nat /\ sessions < born[h] + 256
        /\ created[h] \in 0..255
    BY <2>1 DEF Types, BirthTypes, PolledInTime, At
  <2>3. ~Behind(h)
    <3>1. ASSUME NEW d \in 1..(sessions - born[h]) PROVE created[h] # (created[h] + d) % 256
      <4>1. d \in 1..255
        BY <2>2
      <4>2. (created[h] + d) % 256 # created[h]
        <5>1. PICK c \in 0..255 : c = created[h]
          BY <2>2
        <5>2. (c + d) % 256 # c
          BY <4>1, CountShows
        <5> QED
          BY <5>1, <5>2
      <4> QED
        BY <4>2
    <3> QED
      BY <2>1, <3>1 DEF Behind
  <2> QED
    BY <2>1, <2>3 DEF LiveInv
<1> QED
  BY <1>1, <1>2, <1>3, TypesInvariance, RequestInvariance, PTL DEF Spec

-----------------------------------------------------------------------------
(* Ok of unsubscribe() *)

\* Each of these filters is one of another handle too.
Foreign(h, F) == \A f \in F : \E o \in Handles \ {h} : f \in filters[o]

\* The broker has no filter that h alone has.
Gone(h) == Foreign(h, filters[h] \cap subscribed)

\* Nor does a SUBSCRIBE that is queued or on the wire bring one back.
QuietTx(h) == \A f \in Elems(tx) : f.packet.type = "Subscribe" => Foreign(h, f.packet.filters)
QuietUp(h) == \A p \in Elems(uplink) : p.type = "Subscribe" => Foreign(h, p.filters)

\* The attempts of subscribe() that timed out are in front of the UNSUBSCRIBE.
TxOrder(h) ==
  \A i, j \in 1..Len(tx) :
    i < j /\ tx[i].packet.id = pid[h] /\ tx[j].packet.type = "Subscribe" =>
      Foreign(h, tx[j].packet.filters)
UpOrder(h) ==
  \A i, j \in 1..Len(uplink) :
    i < j /\ uplink[i].id = pid[h] /\ uplink[j].type = "Subscribe" =>
      Foreign(h, uplink[j].filters)

\* While h waits for its UNSUBACK, no SUBSCRIBE behind its UNSUBSCRIBE brings its
\* filters back, and with a good answer they are gone.
Ordered(h) ==
  /\ TxOrder(h) /\ UpOrder(h)
  /\ (\E p \in Elems(uplink) : p.id = pid[h]) => QuietTx(h)
  /\ \A p \in Elems(downlink) : p.type = "UnsubAck" /\ p.id = pid[h] =>
       QuietTx(h) /\ QuietUp(h) /\ (p.ok => Gone(h))
  /\ ack_status[pid[h]] = "Acked" => QuietTx(h) /\ QuietUp(h) /\ Gone(h)

\* The invariant that OkIsUnsubscribed rests on.
OrderInv ==
  /\ \A h \in Handles : pc[h] = "new" => filters[h] = {}
  /\ \A h \in Handles : pc[h] = "waiting" /\ op[h] = "Unsubscribe" => Ordered(h)

\* A step of some handle: a request goes behind all others, and only to its own
\* filters.
LEMMA OrderCallStep ==
  ASSUME Types, NetTypes', BeforeWrap, RequestInv, OrderInv, NEW g \in Handles,
         Proceed(g) \/ Choose(g)
  PROVE  OrderInv'
<1>0. /\ CallTypes /\ SharedTypes /\ NetTypes /\ NetTypes' /\ BirthTypes
      /\ ack_status \in [Pids -> AckStatus]
  BY DEF Types, SharedTypes
<1>1. CallDoes(g)
  BY CallEffect
<1>2. UNCHANGED <<uplink, downlink, subscribed>>
  BY CallFootprint DEF CallStep, netVars, brokerVars
<1>3. /\ Continues(tx', tx) /\ Elems(tx') = Elems(tx) \cup Added(tx, tx')
      /\ \A f \in Added(tx, tx') : NewFrame(g, f)
  BY <1>0, <1>1, AddedElems DEF NetTypes, CallDoes
<1>4. \A o \in Handles : filters[o] \subseteq filters'[o]
  <2>1. filters'[g] = filters[g] \/ filters[g] = {}
    BY <1>1 DEF CallDoes, OrderInv
  <2> QED
    BY <1>1, <2>1 DEF CallDoes
<1>5. ASSUME NEW h \in Handles, NEW F, Foreign(h, F) PROVE Foreign(h, F)'
  BY <1>4, <1>5 DEF Foreign
<1>6. \A h \in Handles : pc'[h] = "new" => filters'[h] = {}
  <2>1. pc'[g] # "new"
    BY <1>0, CallMoves
  <2> QED
    BY <1>1, <2>1 DEF CallDoes, OrderInv
<1>7. Len(tx) \in Nat /\ Len(tx') \in Nat
  BY <1>0, LenProperties DEF NetTypes
<1>8. ASSUME NEW h \in Handles, pc'[h] = "waiting", op'[h] = "Unsubscribe" PROVE Ordered(h)'
  <2>1. CASE h = g
    <3> DEFINE f == Frame(pid[h], Request(h))
    <3>1. Enqueue(h) /\ pc[h] \in {"locking", "granting"}
      BY <1>1, <1>8, <2>1 DEF CallDoes
    <3>2. /\ UNCHANGED pid /\ pid[h] \in Pids
          /\ ack_status' = [ack_status EXCEPT ![pid[h]] = Awaiting(h)]
          /\ tx' = Append(tx, f)
      BY <1>0, <3>1 DEF Enqueue, Awaiting, CallTypes, Request
    <3>3. ack_status'[pid'[h]] # "Acked"
      BY <1>0, <3>2 DEF Awaiting
    <3>4. Unused(h)
      BY <3>1 DEF RequestInv
    <3> HIDE DEF f
    <3>5. Len(tx') = Len(tx) + 1 /\ \A i \in 1..Len(tx) : tx'[i] = tx[i]
      BY <1>0, <3>2, AppendProperties DEF NetTypes
    <3>6. TxOrder(h)'
      <4> SUFFICES ASSUME NEW i \in 1..Len(tx'), NEW j \in 1..Len(tx'), i < j,
                          tx'[i].packet.id = pid[h]
                   PROVE  FALSE
        BY <3>2 DEF TxOrder
      <4>1. i \in 1..Len(tx)
        BY <1>7, <3>5
      <4> QED
        BY <3>4, <3>5, <4>1 DEF Unused, Elems
    <3>7. \A p \in Elems(uplink) : p.id # pid[h]
      BY <3>4 DEF Unused
    <3>8. UpOrder(h)'
      BY <1>2, <3>2, <3>7 DEF UpOrder, Elems
    <3> QED
      BY <1>2, <3>2, <3>3, <3>4, <3>6, <3>7, <3>8 DEF Ordered, Unused
  <2>2. CASE h # g
    <3>1. /\ pc[h] = "waiting" /\ pid'[h] = pid[h] /\ op[h] = "Unsubscribe"
          /\ filters'[h] = filters[h]
      BY <1>1, <1>8, <2>2 DEF CallDoes
    <3>2. Ordered(h)
      BY <3>1 DEF OrderInv
    <3>3. ASSUME NEW f \in Added(tx, tx'), f.packet.type = "Subscribe"
          PROVE  Foreign(h, f.packet.filters)'
      <4>1. CASE f = EmptyFrame
        BY <3>3, <4>1 DEF EmptyFrame, Frame, Packet
      <4>2. CASE pc'[g] = "waiting" /\ f = Frame(pid[g], Request(g))
        <5>1. f.packet.filters = filters[g]
          BY <4>2 DEF Frame, Packet, Request
        <5> QED
          BY <1>4, <2>2, <5>1 DEF Foreign
      <4>3. CASE f.packet.type = "Unsubscribe"
        BY <3>3, <4>3
      <4> QED
        BY <1>3, <4>1, <4>2, <4>3 DEF NewFrame
    <3>4. QuietTx(h) => QuietTx(h)'
      BY <1>3, <1>5, <3>3 DEF QuietTx
    <3>5. QuietUp(h) => QuietUp(h)'
      BY <1>2, <1>5 DEF QuietUp
    <3>6. Gone(h) => Gone(h)'
      BY <1>2, <1>5, <3>1 DEF Gone
    <3>7. TxOrder(h)'
      <4> SUFFICES ASSUME NEW i \in 1..Len(tx'), NEW j \in 1..Len(tx'), i < j,
                          tx'[i].packet.id = pid[h], tx'[j].packet.type = "Subscribe"
                   PROVE  Foreign(h, tx[j].packet.filters)'
        BY <3>1 DEF TxOrder
      <4>1. CASE j <= Len(tx)
        <5>1. i \in 1..Len(tx) /\ j \in 1..Len(tx)
          BY <1>7, <4>1
        <5>2. tx'[i] = tx[i] /\ tx'[j] = tx[j]
          BY <1>3, <5>1 DEF Continues
        <5>3. Foreign(h, tx[j].packet.filters)
          BY <3>2, <5>1, <5>2 DEF Ordered, TxOrder
        <5> QED
          BY <1>4, <5>2, <5>3 DEF Foreign
      <4>2. CASE ~(j <= Len(tx))
        <5>1. j \in (Len(tx) + 1)..Len(tx')
          BY <1>7, <4>2
        <5>2. tx'[j] \in Added(tx, tx')
          BY <5>1 DEF Added
        <5>3. PICK f \in Added(tx, tx') : f = tx'[j]
          BY <5>2
        <5>4. Foreign(h, f.packet.filters)'
          BY <3>3, <5>3
        <5> QED
          BY <5>3, <5>4 DEF Foreign
      <4> QED
        BY <4>1, <4>2
    <3>8. UpOrder(h)'
      <4>1. \A F : Foreign(h, F) => Foreign(h, F)'
        BY <1>5
      <4> QED
        BY <1>2, <3>1, <3>2, <4>1 DEF Ordered, UpOrder
    <3>9. pid[h] \in Pids
      BY <1>0, <3>1 DEF CallTypes
    <3>10. ack_status'[pid[h]] = "Acked" => ack_status[pid[h]] = "Acked"
      BY <1>1, <3>9 DEF CallDoes
    <3> QED
      BY <1>2, <3>1, <3>2, <3>4, <3>5, <3>6, <3>7, <3>8, <3>10 DEF Ordered
  <2> QED
    BY <2>1, <2>2
<1> QED
  BY <1>6, <1>8 DEF OrderInv


\* How a step of the stack, the broker or the connection moves the packets.
LEMMA PeerQueues ==
  ASSUME Types, PeerStep
  PROVE  /\ tx' = tx \/ (tx # <<>> /\ tx' = Tail(tx))
         /\ \/ uplink' = <<>> \/ uplink' = uplink
            \/ uplink # <<>> /\ uplink' = Tail(uplink)
            \/ /\ tx # <<>> /\ tx' = Tail(tx) /\ Head(tx) # EmptyFrame
               /\ uplink' = Append(uplink, Head(tx).packet)
         /\ \A f \in subscribed' :
              f \in subscribed \/ \E q \in Elems(uplink) : q.type = "Subscribe" /\ f \in q.filters
<1>1. CASE Connect \/ ConnackLost \/ BrokerForgets
  <2>1. UNCHANGED <<tx, uplink>> /\ subscribed' \subseteq subscribed
    BY <1>1 DEF Connect, ConnackLost, BrokerForgets, BrokerConnect, netVars
  <2> QED
    BY <2>1
<1>2. CASE LinkLost
  BY <1>2 DEF LinkLost, CloseLink, brokerVars
<1>3. CASE StackNotices
  BY <1>3 DEF StackNotices, Reset, CloseLink, brokerVars
<1>4. CASE Transmit
  <2>1. tx # <<>> /\ tx' = Tail(tx) /\ UNCHANGED subscribed
        /\ \/ uplink' = uplink
           \/ Head(tx) # EmptyFrame /\ uplink' = Append(uplink, Head(tx).packet)
    BY <1>4 DEF Transmit, brokerVars
  <2> QED
    BY <2>1
<1>5. CASE BrokerReceive
  <2> DEFINE q == Head(uplink)
  <2>1. uplink # <<>> /\ uplink' = Tail(uplink) /\ UNCHANGED tx
    BY <1>5 DEF BrokerReceive
  <2>2. q \in Elems(uplink)
    BY <2>1, ElemsTail DEF Types, NetTypes
  <2>3. \/ q.type = "Subscribe" /\ subscribed' \subseteq subscribed \cup q.filters
        \/ subscribed' \subseteq subscribed
    BY <1>5 DEF BrokerReceive
  <2> HIDE DEF q
  <2> QED
    BY <2>1, <2>2, <2>3
<1>6. CASE (\E t \in Topics : BrokerPublish(t)) \/ HandleSubAck \/ HandleUnsubAck \/ HandlePublish
  BY <1>6 DEF BrokerPublish, HandleSubAck, HandleUnsubAck, HandlePublish, brokerVars
<1> QED
  BY <1>1, <1>2, <1>3, <1>4, <1>5, <1>6 DEF PeerStep, Select

\* A step of the stack, the broker or the connection: the packets stay in order.
LEMMA OrderPeerStep ==
  ASSUME Types, NetTypes', BeforeWrap, RequestInv, OrderInv, PeerStep
  PROVE  OrderInv'
<1>0. CallTypes /\ NetTypes /\ NetTypes' /\ ack_status \in [Pids -> AckStatus]
  BY DEF Types, SharedTypes
<1>1. UNCHANGED <<pc, op, pid, filters>>
  BY PeerFootprint DEF callVars
<1>2. PeerDoes
  BY PeerEffect
<1>3. \A h, F : Foreign(h, F)' <=> Foreign(h, F)
  BY <1>1 DEF Foreign
<1>4. ASSUME NEW S, NEW s \in Seq(S), s # <<>>, NEW i \in 1..Len(Tail(s))
      PROVE  Tail(s)[i] = s[i + 1] /\ i + 1 \in 2..Len(s) /\ i \in 1..Len(s)
  <2>1. Len(s) \in Nat /\ Len(Tail(s)) = Len(s) - 1 /\ Tail(s)[i] = s[i + 1]
    BY <1>4, HeadTailProperties, LenProperties
  <2> QED
    BY <2>1
<1>5. ASSUME NEW h \in Handles, pc[h] = "waiting", op[h] = "Unsubscribe" PROVE Ordered(h)'
  <2>0. Ordered(h) /\ Ours(h) /\ pid[h] \in Pids
    BY <1>0, <1>5 DEF OrderInv, RequestInv, CallTypes
  <2>1. QuietTx(h) => QuietTx(h)'
    BY <1>2, <1>3 DEF QuietTx, PeerDoes
  <2>2. QuietTx(h) /\ QuietUp(h) => QuietUp(h)'
    BY <1>2, <1>3 DEF QuietTx, QuietUp, PeerDoes
  <2>3. QuietUp(h) /\ Gone(h) => Gone(h)'
    BY <1>1, PeerQueues DEF QuietUp, Gone, Foreign
  <2>4. TxOrder(h)'
    <3>1. CASE tx' = tx
      BY <1>1, <1>3, <2>0, <3>1 DEF TxOrder, Ordered
    <3>2. CASE tx # <<>> /\ tx' = Tail(tx)
      <4> SUFFICES ASSUME NEW i \in 1..Len(tx'), NEW j \in 1..Len(tx'), i < j,
                          tx'[i].packet.id = pid[h], tx'[j].packet.type = "Subscribe"
                   PROVE  Foreign(h, tx[j].packet.filters)'
        BY <1>1 DEF TxOrder
      <4>1. /\ tx'[i] = tx[i + 1] /\ i + 1 \in 1..Len(tx)
            /\ tx'[j] = tx[j + 1] /\ j + 1 \in 1..Len(tx) /\ i + 1 < j + 1
        BY <1>0, <1>4, <3>2 DEF NetTypes
      <4>2. Foreign(h, tx[j + 1].packet.filters)
        BY <2>0, <4>1 DEF TxOrder, Ordered
      <4> QED
        BY <1>1, <4>1, <4>2 DEF Foreign
    <3> QED
      BY <3>1, <3>2, PeerQueues
  \* Behind the first packet there is no SUBSCRIBE, if it is the UNSUBSCRIBE.
  <2>5. ASSUME tx # <<>>, tx' = Tail(tx), Head(tx).packet.id = pid[h] PROVE QuietTx(h)'
    <3> SUFFICES ASSUME NEW i \in 1..Len(tx'), tx'[i].packet.type = "Subscribe"
                 PROVE  Foreign(h, tx[i].packet.filters)'
      BY DEF QuietTx, Elems
    <3>1. tx'[i] = tx[i + 1] /\ i + 1 \in 1..Len(tx) /\ 1 < i + 1 /\ 1 \in 1..Len(tx)
      BY <1>0, <1>4, <2>5 DEF NetTypes
    <3>2. Foreign(h, tx[i + 1].packet.filters)
      BY <2>0, <2>5, <3>1 DEF TxOrder, Ordered
    <3> QED
      BY <1>1, <3>1, <3>2 DEF Foreign
  <2>6. ASSUME uplink # <<>>, uplink' = Tail(uplink), Head(uplink).id = pid[h] PROVE QuietUp(h)'
    <3> SUFFICES ASSUME NEW i \in 1..Len(uplink'), uplink'[i].type = "Subscribe"
                 PROVE  Foreign(h, uplink[i].filters)'
      BY DEF QuietUp, Elems
    <3>1. uplink'[i] = uplink[i + 1] /\ i + 1 \in 1..Len(uplink) /\ 1 < i + 1 /\ 1 \in 1..Len(uplink)
      BY <1>0, <1>4, <2>6 DEF NetTypes
    <3>2. Foreign(h, uplink[i + 1].filters)
      BY <2>0, <2>6, <3>1 DEF UpOrder, Ordered
    <3> QED
      BY <1>1, <3>1, <3>2 DEF Foreign
  \* What is sent comes behind what was sent.
  <2>7. ASSUME tx # <<>>, tx' = Tail(tx), Head(tx) # EmptyFrame, uplink' = Append(uplink, Head(tx).packet)
        PROVE  /\ UpOrder(h)'
               /\ (\E p \in Elems(uplink') : p.id = pid[h]) => QuietTx(h)'
    <3> DEFINE q == Head(tx).packet
    <3>0. Head(tx) \in Elems(tx) /\ q \in Requests
      BY <1>0, <2>7, ElemsTail DEF NetTypes, Frames
    <3> HIDE DEF q
    <3>1. /\ Len(uplink) \in Nat /\ Len(uplink') = Len(uplink) + 1
          /\ \A i \in 1..Len(uplink) : uplink'[i] = uplink[i]
          /\ uplink'[Len(uplink) + 1] = q
      <4>1. uplink \in Seq(Requests) /\ uplink' = Append(uplink, q)
        BY <1>0, <2>7 DEF NetTypes, q
      <4> QED
        BY <3>0, <4>1, AppendProperties, LenProperties
    <3>2. UpOrder(h)'
      <4> SUFFICES ASSUME NEW i \in 1..Len(uplink'), NEW j \in 1..Len(uplink'), i < j,
                          uplink'[i].id = pid[h], uplink'[j].type = "Subscribe"
                   PROVE  Foreign(h, uplink[j].filters)'
        BY <1>1 DEF UpOrder
      <4>1. i \in 1..Len(uplink) /\ uplink'[i] = uplink[i]
        BY <3>1
      <4>2. CASE j \in 1..Len(uplink)
        <5>1. uplink'[j] = uplink[j] /\ Foreign(h, uplink[j].filters)
          BY <2>0, <3>1, <4>1, <4>2 DEF UpOrder, Ordered
        <5> QED
          BY <1>1, <5>1 DEF Foreign
      <4>3. CASE j = Len(uplink) + 1
        <5>1. uplink'[j] = q
          BY <3>1, <4>3
        <5>2. uplink[i] \in Elems(uplink)
          BY <4>1 DEF Elems
        <5>3. QuietTx(h)
          BY <2>0, <4>1, <5>2 DEF Ordered
        <5>4. Foreign(h, q.filters)
          BY <3>0, <5>1, <5>3 DEF QuietTx, q
        <5> QED
          BY <1>1, <5>1, <5>4 DEF Foreign
      <4> QED
        BY <3>1, <4>2, <4>3
    <3>3. ASSUME NEW p \in Elems(uplink'), p.id = pid[h] PROVE QuietTx(h)'
      <4>1. p \in Elems(uplink) \/ p = q
        BY <3>1, <3>3 DEF Elems
      <4>2. CASE p \in Elems(uplink)
        BY <2>0, <2>1, <3>3, <4>2 DEF Ordered
      <4>3. CASE p = q
        BY <2>5, <2>7, <3>3, <4>3 DEF q
      <4> QED
        BY <4>1, <4>2, <4>3
    <3> QED
      BY <3>2, <3>3
  <2>8. /\ UpOrder(h)'
        /\ (\E p \in Elems(uplink') : p.id = pid[h]) => QuietTx(h)'
    <3>1. CASE uplink' = <<>>
      <4>1. Len(uplink') = 0
        BY <3>1
      <4> QED
        BY <3>1, <4>1, ElemsEmpty DEF UpOrder, Elems
    <3>2. CASE uplink' = uplink
      BY <1>1, <1>3, <2>0, <2>1, <3>2 DEF Ordered, UpOrder
    <3>3. CASE uplink # <<>> /\ uplink' = Tail(uplink)
      <4>1. UpOrder(h)'
        <5> SUFFICES ASSUME NEW i \in 1..Len(uplink'), NEW j \in 1..Len(uplink'), i < j,
                            uplink'[i].id = pid[h], uplink'[j].type = "Subscribe"
                     PROVE  Foreign(h, uplink[j].filters)'
          BY <1>1 DEF UpOrder
        <5>1. /\ uplink'[i] = uplink[i + 1] /\ i + 1 \in 1..Len(uplink)
              /\ uplink'[j] = uplink[j + 1] /\ j + 1 \in 1..Len(uplink) /\ i + 1 < j + 1
          BY <1>0, <1>4, <3>3 DEF NetTypes
        <5>2. Foreign(h, uplink[j + 1].filters)
          BY <2>0, <5>1 DEF UpOrder, Ordered
        <5> QED
          BY <1>1, <5>1, <5>2 DEF Foreign
      <4>2. Elems(uplink') \subseteq Elems(uplink)
        BY <1>0, <3>3, ElemsTail DEF NetTypes
      <4> QED
        BY <2>0, <2>1, <4>1, <4>2 DEF Ordered
    <3> QED
      BY <2>7, <3>1, <3>2, <3>3, PeerQueues
  \* The UNSUBSCRIBE is answered, and the answer is taken.
  <2>9. ASSUME NEW p \in Elems(downlink'), p.type = "UnsubAck", p.id = pid[h]
        PROVE  QuietTx(h)' /\ QuietUp(h)' /\ (p.ok => Gone(h)')
    <3>1. CASE p \in Elems(downlink)
      BY <2>0, <2>1, <2>2, <2>3, <2>9, <3>1 DEF Ordered
    <3>2. ASSUME NEW q \in Elems(uplink), AnswerTo(q, p), q = Head(uplink), uplink' = Tail(uplink)
          PROVE  QuietTx(h)' /\ QuietUp(h)' /\ (p.ok => Gone(h)')
      <4>1. q.id = pid[h] /\ (p.ok => q.filters \cap subscribed' = {})
        BY <2>9, <3>2 DEF AnswerTo
      <4>2. q = Request(h)
        BY <2>0, <4>1 DEF Ours
      <4>3. q.filters = filters[h]
        BY <4>2 DEF Request, Packet
      <4>4. uplink # <<>>
        BY ElemsEmpty
      <4>5. QuietTx(h)' /\ QuietUp(h)'
        BY <2>0, <2>1, <2>6, <3>2, <4>1, <4>4 DEF Ordered
      <4>6. p.ok => Gone(h)'
        BY <1>1, <4>1, <4>3 DEF Gone, Foreign
      <4> QED
        BY <4>5, <4>6
    <3> QED
      BY <1>2, <2>9, <3>1, <3>2 DEF PeerDoes
  <2>10. ASSUME ack_status'[pid[h]] = "Acked" PROVE QuietTx(h)' /\ QuietUp(h)' /\ Gone(h)'
    <3>1. CASE ack_status[pid[h]] = "Acked"
      BY <2>0, <2>1, <2>2, <2>3, <3>1 DEF Ordered
    <3>2. ASSUME NEW p \in Elems(downlink), p.type # "Publish", p.id = pid[h], Takes(p)
          PROVE  QuietTx(h) /\ QuietUp(h) /\ Gone(h)
      <4>1. p.type = "UnsubAck"
        BY <1>5, <2>0, <3>2 DEF Ours, AckType
      <4>2. p.ok
        BY <2>10, <3>2 DEF Takes
      <4> QED
        BY <2>0, <3>2, <4>1, <4>2 DEF Ordered
    <3> QED
      BY <1>2, <2>0, <2>1, <2>2, <2>3, <2>10, <3>1, <3>2 DEF PeerDoes
  <2> QED
    BY <1>1, <2>4, <2>8, <2>9, <2>10 DEF Ordered
<1> QED
  BY <1>1, <1>5 DEF OrderInv

\* unsubscribe() returns Ok only when the broker has none of its filters, but for
\* those that another call has subscribed to: for any number of handles and
\* whatever is lost, refused, retried or cancelled, until the packet ids wrap
\* around.
THEOREM OkIsUnsubscribed == Spec /\ []BeforeWrap => OkMeansUnsubscribed
<1> DEFINE A == \A h \in Handles : pc[h] # "unsubscribed" /\ pc'[h] = "unsubscribed" =>
                  \A f \in filters[h] \cap subscribed : \E o \in Handles \ {h} : f \in filters[o]
<1>1. Init => OrderInv
  BY DEF Init, OrderInv
<1>2. /\ Types /\ Types' /\ BeforeWrap /\ RequestInv /\ OrderInv /\ [Next]_vars
      => OrderInv'
  <2> SUFFICES ASSUME Types, Types', BeforeWrap, RequestInv, OrderInv, [Next]_vars PROVE OrderInv'
    OBVIOUS
  <2>0. NetTypes'
    BY DEF Types
  <2>1. CASE CallStep
    BY <2>0, <2>1, OrderCallStep DEF CallStep
  <2>2. CASE PeerStep
    BY <2>0, <2>2, OrderPeerStep
  <2>3. CASE UNCHANGED vars
    BY <2>3 DEF vars, sharedVars, callVars, netVars, brokerVars, OrderInv, Ordered, TxOrder,
                UpOrder, QuietTx, QuietUp, Gone, Foreign
  <2> QED
    BY <2>1, <2>2, <2>3, Steps
<1>3. Types /\ OrderInv /\ [Next]_vars => [A]_vars
  <2> SUFFICES ASSUME Types, OrderInv, Next, NEW h \in Handles,
                      pc[h] # "unsubscribed", pc'[h] = "unsubscribed"
               PROVE  \A f \in filters[h] \cap subscribed : \E o \in Handles \ {h} : f \in filters[o]
    OBVIOUS
  <2>0. CallTypes
    BY DEF Types
  <2>1. pc[h] = "waiting" /\ op[h] = "Unsubscribe" /\ ack_status[pid[h]] = "Acked"
    <3>1. CASE PeerStep
      BY <3>1, PeerFootprint DEF callVars
    <3>2. ASSUME NEW g \in Handles, Proceed(g) \/ Choose(g)
          PROVE  pc[h] = "waiting" /\ op[h] = "Unsubscribe" /\ ack_status[pid[h]] = "Acked"
      <4>1. UnsubscribeAcked(g)
        BY <2>0, <3>2, ZenonT(60) DEF CallTypes, Proceed, Choose, TakePid, LockPublisher, Enqueue, EnqueueFails,
              SubscribeAcked, Timeout, PollNext, Start, StartUnsubscribe, CancelSubscribe,
              DropSubscription, Drop, Retry, Leave, Goto
      <4> QED
        BY <2>0, <4>1 DEF CallTypes, UnsubscribeAcked, At, Drop, Leave, Goto
    <3> QED
      BY <3>1, <3>2 DEF PeerStep, Next
  <2> QED
    BY <2>1 DEF OrderInv, Ordered, Gone, Foreign
<1> QED
  BY <1>1, <1>2, <1>3, TypesInvariance, RequestInvariance, PTL DEF Spec, OkMeansUnsubscribed

-----------------------------------------------------------------------------
(* What streams yield *)

\* What a step of a call does to its stream: it is over or another's business, it
\* starts at the end of the log, its SUBSCRIBE is under way, it has the SUBACK for
\* filters that new() accepts, or it is polled.
LEMMA StreamCalls ==
  ASSUME CallTypes, StreamTypes, NEW h \in Handles, Proceed(h) \/ Choose(h)
  PROVE  /\ \A g \in Handles \ {h} :
              /\ pc'[g] = pc[g] /\ op'[g] = op[g] /\ filters'[g] = filters[g]
              /\ cursor'[g] = cursor[g] /\ yielded'[g] = yielded[g]
         /\ \/ /\ pc'[h] \notin {"new", "active"}
               /\ pc'[h] \in Sending => op'[h] # "Subscribe"
            \/ /\ pc[h] = "new" /\ pc'[h] = "connecting"
               /\ cursor'[h] = Len(rx) + 1 /\ UNCHANGED yielded
            \/ /\ pc[h] \in Sending /\ op[h] = "Subscribe" /\ pc'[h] \in Sending
               /\ UNCHANGED <<cursor, yielded>>
            \/ /\ pc[h] = "waiting" /\ op[h] = "Subscribe" /\ pc'[h] = "active"
               /\ \A f \in filters[h] : new(f) = "ok"
               /\ UNCHANGED <<cursor, yielded, filters>>
            \/ /\ pc[h] = "active" /\ pc'[h] = "active" /\ UNCHANGED filters
               /\ NextRead(h) <= Len(rx) /\ cursor' = [cursor EXCEPT ![h] = NextRead(h) + 1]
               /\ yielded' = IF Wanted(h, rx[NextRead(h)].topic)
                             THEN [yielded EXCEPT ![h] = Append(@, NextRead(h))]
                             ELSE yielded
<1> USE DEF CallTypes, StreamTypes, At, Goto, Leave, Sending
<1>1. ASSUME NEW F \in FilterSets[h], Start(h, F)
      PROVE  /\ pc[h] = "new" /\ UNCHANGED <<op, yielded>>
             /\ \/ pc'[h] = "connecting" /\ cursor'[h] = Len(rx) + 1
                \/ pc'[h] = "failed"
             /\ \A g \in Handles \ {h} :
                  pc'[g] = pc[g] /\ filters'[g] = filters[g] /\ cursor'[g] = cursor[g]
  <2>1. /\ filters' = [filters EXCEPT ![h] = F] /\ pc[h] = "new" /\ UNCHANGED <<op, yielded>>
        /\ \/ pc' = [pc EXCEPT ![h] = "connecting"] /\ cursor' = [cursor EXCEPT ![h] = Len(rx) + 1]
           \/ pc' = [pc EXCEPT ![h] = "failed"] /\ UNCHANGED cursor
    BY <1>1 DEF Start
  <2> QED
    BY <2>1
<1>2. CASE StartUnsubscribe(h)
  BY <1>2 DEF StartUnsubscribe, streamVars
<1>3. CASE TakePid(h) \/ LockPublisher(h) \/ Enqueue(h)
  <2>1. /\ pc[h] \in Sending /\ UNCHANGED <<op, filters, cursor, yielded>>
        /\ \E place \in Sending : pc' = [pc EXCEPT ![h] = place]
    BY <1>3 DEF TakePid, LockPublisher, Enqueue, Granted, streamVars
  <2> QED
    BY <2>1
<1>4. ASSUME NEW kinds, NEW lock, NEW frames, NEW status, Drop(h, kinds, lock, frames, status)
      PROVE  /\ pc'[h] = "dropped" /\ UNCHANGED <<op, filters>>
             /\ \A g \in Handles \ {h} :
                  pc'[g] = pc[g] /\ cursor'[g] = cursor[g] /\ yielded'[g] = yielded[g]
  <2>1. /\ pc' = [pc EXCEPT ![h] = "dropped"] /\ UNCHANGED <<op, filters>>
        /\ cursor' = [cursor EXCEPT ![h] = 0] /\ yielded' = [yielded EXCEPT ![h] = <<>>]
    BY <1>4 DEF Drop
  <2> QED
    BY <2>1
<1>5. ASSUME Retry(h)
      PROVE  /\ \/ pc'[h] = "connecting" /\ UNCHANGED <<cursor, yielded>>
                \/ pc'[h] = "failed"
             /\ \A g \in Handles \ {h} :
                  pc'[g] = pc[g] /\ cursor'[g] = cursor[g] /\ yielded'[g] = yielded[g]
  <2>1. \/ pc' = [pc EXCEPT ![h] = "connecting"] /\ UNCHANGED <<cursor, yielded>>
        \/ /\ pc' = [pc EXCEPT ![h] = "failed"]
           /\ cursor' = [cursor EXCEPT ![h] = 0] /\ yielded' = [yielded EXCEPT ![h] = <<>>]
    BY <1>5 DEF Retry
  <2> QED
    BY <2>1
<1>6. CASE EnqueueFails(h)
  <2>1. CASE op[h] = "Subscribe"
    <3>1. pc[h] \in Sending /\ Retry(h) /\ UNCHANGED <<op, filters>>
      BY <1>6, <2>1 DEF EnqueueFails, Granted
    <3> QED
      BY <1>5, <2>1, <3>1
  <2>2. CASE op[h] # "Subscribe"
    <3>1. Drop(h, {}, NoHandle, Append(tx, EmptyFrame), ack_status)
      BY <1>6, <2>2 DEF EnqueueFails
    <3> QED
      BY <1>4, <3>1
  <2> QED
    BY <2>1, <2>2
<1>7. CASE UnsubscribeAcked(h)
  <2>1. CASE /\ pc' = [pc EXCEPT ![h] = "unsubscribed"] /\ UNCHANGED <<op, filters>>
             /\ cursor' = [cursor EXCEPT ![h] = 0] /\ yielded' = [yielded EXCEPT ![h] = <<>>]
    BY <2>1
  <2>2. CASE Drop(h, {}, tx_publisher, tx, AnswerTaken(h))
    BY <1>4, <2>2
  <2> QED
    BY <1>7, <2>1, <2>2 DEF UnsubscribeAcked
<1>8. CASE DropSubscription(h)
  <2>1. Drop(h, IF pc[h] \in Alive THEN {} ELSE {"cancel"}, tx_publisher', tx, ack_status)
    BY <1>8 DEF DropSubscription
  <2> QED
    BY <1>4, <2>1
<1>9. CASE Timeout(h)
  <2>1. op[h] = "Subscribe" /\ pc[h] \in Sending /\ Retry(h) /\ UNCHANGED <<op, filters>>
    BY <1>9 DEF Timeout, Blocked
  <2> QED
    BY <1>5, <2>1
<1>10. CASE CancelSubscribe(h)
  <2>1. /\ pc' = [pc EXCEPT ![h] = "failed"] /\ UNCHANGED <<op, filters>>
        /\ cursor' = [cursor EXCEPT ![h] = 0] /\ yielded' = [yielded EXCEPT ![h] = <<>>]
    BY <1>10 DEF CancelSubscribe
  <2> QED
    BY <2>1
<1>11. CASE SubscribeAcked(h)
  <2>1. pc[h] = "waiting" /\ op[h] = "Subscribe" /\ UNCHANGED <<op, filters>>
    BY <1>11 DEF SubscribeAcked
  <2>2. CASE Retry(h)
    BY <1>5, <2>1, <2>2
  <2>3. CASE /\ pc' = [pc EXCEPT ![h] = "active"] /\ UNCHANGED <<cursor, yielded>>
             /\ \A f \in filters[h] : new(f) = "ok"
    BY <2>1, <2>3
  <2>4. CASE /\ pc' = [pc EXCEPT ![h] = "failed"]
             /\ cursor' = [cursor EXCEPT ![h] = 0] /\ yielded' = [yielded EXCEPT ![h] = <<>>]
    BY <2>1, <2>4
  <2> QED
    BY <1>11, <2>2, <2>3, <2>4 DEF SubscribeAcked
<1>12. CASE PollNext(h)
  <2>1. pc[h] = "active" /\ UNCHANGED <<op, filters>>
    BY <1>12 DEF PollNext
  <2>2. CASE pc' = [pc EXCEPT ![h] = "ended"] /\ UNCHANGED <<cursor, yielded>>
    BY <2>1, <2>2
  <2>3. CASE /\ NextRead(h) <= Len(rx) /\ UNCHANGED pc
             /\ cursor' = [cursor EXCEPT ![h] = NextRead(h) + 1]
             /\ yielded' = IF Wanted(h, rx[NextRead(h)].topic)
                           THEN [yielded EXCEPT ![h] = Append(@, NextRead(h))]
                           ELSE yielded
    <3>1. \A g \in Handles \ {h} : cursor'[g] = cursor[g] /\ yielded'[g] = yielded[g]
      BY <2>3
    <3> QED
      BY <2>1, <2>3, <3>1
  <2> QED
    BY <1>12, <2>2, <2>3 DEF PollNext
<1> QED
  BY <1>1, <1>2, <1>3, <1>6, <1>7, <1>8, <1>9, <1>10, <1>11, <1>12 DEF Proceed, Choose

\* The messages behind a stream's cursor that it wants; it has yielded them but
\* for evicted ones, and nothing else; and it did so in order.
Passed(h) == {i \in 1..(cursor[h] - 1) : h \in rx[i].due /\ Wanted(h, rx[i].topic)}
Yields(h, y) == Elems(y) \subseteq Passed(h) /\ \A i \in Passed(h) : i >= floor => i \in Elems(y)
Increases(s) == \A i, j \in 1..Len(s) : i < j => s[i] < s[j]

\* Nothing is due to a handle before it has a receiver, which starts where that
\* begins: all that the receiver has not passed is due.
YieldInv ==
  \A h \in Handles :
    /\ pc[h] = "new" =>
         yielded[h] = <<>> /\ \A i \in 1..Len(rx) : h \notin rx[i].due
    /\ pc[h] \in Sending /\ op[h] = "Subscribe" =>
         /\ yielded[h] = <<>> /\ cursor[h] >= 1
         /\ \A i \in 1..Len(rx) : h \in rx[i].due <=> i >= cursor[h]
    /\ pc[h] = "active" =>
         /\ Increases(yielded[h]) /\ Yields(h, yielded[h]) /\ cursor[h] >= 1
         /\ \A i \in 1..Len(rx) : i >= cursor[h] => h \in rx[i].due
         /\ \A f \in filters[h] : new(f) = "ok"


\* A step of some handle.
LEMMA YieldCallStep ==
  ASSUME Types, YieldInv, NEW g \in Handles, Proceed(g) \/ Choose(g)
  PROVE  YieldInv'
<1>0. CallTypes /\ StreamTypes
  BY DEF Types
<1>1. UNCHANGED <<rx, floor>>
  BY CallFootprint DEF CallStep
<1>2. /\ Len(rx) \in Nat
      /\ \A h \in Handles : cursor[h] \in Nat /\ cursor[h] <= Len(rx) + 1 /\ yielded[h] \in Seq(Nat)
  BY <1>0, LenProperties DEF StreamTypes
<1> SUFFICES ASSUME NEW h \in Handles
             PROVE  /\ pc'[h] = "new" =>
                         yielded'[h] = <<>> /\ \A i \in 1..Len(rx) : h \notin rx[i].due
                    /\ pc'[h] \in Sending /\ op'[h] = "Subscribe" =>
                         /\ yielded'[h] = <<>> /\ cursor'[h] >= 1
                         /\ \A i \in 1..Len(rx) : h \in rx[i].due <=> i >= cursor'[h]
                    /\ pc'[h] = "active" =>
                         /\ Increases(yielded[h])' /\ Yields(h, yielded[h])' /\ cursor'[h] >= 1
                         /\ \A i \in 1..Len(rx) : i >= cursor'[h] => h \in rx[i].due
                         /\ \A f \in filters'[h] : new(f) = "ok"
  BY <1>1 DEF YieldInv
<1>3. "active" \notin Sending /\ "new" \notin Sending
  BY DEF Sending
<1>4. CASE h # g
  <2>1. /\ pc'[h] = pc[h] /\ op'[h] = op[h] /\ filters'[h] = filters[h]
        /\ cursor'[h] = cursor[h] /\ yielded'[h] = yielded[h]
    BY <1>0, <1>4, StreamCalls
  <2>2. Passed(h)' = Passed(h) /\ Increases(yielded[h])' = Increases(yielded[h])
    BY <1>1, <2>1 DEF Passed, Increases, Wanted
  <2>3. Yields(h, yielded[h])' <=> Yields(h, yielded[h])
    BY <1>1, <2>1, <2>2 DEF Yields
  <2> QED
    BY <2>1, <2>2, <2>3 DEF YieldInv
<1>5. CASE h = g
  <2>1. CASE pc'[h] \notin {"new", "active"} /\ (pc'[h] \in Sending => op'[h] # "Subscribe")
    BY <2>1
  <2>2. CASE /\ pc[h] = "new" /\ pc'[h] = "connecting"
             /\ cursor'[h] = Len(rx) + 1 /\ UNCHANGED yielded
    <3>1. yielded[h] = <<>> /\ \A i \in 1..Len(rx) : h \notin rx[i].due /\ ~(i >= Len(rx) + 1)
      BY <1>2, <2>2 DEF YieldInv
    <3>2. cursor'[h] >= 1
      BY <1>2, <2>2
    <3> QED
      BY <2>2, <3>1, <3>2
  <2>3. CASE /\ pc[h] \in Sending /\ op[h] = "Subscribe" /\ pc'[h] \in Sending
             /\ UNCHANGED <<cursor, yielded>>
    BY <1>3, <2>3 DEF YieldInv
  <2>4. CASE /\ pc[h] = "waiting" /\ op[h] = "Subscribe" /\ pc'[h] = "active"
             /\ \A f \in filters[h] : new(f) = "ok"
             /\ UNCHANGED <<cursor, yielded, filters>>
    <3>1. /\ yielded[h] = <<>> /\ cursor[h] >= 1
          /\ \A i \in 1..Len(rx) : h \in rx[i].due <=> i >= cursor[h]
      BY <2>4 DEF YieldInv, Sending
    <3>2. Increases(yielded[h])' /\ Elems(yielded'[h]) = {}
      BY <2>4, <3>1, ElemsEmpty DEF Increases
    <3>3. Passed(h)' = {}
      <4>1. ASSUME NEW i \in 1..(cursor[h] - 1) PROVE h \notin rx[i].due
        <5>1. i \in 1..Len(rx) /\ ~(i >= cursor[h])
          BY <1>2
        <5> QED
          BY <3>1, <5>1
      <4> QED
        BY <1>1, <2>4, <4>1 DEF Passed
    <3>4. Yields(h, yielded[h])'
      BY <3>2, <3>3 DEF Yields
    <3> QED
      BY <1>3, <2>4, <3>1, <3>2, <3>4
  <2>5. CASE /\ pc[h] = "active" /\ pc'[h] = "active" /\ UNCHANGED filters
             /\ NextRead(h) <= Len(rx) /\ cursor' = [cursor EXCEPT ![h] = NextRead(h) + 1]
             /\ yielded' = IF Wanted(h, rx[NextRead(h)].topic)
                           THEN [yielded EXCEPT ![h] = Append(@, NextRead(h))]
                           ELSE yielded
    <3> DEFINE y == yielded[h]
               c == cursor[h]
               n == NextRead(h)
    <3>0. n \in Nat /\ n >= c /\ n >= floor /\ n \in {c, floor} /\ n <= Len(rx)
      BY <1>0, <2>5, NextReadIs
    <3>1. /\ Increases(y) /\ Yields(h, y) /\ c >= 1
          /\ \A i \in 1..Len(rx) : i >= c => h \in rx[i].due
          /\ \A f \in filters[h] : new(f) = "ok"
      BY <2>5 DEF YieldInv
    <3>2. cursor'[h] = n + 1
      BY <1>0, <2>5 DEF StreamTypes
    <3>3. yielded'[h] = IF Wanted(h, rx[n].topic) THEN Append(y, n) ELSE y
      BY <1>0, <2>5 DEF StreamTypes
    <3> HIDE DEF n
    <3>4. /\ n \in 1..Len(rx) /\ y \in Seq(Nat) /\ Len(y) \in Nat
          /\ \A i \in 1..Len(y) : y[i] \in Nat /\ y[i] < n
      <4>1. y \in Seq(Nat) /\ Len(y) \in Nat /\ c \in Nat /\ floor \in Nat
        BY <1>0, <1>2, LenProperties DEF StreamTypes
      <4>2. \A i \in 1..Len(y) : y[i] \in Nat /\ y[i] < c
        BY <1>0, <4>1, ElementOfSeq DEF StreamTypes
      <4> QED
        BY <1>2, <3>0, <3>1, <4>1, <4>2, SMTT(30)
    <3>5. c \in Nat /\ floor \in Nat /\ c <= Len(rx) + 1
      BY <1>0, <1>2 DEF StreamTypes
    <3>6. ASSUME NEW i
          PROVE  i \in Passed(h)' <=> i \in 1..n /\ h \in rx[i].due /\ Wanted(h, rx[i].topic)
      <4>1. 1..(cursor'[h] - 1) = 1..n
        BY <3>0, <3>2
      <4>2. UNCHANGED <<filters, rx>>
        BY <1>1, <2>5
      <4>3. Wanted(h, rx[i].topic)' <=> Wanted(h, rx[i].topic)
        BY <4>2, Zenon DEF Wanted
      <4>4. Passed(h)' = {k \in 1..(cursor'[h] - 1) : h \in rx'[k].due /\ Wanted(h, rx[k].topic)'}
        BY Zenon DEF Passed
      <4> QED
        BY <4>1, <4>2, <4>3, <4>4, Zenon
    <3>7. ASSUME NEW i
          PROVE  i \in Passed(h) <=> i \in 1..(c - 1) /\ h \in rx[i].due /\ Wanted(h, rx[i].topic)
      BY Zenon DEF Passed, c
    <3> HIDE DEF y, c
    <3>8. /\ Passed(h) \subseteq Passed(h)'
          /\ \A i \in Passed(h)' : i >= floor => i \in Passed(h) \/ (i = n /\ Wanted(h, rx[n].topic))
          /\ Wanted(h, rx[n].topic) => n \in Passed(h)'
      <4>1. \A i \in 1..(c - 1) : i \in 1..n
        BY <3>0, <3>5
      <4>2. ASSUME NEW i \in 1..n, i >= floor PROVE i \in 1..(c - 1) \/ i = n
        BY <3>0, <3>5, <4>2
      <4>3. n \in 1..n /\ h \in rx[n].due
        BY <3>0, <3>1, <3>4
      <4> QED
        BY <3>6, <3>7, <4>1, <4>2, <4>3, Zenon
    <3>9. Increases(Append(y, n)) /\ Elems(Append(y, n)) = Elems(y) \cup {n}
      <4>1. /\ Len(Append(y, n)) = Len(y) + 1
            /\ \A i \in 1..Len(y) : Append(y, n)[i] = y[i]
            /\ Append(y, n)[Len(y) + 1] = n
        BY <3>0, <3>4, AppendProperties
      <4>2. ASSUME NEW i \in 1..(Len(y) + 1), NEW j \in 1..(Len(y) + 1), i < j
            PROVE  Append(y, n)[i] < Append(y, n)[j]
        <5>1. i \in 1..Len(y) /\ (j \in 1..Len(y) \/ j = Len(y) + 1)
          BY <3>4, <4>2
        <5>2. CASE j \in 1..Len(y)
          BY <3>1, <4>1, <4>2, <5>1, <5>2 DEF Increases
        <5>3. CASE j = Len(y) + 1
          BY <3>4, <4>1, <5>1, <5>3
        <5> QED
          BY <5>1, <5>2, <5>3
      <4>3. Increases(Append(y, n))
        BY <4>1, <4>2 DEF Increases
      <4> QED
        BY <3>0, <3>4, <4>3, ElemsAppend
    <3>10. Increases(yielded[h])' /\ Yields(h, yielded[h])'
      <4>1. Elems(y) \subseteq Passed(h) /\ \A i \in Passed(h) : i >= floor => i \in Elems(y)
        BY <3>1 DEF Yields
      <4>2. CASE Wanted(h, rx[n].topic)
        <5>1. yielded'[h] = Append(y, n)
          BY <3>3, <4>2
        <5>2. Increases(yielded[h])'
          BY <3>9, <5>1 DEF Increases
        <5>3. Elems(yielded'[h]) = Elems(y) \cup {n}
          BY <3>9, <5>1 DEF Elems
        <5> QED
          BY <1>1, <3>8, <4>1, <4>2, <5>2, <5>3 DEF Yields
      <4>3. CASE ~Wanted(h, rx[n].topic)
        <5>1. yielded'[h] = y
          BY <3>3, <4>3
        <5>2. Increases(yielded[h])'
          BY <3>1, <5>1 DEF Increases
        <5>3. Elems(yielded'[h]) = Elems(y)
          BY <5>1 DEF Elems
        <5> QED
          BY <1>1, <3>8, <4>1, <4>3, <5>2, <5>3 DEF Yields
      <4> QED
        BY <4>2, <4>3
    <3>11. cursor'[h] >= 1 /\ \A i \in 1..Len(rx) : i >= cursor'[h] => h \in rx[i].due
      BY <3>0, <3>1, <3>2, <3>5
    <3> QED
      BY <1>3, <2>5, <3>1, <3>10, <3>11
  <2> QED
    BY <1>0, <1>5, <2>1, <2>2, <2>3, <2>4, <2>5, StreamCalls
<1> QED
  BY <1>4, <1>5

\* A step of the stack, the broker or the connection: what is committed is due to
\* whoever has a receiver.
LEMMA YieldPeerStep ==
  ASSUME Types, YieldInv, PeerStep
  PROVE  YieldInv'
<1>0. StreamTypes
  BY DEF Types
<1>1. UNCHANGED <<pc, op, filters, cursor, yielded>>
  BY PeerFootprint DEF callVars, streamVars
<1>2. /\ Len(rx) \in Nat
      /\ \A h \in Handles : cursor[h] \in Nat /\ cursor[h] <= Len(rx) + 1
  BY <1>0, LenProperties DEF StreamTypes
<1>3. CASE UNCHANGED rx /\ floor' >= floor /\ floor' \in Nat
  <2>1. ASSUME NEW h \in Handles, Yields(h, yielded[h]) PROVE Yields(h, yielded[h])'
    <3>1. Passed(h)' = Passed(h) /\ yielded' = yielded
      BY <1>1, <1>3 DEF Passed, Wanted
    <3>2. \A i \in Passed(h) : i >= floor' => i >= floor
      BY <1>0, <1>2, <1>3 DEF Passed, StreamTypes
    <3> QED
      BY <2>1, <3>1, <3>2 DEF Yields
  <2> QED
    BY <1>1, <1>3, <2>1 DEF YieldInv, Increases
<1>4. CASE \E m : /\ rx' = Append(rx, m) /\ m.due = {h \in Handles : pc[h] \in Sending \cup Alive}
                 /\ floor' >= floor /\ floor' \in Nat
  <2> DEFINE n == Len(rx)
  <2>1. PICK m : rx' = Append(rx, m) /\ m.due = {h \in Handles : pc[h] \in Sending \cup Alive}
    BY <1>4
  <2>2. n \in Nat /\ Len(rx') = n + 1 /\ (\A i \in 1..n : rx'[i] = rx[i]) /\ rx'[n + 1] = m
    BY <1>0, <1>2, <2>1, AppendProperties DEF StreamTypes
  <2>3. \A i \in 1..(n + 1) : i \in 1..n \/ i = n + 1
    BY <2>2
  <2>4. \A h \in Handles : cursor[h] \in Nat /\ cursor[h] <= n + 1
    BY <1>2
  <2> HIDE DEF n
  <2> SUFFICES ASSUME NEW h \in Handles
               PROVE  /\ pc[h] = "new" =>
                           yielded[h] = <<>> /\ \A i \in 1..(n + 1) : h \notin rx'[i].due
                      /\ pc[h] \in Sending /\ op[h] = "Subscribe" =>
                           /\ yielded[h] = <<>> /\ cursor[h] >= 1
                           /\ \A i \in 1..(n + 1) : h \in rx'[i].due <=> i >= cursor[h]
                      /\ pc[h] = "active" =>
                           /\ Increases(yielded[h]) /\ Yields(h, yielded[h])' /\ cursor[h] >= 1
                           /\ \A i \in 1..(n + 1) : i >= cursor[h] => h \in rx'[i].due
                           /\ \A f \in filters[h] : new(f) = "ok"
    BY <1>1, <2>2 DEF YieldInv, Increases
  <2>5. CASE pc[h] = "new"
    <3>1. h \notin m.due
      BY <2>1, <2>5 DEF Sending, Alive
    <3> QED
      BY <2>2, <2>3, <2>5, <3>1 DEF YieldInv, Sending, n
  <2>6. CASE pc[h] \in Sending /\ op[h] = "Subscribe"
    <3>1. h \in m.due /\ n + 1 >= cursor[h]
      BY <2>1, <2>4, <2>6
    <3>2. pc[h] # "new" /\ pc[h] # "active"
      BY <2>6 DEF Sending
    <3> QED
      BY <2>2, <2>3, <2>6, <3>1, <3>2 DEF YieldInv, n
  <2>7. CASE pc[h] = "active"
    <3>1. h \in m.due
      BY <2>1, <2>7 DEF Alive
    <3>2. Passed(h)' = Passed(h)
      <4>1. \A i \in 1..(cursor[h] - 1) : rx'[i] = rx[i]
        BY <2>2, <2>4
      <4> QED
        BY <1>1, <4>1 DEF Passed, Wanted
    <3>3. pc[h] \notin Sending
      BY <2>7 DEF Sending
    <3>4. Yields(h, yielded[h])'
      <4>1. \A i \in Passed(h) : i >= floor' => i >= floor
        BY <1>0, <1>2, <1>4 DEF Passed, StreamTypes
      <4> QED
        BY <1>1, <2>7, <3>2, <4>1 DEF YieldInv, Yields
    <3> QED
      BY <2>2, <2>3, <2>7, <3>1, <3>3, <3>4 DEF YieldInv, n
  <2> QED
    BY <2>5, <2>6, <2>7
<1>5. UNCHANGED <<rx, floor>> \/ HandlePublish
  BY DEF PeerStep, Connect, ConnackLost, Select, LinkLost, BrokerForgets, BrokerReceive,
         BrokerPublish, Transmit, StackNotices, HandleSubAck, HandleUnsubAck
<1>6. CASE UNCHANGED <<rx, floor>>
  BY <1>0, <1>3, <1>6 DEF StreamTypes
<1>7. CASE HandlePublish
  <2>1. floor' >= floor /\ floor' \in Nat
    BY <1>0, <1>2, <1>7 DEF HandlePublish, StreamTypes
  <2>2. \/ UNCHANGED rx
        \/ \E m : rx' = Append(rx, m) /\ m.due = {h \in Handles : pc[h] \in Sending \cup Alive}
    BY <1>7 DEF HandlePublish
  <2> QED
    BY <1>3, <1>4, <2>1, <2>2
<1> QED
  BY <1>5, <1>6, <1>7

\* A stream yields only messages that match, as the doc of TopicFilter has it,
\* each once and in order, from the call of subscribe() on, and passes over none
\* that is still in the channel: for any number of streams, filters and messages,
\* however messages overtake the SUBACK, are evicted by grant_immediate() or
\* discarded, and through every retry, lost connection and resumed session.
THEOREM StreamsYieldMatching == Spec => []YieldsMatching
<1>1. Init => YieldInv
  <2> SUFFICES ASSUME Init PROVE YieldInv
    OBVIOUS
  <2>1. rx = <<>> /\ Len(rx) = 0 /\ \A h \in Handles : pc[h] = "new" /\ yielded[h] = <<>>
    BY DEF Init
  <2> QED
    BY <2>1 DEF YieldInv, Sending
<1>2. Types /\ YieldInv /\ [Next]_vars => YieldInv'
  <2> SUFFICES ASSUME Types, YieldInv, [Next]_vars PROVE YieldInv'
    OBVIOUS
  <2>1. CASE CallStep
    BY <2>1, YieldCallStep DEF CallStep
  <2>2. CASE UNCHANGED vars
    BY <2>2 DEF vars, callVars, streamVars, YieldInv, Yields, Passed, Increases, Wanted
  <2> QED
    BY <2>1, <2>2, YieldPeerStep, Steps
<1>3. Types /\ YieldInv => YieldsMatching
  <2> SUFFICES ASSUME Types, YieldInv, NEW h \in Handles, pc[h] = "active"
               PROVE  /\ \A i, j \in DOMAIN yielded[h] : i < j => yielded[h][i] < yielded[h][j]
                      /\ ToSet(yielded[h]) \subseteq ForStream(h)
                      /\ {i \in ForStream(h) : i >= floor} \subseteq ToSet(yielded[h])
    BY DEF YieldsMatching, At
  <2>1. /\ Increases(yielded[h]) /\ Yields(h, yielded[h])
        /\ \A f \in filters[h] : new(f) = "ok"
    BY DEF YieldInv
  <2>2. StreamTypes /\ CallTypes
    BY DEF Types
  <2>3. DOMAIN yielded[h] = 1..Len(yielded[h]) /\ Len(rx) \in Nat /\ cursor[h] \in Nat
        /\ cursor[h] <= Len(rx) + 1
    BY <2>2, LenProperties DEF StreamTypes
  <2>4. ASSUME NEW i \in 1..(cursor[h] - 1), NEW f \in filters[h]
        PROVE  is_match(f, rx[i].topic) <=> Matches(f, rx[i].topic)
    <3>1. rx[i].topic \in Topics
      <4>1. i \in 1..Len(rx)
        BY <2>3
      <4>2. rx[i] \in [topic : Topics, due : SUBSET Handles]
        BY <2>2, <4>1, ElementOfSeq DEF StreamTypes
      <4> QED
        BY <4>2
    <3>2. rx[i].topic \in Topic
      <4>1. PICK t : t = rx[i].topic
        OBVIOUS
      <4>2. t \in Seq(STRING) /\ t # <<>> /\ \A k \in DOMAIN t : t[k] \notin Hashed \cup Plussed
        BY <3>1, <4>1, FieldsAssumption
      <4>3. Len(t) > 0 /\ DOMAIN t = 1..Len(t)
        BY <4>2, EmptySeq, LenProperties
      <4> QED
        BY <4>1, <4>2, <4>3 DEF Topic
    <3>3. f \in Filter
      <4>1. f \in Seq(STRING) /\ f # <<>>
        BY <2>2, FieldsAssumption DEF CallTypes
      <4>2. Len(f) > 0
        BY <4>1, EmptySeq, LenProperties
      <4> QED
        BY <2>1, <4>1, <4>2 DEF Filter
    <3> QED
      BY <3>2, <3>3, MatchIsReference
  <2>5. Passed(h) = ForStream(h)
    BY <2>4 DEF Passed, ForStream, Wanted
  <2>6. ToSet(yielded[h]) = Elems(yielded[h])
    BY <2>3 DEF Elems, ToSet
  <2>7. \A i, j \in DOMAIN yielded[h] : i < j => yielded[h][i] < yielded[h][j]
    BY <2>1, <2>3 DEF Increases
  <2> QED
    BY <2>1, <2>5, <2>6, <2>7 DEF Yields
<1> QED
  BY <1>1, <1>2, <1>3, TypesInvariance, PTL DEF Spec
=============================================================================
