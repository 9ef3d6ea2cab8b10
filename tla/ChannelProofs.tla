---------------------------- MODULE ChannelProofs ----------------------------
(***************************************************************************)
(* What PubSub promises to the users of the channel, on top of the layout  *)
(* and the ids that PubSubProofs establishes: the readers of a frame are   *)
(* counted right, what is read is what was committed, nobody sleeps through *)
(* what they wait for, and the channel is a frame log.                     *)
(***************************************************************************)
EXTENDS PubSubProofs

-----------------------------------------------------------------------------
(* What each critical section does to the queue *)

\* The n oldest frames go.
Popped(n) ==
  /\ messages' \in Seq(Header)
  /\ Len(messages') = Len(messages) - n
  /\ \A i \in 1..(Len(messages) - n) : messages'[i] = messages[i + n]

\* The i-th frame has the count n and the mark b, all else is as it was.
Marked(i, n, b) ==
  /\ messages' \in Seq(Header)
  /\ Len(messages') = Len(messages)
  /\ \A j \in 1..Len(messages) : j # i => messages'[j] = messages[j]
  /\ messages'[i].message_id = messages[i].message_id
  /\ messages'[i].start = messages[i].start
  /\ messages'[i].len = messages[i].len
  /\ messages'[i].subscriber_count = n
  /\ messages'[i].read_in_progress = b

\* The queue as a sequence of headers with consecutive ids.
LEMMA Queue ==
  ASSUME ChannelInv
  PROVE  /\ messages \in Seq(Header) /\ Len(messages) \in Nat
         /\ next_message_id \in Nat /\ StartId \in Nat
         /\ next_message_id = StartId + Len(messages)
         /\ \A i \in 1..Len(messages) :
              /\ messages[i] \in Header
              /\ messages[i].message_id \in Nat
              /\ messages[i].subscriber_count \in Int
              /\ messages[i].read_in_progress \in BOOLEAN
              /\ messages[i].message_id = StartId + i - 1
<1>1. /\ messages \in Seq(Header) /\ Len(messages) \in Nat
      /\ next_message_id \in Nat /\ Len(messages) <= next_message_id
  BY LenProperties DEF ChannelInv, TypeOK
<1>2. StartId \in Nat /\ next_message_id = StartId + Len(messages)
  BY <1>1 DEF StartId
<1>3. \A i \in 1..Len(messages) : messages[i].message_id = StartId + i - 1
  BY DEF ChannelInv, IdsContiguous
<1>4. \A i \in 1..Len(messages) : messages[i] \in Header
  BY <1>1, ElementOfSeq
<1>5. \A i \in 1..Len(messages) : /\ messages[i].message_id \in Nat
                                  /\ messages[i].subscriber_count \in Int
                                  /\ messages[i].read_in_progress \in BOOLEAN
  BY <1>4 DEF Header
<1> QED
  BY <1>1, <1>2, <1>3, <1>4, <1>5

\* pop_front() n times.
LEMMA PopFrontPops ==
  ASSUME ChannelInv, NEW n \in 0..Len(messages), messages' = PopFront(messages, n)
  PROVE  Popped(n)
BY Queue, PopFrontProperties DEF Popped

\* The i-th header gets new flags.
LEMMA FlagsMark ==
  ASSUME ChannelInv, NEW i \in 1..Len(messages), NEW h \in Header,
         h.message_id = messages[i].message_id, h.start = messages[i].start,
         h.len = messages[i].len, messages' = [messages EXCEPT ![i] = h]
  PROVE  Marked(i, h.subscriber_count, h.read_in_progress)
<1>1. /\ messages' \in Seq(Header)
      /\ Len(messages') = Len(messages)
      /\ \A j \in 1..Len(messages) : messages'[j] = IF j = i THEN h ELSE messages[j]
  BY Queue, ExceptSeq
<1> QED
  BY <1>1 DEF Marked

\* A subscriber reads the frame with the id it is due, counts itself off and
\* marks the frame.
LEMMA Takes ==
  ASSUME ChannelInv, NEW s \in Subscribers, CanRead(s), TakeFrame(s)
  PROVE  \E i \in 1..Len(messages) :
           /\ i = ReadIndex(s)
           /\ messages[i].message_id = ReadId(s)
           /\ ~messages[i].read_in_progress
           /\ Marked(i, messages[i].subscriber_count - 1, TRUE)
           /\ cursor' = [cursor EXCEPT ![s] = ReadId(s) + 1]
           /\ rgrants' = rgrants \cup {[sub |-> s, message_id |-> messages[i].message_id,
                                        start |-> messages[i].start,
                                        len |-> messages[i].len,
                                        auto_release |-> TRUE]}
<1> DEFINE i == ReadIndex(s)
           m == messages[i]
           g == [m EXCEPT !.subscriber_count = @ - 1]
           h == [g EXCEPT !.read_in_progress = TRUE]
<1>1. cursor[s] \in Nat
  BY DEF ChannelInv, TypeOK
<1>2. ReadId(s) \in Nat /\ ReadId(s) >= StartId
  BY <1>1, Queue DEF ReadId, Larger
<1>3. i \in 1..Len(messages) /\ ReadId(s) = StartId + i - 1
  BY <1>2, Queue DEF CanRead, Available, ReadIndex
<1>4. messages' = [messages EXCEPT ![i] = h]
  BY DEF TakeFrame
<1>5. ~messages[i].read_in_progress
  BY DEF CanRead
<1>6. /\ cursor' = [cursor EXCEPT ![s] = ReadId(s) + 1]
      /\ rgrants' = rgrants \cup {[sub |-> s, message_id |-> messages[i].message_id,
                                   start |-> messages[i].start, len |-> messages[i].len,
                                   auto_release |-> TRUE]}
  BY DEF TakeFrame
<1> HIDE DEF i
<1>7. m \in Header /\ m.subscriber_count \in Int /\ m.message_id = ReadId(s)
  BY <1>3, Queue
<1> HIDE DEF m
<1>8. /\ g \in Header /\ g.start = m.start /\ g.len = m.len
      /\ g.message_id = m.message_id /\ g.subscriber_count = m.subscriber_count - 1
  BY <1>7 DEF Header
<1> HIDE DEF g
<1>9. /\ h \in Header /\ h.start = m.start /\ h.len = m.len
      /\ h.message_id = m.message_id /\ h.subscriber_count = m.subscriber_count - 1
      /\ h.read_in_progress = TRUE
  BY <1>8 DEF Header
<1> HIDE DEF h
<1>10. Marked(i, h.subscriber_count, h.read_in_progress)
  BY <1>3, <1>4, <1>9, FlagsMark DEF m
<1>11. Marked(i, messages[i].subscriber_count - 1, TRUE)
  BY <1>9, <1>10 DEF m
<1> QED
  BY <1>3, <1>5, <1>6, <1>7, <1>11 DEF m, i

\* Index of the grant's frame.
LEMMA PositionProperties ==
  ASSUME ChannelInv, NEW r
  PROVE  \/ /\ Position(r) = 0
            /\ \A j \in 1..Len(messages) : messages[j].message_id # r.message_id
         \/ /\ Position(r) \in 1..Len(messages)
            /\ messages[Position(r)].message_id = r.message_id
<1> DEFINE at == { n \in 1..Len(messages) : messages[n].message_id = r.message_id }
<1>1. CASE at = {}
  BY <1>1 DEF Position
<1>2. CASE at # {}
  <2>1. PICK n \in at : TRUE
    BY <1>2
  <2>2. ASSUME NEW j \in at PROVE n <= j
    <3>1. /\ messages[n].message_id = StartId + n - 1
          /\ messages[j].message_id = StartId + j - 1
          /\ messages[n].message_id = messages[j].message_id
          /\ StartId \in Int /\ n \in Int /\ j \in Int
      BY Queue
    <3> HIDE DEF at
    <3> QED
      BY <3>1
  <2>3. Position(r) \in at
    BY <1>2, <2>1, <2>2 DEF Position
  <2> QED
    BY <2>3
<1> QED
  BY <1>1, <1>2

\* Releasing a frame that is marked frees it, if it is the oldest and nobody is
\* left to read it, or else clears the mark.
LEMMA Releases ==
  ASSUME ChannelInv, NEW r, ReleaseInner(r)
  PROVE  \/ /\ UNCHANGED <<messages, wakerVars, taskVars>>
            /\ \A j \in 1..Len(messages) :
                 messages[j].message_id = r.message_id => ~messages[j].read_in_progress
         \/ /\ WakeSubscribers /\ WakePublisher /\ Popped(1)
            /\ Len(messages) > 0
            /\ messages[1].message_id = r.message_id
            /\ messages[1].subscriber_count = 0
         \/ \E i \in 1..Len(messages) :
              /\ messages[i].message_id = r.message_id
              /\ ~(i = 1 /\ messages[i].subscriber_count = 0)
              /\ Marked(i, messages[i].subscriber_count, FALSE)
              /\ WakeSubscribers
              /\ UNCHANGED <<publisher_waker, pub_task>>
<1> DEFINE i == Position(r)
<1>1. \/ i = 0 /\ \A j \in 1..Len(messages) : messages[j].message_id # r.message_id
      \/ i \in 1..Len(messages) /\ messages[i].message_id = r.message_id
  BY PositionProperties
<1>2. CASE i = 0 \/ ~messages[i].read_in_progress
  <2>1. UNCHANGED <<messages, wakerVars, taskVars>>
    BY <1>2 DEF ReleaseInner
  <2>2. ASSUME NEW j \in 1..Len(messages), messages[j].message_id = r.message_id
        PROVE  ~messages[j].read_in_progress
    <3>1. i \in 1..Len(messages) /\ messages[i].message_id = r.message_id
      BY <1>1, <2>2
    <3> HIDE DEF i
    <3>2. i = j
      BY <2>2, <3>1, Queue
    <3> QED
      BY <1>2, <3>1, <3>2, Queue
  <2> QED
    BY <2>1, <2>2
<1>3. CASE ~(i = 0 \/ ~messages[i].read_in_progress)
  <2>1. i \in 1..Len(messages) /\ messages[i].message_id = r.message_id /\ WakeSubscribers
    BY <1>1, <1>3 DEF ReleaseInner
  <2>2. CASE i = 1 /\ messages[i].subscriber_count = 0
    <3>1. messages' = PopFront(messages, 1) /\ WakePublisher
      BY <1>3, <2>2 DEF ReleaseInner
    <3>2. 1 \in 0..Len(messages) /\ Len(messages) > 0
      BY <2>1, Queue
    <3>3. Popped(1)
      BY <3>1, <3>2, PopFrontPops
    <3> QED
      BY <2>1, <2>2, <3>1, <3>2, <3>3
  <2>3. CASE ~(i = 1 /\ messages[i].subscriber_count = 0)
    <3> DEFINE m == messages[i]
               h == [m EXCEPT !.read_in_progress = FALSE]
    <3>1. /\ messages' = [messages EXCEPT ![i] = h]
          /\ UNCHANGED <<publisher_waker, pub_task>>
      BY <1>3, <2>3 DEF ReleaseInner
    <3> HIDE DEF i
    <3>2. m \in Header
      BY <2>1, Queue
    <3> HIDE DEF m
    <3>3. /\ h \in Header /\ h.start = m.start /\ h.len = m.len
          /\ h.message_id = m.message_id /\ h.subscriber_count = m.subscriber_count
          /\ h.read_in_progress = FALSE
      BY <3>2 DEF Header
    <3> HIDE DEF h
    <3>4. Marked(i, h.subscriber_count, h.read_in_progress)
      BY <2>1, <3>1, <3>3, FlagsMark DEF m
    <3>5. Marked(i, messages[i].subscriber_count, FALSE)
      BY <3>3, <3>4 DEF m
    <3> QED
      BY <2>1, <2>3, <3>1, <3>5
  <2> QED
    BY <2>2, <2>3
<1> QED
  BY <1>2, <1>3

\* A commit puts a frame behind the others and counts everybody as its reader,
\* or drops it when there is nobody.
LEMMA Commits ==
  ASSUME ChannelInv, NEW w \in wgrants, NEW used \in Nat, CommitInner(w, used)
  PROVE  /\ write_in_progress /\ write_in_progress' = FALSE /\ wgrants' = {}
         /\ \/ UNCHANGED <<messages, next_message_id, subscriber_wakers, sub_task>>
            \/ /\ subscriber_count # 0
               /\ next_message_id' = next_message_id + 1
               /\ messages' \in Seq(Header)
               /\ Len(messages') = Len(messages) + 1
               /\ \A i \in 1..Len(messages) : messages'[i] = messages[i]
               /\ messages'[Len(messages) + 1].message_id = next_message_id
               /\ messages'[Len(messages) + 1].subscriber_count = subscriber_count
               /\ messages'[Len(messages) + 1].read_in_progress = FALSE
               /\ WakeSubscribers
<1>1. TypeOK /\ QueueInv
  BY ChannelInvParts
<1>2. write_in_progress /\ Len(messages) < MaxMessages /\ w \in GrantW
  BY <1>1 DEF QueueInv, OneWriter, TypeOK
<1>3. write_in_progress' = FALSE /\ wgrants' = {}
  BY <1>1, CommitKeepsQueueInv
<1>4. CASE subscriber_count = 0
  BY <1>2, <1>3, <1>4 DEF CommitInner
<1>5. CASE subscriber_count # 0
  <2> DEFINE h == NewHeader(w, used)
  <2>1. ~DequeFull(messages)
    BY <1>2, Queue, MaxMessagesAssumption DEF DequeFull
  <2>2. messages' = Append(messages, h) /\ next_message_id' = next_message_id + 1 /\ WakeSubscribers
    BY <1>2, <1>5, <2>1 DEF CommitInner
  <2>3. h \in Header /\ h.message_id = next_message_id
    BY <1>1, <1>2, NewHeaderProperties
  <2>4. h.subscriber_count = subscriber_count /\ h.read_in_progress = FALSE
    BY DEF NewHeader
  <2> HIDE DEF h
  <2>5. /\ messages' \in Seq(Header) /\ Len(messages') = Len(messages) + 1
        /\ \A i \in 1..Len(messages) : messages'[i] = messages[i]
        /\ messages'[Len(messages) + 1] = h
    BY <2>2, <2>3, Queue, AppendProperties
  <2> QED
    BY <1>2, <1>3, <1>5, <2>2, <2>3, <2>4, <2>5
<1> QED
  BY <1>4, <1>5

\* How much the count of a frame falls when s leaves without having read it.
Off(s, id) == IF id >= cursor[s] THEN 1 ELSE 0

\* A subscriber leaves: it is counted off the frames it has not read, and the
\* oldest frames go as far as nobody is left to read them.
Left(s, n) ==
  /\ messages' \in Seq(Header)
  /\ Len(messages') = Len(messages) - n
  /\ \A i \in 1..n :
       messages[i].subscriber_count - Off(s, messages[i].message_id) = 0
  /\ \A i \in 1..(Len(messages) - n) :
       /\ messages'[i].message_id = messages[i + n].message_id
       /\ messages'[i].subscriber_count =
            messages[i + n].subscriber_count - Off(s, messages[i + n].message_id)

\* Drop for FrameSubscriber does that, or nothing to the queue when it lags.
LEMMA Leaves ==
  ASSUME ChannelInv, NEW s \in Subscribers, DropSubscriber(s)
  PROVE  \/ UNCHANGED messages /\ cursor[s] < StartId
         \/ cursor[s] >= StartId /\ \E n \in 0..Len(messages) : Left(s, n)
<1> DEFINE u == Uncounted(s)
<1>0. cursor[s] \in Nat
  BY DEF ChannelInv, TypeOK
<1>1. CASE ~(cursor[s] >= StartId)
  BY <1>0, <1>1, Queue DEF DropSubscriber
<1>2. CASE cursor[s] >= StartId
  <2>1. PICK n \in 0..Len(messages) : Spent(u, n) /\ messages' = PopFront(u, n)
    BY <1>2 DEF DropSubscriber
  <2>2. ASSUME NEW i \in 1..Len(messages)
        PROVE  /\ u[i] \in Header
               /\ u[i].message_id = messages[i].message_id
               /\ u[i].subscriber_count =
                    messages[i].subscriber_count - Off(s, messages[i].message_id)
    <3> DEFINE m == messages[i]
               h == [m EXCEPT !.subscriber_count = @ - 1]
    <3>1. m \in Header /\ m.message_id = StartId + i - 1 /\ m.subscriber_count \in Int
      BY Queue
    <3>2. u[i] = IF m.message_id >= cursor[s] THEN h ELSE m
      BY <3>1 DEF Uncounted
    <3> HIDE DEF m
    <3>3. /\ h \in Header /\ h.message_id = m.message_id
          /\ h.subscriber_count = m.subscriber_count - 1
      BY <3>1 DEF Header
    <3> HIDE DEF h, u
    <3>4. CASE m.message_id >= cursor[s]
      BY <3>2, <3>3, <3>4 DEF Off, m
    <3>5. CASE ~(m.message_id >= cursor[s])
      <4>1. Off(s, m.message_id) = 0 /\ u[i] = m /\ m.subscriber_count - 0 = m.subscriber_count
        BY <3>1, <3>2, <3>5 DEF Off
      <4> QED
        BY <3>1, <4>1 DEF m
    <3> QED
      BY <3>4, <3>5
  <2>3. u = [i \in 1..Len(messages) |-> u[i]]
    BY DEF Uncounted
  <2> HIDE DEF u
  <2>4. u \in Seq(Header) /\ Len(u) = Len(messages)
    <3>1. u \in [1..Len(messages) -> Header]
      BY <2>2, <2>3
    <3>2. Len(messages) \in Nat
      BY Queue
    <3> QED
      BY <3>1, <3>2, LenProperties
  <2>5. /\ messages' \in Seq(Header)
        /\ Len(messages') = Len(messages) - n
        /\ \A i \in 1..(Len(messages) - n) : messages'[i] = u[i + n]
    BY <2>1, <2>4, PopFrontProperties
  <2>6. \A i \in 1..n : u[i].subscriber_count = 0 /\ i \in 1..Len(messages)
    BY <2>1, Queue DEF Spent
  <2>7. \A i \in 1..(Len(messages) - n) : i + n \in 1..Len(messages)
    BY Queue
  <2>8. Left(s, n)
    BY <2>2, <2>5, <2>6, <2>7 DEF Left
  <2> QED
    BY <1>2, <2>8
<1> QED
  BY <1>1, <1>2

-----------------------------------------------------------------------------
(* The steps, by what they do to the log *)

\* Whoever reads, or is about to, is subscribed and not ahead of the publisher.
ReadersInv ==
  /\ subscriber_count <= SUBS
  /\ \A s \in Subscribers : cursor[s] <= next_message_id
  /\ \A s \in Subscribers : s \notin live => sub_task[s] = "idle"

\* Nothing happens to the log.
Quiet == UNCHANGED <<messages, next_message_id, subscriber_count, live, cursor>>

\* The publisher forces frames out that nobody is reading, or all of them go.
ForcedOut ==
  /\ UNCHANGED <<next_message_id, subscriber_count, live, cursor, rgrants,
                 wgrants, wakerVars, sub_task>>
  /\ \E n \in 0..Len(messages) :
       /\ Popped(n)
       /\ \/ "clear" \in Calls
          \/ /\ "grant_immediate" \in Calls
             /\ \A i \in 1..n : ~messages[i].read_in_progress

\* A subscriber takes a frame.
Taken(s) ==
  /\ s \in live /\ CanRead(s) /\ TakeFrame(s)
  /\ UNCHANGED <<next_message_id, subscriber_count, live>>

\* A subscriber finds nothing to read.
Refused(s) ==
  /\ s \in live /\ ~CanRead(s) /\ cursor' = [cursor EXCEPT ![s] = ReadId(s)]
  /\ UNCHANGED <<messages, next_message_id, subscriber_count, live, rgrants>>

\* Every step is one of these.
LEMMA LogSteps ==
  ASSUME ChannelInv, ReadersInv, [Next]_vars
  PROVE  \/ Quiet
         \/ ForcedOut
         \/ \E s \in Subscribers : \/ NewSubscriber(s) \/ DropSubscriber(s)
                                   \/ Taken(s) \/ Refused(s)
         \/ \E w \in wgrants, used \in Nat : Commit(w, used)
         \/ \E r \in rgrants : Release(r)
<1> USE DEF wakerVars, taskVars
<1>1. CASE \/ TakePublisher \/ DropPublisher \/ FinishImmediate \/ PollGrant \/ CancelGrant
           \/ UNCHANGED vars \/ \E sz \in Sizes : Grant(sz) \/ GrantAsync(sz)
  <2>1. Quiet
    BY <1>1 DEF TakePublisher, DropPublisher, FinishImmediate, PollGrant, CancelGrant,
                vars, Grant, GrantAsync, Quiet
  <2> QED
    BY <2>1
<1>2. CASE Clear
  <2>1. messages' = <<>> /\ Len(messages) \in 0..Len(messages)
    BY <1>2, Queue DEF Clear
  <2>2. messages' \in Seq(Header) /\ Len(messages') = Len(messages) - Len(messages)
    BY <2>1, Queue, EmptySeq
  <2>3. \A i \in 1..(Len(messages) - Len(messages)) : FALSE
    BY Queue
  <2>4. Popped(Len(messages))
    BY <2>2, <2>3 DEF Popped
  <2>5. ForcedOut
    BY <1>2, <2>1, <2>4 DEF Clear, ForcedOut
  <2> QED
    BY <2>5
<1>3. ASSUME NEW sz \in Sizes, GrantImmediate(sz) PROVE ForcedOut
  <2>1. PICK n \in 0..Len(messages) :
          Evicts(messages, sz, n) /\ messages' = PopFront(messages, n)
    BY <1>3 DEF GrantImmediate
  <2>2. Popped(n) /\ \A i \in 1..n : ~messages[i].read_in_progress
    BY <2>1, PopFrontPops DEF Evicts
  <2> QED
    BY <1>3, <2>2 DEF GrantImmediate, ForcedOut
<1>4. ASSUME NEW w \in wgrants,
             DropWriteGrant(w) \/ \E used \in Sizes : Commit(w, used) \/ ToCommit(w, used)
      PROVE  Quiet \/ \E used \in Nat : Commit(w, used)
  <2>1. w.to_commit \in Nat
    BY DEF ChannelInv, TypeOK, GrantW
  <2>2. CASE \E used \in Sizes : ToCommit(w, used)
    BY <2>2 DEF ToCommit, Quiet
  <2> QED
    BY <1>4, <2>1, <2>2, SizesAssumption DEF DropWriteGrant
<1>5. ASSUME NEW s \in Subscribers,
             \/ NewSubscriber(s) \/ Read(s) \/ ReadAsync(s) \/ PollRead(s)
             \/ CancelRead(s) \/ DropSubscriber(s)
      PROVE  \/ Quiet \/ NewSubscriber(s) \/ DropSubscriber(s) \/ Taken(s) \/ Refused(s)
  <2>1. CASE ReadAsync(s) \/ CancelRead(s)
    BY <2>1 DEF ReadAsync, CancelRead, Quiet
  <2>2. CASE Read(s)
    BY <2>2 DEF Read, Taken, Refused
  <2>3. CASE PollRead(s)
    <3>1. s \in live
      BY <2>3 DEF PollRead, ReadersInv
    <3> QED
      BY <2>3, <3>1 DEF PollRead, Taken, Refused
  <2> QED
    BY <1>5, <2>1, <2>2, <2>3
<1>6. ASSUME NEW r \in rgrants,
             Release(r) \/ DropReadGrant(r) \/ \E b \in BOOLEAN : AutoRelease(r, b)
      PROVE  Quiet \/ Release(r)
  BY <1>6 DEF DropReadGrant, AutoRelease, Quiet
<1> QED
  BY <1>1, <1>2, <1>3, <1>4, <1>5, <1>6 DEF Next

\* ReadersInv needs nothing but the ids.
LEMMA ReadersStep ==
  ASSUME ChannelInv, ReadersInv, [Next]_vars
  PROVE  ReadersInv'
<1>1. /\ cursor \in [Subscribers -> Nat] /\ sub_task \in [Subscribers -> TaskState]
      /\ next_message_id \in Nat /\ subscriber_count \in Nat /\ live \subseteq Subscribers
  BY DEF ChannelInv, TypeOK
<1>2. \A s \in Subscribers : ReadId(s) \in Nat /\ ReadId(s) <= next_message_id
  BY <1>1, Queue DEF ReadersInv, ReadId, Larger
<1>3. ASSUME NEW s \in Subscribers, CanRead(s) PROVE ReadId(s) + 1 <= next_message_id
  BY <1>1, <1>2, <1>3, Queue DEF CanRead, Available, ReadIndex
<1>4. subscriber_count' <= SUBS /\ \A s \in Subscribers : cursor'[s] <= next_message_id'
  <2>1. CASE Quiet \/ ForcedOut
    BY <2>1 DEF Quiet, ForcedOut, ReadersInv
  <2>2. ASSUME NEW s \in Subscribers, NewSubscriber(s) \/ DropSubscriber(s)
        PROVE  subscriber_count' <= SUBS /\ \A t \in Subscribers : cursor'[t] <= next_message_id'
    <3>1. CASE NewSubscriber(s)
      BY <1>1, <3>1, SUBSAssumption DEF NewSubscriber, ReadersInv
    <3>2. CASE DropSubscriber(s)
      BY <1>1, <3>2, SUBSAssumption DEF DropSubscriber, ReadersInv
    <3> QED
      BY <2>2, <3>1, <3>2
  <2>3. ASSUME NEW s \in Subscribers, Taken(s) \/ Refused(s)
        PROVE  subscriber_count' <= SUBS /\ \A t \in Subscribers : cursor'[t] <= next_message_id'
    <3>1. CASE Taken(s)
      BY <1>1, <1>2, <1>3, <3>1 DEF Taken, TakeFrame, ReadersInv
    <3>2. CASE Refused(s)
      BY <1>1, <1>2, <3>2 DEF Refused, ReadersInv
    <3> QED
      BY <2>3, <3>1, <3>2
  <2>4. ASSUME NEW w \in wgrants, NEW used \in Nat, Commit(w, used)
        PROVE  subscriber_count' <= SUBS /\ \A t \in Subscribers : cursor'[t] <= next_message_id'
    <3>1. UNCHANGED <<cursor, subscriber_count>> /\ next_message_id' \in {next_message_id, next_message_id + 1}
      BY <2>4, Commits DEF Commit
    <3> QED
      BY <1>1, <3>1 DEF ReadersInv
  <2>5. ASSUME NEW r \in rgrants, Release(r)
        PROVE  subscriber_count' <= SUBS /\ \A t \in Subscribers : cursor'[t] <= next_message_id'
    BY <2>5 DEF Release, ReadersInv
  <2> QED
    BY <2>1, <2>2, <2>3, <2>4, <2>5, LogSteps
<1>5. ASSUME NEW s \in Subscribers, s \notin live' PROVE sub_task'[s] = "idle"
  <2>1. CASE s \in live
    <3>1. \E t \in Subscribers : DropSubscriber(t) /\ t = s
      <4>1. ASSUME live \subseteq live' PROVE FALSE
        BY <1>5, <2>1, <4>1
      <4>2. CASE Quiet \/ ForcedOut
        BY <4>1, <4>2 DEF Quiet, ForcedOut
      <4>3. ASSUME NEW t \in Subscribers, NewSubscriber(t) \/ Taken(t) \/ Refused(t) PROVE FALSE
        BY <4>1, <4>3 DEF NewSubscriber, Taken, Refused
      <4>4. ASSUME NEW w \in wgrants, NEW used \in Nat, Commit(w, used) PROVE FALSE
        BY <4>1, <4>4 DEF Commit
      <4>5. ASSUME NEW r \in rgrants, Release(r) PROVE FALSE
        BY <4>1, <4>5 DEF Release
      <4>6. ASSUME NEW t \in Subscribers, DropSubscriber(t) PROVE t = s
        BY <1>5, <2>1, <4>6 DEF DropSubscriber
      <4> QED
        BY <4>2, <4>3, <4>4, <4>5, <4>6, LogSteps
    <3> QED
      BY <3>1 DEF DropSubscriber
  <2>2. CASE s \notin live
    <3>1. sub_task[s] = "idle"
      BY <2>2 DEF ReadersInv
    <3>2. ASSUME UNCHANGED sub_task PROVE sub_task'[s] = "idle"
      BY <3>1, <3>2
    <3>3. ASSUME WakeSubscribers PROVE sub_task'[s] = "idle"
      BY <3>1, <3>3 DEF WakeSubscribers, Resume
    <3>4. ASSUME NEW t \in Subscribers, ReadAsync(t) \/ PollRead(t) PROVE sub_task'[s] = "idle"
      <4>1. t # s
        BY <2>2, <3>1, <3>4 DEF ReadAsync, PollRead
      <4> QED
        BY <1>1, <3>1, <3>4, <4>1 DEF ReadAsync, PollRead, ParkSubscriber, Resume
    <3>5. ASSUME NEW t \in Subscribers, CancelRead(t) PROVE sub_task'[s] = "idle"
      BY <1>1, <3>1, <3>5 DEF CancelRead
    <3>6. ASSUME NEW w \in wgrants, NEW used, Commit(w, used) PROVE sub_task'[s] = "idle"
      BY <3>2, <3>3, <3>6 DEF Commit, CommitInner
    <3>7. ASSUME NEW r \in rgrants, Release(r) PROVE sub_task'[s] = "idle"
      BY <3>2, <3>3, <3>7 DEF Release, ReleaseInner, taskVars
    <3>8. CASE \/ TakePublisher \/ DropPublisher \/ Clear \/ FinishImmediate \/ PollGrant
               \/ CancelGrant \/ UNCHANGED vars
               \/ \E sz \in Sizes : Grant(sz) \/ GrantAsync(sz) \/ GrantImmediate(sz)
      BY <3>2, <3>8 DEF TakePublisher, DropPublisher, Clear, FinishImmediate, PollGrant,
         CancelGrant, vars, Grant, GrantAsync, GrantImmediate, taskVars
    <3>9. ASSUME NEW t \in Subscribers, NewSubscriber(t) \/ Read(t) \/ DropSubscriber(t)
          PROVE  sub_task'[s] = "idle"
      BY <3>2, <3>9 DEF NewSubscriber, Read, DropSubscriber, taskVars
    <3>10. ASSUME NEW w \in wgrants, NEW amt, ToCommit(w, amt) PROVE sub_task'[s] = "idle"
      BY <3>2, <3>10 DEF ToCommit, taskVars
    <3>11. ASSUME NEW r \in rgrants, DropReadGrant(r) \/ \E b \in BOOLEAN : AutoRelease(r, b)
           PROVE  sub_task'[s] = "idle"
      BY <3>2, <3>7, <3>11 DEF DropReadGrant, AutoRelease, taskVars
    <3> QED
      BY <3>4, <3>5, <3>6, <3>7, <3>8, <3>9, <3>10, <3>11 DEF Next, DropWriteGrant
  <2> QED
    BY <2>1, <2>2
<1> QED
  BY <1>4, <1>5 DEF ReadersInv

-----------------------------------------------------------------------------
(* Readers are counted *)

\* How many subscribers have the frame still to read.
Unread(id) == Cardinality(Awaiting(id))

\* The readers of a frame are among the subscribers, which are counted.
LEMMA UnreadType ==
  ASSUME ChannelInv
  PROVE  \A id : /\ IsFiniteSet(Awaiting(id)) /\ Unread(id) \in Nat
                 /\ Unread(id) <= subscriber_count
<1>1. IsFiniteSet(live) /\ subscriber_count = Cardinality(live)
  BY SubscribersAssumption, FS_Subset DEF ChannelInv, TypeOK
<1> TAKE id
<1>2. Awaiting(id) \subseteq live
  BY DEF Awaiting
<1> QED
  BY <1>1, <1>2, FS_Subset, FS_CardinalityType DEF Unread

\* Whose turn it is has no effect on who else waits: the readers of a frame that
\* was published before are the same, less the one that takes it or leaves.
LEMMA AwaitingStep ==
  ASSUME ChannelInv, ReadersInv, NEW id \in Nat, StartId <= id, id < next_message_id
  PROVE  /\ UNCHANGED <<live, cursor>> => Awaiting(id)' = Awaiting(id)
         /\ \A s \in Subscribers :
              /\ NewSubscriber(s) \/ Refused(s) => Awaiting(id)' = Awaiting(id)
              /\ DropSubscriber(s) => Awaiting(id)' = Awaiting(id) \ {s}
              /\ Taken(s) =>
                   Awaiting(id)' = IF id = ReadId(s) THEN Awaiting(id) \ {s} ELSE Awaiting(id)
<1>1. /\ cursor \in [Subscribers -> Nat] /\ next_message_id \in Nat
      /\ live \subseteq Subscribers /\ StartId \in Nat
  BY Queue DEF ChannelInv, TypeOK
<1>2. UNCHANGED <<live, cursor>> => Awaiting(id)' = Awaiting(id)
  BY DEF Awaiting
<1>3. ASSUME NEW s \in Subscribers, NewSubscriber(s) PROVE Awaiting(id)' = Awaiting(id)
  BY <1>1, <1>3 DEF NewSubscriber, Awaiting
<1>4. ASSUME NEW s \in Subscribers, Refused(s) PROVE Awaiting(id)' = Awaiting(id)
  <2>1. cursor' = [cursor EXCEPT ![s] = ReadId(s)] /\ live' = live
    BY <1>4 DEF Refused
  <2>2. ReadId(s) <= id <=> cursor[s] <= id
    BY <1>1 DEF ReadId, Larger
  <2> QED
    BY <1>1, <2>1, <2>2 DEF Awaiting
<1>5. ASSUME NEW s \in Subscribers, DropSubscriber(s) PROVE Awaiting(id)' = Awaiting(id) \ {s}
  BY <1>5 DEF DropSubscriber, Awaiting
<1>6. ASSUME NEW s \in Subscribers, Taken(s)
      PROVE  Awaiting(id)' = IF id = ReadId(s) THEN Awaiting(id) \ {s} ELSE Awaiting(id)
  <2>1. cursor' = [cursor EXCEPT ![s] = ReadId(s) + 1] /\ live' = live
    BY <1>6 DEF Taken, TakeFrame
  <2>2. ReadId(s) \in Nat
    BY <1>1 DEF ReadId, Larger
  <2>3. CASE id = ReadId(s)
    <3>1. ~(ReadId(s) + 1 <= id)
      BY <2>2, <2>3
    <3> QED
      BY <1>1, <2>1, <2>3, <3>1 DEF Awaiting
  <2>4. CASE id # ReadId(s)
    <3>1. ReadId(s) + 1 <= id <=> cursor[s] <= id
      BY <1>1, <2>4 DEF ReadId, Larger
    <3> QED
      BY <1>1, <2>1, <2>4, <3>1 DEF Awaiting
  <2> QED
    BY <2>3, <2>4
<1> QED
  BY <1>2, <1>3, <1>4, <1>5, <1>6

\* The i-th frame was the j-th one, and its count falls with its readers.
Follows(i, j, id) ==
  /\ messages'[i].message_id = id /\ messages[j].message_id = id
  /\ messages'[i].subscriber_count \in Int
  /\ messages'[i].subscriber_count <= messages[j].subscriber_count
  /\ Unread(id)' \in Nat

\* The count follows the number of readers exactly.
Even(i, j, id) ==
  messages'[i].subscriber_count - Unread(id)' = messages[j].subscriber_count - Unread(id)

\* Each frame of the queue is a new one, counting everybody, or an old one whose
\* count falls with the number of its readers; except that one who lags behind
\* the queue is not counted off when it leaves.
LEMMA FrameStep ==
  ASSUME ChannelInv, ReadersInv, [Next]_vars, NEW i \in 1..Len(messages')
  PROVE  \/ /\ messages'[i].message_id = next_message_id
            /\ messages'[i].subscriber_count = subscriber_count
            /\ UNCHANGED <<live, cursor>>
         \/ \E id \in Nat, j \in 1..Len(messages) :
              /\ Follows(i, j, id)
              /\ \/ Even(i, j, id)
                 \/ /\ \E s \in live : DropSubscriber(s) /\ cursor[s] < StartId
                    /\ messages'[i].subscriber_count = messages[j].subscriber_count
                    /\ Unread(id)' <= Unread(id)
<1>1. \A id \in Nat : IsFiniteSet(Awaiting(id)) /\ Unread(id) \in Nat
  BY UnreadType
<1>2. \A j \in 1..Len(messages) : /\ messages[j].message_id \in Nat
                                  /\ messages[j].subscriber_count \in Int
                                  /\ StartId <= messages[j].message_id
                                  /\ messages[j].message_id < next_message_id
  BY Queue
\* A frame that keeps its count and its readers.
<1>3. ASSUME NEW j \in 1..Len(messages),
             messages'[i].message_id = messages[j].message_id,
             messages'[i].subscriber_count = messages[j].subscriber_count,
             \A id \in Nat : StartId <= id /\ id < next_message_id => Awaiting(id)' = Awaiting(id)
      PROVE  \E id \in Nat, k \in 1..Len(messages) :
               /\ Follows(i, k, id)
               /\ Even(i, k, id)
  <2> DEFINE d == messages[j].message_id
  <2>1. d \in Nat /\ StartId <= d /\ d < next_message_id /\ messages[j].subscriber_count \in Int
    BY <1>2
  <2>2. PICK id \in Nat : id = d
    BY <2>1
  <2>3. Awaiting(id)' = Awaiting(id)
    BY <1>3, <2>1, <2>2
  <2>4. Unread(id)' = Unread(id) /\ Unread(id) \in Nat
    BY <1>1, <2>3 DEF Unread
  <2> QED
    BY <1>3, <2>1, <2>2, <2>4, SMTT(30) DEF Follows, Even
<1>4. CASE UNCHANGED <<live, cursor>> /\ \E j \in 1..Len(messages) :
             /\ messages'[i].message_id = messages[j].message_id
             /\ messages'[i].subscriber_count = messages[j].subscriber_count
  BY <1>3, <1>4, AwaitingStep
<1>5. CASE Quiet
  BY <1>4, <1>5 DEF Quiet
<1>6. ASSUME NEW n \in 0..Len(messages), Popped(n)
      PROVE  \E j \in 1..Len(messages) :
             /\ messages'[i].message_id = messages[j].message_id
             /\ messages'[i].subscriber_count = messages[j].subscriber_count
  <2>1. i \in 1..(Len(messages) - n) /\ i + n \in 1..Len(messages)
    BY <1>6, Queue DEF Popped
  <2> QED
    BY <1>6, <2>1 DEF Popped
<1>7. CASE ForcedOut
  BY <1>4, <1>6, <1>7 DEF ForcedOut
<1>8. ASSUME NEW r \in rgrants, Release(r)
      PROVE  \E j \in 1..Len(messages) :
             /\ messages'[i].message_id = messages[j].message_id
             /\ messages'[i].subscriber_count = messages[j].subscriber_count
  <2>1. ReleaseInner(r)
    BY <1>8 DEF Release
  <2>2. CASE UNCHANGED messages
    BY <2>2
  <2>3. CASE Popped(1) /\ Len(messages) > 0
    <3>1. 1 \in 0..Len(messages)
      BY <2>3, Queue
    <3> QED
      BY <1>6, <2>3, <3>1
  <2>4. ASSUME NEW k \in 1..Len(messages), Marked(k, messages[k].subscriber_count, FALSE)
        PROVE  \E j \in 1..Len(messages) :
               /\ messages'[i].message_id = messages[j].message_id
               /\ messages'[i].subscriber_count = messages[j].subscriber_count
    <3>1. i \in 1..Len(messages)
      BY <2>4 DEF Marked
    <3> QED
      BY <2>4, <3>1 DEF Marked
  <2> QED
    BY <2>1, <2>2, <2>3, <2>4, Releases
<1>9. ASSUME NEW w \in wgrants, NEW used \in Nat, Commit(w, used)
      PROVE  \/ /\ messages'[i].message_id = next_message_id
                /\ messages'[i].subscriber_count = subscriber_count
             \/ \E j \in 1..Len(messages) :
                /\ messages'[i].message_id = messages[j].message_id
                /\ messages'[i].subscriber_count = messages[j].subscriber_count
  <2>1. CommitInner(w, used)
    BY <1>9 DEF Commit
  <2>2. CASE UNCHANGED messages
    BY <2>2
  <2>3. CASE Len(messages') = Len(messages) + 1
    <3>1. i \in 1..Len(messages) \/ i = Len(messages) + 1
      BY <2>3, Queue
    <3> QED
      BY <2>1, <2>2, <3>1, Commits
  <2> QED
    BY <2>1, <2>2, <2>3, Commits
<1>10. ASSUME NEW s \in Subscribers, NewSubscriber(s) \/ Refused(s)
       PROVE  /\ UNCHANGED messages
              /\ \A id \in Nat : StartId <= id /\ id < next_message_id =>
                                   Awaiting(id)' = Awaiting(id)
  BY <1>10, AwaitingStep DEF NewSubscriber, Refused
<1>0. \A a, b \in Int : (a - 1) - (b - 1) = a - b /\ a - 1 <= a /\ a - 1 \in Int
  OBVIOUS
\* One reader less.
<1>11. ASSUME NEW s \in Subscribers, NEW id \in Nat, Awaiting(id)' = Awaiting(id) \ {s}
       PROVE  /\ Unread(id)' \in Nat /\ Unread(id)' <= Unread(id)
              /\ s \in Awaiting(id) => Unread(id)' = Unread(id) - 1
              /\ s \notin Awaiting(id) => Unread(id)' = Unread(id)
  <2>1. IsFiniteSet(Awaiting(id)) /\ Unread(id) \in Nat
    BY <1>1
  <2>2. CASE s \in Awaiting(id)
    <3>1. IsFiniteSet(Awaiting(id) \ {s}) /\ Cardinality(Awaiting(id) \ {s}) = Cardinality(Awaiting(id)) - 1
      BY <2>1, <2>2, FS_RemoveElement
    <3>2. Cardinality(Awaiting(id) \ {s}) \in Nat
      BY <3>1, FS_CardinalityType
    <3> QED
      BY <1>11, <2>1, <2>2, <3>1, <3>2 DEF Unread
  <2>3. CASE s \notin Awaiting(id)
    <3>1. Awaiting(id)' = Awaiting(id)
      BY <1>11, <2>3
    <3> QED
      BY <2>1, <2>3, <3>1 DEF Unread
  <2> QED
    BY <2>2, <2>3
<1>12. ASSUME NEW s \in Subscribers, Taken(s)
       PROVE  \E id \in Nat, j \in 1..Len(messages) :
              /\ Follows(i, j, id)
              /\ Even(i, j, id)
  <2>1. PICK k \in 1..Len(messages) :
          /\ messages[k].message_id = ReadId(s)
          /\ Marked(k, messages[k].subscriber_count - 1, TRUE)
    BY <1>12, Takes DEF Taken
  <2>2. i \in 1..Len(messages) /\ messages'[i].message_id = messages[i].message_id
    BY <2>1 DEF Marked
  <2>3. PICK id \in Nat : id = messages[i].message_id
    BY <1>2, <2>2
  <2>4. /\ StartId <= id /\ id < next_message_id /\ messages[i].subscriber_count \in Int
        /\ Unread(id) \in Nat
    BY <1>1, <1>2, <2>2, <2>3
  <2>5. Awaiting(id)' = IF id = ReadId(s) THEN Awaiting(id) \ {s} ELSE Awaiting(id)
    BY <1>12, <2>4, AwaitingStep
  <2>6. CASE i = k
    <3>1. id = ReadId(s) /\ messages'[i].subscriber_count = messages[i].subscriber_count - 1
      BY <2>1, <2>3, <2>6 DEF Marked
    <3>2. s \in Awaiting(id)
      <4>1. cursor[s] <= ReadId(s)
        BY Queue DEF ReadId, Larger, ChannelInv, TypeOK
      <4> QED
        BY <1>12, <3>1, <4>1 DEF Awaiting, Taken
    <3>3. Unread(id)' \in Nat /\ Unread(id)' = Unread(id) - 1
      BY <1>11, <2>5, <3>1, <3>2
    <3>4. /\ messages'[i].subscriber_count \in Int
          /\ messages'[i].subscriber_count <= messages[i].subscriber_count
          /\ messages'[i].subscriber_count - Unread(id)' = messages[i].subscriber_count - Unread(id)
      <4>1. PICK a \in Int, b \in Int : a = messages[i].subscriber_count /\ b = Unread(id)
        BY <2>4
      <4>2. messages'[i].subscriber_count = a - 1 /\ Unread(id)' = b - 1
        BY <3>1, <3>3, <4>1
      <4>3. (a - 1) - (b - 1) = a - b /\ a - 1 <= a /\ a - 1 \in Int
        OBVIOUS
      <4> QED
        BY <4>1, <4>2, <4>3
    <3> QED
      BY <2>2, <2>3, <3>3, <3>4 DEF Follows, Even
  <2>7. CASE i # k
    <3>1. messages'[i] = messages[i] /\ id # ReadId(s)
      BY <2>1, <2>2, <2>3, <2>7, Queue, SMTT(30) DEF Marked
    <3>2. Unread(id)' = Unread(id)
      BY <2>5, <3>1 DEF Unread
    <3> QED
      BY <2>2, <2>3, <2>4, <3>1, <3>2 DEF Follows, Even
  <2> QED
    BY <2>6, <2>7
<1>13. ASSUME NEW s \in Subscribers, DropSubscriber(s)
       PROVE  \E id \in Nat, j \in 1..Len(messages) :
              /\ Follows(i, j, id)
              /\ \/ Even(i, j, id)
                 \/ /\ \E t \in live : DropSubscriber(t) /\ cursor[t] < StartId
                    /\ messages'[i].subscriber_count = messages[j].subscriber_count
                    /\ Unread(id)' <= Unread(id)
  <2>0. s \in live /\ cursor[s] \in Nat
    BY <1>13 DEF DropSubscriber, ChannelInv, TypeOK
  <2>1. CASE UNCHANGED messages /\ cursor[s] < StartId
    <3>1. PICK id \in Nat : id = messages[i].message_id
      BY <1>2, <2>1
    <3>2. StartId <= id /\ id < next_message_id /\ i \in 1..Len(messages)
      BY <1>2, <2>1, <3>1
    <3>3. Awaiting(id)' = Awaiting(id) \ {s}
      BY <1>13, <3>2, AwaitingStep
    <3>4. Unread(id)' \in Nat /\ Unread(id)' <= Unread(id)
      BY <1>11, <3>3
    <3>5. messages[i].subscriber_count \in Int /\ messages[i].subscriber_count <= messages[i].subscriber_count
      BY <1>2, <3>2
    <3> QED
      BY <1>13, <2>0, <2>1, <3>1, <3>2, <3>4, <3>5 DEF Follows, Even
  <2>2. ASSUME NEW n \in 0..Len(messages), Left(s, n)
        PROVE  \E id \in Nat, j \in 1..Len(messages) :
               /\ Follows(i, j, id)
               /\ Even(i, j, id)
    <3>1. i \in 1..(Len(messages) - n) /\ i + n \in 1..Len(messages)
      BY <2>2, Queue DEF Left
    <3>2. PICK j \in 1..Len(messages) : j = i + n
      BY <3>1
    <3>3. PICK id \in Nat : id = messages[j].message_id
      BY <1>2
    <3>4. /\ messages'[i].message_id = id
          /\ messages'[i].subscriber_count = messages[j].subscriber_count - Off(s, id)
      BY <2>2, <3>1, <3>2, <3>3 DEF Left
    <3>5. /\ StartId <= id /\ id < next_message_id /\ messages[j].subscriber_count \in Int
          /\ Unread(id) \in Nat
      BY <1>1, <1>2, <3>3
    <3>6. Awaiting(id)' = Awaiting(id) \ {s}
      BY <1>13, <3>5, AwaitingStep
    <3>7. CASE id >= cursor[s]
      <4>1. Off(s, id) = 1 /\ s \in Awaiting(id)
        BY <2>0, <3>7 DEF Off, Awaiting
      <4>2. Unread(id)' \in Nat /\ Unread(id)' = Unread(id) - 1
        BY <1>11, <3>6, <4>1
      <4>3. /\ messages'[i].subscriber_count \in Int
            /\ messages'[i].subscriber_count <= messages[j].subscriber_count
            /\ messages'[i].subscriber_count - Unread(id)' = messages[j].subscriber_count - Unread(id)
        <5>1. PICK a \in Int, b \in Int : a = messages[j].subscriber_count /\ b = Unread(id)
          BY <3>5
        <5>2. messages'[i].subscriber_count = a - 1 /\ Unread(id)' = b - 1
          BY <3>4, <4>1, <4>2, <5>1
        <5>3. (a - 1) - (b - 1) = a - b /\ a - 1 <= a /\ a - 1 \in Int
          OBVIOUS
        <5> QED
          BY <5>1, <5>2, <5>3
      <4> QED
        BY <3>3, <3>4, <4>2, <4>3 DEF Follows, Even
    <3>8. CASE ~(id >= cursor[s])
      <4>1. Off(s, id) = 0 /\ s \notin Awaiting(id)
        BY <2>0, <3>8 DEF Off, Awaiting
      <4>2. Unread(id)' \in Nat /\ Unread(id)' = Unread(id)
        BY <1>11, <3>6, <4>1
      <4> QED
        BY <3>3, <3>4, <3>5, <4>1, <4>2 DEF Follows, Even
    <3> QED
      BY <3>7, <3>8
  <2> QED
    BY <1>13, <2>1, <2>2, Leaves
<1> QED
  <2>1. ASSUME NEW s \in Subscribers, NewSubscriber(s) \/ Refused(s)
        PROVE  \E id \in Nat, k \in 1..Len(messages) :
               /\ Follows(i, k, id)
               /\ Even(i, k, id)
    BY <1>3, <1>10, <2>1
  <2>2. CASE \E r \in rgrants : Release(r)
    BY <1>4, <1>8, <2>2 DEF Release
  <2>3. CASE \E w \in wgrants, used \in Nat : Commit(w, used)
    BY <1>4, <1>9, <2>3 DEF Commit
  <2> QED
    BY <1>5, <1>7, <1>12, <1>13, <2>1, <2>2, <2>3, LogSteps

\* What makes CountCovers inductive: the ids, and who may be reading.
CoveredInv == ChannelInv /\ ReadersInv /\ CountCovers

\* No step lets a count fall below the number of readers.
LEMMA CoversStep ==
  ASSUME ChannelInv, ReadersInv, CountCovers, [Next]_vars
  PROVE  CountCovers'
<1> SUFFICES ASSUME NEW i \in 1..Len(messages')
             PROVE  messages'[i].subscriber_count
                      \in Cardinality({s \in live' : cursor'[s] <= messages'[i].message_id})..SUBS
  BY DEF CountCovers, Awaiting
<1>0. SUBS \in Nat /\ subscriber_count \in Nat
  BY SUBSAssumption DEF ChannelInv, TypeOK
<1>1. CASE /\ messages'[i].message_id = next_message_id
           /\ messages'[i].subscriber_count = subscriber_count
           /\ UNCHANGED <<live, cursor>>
  <2>1. {s \in live' : cursor'[s] <= messages'[i].message_id} = Awaiting(next_message_id)
    BY <1>1 DEF Awaiting
  <2>2. Unread(next_message_id) \in Nat /\ Unread(next_message_id) <= subscriber_count
    BY UnreadType
  <2>3. subscriber_count \in Unread(next_message_id)..SUBS
    BY <1>0, <2>2 DEF ReadersInv
  <2> QED
    BY <1>1, <2>1, <2>3 DEF Unread
<1>2. ASSUME NEW id \in Nat, NEW j \in 1..Len(messages),
             Follows(i, j, id),
             \/ Even(i, j, id)
             \/ /\ messages'[i].subscriber_count = messages[j].subscriber_count
                /\ Unread(id)' <= Unread(id)
      PROVE  messages'[i].subscriber_count
               \in Cardinality({s \in live' : cursor'[s] <= messages'[i].message_id})..SUBS
  <2> DEFINE a == messages[j].subscriber_count
             b == messages'[i].subscriber_count
             u == Unread(id)
             v == Unread(id)'
  <2>1. a \in u..SUBS /\ u \in Nat /\ a \in Int
    BY <1>2, UnreadType, Queue DEF CountCovers, Unread, Follows
  <2>2. b \in Int /\ b <= a /\ v \in Nat /\ (b - v = a - u \/ (b = a /\ v <= u))
    BY <1>2 DEF Follows, Even
  <2> HIDE DEF a, b, u, v
  <2>3. b \in v..SUBS
    BY <1>0, <2>1, <2>2
  <2>4. v = Cardinality({s \in live' : cursor'[s] <= messages'[i].message_id})
    BY <1>2 DEF v, Unread, Awaiting, Follows
  <2> QED
    BY <2>3, <2>4 DEF b
<1> QED
  BY <1>1, <1>2, FrameStep

\* It is an invariant.
LEMMA CoveredInvariance == Spec => []CoveredInv
<1>1. Init => CoveredInv
  <2> SUFFICES ASSUME Init PROVE CoveredInv
    OBVIOUS
  <2>1. ChannelInv
    BY InitEstablishes
  <2>2. ReadersInv
    BY SUBSAssumption DEF Init, ReadersInv
  <2>3. Len(messages) = 0
    BY EmptySeq DEF Init
  <2>4. CountCovers
    BY <2>3 DEF CountCovers
  <2> QED
    BY <2>1, <2>2, <2>4 DEF CoveredInv
<1>2. CoveredInv /\ [Next]_vars => CoveredInv'
  BY StepPreserves, ReadersStep, CoversStep DEF CoveredInv
<1> QED
  BY <1>1, <1>2, PTL DEF Spec

\* The u8 a header counts its readers with neither underflows nor misses one
\* that has the frame still to read, for any number of subscribers that join,
\* lag behind, leave while others read, or are forced past frames.
THEOREM CountsCover == Spec => []CountCovers
<1>1. CoveredInv => CountCovers
  BY DEF CoveredInv
<1> QED
  BY <1>1, CoveredInvariance, PTL

-----------------------------------------------------------------------------
(* A frame that goes was read, or forced out *)

\* Calls that take frames from under a reader.
Lossy == Calls \cap {"grant_immediate", "clear"} # {}

\* Who a count of zero leaves, and who it leaves besides one that is leaving.
LEMMA NobodyLeft ==
  ASSUME ChannelInv, CountCovers, NEW i \in 1..Len(messages), NEW s \in live
  PROVE  /\ messages[i].subscriber_count = 0 => cursor[s] > messages[i].message_id
         /\ \A t \in live \ {s} :
              messages[i].subscriber_count - Off(t, messages[i].message_id) = 0
                => cursor[s] > messages[i].message_id
<1> DEFINE id == messages[i].message_id
           n  == messages[i].subscriber_count
<1>2. IsFiniteSet(Awaiting(id)) /\ Unread(id) \in Nat
  BY UnreadType
<1>1. id \in Nat /\ n \in Int /\ n >= Unread(id)
  <2>1. id \in Nat /\ n \in Int
    BY Queue
  <2>2. n \in Unread(id)..SUBS
    BY DEF CountCovers, Unread
  <2> HIDE DEF id, n
  <2> QED
    BY <1>2, <2>1, <2>2, SUBSAssumption
<1>3. \A t \in live : cursor[t] \in Nat
  BY DEF ChannelInv, TypeOK
<1> HIDE DEF id, n
<1>4. ASSUME n = 0, ~(cursor[s] > id) PROVE FALSE
  <2>1. s \in Awaiting(id)
    BY <1>1, <1>3, <1>4 DEF Awaiting
  <2>2. Unread(id) = 0
    BY <1>1, <1>2, <1>4
  <2>3. Awaiting(id) = {}
    BY <1>2, <2>2, FS_EmptySet DEF Unread
  <2> QED
    BY <2>1, <2>3
<1>5. ASSUME NEW t \in live \ {s}, n - Off(t, id) = 0, ~(cursor[s] > id) PROVE FALSE
  <2>1. s \in Awaiting(id)
    BY <1>1, <1>3, <1>5 DEF Awaiting
  <2>2. CASE id >= cursor[t]
    <3>1. n = 1 /\ t \in Awaiting(id)
      BY <1>1, <1>3, <1>5, <2>2 DEF Off, Awaiting
    <3>2. IsFiniteSet({s, t}) /\ Cardinality({s, t}) = 2
      <4>1. IsFiniteSet({s}) /\ Cardinality({s}) = 1
        BY FS_Singleton
      <4>2. IsFiniteSet({s} \cup {t}) /\ Cardinality({s} \cup {t}) = Cardinality({s}) + 1
        BY <4>1, FS_AddElement
      <4>3. {s, t} = {s} \cup {t}
        OBVIOUS
      <4>4. IsFiniteSet({s, t}) /\ Cardinality({s, t}) = 1 + 1
        BY <4>1, <4>2, <4>3, Zenon
      <4> QED
        BY <4>4
    <3>3. {s, t} \subseteq Awaiting(id)
      BY <2>1, <3>1
    <3>4. Cardinality({s, t}) <= Unread(id)
      BY <1>2, <3>3, FS_Subset DEF Unread
    <3> QED
      BY <1>1, <1>2, <3>1, <3>2, <3>4
  <2>3. CASE ~(id >= cursor[t])
    <3>1. n = 0
      BY <1>1, <1>5, <2>3 DEF Off
    <3> QED
      BY <1>4, <1>5, <3>1
  <2> QED
    BY <2>2, <2>3
<1> QED
  BY <1>4, <1>5 DEF id, n

\* Every subscriber is past the frames that leave a queue without loss.
KeepUp == \A s \in live : cursor[s] >= StartId

\* A frame goes only when everybody has read it, unless frames are forced out.
LEMMA KeepUpStep ==
  ASSUME ~Lossy, ChannelInv, ReadersInv, CountCovers, KeepUp, [Next]_vars
  PROVE  KeepUp'
<1>0. /\ cursor \in [Subscribers -> Nat] /\ next_message_id \in Nat /\ StartId \in Nat
      /\ live \subseteq Subscribers /\ Len(messages) \in Nat
      /\ next_message_id = StartId + Len(messages)
  BY Queue DEF ChannelInv, TypeOK
<1>1. StartId' = next_message_id' - Len(messages')
  BY DEF StartId
<1>2. CASE Quiet
  BY <1>2 DEF Quiet, KeepUp, StartId
<1>3. CASE ForcedOut
  BY <1>3 DEF ForcedOut, Lossy
<1>4. ASSUME NEW s \in Subscribers, NewSubscriber(s) PROVE KeepUp'
  BY <1>0, <1>4 DEF NewSubscriber, KeepUp, StartId
<1>5. ASSUME NEW s \in Subscribers, Taken(s) PROVE KeepUp'
  <2>1. Len(messages') = Len(messages) /\ cursor' = [cursor EXCEPT ![s] = ReadId(s) + 1]
    BY <1>5, Takes DEF Taken, Marked
  <2>2. StartId' = StartId /\ live' = live
    BY <1>5, <2>1 DEF Taken, StartId
  <2>3. ReadId(s) \in Nat /\ ReadId(s) >= StartId
    BY <1>0 DEF ReadId, Larger
  <2> QED
    BY <1>0, <2>1, <2>2, <2>3 DEF KeepUp
<1>6. ASSUME NEW s \in Subscribers, Refused(s) PROVE KeepUp'
  <2>1. StartId' = StartId /\ live' = live /\ cursor' = [cursor EXCEPT ![s] = ReadId(s)]
    BY <1>6 DEF Refused, StartId
  <2>2. ReadId(s) >= StartId
    BY <1>0 DEF ReadId, Larger
  <2> QED
    BY <1>0, <2>1, <2>2 DEF KeepUp
<1>7. ASSUME NEW w \in wgrants, NEW used \in Nat, Commit(w, used) PROVE KeepUp'
  <2>1. UNCHANGED <<live, cursor>> /\ CommitInner(w, used)
    BY <1>7 DEF Commit
  <2>2. \/ UNCHANGED <<messages, next_message_id>>
        \/ Len(messages') = Len(messages) + 1 /\ next_message_id' = next_message_id + 1
    BY <2>1, Commits
  <2>3. StartId' = StartId
    BY <1>0, <1>1, <2>2
  <2> QED
    BY <2>1, <2>3 DEF KeepUp
<1>8. ASSUME NEW r \in rgrants, Release(r) PROVE KeepUp'
  <2>1. ReleaseInner(r) /\ UNCHANGED <<live, cursor, next_message_id>>
    BY <1>8 DEF Release
  <2>2. CASE Len(messages') = Len(messages)
    <3>1. StartId' = StartId
      BY <2>1, <2>2 DEF StartId
    <3> QED
      BY <2>1, <3>1 DEF KeepUp
  <2>3. CASE Popped(1) /\ Len(messages) > 0 /\ messages[1].subscriber_count = 0
    <3>1. StartId' = StartId + 1
      BY <1>0, <1>1, <2>1, <2>3 DEF Popped
    <3>2. 1 \in 1..Len(messages) /\ messages[1].message_id = StartId
      BY <1>0, <2>3, Queue
    <3>3. \A t \in live : cursor[t] > StartId
      BY <2>3, <3>2, NobodyLeft
    <3> QED
      BY <1>0, <2>1, <3>1, <3>3 DEF KeepUp
  <2> QED
    BY <2>1, <2>2, <2>3, Releases DEF Marked
<1>9. ASSUME NEW s \in Subscribers, DropSubscriber(s) PROVE KeepUp'
  <2>1. live' = live \ {s} /\ UNCHANGED <<cursor, next_message_id>> /\ s \in live
    BY <1>9 DEF DropSubscriber
  <2>2. CASE UNCHANGED messages
    BY <2>1, <2>2 DEF KeepUp, StartId
  <2>3. ASSUME NEW n \in 0..Len(messages), Left(s, n) PROVE KeepUp'
    <3>1. StartId' = StartId + n
      BY <1>0, <1>1, <2>1, <2>3 DEF Left
    <3>2. CASE n = 0
      BY <1>0, <2>1, <3>1, <3>2 DEF KeepUp
    <3>3. CASE n # 0
      <4>1. n \in 1..Len(messages) /\ n \in 1..n /\ messages[n].message_id = StartId + n - 1
        BY <1>0, <3>3, Queue
      <4>2. messages[n].subscriber_count - Off(s, messages[n].message_id) = 0
        BY <2>3, <4>1 DEF Left
      <4>3. \A t \in live \ {s} : cursor[t] > StartId + n - 1
        BY <2>1, <4>1, <4>2, NobodyLeft
      <4> QED
        BY <1>0, <2>1, <3>1, <4>3 DEF KeepUp
    <3> QED
      BY <3>2, <3>3
  <2>4. UNCHANGED messages \/ \E n \in 0..Len(messages) : Left(s, n)
    BY <1>9, Leaves
  <2> QED
    BY <2>2, <2>3, <2>4
<1> QED
  BY <1>2, <1>3, <1>4, <1>5, <1>6, <1>7, <1>8, <1>9, LogSteps

\* A subscriber that leaves has not been overtaken: nobody leaves, or no frame
\* is lost.
SafeToLeave == "drop_subscriber" \notin Calls \/ ~Lossy

\* A count changes with the number of readers unless one leaves that lags.
LEMMA ExactStep ==
  ASSUME SafeToLeave, ChannelInv, ReadersInv, CountCovers, ~Lossy => KeepUp,
         CountExact, [Next]_vars
  PROVE  CountExact'
<1> SUFFICES ASSUME NEW i \in 1..Len(messages')
             PROVE  messages'[i].subscriber_count
                      = Cardinality({s \in live' : cursor'[s] <= messages'[i].message_id})
  BY DEF CountExact, Awaiting
<1>0. subscriber_count = Cardinality(live) /\ live \subseteq Subscribers
  BY DEF ChannelInv, TypeOK
<1>1. CASE /\ messages'[i].message_id = next_message_id
           /\ messages'[i].subscriber_count = subscriber_count
           /\ UNCHANGED <<live, cursor>>
  <2>1. {s \in live' : cursor'[s] <= messages'[i].message_id} = live
    BY <1>0, <1>1 DEF ReadersInv
  <2> QED
    BY <1>0, <1>1, <2>1
<1>2. ASSUME NEW s \in live, DropSubscriber(s), cursor[s] < StartId PROVE FALSE
  <2>1. cursor[s] \in Nat /\ StartId \in Nat
    BY Queue DEF ChannelInv, TypeOK
  <2> QED
    BY <1>2, <2>1 DEF DropSubscriber, SafeToLeave, KeepUp
<1>3. ASSUME NEW id \in Nat, NEW j \in 1..Len(messages), Follows(i, j, id), Even(i, j, id)
      PROVE  messages'[i].subscriber_count
               = Cardinality({s \in live' : cursor'[s] <= messages'[i].message_id})
  <2> DEFINE a == messages[j].subscriber_count
             b == messages'[i].subscriber_count
             u == Unread(id)
             v == Unread(id)'
  <2>1. a = u /\ u \in Nat
    BY <1>3, UnreadType DEF CountExact, Unread, Follows
  <2>2. b \in Int /\ v \in Nat /\ b - v = a - u
    BY <1>3 DEF Follows, Even
  <2> HIDE DEF a, b, u, v
  <2>3. b = v
    BY <2>1, <2>2
  <2>4. v = Cardinality({s \in live' : cursor'[s] <= messages'[i].message_id})
    BY <1>3 DEF v, Unread, Awaiting, Follows
  <2> QED
    BY <2>3, <2>4 DEF b
<1> QED
  BY <1>1, <1>2, <1>3, FrameStep

\* Where nobody leaves, and also where somebody does but nothing is ever forced
\* out, the count is exactly the number of readers the frame waits for: no frame
\* stays in the ring for want of a reader that does not exist.  (With both, Drop
\* for FrameSubscriber counts a subscriber that lags off no frame at all.)
THEOREM CountsAreExact == SafeToLeave => (Spec => []CountExact)
<1> SUFFICES ASSUME SafeToLeave PROVE Spec => []CountExact
  OBVIOUS
<1> DEFINE Inv == (~Lossy => KeepUp) /\ CountExact
<1>1. Init => Inv
  <2> SUFFICES ASSUME Init PROVE Inv
    OBVIOUS
  <2>1. Len(messages) = 0 /\ live = {}
    BY EmptySeq DEF Init
  <2> QED
    BY <2>1 DEF KeepUp, CountExact
<1>2. CoveredInv /\ Inv /\ [Next]_vars => Inv'
  BY KeepUpStep, ExactStep DEF CoveredInv
<1>3. Inv => CountExact
  OBVIOUS
<1> QED
  BY <1>1, <1>2, <1>3, CoveredInvariance, PTL DEF Spec

-----------------------------------------------------------------------------
(* The channel implements the frame log *)

\* What the log's members take next: the refinement mapping.
Due == [s \in Subscribers |-> IF s \in live THEN ReadId(s) ELSE 0]

\* What a member takes next lies between the oldest frame and the next id.
LEMMA DueProperties ==
  ASSUME ChannelInv, ReadersInv
  PROVE  /\ StartId \in Nat /\ next_message_id \in Nat /\ StartId <= next_message_id
         /\ \A s \in Subscribers : /\ cursor[s] \in Nat
                                   /\ ReadId(s) \in Nat
                                   /\ cursor[s] <= ReadId(s) /\ StartId <= ReadId(s)
                                   /\ ReadId(s) = cursor[s] \/ ReadId(s) = StartId
                                   /\ ReadId(s) <= next_message_id
<1>1. cursor \in [Subscribers -> Nat]
  BY DEF ChannelInv, TypeOK
<1>2. StartId \in Nat /\ next_message_id \in Nat /\ StartId <= next_message_id
  BY Queue
<1> QED
  BY <1>1, <1>2 DEF ReadId, Larger, ReadersInv

\* Frames go from the front: members that are behind move up.
LEMMA RetireMaps ==
  ASSUME ChannelInv, ReadersInv, NEW n \in 0..Len(messages),
         Len(messages') = Len(messages) - n, UNCHANGED <<next_message_id, cursor>>,
         live' \subseteq live,
         Lossy \/ n = 0 \/ \A s \in live' : cursor[s] >= StartId + n
  PROVE  /\ StartId' = StartId + n /\ StartId' \in StartId..next_message_id
         /\ Log!RetireTo(StartId', live')
<1>1. Len(messages) \in Nat /\ next_message_id = StartId + Len(messages)
  BY Queue
<1>2. StartId' = StartId + n /\ StartId' \in StartId..next_message_id
  BY <1>1, DueProperties DEF StartId
<1> DEFINE f == StartId'
<1>3. f \in Nat /\ f >= StartId
  BY <1>2, DueProperties
<1>4. live' \subseteq Subscribers /\ live \subseteq Subscribers
  BY DEF ChannelInv, TypeOK
<1>5. \A s \in Subscribers : ReadId(s)' = IF cursor[s] >= f THEN cursor[s] ELSE f
  BY DEF ReadId, Larger
<1> HIDE DEF f
<1>6. \A s \in Subscribers : ReadId(s)' = IF ReadId(s) >= f THEN ReadId(s) ELSE f
  BY <1>3, <1>5, DueProperties
<1>7. Due' = [s \in Subscribers |-> IF s \notin live' THEN 0
                                    ELSE IF Due[s] >= f THEN Due[s] ELSE f]
  <2>1. \A s \in live' : Due[s] = ReadId(s)
    BY <1>4 DEF Due
  <2>2. Due' = [s \in Subscribers |-> IF s \in live' THEN ReadId(s)' ELSE 0]
    BY DEF Due
  <2> QED
    BY <1>6, <2>1, <2>2
<1>8. Lossy \/ \A s \in live' : Due[s] >= f
  <2>1. ASSUME NEW s \in live', n = 0 \/ cursor[s] >= StartId + n PROVE Due[s] >= f
    <3>1. Due[s] = ReadId(s) /\ s \in Subscribers
      BY <1>4 DEF Due
    <3>2. StartId + 0 = StartId /\ f = StartId + n
      BY <1>2, DueProperties DEF f
    <3> QED
      BY <1>3, <2>1, <3>1, <3>2, DueProperties
  <2> QED
    BY <2>1
<1> QED
  BY <1>2, <1>7, <1>8 DEF Log!RetireTo, Due, Lossy, f

\* Every critical section is a step of the log, or one the log does not see.
LEMMA LogStep ==
  ASSUME ChannelInv, ReadersInv, CountCovers, [Next]_vars
  PROVE  Log!LogNext \/ UNCHANGED <<next_message_id, StartId, live, Due>>
<1>0. /\ cursor \in [Subscribers -> Nat] /\ live \subseteq Subscribers
      /\ Len(messages) \in Nat /\ next_message_id = StartId + Len(messages)
      /\ StartId \in Nat
  BY Queue DEF ChannelInv, TypeOK
<1>1. StartId' = next_message_id' - Len(messages')
  BY DEF StartId
<1>2. CASE Quiet
  <2>1. UNCHANGED StartId
    BY <1>2 DEF Quiet, StartId
  <2>2. UNCHANGED Due
    BY <1>2, <2>1 DEF Quiet, Due, ReadId
  <2> QED
    BY <1>2, <2>1, <2>2 DEF Quiet
<1>3. ASSUME NEW n \in 0..Len(messages),
             Len(messages') = Len(messages) - n,
             UNCHANGED <<next_message_id, cursor, live>>,
             Lossy \/ n = 0 \/ \A s \in live : cursor[s] >= StartId + n
      PROVE  Log!Retire
  <2>1. live' \subseteq live /\ (Lossy \/ n = 0 \/ \A s \in live' : cursor[s] >= StartId + n)
    BY <1>3
  <2>2. /\ StartId' \in StartId..next_message_id
        /\ Log!RetireTo(StartId', live')
    BY <1>3, <2>1, RetireMaps
  <2>3. Log!RetireTo(StartId', live)
    BY <1>3, <2>2 DEF Log!RetireTo
  <2> QED
    BY <1>3, <2>2, <2>3 DEF Log!Retire
<1>4. CASE ForcedOut
  <2>1. PICK n \in 0..Len(messages) : Popped(n) /\ Lossy
    BY <1>4 DEF ForcedOut, Lossy
  <2>2. Len(messages') = Len(messages) - n /\ UNCHANGED <<next_message_id, cursor, live>>
    BY <1>4, <2>1 DEF ForcedOut, Popped
  <2> QED
    BY <1>3, <2>1, <2>2 DEF Log!LogNext
<1>5. ASSUME NEW r \in rgrants, Release(r)
      PROVE  Log!LogNext
  <2>1. ReleaseInner(r) /\ UNCHANGED <<next_message_id, cursor, live>>
    BY <1>5 DEF Release
  <2>2. CASE Len(messages') = Len(messages)
    <3>1. 0 \in 0..Len(messages) /\ Len(messages') = Len(messages) - 0
      BY <1>0, <2>2
    <3> QED
      BY <1>3, <2>1, <3>1 DEF Log!LogNext
  <2>3. CASE Popped(1) /\ Len(messages) > 0 /\ messages[1].subscriber_count = 0
    <3>1. 1 \in 0..Len(messages) /\ 1 \in 1..Len(messages) /\ messages[1].message_id = StartId
      <4>1. 1 \in 0..Len(messages) /\ 1 \in 1..Len(messages) /\ StartId + 1 - 1 = StartId
        BY <1>0, <2>3
      <4> QED
        BY <4>1, Queue
    <3>2. \A s \in live : cursor[s] > StartId
      BY <2>3, <3>1, NobodyLeft
    <3>3. \A s \in live : cursor[s] >= StartId + 1
      BY <1>0, <3>2
    <3>4. Len(messages') = Len(messages) - 1
      BY <2>3 DEF Popped
    <3> QED
      BY <1>3, <2>1, <3>1, <3>3, <3>4 DEF Log!LogNext
  <2> QED
    BY <2>1, <2>2, <2>3, Releases DEF Marked
<1>6. ASSUME NEW s \in Subscribers, NewSubscriber(s) PROVE Log!Join(s)
  <2>1. /\ s \notin live /\ live' = live \cup {s}
        /\ cursor' = [cursor EXCEPT ![s] = next_message_id]
        /\ UNCHANGED <<messages, next_message_id>>
    BY <1>6 DEF NewSubscriber
  <2>2. UNCHANGED StartId
    BY <2>1 DEF StartId
  <2>3. ReadId(s)' = next_message_id /\ \A t \in Subscribers \ {s} : ReadId(t)' = ReadId(t)
    BY <1>0, <2>1, <2>2, DueProperties DEF ReadId, Larger
  <2>4. Due' = [Due EXCEPT ![s] = next_message_id]
    BY <2>1, <2>3 DEF Due
  <2> QED
    BY <2>1, <2>2, <2>4 DEF Log!Join, Due
<1>7. ASSUME NEW s \in Subscribers, Taken(s) PROVE Log!Deliver(s)
  <2>1. PICK i \in 1..Len(messages) :
          /\ messages[i].message_id = ReadId(s)
          /\ Len(messages') = Len(messages)
          /\ cursor' = [cursor EXCEPT ![s] = ReadId(s) + 1]
    BY <1>7, Takes DEF Taken, Marked
  <2>2. s \in live /\ UNCHANGED <<next_message_id, live>>
    BY <1>7 DEF Taken
  <2>3. UNCHANGED StartId
    BY <2>1, <2>2 DEF StartId
  <2>4. ReadId(s) < next_message_id
    BY <1>0, <2>1, Queue
  <2>5. ReadId(s)' = ReadId(s) + 1 /\ \A t \in Subscribers \ {s} : ReadId(t)' = ReadId(t)
    BY <1>0, <2>1, <2>3, DueProperties DEF ReadId, Larger
  <2>6. Due[s] = ReadId(s) /\ Due' = [Due EXCEPT ![s] = @ + 1]
    BY <2>2, <2>5 DEF Due
  <2> QED
    BY <2>2, <2>3, <2>4, <2>6 DEF Log!Deliver, Due
<1>8. ASSUME NEW s \in Subscribers, Refused(s)
      PROVE  UNCHANGED <<next_message_id, StartId, live, Due>>
  <2>1. cursor' = [cursor EXCEPT ![s] = ReadId(s)] /\ UNCHANGED <<messages, next_message_id, live>>
    BY <1>8 DEF Refused
  <2>2. UNCHANGED StartId
    BY <2>1 DEF StartId
  <2>3. \A t \in Subscribers : ReadId(t)' = ReadId(t)
    BY <1>0, <2>1, <2>2, DueProperties DEF ReadId, Larger
  <2>4. UNCHANGED Due
    BY <2>1, <2>3 DEF Due
  <2> QED
    BY <2>1, <2>2, <2>4
<1>9. ASSUME NEW w \in wgrants, NEW used \in Nat, Commit(w, used)
      PROVE  Log!Publish \/ UNCHANGED <<next_message_id, StartId, live, Due>>
  <2>1. CommitInner(w, used) /\ UNCHANGED <<live, cursor>>
    BY <1>9 DEF Commit
  <2>2. \/ UNCHANGED <<messages, next_message_id>>
        \/ /\ subscriber_count # 0 /\ Len(messages') = Len(messages) + 1
           /\ next_message_id' = next_message_id + 1
    BY <2>1, Commits
  <2>3. UNCHANGED StartId
    BY <1>0, <1>1, <2>2
  <2>4. UNCHANGED Due
    BY <2>1, <2>3 DEF Due, ReadId
  <2>5. CASE UNCHANGED <<messages, next_message_id>>
    BY <2>1, <2>3, <2>4, <2>5
  <2>6. CASE subscriber_count # 0 /\ next_message_id' = next_message_id + 1
    <3>1. live # {}
      BY <2>6, FS_EmptySet DEF ChannelInv
    <3> QED
      BY <2>1, <2>3, <2>4, <2>6, <3>1 DEF Log!Publish, Due
  <2> QED
    BY <2>2, <2>5, <2>6
<1>10. ASSUME NEW s \in Subscribers, DropSubscriber(s) PROVE Log!Leave(s)
  <2>1. live' = live \ {s} /\ UNCHANGED <<cursor, next_message_id>> /\ s \in live
    BY <1>10 DEF DropSubscriber
  <2>2. ASSUME NEW n \in 0..Len(messages), Len(messages') = Len(messages) - n,
               n = 0 \/ \A t \in live' : cursor[t] >= StartId + n
        PROVE  Log!Leave(s)
    <3>1. /\ StartId' \in StartId..next_message_id
          /\ Log!RetireTo(StartId', live')
      BY <2>1, <2>2, RetireMaps
    <3>2. Log!RetireTo(StartId', live \ {s})
      BY <2>1, <3>1 DEF Log!RetireTo
    <3> QED
      BY <2>1, <3>1, <3>2 DEF Log!Leave
  <2>3. CASE UNCHANGED messages
    <3>1. 0 \in 0..Len(messages) /\ Len(messages') = Len(messages) - 0
      BY <1>0, <2>3
    <3> QED
      BY <2>2, <3>1
  <2>4. ASSUME NEW n \in 0..Len(messages), Left(s, n) PROVE Log!Leave(s)
    <3>0. Len(messages') = Len(messages) - n
      BY <2>4 DEF Left
    <3>1. CASE n # 0
      <4>1. n \in 1..Len(messages) /\ n \in 1..n /\ messages[n].message_id = StartId + n - 1
        BY <1>0, <3>1, Queue
      <4>2. messages[n].subscriber_count - Off(s, messages[n].message_id) = 0
        BY <2>4, <4>1 DEF Left
      <4>3. \A t \in live' : cursor[t] > StartId + n - 1 /\ cursor[t] \in Nat
        BY <1>0, <2>1, <4>1, <4>2, NobodyLeft
      <4>4. \A t \in live' : cursor[t] >= StartId + n
        BY <1>0, <4>3
      <4> QED
        BY <2>2, <3>0, <4>4
    <3> QED
      BY <2>2, <3>0, <3>1
  <2>5. UNCHANGED messages \/ \E n \in 0..Len(messages) : Left(s, n)
    BY <1>10, Leaves
  <2> QED
    BY <2>3, <2>4, <2>5
<1> QED
  BY <1>2, <1>4, <1>5, <1>6, <1>7, <1>8, <1>9, <1>10, LogSteps DEF Log!LogNext

\* The channel is the frame log of FrameLog: each subscriber is handed the
\* frames committed since subscriber(), in order and once each, and misses one
\* only if grant_immediate() or clear() is in use; with neither, no frame leaves
\* the ring before all its readers took it.
THEOREM ChannelImplementsLog == Spec => ImplementsLog
<1>1. Init => Log!LogInit
  <2> SUFFICES ASSUME Init PROVE Log!LogInit
    OBVIOUS
  <2>1. next_message_id = 0 /\ live = {} /\ Len(messages) = 0
    BY EmptySeq DEF Init
  <2>2. StartId = 0
    BY <2>1 DEF StartId
  <2> QED
    BY <2>1, <2>2 DEF Log!LogInit
<1>2. CoveredInv /\ [Next]_vars => [Log!LogNext]_(Log!logVars)
  BY LogStep DEF CoveredInv, Log!logVars, Due
<1> QED
  BY <1>1, <1>2, CoveredInvariance, PTL DEF Spec, ImplementsLog, Log!LogSpec

-----------------------------------------------------------------------------
(* What is read is what was committed *)

\* Nobody takes frames from under a reader that holds one.
HandsOff == Calls \cap {"drop_subscriber", "clear"} = {}

\* read_in_progress admits one reader at a time.
OneReader == \A r1, r2 \in rgrants : r1.message_id = r2.message_id => r1 = r2

\* Where the frame of a grant is.
PinnedAt(r, i) ==
  /\ messages[i].message_id = r.message_id
  /\ messages[i].start = r.start
  /\ messages[i].len = r.len
  /\ messages[i].read_in_progress

\* The steps, by what they do to frames and the grants of their readers.
LEMMA GrantSteps ==
  ASSUME HandsOff, ChannelInv, ReadersInv, [Next]_vars
  PROVE  \/ UNCHANGED <<messages, rgrants>>
         \/ /\ UNCHANGED rgrants
            /\ \E n \in 0..Len(messages) :
                 Popped(n) /\ \A i \in 1..n : ~messages[i].read_in_progress
         \/ UNCHANGED rgrants /\ \E w \in wgrants, used \in Nat : CommitInner(w, used)
         \/ \E s \in live : Taken(s)
         \/ \E r \in rgrants : Release(r)
         \/ \E r \in rgrants :
              /\ UNCHANGED messages
              /\ \/ ~r.auto_release /\ rgrants' = rgrants \ {r}
                 \/ /\ "manual_release" \in Calls
                    /\ \E b \in BOOLEAN :
                         rgrants' = (rgrants \ {r}) \cup {[r EXCEPT !.auto_release = b]}
<1> USE DEF wakerVars, taskVars
<1>1. CASE \/ TakePublisher \/ DropPublisher \/ FinishImmediate \/ PollGrant \/ CancelGrant
           \/ UNCHANGED vars \/ \E sz \in Sizes : Grant(sz) \/ GrantAsync(sz)
  BY <1>1 DEF TakePublisher, DropPublisher, FinishImmediate, PollGrant, CancelGrant,
              vars, Grant, GrantAsync
<1>2. CASE Clear
  BY <1>2 DEF Clear, HandsOff
<1>3. ASSUME NEW sz \in Sizes, GrantImmediate(sz)
      PROVE  UNCHANGED rgrants /\ \E n \in 0..Len(messages) :
                 Popped(n) /\ \A i \in 1..n : ~messages[i].read_in_progress
  <2>1. PICK n \in 0..Len(messages) :
          Evicts(messages, sz, n) /\ messages' = PopFront(messages, n)
    BY <1>3 DEF GrantImmediate
  <2>2. Popped(n) /\ \A i \in 1..n : ~messages[i].read_in_progress
    BY <2>1, PopFrontPops DEF Evicts
  <2> QED
    BY <1>3, <2>2 DEF GrantImmediate
<1>4. ASSUME NEW w \in wgrants,
             DropWriteGrant(w) \/ \E used \in Sizes : Commit(w, used) \/ ToCommit(w, used)
      PROVE  UNCHANGED rgrants /\ (UNCHANGED messages \/ \E used \in Nat : CommitInner(w, used))
  <2>1. w.to_commit \in Nat
    BY DEF ChannelInv, TypeOK, GrantW
  <2> QED
    BY <1>4, <2>1, SizesAssumption DEF DropWriteGrant, Commit, ToCommit
<1>5. ASSUME NEW s \in Subscribers,
             \/ NewSubscriber(s) \/ Read(s) \/ ReadAsync(s) \/ PollRead(s)
             \/ CancelRead(s) \/ DropSubscriber(s)
      PROVE  UNCHANGED <<messages, rgrants>> \/ (s \in live /\ Taken(s))
  <2>1. CASE ReadAsync(s) \/ CancelRead(s) \/ NewSubscriber(s)
    BY <2>1 DEF ReadAsync, CancelRead, NewSubscriber
  <2>2. CASE Read(s)
    BY <2>2 DEF Read, Taken
  <2>3. CASE PollRead(s)
    <3>1. s \in live
      BY <2>3 DEF PollRead, ReadersInv
    <3> QED
      BY <2>3, <3>1 DEF PollRead, Taken
  <2>4. CASE DropSubscriber(s)
    BY <2>4 DEF DropSubscriber, HandsOff
  <2> QED
    BY <1>5, <2>1, <2>2, <2>3, <2>4
<1>6. ASSUME NEW r \in rgrants,
             Release(r) \/ DropReadGrant(r) \/ \E b \in BOOLEAN : AutoRelease(r, b)
      PROVE  \/ Release(r)
             \/ /\ UNCHANGED messages
                /\ \/ ~r.auto_release /\ rgrants' = rgrants \ {r}
                   \/ /\ "manual_release" \in Calls
                      /\ \E b \in BOOLEAN :
                           rgrants' = (rgrants \ {r}) \cup {[r EXCEPT !.auto_release = b]}
  BY <1>6 DEF DropReadGrant, AutoRelease
<1> QED
  BY <1>1, <1>2, <1>3, <1>4, <1>5, <1>6 DEF Next

\* No step moves, unmarks or drops a frame that is in somebody's hands, and
\* nobody else takes it.
LEMMA PinnedStep ==
  ASSUME HandsOff, ChannelInv, ReadersInv, HeldGrantsPinned, OneReader, [Next]_vars
  PROVE  HeldGrantsPinned' /\ OneReader'
<1>0. \A r \in rgrants : r \in GrantR /\ \E i \in 1..Len(messages) : PinnedAt(r, i)
  BY DEF HeldGrantsPinned, PinnedAt, ChannelInv, TypeOK
\* It is enough that frames in somebody's hands stay as they are.
<1>1. ASSUME rgrants' \subseteq rgrants,
             \A r \in rgrants' : \A i \in 1..Len(messages) :
               PinnedAt(r, i) => \E j \in 1..Len(messages') : messages'[j] = messages[i]
      PROVE  HeldGrantsPinned' /\ OneReader'
  <2>1. HeldGrantsPinned'
    BY <1>0, <1>1 DEF HeldGrantsPinned, PinnedAt
  <2>2. OneReader'
    BY <1>1 DEF OneReader
  <2> QED
    BY <2>1, <2>2
<1>2. CASE UNCHANGED <<messages, rgrants>>
  BY <1>1, <1>2
<1>3. ASSUME UNCHANGED rgrants, NEW n \in 0..Len(messages), Popped(n),
             \A i \in 1..n : ~messages[i].read_in_progress
      PROVE  HeldGrantsPinned' /\ OneReader'
  <2>1. ASSUME NEW r \in rgrants', NEW i \in 1..Len(messages), PinnedAt(r, i)
        PROVE  \E j \in 1..Len(messages') : messages'[j] = messages[i]
    <3>1. i \notin 1..n
      BY <1>3, <2>1 DEF PinnedAt
    <3>2. i - n \in 1..(Len(messages) - n) /\ (i - n) + n = i
      BY <3>1, Queue
    <3> QED
      BY <1>3, <3>2 DEF Popped
  <2> QED
    BY <1>1, <1>3, <2>1
<1>4. ASSUME UNCHANGED rgrants, NEW w \in wgrants, NEW used \in Nat, CommitInner(w, used)
      PROVE  HeldGrantsPinned' /\ OneReader'
  <2>1. \A i \in 1..Len(messages) : i \in 1..Len(messages') /\ messages'[i] = messages[i]
    <3>1. CASE UNCHANGED messages
      BY <3>1
    <3>2. CASE /\ Len(messages') = Len(messages) + 1
               /\ \A i \in 1..Len(messages) : messages'[i] = messages[i]
      BY <3>2, Queue
    <3> QED
      BY <1>4, <3>1, <3>2, Commits
  <2> QED
    BY <1>1, <1>4, <2>1
<1>5. ASSUME NEW s \in live, Taken(s) PROVE HeldGrantsPinned' /\ OneReader'
  <2>0. s \in Subscribers
    BY DEF ChannelInv, TypeOK
  <2>1. PICK i \in 1..Len(messages) :
          /\ ~messages[i].read_in_progress
          /\ Marked(i, messages[i].subscriber_count - 1, TRUE)
          /\ rgrants' = rgrants \cup {[sub |-> s, message_id |-> messages[i].message_id,
                                       start |-> messages[i].start,
                                       len |-> messages[i].len,
                                       auto_release |-> TRUE]}
    BY <1>5, <2>0, Takes DEF Taken
  <2> DEFINE new == [sub |-> s, message_id |-> messages[i].message_id,
                     start |-> messages[i].start, len |-> messages[i].len,
                     auto_release |-> TRUE]
  <2>2. /\ new.message_id = messages[i].message_id /\ new.start = messages[i].start
        /\ new.len = messages[i].len
    OBVIOUS
  <2>3. rgrants' = rgrants \cup {new}
    BY <2>1
  <2> HIDE DEF new
  <2>4. ASSUME NEW r \in rgrants, NEW j \in 1..Len(messages), PinnedAt(r, j)
        PROVE  j # i /\ r.message_id # new.message_id
    <3>1. j # i
      BY <2>1, <2>4 DEF PinnedAt
    <3> QED
      BY <2>2, <2>4, <3>1, Queue, SMTT(30) DEF PinnedAt
  <2>5. HeldGrantsPinned'
    <3>1. ASSUME NEW r \in rgrants
          PROVE  \E j \in 1..Len(messages') : /\ messages'[j].message_id = r.message_id
                                              /\ messages'[j].start = r.start
                                              /\ messages'[j].len = r.len
                                              /\ messages'[j].read_in_progress
      <4>1. PICK j \in 1..Len(messages) : PinnedAt(r, j)
        BY <1>0
      <4>2. messages'[j] = messages[j] /\ j \in 1..Len(messages')
        BY <2>1, <2>4, <4>1 DEF Marked
      <4> QED
        BY <4>1, <4>2 DEF PinnedAt
    <3>2. /\ i \in 1..Len(messages') /\ messages'[i].message_id = new.message_id
          /\ messages'[i].start = new.start /\ messages'[i].len = new.len
          /\ messages'[i].read_in_progress
      BY <2>1, <2>2 DEF Marked
    <3> QED
      BY <2>3, <3>1, <3>2 DEF HeldGrantsPinned
  <2>6. OneReader'
    BY <1>0, <2>3, <2>4 DEF OneReader
  <2> QED
    BY <2>5, <2>6
<1>6. ASSUME NEW r \in rgrants, Release(r) PROVE HeldGrantsPinned' /\ OneReader'
  <2>1. rgrants' = rgrants \ {r} /\ ReleaseInner(r)
    BY <1>6 DEF Release
  <2>2. \A q \in rgrants' : q.message_id # r.message_id
    BY <2>1 DEF OneReader
  <2>3. CASE UNCHANGED messages
    BY <1>1, <2>1, <2>3
  <2>4. CASE Popped(1) /\ Len(messages) > 0 /\ messages[1].message_id = r.message_id
    <3>1. ASSUME NEW q \in rgrants', NEW i \in 1..Len(messages), PinnedAt(q, i)
          PROVE  \E j \in 1..Len(messages') : messages'[j] = messages[i]
      <4>1. i # 1
        BY <2>2, <2>4, <3>1 DEF PinnedAt
      <4>2. i - 1 \in 1..(Len(messages) - 1) /\ (i - 1) + 1 = i
        BY <4>1, Queue
      <4> QED
        BY <2>4, <4>2 DEF Popped
    <3> QED
      BY <1>1, <2>1, <3>1
  <2>5. ASSUME NEW k \in 1..Len(messages), messages[k].message_id = r.message_id,
               Marked(k, messages[k].subscriber_count, FALSE)
        PROVE  HeldGrantsPinned' /\ OneReader'
    <3>1. ASSUME NEW q \in rgrants', NEW i \in 1..Len(messages), PinnedAt(q, i)
          PROVE  i \in 1..Len(messages') /\ messages'[i] = messages[i]
      BY <2>2, <2>5, <3>1 DEF PinnedAt, Marked
    <3> QED
      BY <1>1, <2>1, <3>1
  <2> QED
    BY <2>1, <2>3, <2>4, <2>5, Releases
<1>7. ASSUME NEW r \in rgrants, UNCHANGED messages, rgrants' = rgrants \ {r}
      PROVE  HeldGrantsPinned' /\ OneReader'
  BY <1>1, <1>7
<1>8. ASSUME NEW r \in rgrants, NEW b \in BOOLEAN, UNCHANGED messages,
             rgrants' = (rgrants \ {r}) \cup {[r EXCEPT !.auto_release = b]}
      PROVE  HeldGrantsPinned' /\ OneReader'
  <2> DEFINE new == [r EXCEPT !.auto_release = b]
  <2>1. new.message_id = r.message_id /\ new.start = r.start /\ new.len = r.len
    BY <1>0 DEF GrantR
  <2>2. rgrants' = (rgrants \ {r}) \cup {new}
    BY <1>8
  <2> HIDE DEF new
  <2>3. HeldGrantsPinned'
    BY <1>8, <2>1, <2>2 DEF HeldGrantsPinned
  <2>4. OneReader'
    BY <2>1, <2>2 DEF OneReader
  <2> QED
    BY <2>3, <2>4
<1> QED
  BY <1>2, <1>3, <1>4, <1>5, <1>6, <1>7, <1>8, GrantSteps

\* What a reader holds is in the queue and marked.
HeldInv == CoveredInv /\ HeldGrantsPinned /\ OneReader

\* That is an invariant where nobody takes frames from under a reader.
LEMMA HeldInvariance == HandsOff => (Spec => []HeldInv)
<1> SUFFICES ASSUME HandsOff PROVE Spec => []HeldInv
  OBVIOUS
<1>1. Init => HeldGrantsPinned /\ OneReader
  BY DEF Init, HeldGrantsPinned, OneReader
<1>2. CoveredInv /\ HeldGrantsPinned /\ OneReader /\ [Next]_vars
        => (HeldGrantsPinned /\ OneReader)'
  BY PinnedStep DEF CoveredInv
<1>3. HeldInv <=> CoveredInv /\ HeldGrantsPinned /\ OneReader
  BY DEF HeldInv
<1> QED
  BY <1>1, <1>2, <1>3, CoveredInvariance, PTL DEF Spec

\* Unless a FrameSubscriber is dropped or the channel cleared, every FrameGrantR
\* points at a frame that is still queued and marked, whoever joins, overtakes,
\* writes, cancels or leaks a grant meanwhile: grant_immediate() stops at it and
\* release_inner() of another frame passes it by.
THEOREM GrantsStayPinned == HandsOff => (Spec => []HeldGrantsPinned)
<1> SUFFICES ASSUME HandsOff PROVE Spec => []HeldGrantsPinned
  OBVIOUS
<1>1. HeldInv => HeldGrantsPinned
  BY DEF HeldInv
<1> QED
  BY <1>1, HeldInvariance, PTL

\* Nothing is in the buffer before publisher() zeroes it.
CleanStart ==
  ~publisher_taken => /\ messages = <<>> /\ rgrants = {} /\ wgrants = {}
                      /\ pub_task.state = "idle"

\* The region of a new grant is apart from every frame that is queued or held.
LEMMA GrantIntact ==
  ASSUME ChannelInv, ChannelInv', HeldGrantsPinned, NEW sz \in Nat,
         TakeGrant(messages, sz), UNCHANGED messages
  PROVE  Overwritten(messages, NewStart(messages, sz), NewStart(messages, sz) + sz) = {}
<1> DEFINE from == NewStart(messages, sz)
           w    == [start |-> from, size |-> sz, to_commit |-> 0]
<1>1. w \in wgrants' /\ w.start = from /\ w.size = sz
  BY DEF TakeGrant
<1> HIDE DEF w
<1>2. RegionsDisjoint'
  BY RegionsFollow, PTL
<1>3. \A i \in 1..Len(messages) :
        Apart(messages[i].start, End(messages[i]), from, from + sz)
  BY <1>1, <1>2 DEF RegionsDisjoint
<1>4. from \in Nat
  BY Queue, NewStartType
<1>5. \A i \in 1..Len(messages) : messages[i].start \in Nat /\ messages[i].len \in Nat
  BY Queue DEF Header
<1> HIDE DEF from
<1>6. ASSUME NEW i \in 1..Len(messages)
      PROVE  ~(messages[i].start < from + sz /\ from < End(messages[i]))
  BY <1>3, <1>4, <1>5 DEF Apart, End
<1>7. ASSUME NEW r \in rgrants PROVE ~(r.start < from + sz /\ from < End(r))
  <2>1. PICK i \in 1..Len(messages) : messages[i].start = r.start /\ messages[i].len = r.len
    BY DEF HeldGrantsPinned
  <2>2. End(r) = End(messages[i])
    BY <2>1 DEF End
  <2> QED
    BY <1>6, <2>1, <2>2
<1> QED
  BY <1>6, <1>7 DEF Overwritten, from

\* No grant, and no publisher() either, reaches bytes that somebody may read.
LEMMA IntactStep ==
  ASSUME HandsOff, "drop_publisher" \notin Calls, ChannelInv, ReadersInv,
         HeldGrantsPinned, CleanStart, FramesIntact, [Next]_vars
  PROVE  CleanStart' /\ FramesIntact'
<1> USE DEF wakerVars, taskVars
<1>0. ChannelInv' /\ publisher_taken \in BOOLEAN /\ pub_task.size \in Nat
  BY StepPreserves DEF ChannelInv, TypeOK
\* The grants of the publisher.
<1>1. ASSUME NEW sz \in Nat, TakeGrant(messages, sz), UNCHANGED messages PROVE FramesIntact'
  BY <1>0, <1>1, GrantIntact DEF TakeGrant, FramesIntact
<1>2. ASSUME NEW sz \in Sizes, Grant(sz) \/ GrantAsync(sz) \/ GrantImmediate(sz)
      PROVE  CleanStart' /\ FramesIntact'
  <2>1. publisher_taken /\ publisher_taken' = publisher_taken
    BY <1>2 DEF Grant, GrantAsync, GrantImmediate, PublisherFree
  <2>2. FramesIntact'
    <3>1. CASE Grant(sz)
      BY <1>1, <3>1, SizesAssumption DEF Grant
    <3>2. CASE GrantAsync(sz) \/ GrantImmediate(sz)
      BY <3>2 DEF GrantAsync, GrantImmediate, FramesIntact
    <3> QED
      BY <1>2, <3>1, <3>2
  <2> QED
    BY <2>1, <2>2 DEF CleanStart
<1>3. CASE FinishImmediate \/ PollGrant \/ CancelGrant
  <2>1. pub_task.state # "idle" /\ UNCHANGED <<messages, publisher_taken>>
    BY <1>3 DEF FinishImmediate, PollGrant, CancelGrant
  <2>2. publisher_taken
    BY <2>1 DEF CleanStart
  <2>3. UNCHANGED torn \/ TakeGrant(messages, pub_task.size)
    BY <1>3 DEF FinishImmediate, PollGrant, CancelGrant
  <2>4. FramesIntact'
    <3>1. CASE UNCHANGED torn
      BY <3>1 DEF FramesIntact
    <3>2. CASE TakeGrant(messages, pub_task.size)
      BY <1>0, <2>1, <3>2, GrantIntact DEF TakeGrant, FramesIntact
    <3> QED
      BY <2>3, <3>1, <3>2
  <2> QED
    BY <2>1, <2>2, <2>4 DEF CleanStart
<1>4. CASE TakePublisher
  <2>1. messages = <<>> /\ rgrants = {} /\ torn' = torn \cup Overwritten(messages, 0, Capacity)
    BY <1>4 DEF TakePublisher, CleanStart
  <2>2. Overwritten(messages, 0, Capacity) = {}
    <3>1. Len(messages) = 0
      BY <2>1, EmptySeq
    <3> QED
      BY <2>1, <3>1 DEF Overwritten
  <2>3. publisher_taken'
    BY <1>4 DEF TakePublisher
  <2> QED
    BY <2>1, <2>2, <2>3 DEF CleanStart, FramesIntact
<1>5. CASE DropPublisher \/ Clear
  BY <1>5 DEF DropPublisher, Clear, HandsOff
<1>6. CASE UNCHANGED vars
  BY <1>6 DEF vars, CleanStart, FramesIntact
<1>7. ASSUME NEW w \in wgrants,
             DropWriteGrant(w) \/ \E used \in Sizes : Commit(w, used) \/ ToCommit(w, used)
      PROVE  CleanStart' /\ FramesIntact'
  <2>1. UNCHANGED <<torn, publisher_taken>> /\ publisher_taken
    BY <1>7 DEF DropWriteGrant, Commit, ToCommit, CleanStart
  <2> QED
    BY <2>1 DEF CleanStart, FramesIntact
<1>8. ASSUME NEW r \in rgrants,
             Release(r) \/ DropReadGrant(r) \/ \E b \in BOOLEAN : AutoRelease(r, b)
      PROVE  CleanStart' /\ FramesIntact'
  <2>1. UNCHANGED <<torn, publisher_taken>> /\ publisher_taken
    BY <1>8 DEF Release, DropReadGrant, AutoRelease, CleanStart
  <2> QED
    BY <2>1 DEF CleanStart, FramesIntact
<1>9. ASSUME NEW s \in Subscribers,
             \/ NewSubscriber(s) \/ Read(s) \/ ReadAsync(s) \/ PollRead(s)
             \/ CancelRead(s) \/ DropSubscriber(s)
      PROVE  CleanStart' /\ FramesIntact'
  <2>1. UNCHANGED torn
    BY <1>9 DEF NewSubscriber, Read, ReadAsync, PollRead, CancelRead, DropSubscriber
  <2>2. UNCHANGED <<publisher_taken, wgrants, pub_task>>
    BY <1>9 DEF NewSubscriber, Read, ReadAsync, PollRead, CancelRead, DropSubscriber, HandsOff
  <2>3. CASE UNCHANGED <<messages, rgrants>>
    BY <2>1, <2>2, <2>3 DEF CleanStart, FramesIntact
  <2>4. CASE CanRead(s) /\ TakeFrame(s)
    <3>1. Len(messages) # 0
      <4>1. PICK i \in 1..Len(messages) : i = ReadIndex(s)
        BY <2>4, Takes
      <4> QED
        BY <4>1
    <3>2. messages # <<>>
      BY <3>1, EmptySeq
    <3> QED
      BY <2>1, <2>2, <3>2 DEF CleanStart, FramesIntact
  <2> QED
    BY <1>9, <2>3, <2>4 DEF NewSubscriber, Read, ReadAsync, PollRead, CancelRead,
                            DropSubscriber, HandsOff
<1> QED
  BY <1>2, <1>3, <1>4, <1>5, <1>6, <1>7, <1>8, <1>9 DEF Next

\* No byte of a frame changes between its commit and its release, even if its
\* reader leaks the grant or others are forced past it: neither free_space()
\* nor the placement of a grant counts such a frame as free.  (The hypotheses
\* are the calls that this is not true of: dropping a subscriber or clearing
\* the channel under a reader, and taking the publisher again, which zeroes the
\* buffer.)
THEOREM FramesStayIntact ==
  HandsOff /\ "drop_publisher" \notin Calls => (Spec => []FramesIntact)
<1> SUFFICES ASSUME HandsOff, "drop_publisher" \notin Calls PROVE Spec => []FramesIntact
  OBVIOUS
<1>1. Init => CleanStart /\ FramesIntact
  BY DEF Init, CleanStart, FramesIntact
<1>2. HeldInv /\ CleanStart /\ FramesIntact /\ [Next]_vars => (CleanStart /\ FramesIntact)'
  BY IntactStep DEF HeldInv, CoveredInv
<1>3. Spec => []HeldInv
  BY HeldInvariance
<1> QED
  BY <1>1, <1>2, <1>3, PTL DEF Spec

-----------------------------------------------------------------------------
(* Nobody sleeps through what they wait for *)

\* Counts and marks take no room.
LEMMA MarkedRoom ==
  ASSUME ChannelInv, NEW i \in 1..Len(messages), NEW n, NEW b, Marked(i, n, b), NEW sz
  PROVE  HasRoom(messages', sz) <=> HasRoom(messages, sz)
<1>1. Len(messages) \in Nat /\ Len(messages) # 0 /\ Len(messages') = Len(messages)
  BY Queue DEF Marked
<1>2. messages # <<>> /\ messages' # <<>>
  BY <1>1, EmptySeq
<1>3. 1 \in 1..Len(messages) /\ Len(messages) \in 1..Len(messages)
  BY <1>1
<1>4. \A j \in 1..Len(messages) : /\ messages'[j].start = messages[j].start
                                  /\ messages'[j].len = messages[j].len
  BY DEF Marked
<1>5. Front(messages').start = Front(messages).start
  BY <1>3, <1>4 DEF Front
<1>6. End(Back(messages')) = End(Back(messages))
  BY <1>1, <1>3, <1>4 DEF Back, End
<1>7. FreeSpace(messages') = FreeSpace(messages)
  BY <1>2, <1>5, <1>6 DEF FreeSpace, Inverted
<1> QED
  BY <1>1, <1>7 DEF HasRoom, DequeFull

\* A frame that is taken, and frames that are evicted, are no news to a
\* subscriber with nothing to read.
LEMMA NothingToRead ==
  ASSUME ChannelInv, ReadersInv, NEW s \in Subscribers, ~CanRead(s),
         UNCHANGED next_message_id, cursor'[s] = cursor[s],
         \/ UNCHANGED messages
         \/ \E i \in 1..Len(messages), n \in Int : Marked(i, n, TRUE)
         \/ \E n \in 0..Len(messages) :
              Popped(n) /\ \A i \in 1..n : ~messages[i].read_in_progress
  PROVE  ~CanRead(s)'
<1>0. /\ cursor[s] \in Nat /\ Len(messages) \in Nat /\ StartId \in Nat
      /\ next_message_id \in Nat /\ next_message_id = StartId + Len(messages)
      /\ cursor[s] <= next_message_id
  BY Queue DEF ChannelInv, TypeOK, ReadersInv
<1>1. ReadId(s) \in Nat /\ ReadId(s) >= StartId /\ ReadIndex(s) = ReadId(s) - StartId + 1
  BY DueProperties DEF ReadIndex
<1>2. StartId' = next_message_id - Len(messages')
  BY DEF StartId
<1>3. CASE UNCHANGED messages
  <2>1. StartId' = StartId
    BY <1>3 DEF StartId
  <2> QED
    BY <1>3, <2>1 DEF CanRead, Available, ReadIndex, ReadId
<1>4. ASSUME NEW i \in 1..Len(messages), NEW n \in Int, Marked(i, n, TRUE) PROVE ~CanRead(s)'
  <2>1. StartId' = StartId /\ Len(messages') = Len(messages)
    BY <1>4 DEF StartId, Marked
  <2>2. ReadIndex(s)' = ReadIndex(s)
    BY <2>1 DEF ReadIndex, ReadId
  <2>3. CASE ReadIndex(s) <= Len(messages)
    <3>1. ReadIndex(s) \in 1..Len(messages) /\ messages[ReadIndex(s)].read_in_progress
      BY <1>0, <1>1, <2>3 DEF CanRead, Available
    <3>2. messages'[ReadIndex(s)].read_in_progress
      BY <1>4, <3>1 DEF Marked
    <3> QED
      BY <2>2, <3>2 DEF CanRead
  <2>4. CASE ~(ReadIndex(s) <= Len(messages))
    BY <2>1, <2>2, <2>4 DEF CanRead, Available
  <2> QED
    BY <2>3, <2>4
<1>5. ASSUME NEW n \in 0..Len(messages), Popped(n), \A i \in 1..n : ~messages[i].read_in_progress
      PROVE  ~CanRead(s)'
  <2>1. Len(messages') = Len(messages) - n
    BY <1>5 DEF Popped
  <2>2. StartId' = StartId + n
    BY <1>0, <1>2, <2>1
  <2>3. ReadIndex(s)' = ReadId(s)' - (StartId + n) + 1
        /\ ReadId(s)' = IF cursor[s] >= StartId + n THEN cursor[s] ELSE StartId + n
    BY <2>2 DEF ReadIndex, ReadId, Larger
  <2>4. CASE ReadIndex(s) <= Len(messages)
    <3> DEFINE k == ReadIndex(s)
    <3>1. k \in 1..Len(messages) /\ messages[k].read_in_progress
      BY <1>0, <1>1, <2>4 DEF CanRead, Available
    <3>2. k \notin 1..n
      BY <1>5, <3>1
    <3>3. k = ReadId(s) - StartId + 1
      BY <1>1
    <3> HIDE DEF k
    <3>4. k > n /\ k \in Nat /\ n \in Nat /\ ReadId(s) = StartId + k - 1
      BY <1>0, <1>1, <3>1, <3>2, <3>3
    <3>0. /\ cursor[s] <= ReadId(s)
          /\ ReadId(s) = cursor[s] \/ ReadId(s) = StartId
      BY DueProperties
    <3>7. ReadId(s) >= StartId + n
      BY <1>0, <1>1, <3>4
    <3>8. ReadId(s)' = ReadId(s)
      <4>1. CASE ReadId(s) = cursor[s]
        BY <2>3, <3>7, <4>1
      <4>2. CASE ReadId(s) = StartId
        <5>1. StartId + n = StartId
          BY <1>0, <3>4, <3>7, <4>2
        <5>2. cursor[s] >= StartId + n => cursor[s] = StartId
          BY <1>0, <3>0, <4>2, <5>1
        <5> QED
          BY <2>3, <4>2, <5>1, <5>2
      <4> QED
        BY <3>0, <4>1, <4>2
    <3>9. ReadIndex(s)' = (StartId + k - 1) - (StartId + n) + 1
      BY <2>3, <3>4, <3>8
    <3>5. ReadIndex(s)' = k - n /\ k - n \in 1..(Len(messages) - n) /\ (k - n) + n = k
      <4>1. k <= Len(messages)
        BY <3>1
      <4>2. (StartId + k - 1) - (StartId + n) + 1 = k - n
        BY <1>0, <3>4
      <4> QED
        BY <1>0, <3>4, <3>9, <4>1, <4>2
    <3>6. messages'[k - n] = messages[k]
      BY <1>5, <3>5 DEF Popped
    <3> QED
      BY <3>1, <3>5, <3>6 DEF CanRead
  <2>5. CASE ~(ReadIndex(s) <= Len(messages))
    <3>0. /\ ReadId(s) <= next_message_id
          /\ ReadId(s) = cursor[s] \/ ReadId(s) = StartId
      BY DueProperties
    <3>1. ReadId(s) = next_message_id
      <4>1. ~(ReadId(s) - StartId + 1 <= Len(messages))
        BY <1>1, <2>5
      <4> QED
        BY <1>0, <1>1, <3>0, <4>1
    <3>2. ReadId(s)' = next_message_id
      <4>1. CASE ReadId(s) = cursor[s]
        <5>1. cursor[s] >= StartId + n
          BY <1>0, <3>1, <4>1
        <5> QED
          BY <2>3, <3>1, <4>1, <5>1
      <4>2. CASE ReadId(s) = StartId
        <5>1. n = 0 /\ StartId + n = next_message_id
          BY <1>0, <3>1, <4>2
        <5> QED
          BY <1>0, <2>3, <5>1
      <4> QED
        BY <3>0, <4>1, <4>2
    <3>3. ~(ReadIndex(s)' <= Len(messages'))
      BY <1>0, <2>1, <2>3, <3>2
    <3> QED
      BY <3>3 DEF CanRead, Available
  <2> QED
    BY <2>4, <2>5
<1> QED
  BY <1>3, <1>4, <1>5

\* A publisher that waits has written what it had.
WriterInv ==
  /\ write_in_progress => wgrants # {}
  /\ pub_task.state # "idle" => wgrants = {}

\* Without overlapping grants, that is kept by every step.
LEMMA WriterStep ==
  ASSUME "overlap" \notin Calls, ChannelInv, WriterInv, [Next]_vars
  PROVE  WriterInv'
<1> USE DEF wakerVars, taskVars
<1>0. pub_task \in [state : TaskState, size : Nat] /\ write_in_progress \in BOOLEAN
  BY DEF ChannelInv, TypeOK
<1>1. ASSUME NEW q, NEW sz, TakeGrant(q, sz) PROVE wgrants' # {}
  BY <1>1 DEF TakeGrant
<1>2. ASSUME NEW sz \in Sizes, Grant(sz) \/ GrantAsync(sz) \/ GrantImmediate(sz)
      PROVE  WriterInv'
  <2>1. pub_task.state = "idle" /\ wgrants = {}
    BY <1>2 DEF Grant, GrantAsync, GrantImmediate, PublisherFree
  <2>2. CASE Grant(sz)
    BY <1>1, <2>1, <2>2 DEF Grant, WriterInv
  <2>3. CASE GrantAsync(sz) \/ GrantImmediate(sz)
    BY <2>1, <2>3 DEF GrantAsync, GrantImmediate, WriterInv
  <2> QED
    BY <1>2, <2>2, <2>3
<1>3. CASE FinishImmediate \/ PollGrant \/ CancelGrant
  <2>1. wgrants = {} /\ ~write_in_progress
    BY <1>3 DEF FinishImmediate, PollGrant, CancelGrant, WriterInv
  <2>2. \/ UNCHANGED <<write_in_progress, wgrants>>
        \/ TakeGrant(messages, pub_task.size) /\ pub_task' = [state |-> "idle", size |-> 0]
    BY <1>3 DEF FinishImmediate, PollGrant, CancelGrant
  <2> QED
    BY <1>1, <2>1, <2>2 DEF WriterInv
<1>4. ASSUME NEW w \in wgrants, NEW used, Commit(w, used) PROVE WriterInv'
  <2>1. write_in_progress /\ wgrants = {w} /\ pub_task.state = "idle"
    BY DEF ChannelInv, OneWriter, WriterInv
  <2>2. write_in_progress' = FALSE /\ wgrants' = {} /\ pub_task' = pub_task
    BY <1>4, <2>1 DEF Commit, CommitInner
  <2> QED
    BY <2>2 DEF WriterInv
<1>5. ASSUME NEW w \in wgrants, NEW amt, ToCommit(w, amt) PROVE WriterInv'
  <2>1. pub_task.state = "idle" /\ pub_task' = pub_task /\ wgrants' # {}
    BY <1>5 DEF ToCommit, WriterInv
  <2> QED
    BY <2>1 DEF WriterInv
<1>6. ASSUME UNCHANGED <<write_in_progress, wgrants>>, UNCHANGED pub_task \/ WakePublisher
      PROVE  WriterInv'
  <2>1. pub_task'.state # "idle" => pub_task.state # "idle"
    BY <1>0, <1>6 DEF WakePublisher, Resume
  <2> QED
    BY <1>6, <2>1 DEF WriterInv
<1>7. CASE TakePublisher \/ DropPublisher \/ Clear \/ UNCHANGED vars
  BY <1>6, <1>7 DEF TakePublisher, DropPublisher, Clear, vars
<1>8. ASSUME NEW s \in Subscribers,
             \/ NewSubscriber(s) \/ Read(s) \/ ReadAsync(s) \/ PollRead(s)
             \/ CancelRead(s) \/ DropSubscriber(s)
      PROVE  WriterInv'
  BY <1>6, <1>8 DEF NewSubscriber, Read, ReadAsync, PollRead, CancelRead, DropSubscriber, WakeIfFreed
<1>9. ASSUME NEW r \in rgrants,
             Release(r) \/ DropReadGrant(r) \/ \E b \in BOOLEAN : AutoRelease(r, b)
      PROVE  WriterInv'
  BY <1>6, <1>9 DEF Release, ReleaseInner, DropReadGrant, AutoRelease
<1> QED
  BY <1>2, <1>3, <1>4, <1>5, <1>7, <1>8, <1>9 DEF Next, DropWriteGrant

\* The two halves of NoLostWakeup.
WriterAwake ==
  pub_task.state = "parked" => publisher_waker /\ ~CanGrant(messages, pub_task.size)

\* And those that wait for frames.
ReadersAwake ==
  \A s \in Subscribers : sub_task[s] = "parked" => s \in subscriber_wakers /\ ~CanRead(s)

\* Whatever makes room, or ends a write, while the publisher waits wakes it.
LEMMA WriterAwakeStep ==
  ASSUME HandsOff, "overlap" \notin Calls, ChannelInv, ReadersInv, WriterInv,
         WriterAwake, [Next]_vars
  PROVE  WriterAwake'
<1> USE DEF wakerVars, taskVars
<1>0. pub_task \in [state : TaskState, size : Nat] /\ publisher_waker \in BOOLEAN
  BY DEF ChannelInv, TypeOK
<1>1. ASSUME UNCHANGED <<pub_task, publisher_waker, write_in_progress>>,
             \A sz : HasRoom(messages', sz) <=> HasRoom(messages, sz)
      PROVE  WriterAwake'
  BY <1>1 DEF WriterAwake, CanGrant
<1>2. ASSUME pub_task'.state # "parked" PROVE WriterAwake'
  BY <1>2 DEF WriterAwake
<1>3. ASSUME NEW i \in 1..Len(messages), NEW n, NEW b, Marked(i, n, b),
             UNCHANGED <<pub_task, publisher_waker, write_in_progress>>
      PROVE  WriterAwake'
  BY <1>1, <1>3, MarkedRoom
<1>4. ASSUME UNCHANGED <<pub_task, publisher_waker, write_in_progress, messages>>
      PROVE  WriterAwake'
  BY <1>1, <1>4
<1>5. CASE TakePublisher \/ DropPublisher \/ UNCHANGED vars
  BY <1>4, <1>5 DEF TakePublisher, DropPublisher, vars
<1>6. ASSUME NEW sz \in Sizes, Grant(sz) \/ GrantAsync(sz) \/ GrantImmediate(sz)
      PROVE  WriterAwake'
  <2>1. pub_task.state = "idle"
    BY <1>6 DEF Grant, GrantAsync, GrantImmediate, PublisherFree
  <2>2. pub_task'.state # "parked"
    BY <1>6, <2>1 DEF Grant, GrantAsync, GrantImmediate
  <2> QED
    BY <1>2, <2>2
<1>7. CASE FinishImmediate \/ CancelGrant
  BY <1>2, <1>7 DEF FinishImmediate, CancelGrant
<1>8. CASE PollGrant
  <2>1. CASE pub_task' = [state |-> "idle", size |-> 0]
    BY <1>2, <2>1
  <2>2. CASE /\ ~CanGrant(messages, pub_task.size)
             /\ publisher_waker' = TRUE
             /\ pub_task' = [pub_task EXCEPT !.state = "parked"]
             /\ UNCHANGED <<write_in_progress, messages>>
    <3>1. pub_task'.size = pub_task.size
      BY <1>0, <2>2
    <3> QED
      BY <2>2, <3>1 DEF WriterAwake, CanGrant
  <2> QED
    BY <1>8, <2>1, <2>2 DEF PollGrant
<1>9. CASE Clear
  BY <1>9 DEF Clear, HandsOff
<1>10. ASSUME NEW w \in wgrants, NEW used, Commit(w, used) \/ ToCommit(w, used)
       PROVE  WriterAwake'
  <2>1. pub_task.state = "idle" /\ pub_task' = pub_task
    BY <1>10 DEF WriterInv, Commit, ToCommit
  <2> QED
    BY <1>2, <2>1
<1>11. ASSUME NEW s \in Subscribers, NewSubscriber(s) \/ ReadAsync(s) \/ CancelRead(s)
       PROVE  WriterAwake'
  BY <1>4, <1>11 DEF NewSubscriber, ReadAsync, CancelRead
<1>12. ASSUME NEW s \in Subscribers, Read(s) \/ PollRead(s) PROVE WriterAwake'
  <2>1. UNCHANGED <<pub_task, publisher_waker, write_in_progress>>
    BY <1>12 DEF Read, PollRead
  <2>2. CASE UNCHANGED messages
    BY <1>4, <2>1, <2>2
  <2>3. CASE CanRead(s) /\ TakeFrame(s)
    <3>1. PICK i \in 1..Len(messages) : Marked(i, messages[i].subscriber_count - 1, TRUE)
      BY <2>3, Takes
    <3> QED
      BY <1>3, <2>1, <3>1
  <2> QED
    BY <1>12, <2>2, <2>3 DEF Read, PollRead
<1>13. ASSUME NEW s \in Subscribers, DropSubscriber(s) PROVE FALSE
  BY <1>13 DEF DropSubscriber, HandsOff
<1>14. ASSUME NEW r \in rgrants, Release(r) PROVE WriterAwake'
  <2>1. ReleaseInner(r) /\ UNCHANGED write_in_progress
    BY <1>14 DEF Release
  <2>2. CASE UNCHANGED <<messages, wakerVars, taskVars>>
    BY <1>4, <2>1, <2>2
  <2>3. CASE WakePublisher
    <3>1. pub_task'.state # "parked"
      BY <1>0, <2>3 DEF WakePublisher, Resume, WriterAwake
    <3> QED
      BY <1>2, <3>1
  <2>4. ASSUME NEW i \in 1..Len(messages), Marked(i, messages[i].subscriber_count, FALSE),
               UNCHANGED <<publisher_waker, pub_task>>
        PROVE  WriterAwake'
    BY <1>3, <2>1, <2>4
  <2> QED
    BY <2>1, <2>2, <2>3, <2>4, Releases
<1>15. ASSUME NEW r \in rgrants, DropReadGrant(r) \/ \E b \in BOOLEAN : AutoRelease(r, b)
       PROVE  WriterAwake'
  <2>1. Release(r) \/ UNCHANGED <<pub_task, publisher_waker, write_in_progress, messages>>
    BY <1>15 DEF DropReadGrant, AutoRelease
  <2> QED
    BY <1>4, <1>14, <2>1
<1> QED
  BY <1>5, <1>6, <1>7, <1>8, <1>9, <1>10, <1>11, <1>12, <1>13, <1>14, <1>15
     DEF Next, DropWriteGrant

\* Whatever makes a frame readable for somebody that waits wakes it.
LEMMA ReadersAwakeStep ==
  ASSUME HandsOff, ChannelInv, ReadersInv, ReadersAwake, [Next]_vars
  PROVE  ReadersAwake'
<1> USE DEF wakerVars, taskVars
<1> SUFFICES ASSUME NEW s \in Subscribers, sub_task'[s] = "parked"
             PROVE  s \in subscriber_wakers' /\ ~CanRead(s)'
  BY DEF ReadersAwake
<1>0. sub_task \in [Subscribers -> TaskState] /\ cursor \in [Subscribers -> Nat]
  BY DEF ChannelInv, TypeOK
<1>1. ASSUME sub_task[s] = "parked", s \in subscriber_wakers => s \in subscriber_wakers',
             UNCHANGED next_message_id, cursor'[s] = cursor[s],
             \/ UNCHANGED messages
             \/ \E i \in 1..Len(messages), n \in Int : Marked(i, n, TRUE)
             \/ \E n \in 0..Len(messages) :
                  Popped(n) /\ \A i \in 1..n : ~messages[i].read_in_progress
      PROVE  s \in subscriber_wakers' /\ ~CanRead(s)'
  <2>1. s \in subscriber_wakers /\ ~CanRead(s)
    BY <1>1 DEF ReadersAwake
  <2>2. ~CanRead(s)'
    BY <1>1, <2>1, NothingToRead
  <2> QED
    BY <1>1, <2>1, <2>2
\* A wake-up leaves nobody asleep.
<1>2. ASSUME WakeSubscribers PROVE FALSE
  BY <1>2 DEF WakeSubscribers, Resume, ReadersAwake
<1>3. ASSUME UNCHANGED <<sub_task, subscriber_wakers, next_message_id, cursor, messages>>
      PROVE  s \in subscriber_wakers' /\ ~CanRead(s)'
  BY <1>1, <1>3
<1>4. CASE \/ TakePublisher \/ DropPublisher \/ FinishImmediate \/ PollGrant \/ CancelGrant
           \/ UNCHANGED vars \/ \E sz \in Sizes : Grant(sz) \/ GrantAsync(sz)
  BY <1>3, <1>4 DEF TakePublisher, DropPublisher, FinishImmediate, PollGrant, CancelGrant,
                    vars, Grant, GrantAsync
<1>5. CASE Clear
  BY <1>5 DEF Clear, HandsOff
<1>6. ASSUME NEW sz \in Sizes, GrantImmediate(sz)
      PROVE  s \in subscriber_wakers' /\ ~CanRead(s)'
  <2>1. PICK n \in 0..Len(messages) :
          Evicts(messages, sz, n) /\ messages' = PopFront(messages, n)
    BY <1>6 DEF GrantImmediate
  <2>2. Popped(n) /\ \A i \in 1..n : ~messages[i].read_in_progress
    BY <2>1, PopFrontPops DEF Evicts
  <2>3. UNCHANGED <<sub_task, subscriber_wakers, next_message_id, cursor>>
    BY <1>6 DEF GrantImmediate
  <2> QED
    BY <1>1, <2>2, <2>3
<1>7. ASSUME NEW w \in wgrants,
             DropWriteGrant(w) \/ \E used \in Sizes : Commit(w, used) \/ ToCommit(w, used)
      PROVE  s \in subscriber_wakers' /\ ~CanRead(s)'
  <2>1. \/ UNCHANGED <<sub_task, subscriber_wakers, next_message_id, cursor, messages>>
        \/ WakeSubscribers
    BY <1>7 DEF DropWriteGrant, Commit, CommitInner, ToCommit
  <2> QED
    BY <1>2, <1>3, <2>1
<1>8. ASSUME NEW r \in rgrants,
             Release(r) \/ DropReadGrant(r) \/ \E b \in BOOLEAN : AutoRelease(r, b)
      PROVE  s \in subscriber_wakers' /\ ~CanRead(s)'
  <2>1. \/ UNCHANGED <<sub_task, subscriber_wakers, next_message_id, cursor, messages>>
        \/ WakeSubscribers
    BY <1>8 DEF Release, ReleaseInner, DropReadGrant, AutoRelease
  <2> QED
    BY <1>2, <1>3, <2>1
\* Somebody else reads.
<1>9. ASSUME NEW t \in Subscribers, CanRead(t), TakeFrame(t), t # s,
             sub_task[s] = "parked", UNCHANGED <<subscriber_wakers, next_message_id>>
      PROVE  s \in subscriber_wakers' /\ ~CanRead(s)'
  <2>1. PICK i \in 1..Len(messages) :
          /\ Marked(i, messages[i].subscriber_count - 1, TRUE)
          /\ cursor' = [cursor EXCEPT ![t] = ReadId(t) + 1]
    BY <1>9, Takes
  <2>2. messages[i].subscriber_count - 1 \in Int /\ cursor'[s] = cursor[s]
    BY <1>0, <1>9, <2>1, Queue
  <2> QED
    BY <1>1, <1>9, <2>1, <2>2
<1>10. ASSUME NEW t \in Subscribers, NewSubscriber(t)
       PROVE  s \in subscriber_wakers' /\ ~CanRead(s)'
  <2>1. sub_task[t] = "idle" /\ sub_task[s] = "parked"
    BY <1>10 DEF NewSubscriber, ReadersInv
  <2>2. cursor'[s] = cursor[s] /\ UNCHANGED <<subscriber_wakers, next_message_id, messages>>
    BY <1>0, <1>10, <2>1 DEF NewSubscriber
  <2> QED
    BY <1>1, <2>1, <2>2
<1>11. ASSUME NEW t \in Subscribers, ReadAsync(t) \/ CancelRead(t)
       PROVE  s \in subscriber_wakers' /\ ~CanRead(s)'
  <2>1. sub_task[s] = "parked"
    BY <1>0, <1>11 DEF ReadAsync, CancelRead
  <2> QED
    BY <1>1, <1>11, <2>1 DEF ReadAsync, CancelRead
<1>12. ASSUME NEW t \in Subscribers, Read(t)
       PROVE  s \in subscriber_wakers' /\ ~CanRead(s)'
  <2>1. sub_task[t] = "idle" /\ sub_task[s] = "parked"
    BY <1>12 DEF Read
  <2>2. CASE CanRead(t) /\ TakeFrame(t)
    BY <1>9, <1>12, <2>1, <2>2 DEF Read
  <2>3. CASE cursor' = [cursor EXCEPT ![t] = ReadId(t)] /\ UNCHANGED messages
    BY <1>0, <1>1, <1>12, <2>1, <2>3 DEF Read
  <2> QED
    BY <1>12, <2>2, <2>3 DEF Read
<1>13. ASSUME NEW t \in Subscribers, PollRead(t)
       PROVE  s \in subscriber_wakers' /\ ~CanRead(s)'
  <2>1. CASE CanRead(t) /\ TakeFrame(t) /\ sub_task' = [sub_task EXCEPT ![t] = "idle"]
             /\ UNCHANGED subscriber_wakers
    <3>1. t # s /\ sub_task[s] = "parked"
      BY <1>0, <2>1
    <3> QED
      BY <1>9, <1>13, <2>1, <3>1 DEF PollRead
  <2>2. CASE /\ ~CanRead(t) /\ ParkSubscriber(t) /\ UNCHANGED <<messages, next_message_id>>
             /\ cursor' = [cursor EXCEPT ![t] = ReadId(t)]
    <3>1. CASE t = s
      <4>1. s \in subscriber_wakers'
        BY <2>2, <3>1 DEF ParkSubscriber
      <4>2. cursor'[s] = ReadId(s) /\ StartId' = StartId
        BY <1>0, <2>2, <3>1 DEF StartId
      <4>3. ReadId(s)' = ReadId(s)
        BY <4>2, DueProperties DEF ReadId, Larger
      <4>4. ReadIndex(s)' = ReadIndex(s)
        BY <4>2, <4>3 DEF ReadIndex
      <4>5. ~CanRead(s)'
        BY <2>2, <3>1, <4>4 DEF CanRead, Available
      <4> QED
        BY <4>1, <4>5
    <3>2. CASE t # s
      <4>1. sub_task[s] = "parked" /\ (s \in subscriber_wakers => s \in subscriber_wakers')
        BY <2>2, <3>2 DEF ParkSubscriber, Resume
      <4>2. cursor'[s] = cursor[s]
        BY <1>0, <2>2, <3>2
      <4> QED
        BY <1>1, <2>2, <4>1, <4>2
    <3> QED
      BY <3>1, <3>2
  <2> QED
    BY <1>13, <2>1, <2>2 DEF PollRead
<1>14. ASSUME NEW t \in Subscribers, DropSubscriber(t) PROVE FALSE
  BY <1>14 DEF DropSubscriber, HandsOff
<1> QED
  BY <1>4, <1>5, <1>6, <1>7, <1>8, <1>10, <1>11, <1>12, <1>13, <1>14 DEF Next

\* A task asleep in GrantFuture or GrantReadFuture is registered and has nothing
\* to proceed with: commit_inner(), release_inner() and a full
\* MultiWakerRegistration wake whoever they make ready, and evicting frames
\* makes nobody ready.  (clear() and a dropped subscriber do, without waking
\* anyone; so does a commit, if the grant before it still stands.)
THEOREM NoWakeupIsLost ==
  HandsOff /\ "overlap" \notin Calls => (Spec => []NoLostWakeup)
<1> SUFFICES ASSUME HandsOff, "overlap" \notin Calls PROVE Spec => []NoLostWakeup
  OBVIOUS
<1> DEFINE Inv == WriterInv /\ WriterAwake /\ ReadersAwake
<1>1. Init => Inv
  BY DEF Init, WriterInv, WriterAwake, ReadersAwake
<1>2. CoveredInv /\ Inv /\ [Next]_vars => Inv'
  BY WriterStep, WriterAwakeStep, ReadersAwakeStep DEF CoveredInv
<1>3. Inv => NoLostWakeup
  BY DEF NoLostWakeup, WriterAwake, ReadersAwake
<1> HIDE DEF Inv
<1> QED
  BY <1>1, <1>2, <1>3, CoveredInvariance, PTL DEF Spec

-----------------------------------------------------------------------------
(* No frame outlives its last reader *)

\* One grant at a time for each subscriber, released as it goes.
TakesTurns == MaxHeld <= 1 /\ "manual_release" \notin Calls

\* Whoever holds a grant has read that frame last.
LastRead ==
  /\ IsFiniteSet(rgrants)
  /\ \A r \in rgrants : /\ r.auto_release
                        /\ r.sub \in live
                        /\ cursor[r.sub] = r.message_id + 1
                        /\ sub_task[r.sub] = "idle"

\* A frame that is marked is in somebody's hands.
MarkedIsHeld ==
  \A i \in 1..Len(messages) :
    messages[i].read_in_progress =>
      \E r \in rgrants : r.message_id = messages[i].message_id

\* Waking finds nobody to wake among those that do not wait.
LEMMA IdleStays ==
  ASSUME TypeOK, NEW t \in Subscribers, sub_task[t] = "idle"
  PROVE  /\ WakeSubscribers => sub_task'[t] = "idle"
         /\ \A s \in Subscribers \ {t} : ParkSubscriber(s) => sub_task'[t] = "idle"
BY DEF WakeSubscribers, ParkSubscriber, Resume, TypeOK

\* A subscriber that may read holds nothing.
LEMMA HandsFree ==
  ASSUME TakesTurns, LastRead, NEW s, Cardinality(HeldBy(s)) < MaxHeld
  PROVE  \A r \in rgrants : r.sub # s
<1>1. HeldBy(s) \in SUBSET rgrants /\ IsFiniteSet(rgrants)
  BY DEF HeldBy, LastRead
<1>2. IsFiniteSet(HeldBy(s))
  BY <1>1, FS_Subset
<1>3. Cardinality(HeldBy(s)) \in Nat
  BY <1>2, FS_CardinalityType
<1>4. Cardinality(HeldBy(s)) = 0
  BY <1>3, MaxHeldAssumption DEF TakesTurns
<1>5. HeldBy(s) = {}
  BY <1>2, <1>4, FS_EmptySet
<1> QED
  BY <1>5 DEF HeldBy

\* Grants that stay keep their subscriber where it is, and a subscriber takes
\* a frame with nothing in its hands.
LEMMA LastReadStep ==
  ASSUME HandsOff, TakesTurns, ChannelInv, ReadersInv, LastRead, [Next]_vars
  PROVE  LastRead'
<1> USE DEF wakerVars, taskVars
<1>0. TypeOK
  BY DEF ChannelInv
<1>1. ASSUME rgrants' \subseteq rgrants,
             \A r \in rgrants' : /\ r.sub \in live'
                                 /\ cursor'[r.sub] = cursor[r.sub]
                                 /\ sub_task'[r.sub] = "idle"
      PROVE  LastRead'
  <2>1. IsFiniteSet(rgrants')
    BY <1>1, FS_Subset DEF LastRead
  <2> QED
    BY <1>1, <2>1 DEF LastRead
<1>2. CASE UNCHANGED <<rgrants, live, cursor, sub_task>>
  BY <1>1, <1>2 DEF LastRead
<1>3. ASSUME rgrants' \subseteq rgrants, UNCHANGED <<live, cursor>>,
             WakeSubscribers \/ UNCHANGED sub_task
      PROVE  LastRead'
  <2>1. ASSUME NEW r \in rgrants' PROVE sub_task'[r.sub] = "idle"
    <3>1. r \in rgrants /\ r.sub \in Subscribers /\ sub_task[r.sub] = "idle"
      BY <1>0, <1>3 DEF LastRead, TypeOK
    <3>2. WakeSubscribers => sub_task'[r.sub] = "idle"
      BY <1>0, <3>1, IdleStays
    <3> QED
      BY <1>3, <3>1, <3>2
  <2> QED
    BY <1>1, <1>3, <2>1 DEF LastRead
<1>4. ASSUME NEW s \in Subscribers, \A r \in rgrants : r.sub # s,
             UNCHANGED rgrants, live \subseteq live',
             \A t \in Subscribers \ {s} : cursor'[t] = cursor[t],
             \/ ParkSubscriber(s)
             \/ \A t \in Subscribers \ {s} : sub_task'[t] = sub_task[t]
      PROVE  LastRead'
  <2>1. ASSUME NEW r \in rgrants'
        PROVE  /\ r.sub \in live' /\ cursor'[r.sub] = cursor[r.sub]
               /\ sub_task'[r.sub] = "idle"
    <3>1. r \in rgrants /\ r.sub \in Subscribers \ {s} /\ sub_task[r.sub] = "idle" /\ r.sub \in live
      BY <1>0, <1>4 DEF LastRead, TypeOK
    <3>2. ParkSubscriber(s) => sub_task'[r.sub] = "idle"
      BY <1>0, <3>1, IdleStays
    <3> QED
      BY <1>4, <3>1, <3>2
  <2> QED
    BY <1>1, <1>4, <2>1
<1>5. ASSUME NEW s \in live, \A r \in rgrants : r.sub # s, CanRead(s), TakeFrame(s),
             UNCHANGED live, sub_task'[s] = "idle",
             \A t \in Subscribers \ {s} : sub_task'[t] = sub_task[t]
      PROVE  LastRead'
  <2>0. s \in Subscribers /\ cursor \in [Subscribers -> Nat]
    BY <1>0 DEF TypeOK
  <2>1. PICK i \in 1..Len(messages) :
          /\ messages[i].message_id = ReadId(s)
          /\ cursor' = [cursor EXCEPT ![s] = ReadId(s) + 1]
          /\ rgrants' = rgrants \cup {[sub |-> s, message_id |-> messages[i].message_id,
                                       start |-> messages[i].start,
                                       len |-> messages[i].len,
                                       auto_release |-> TRUE]}
    BY <1>5, <2>0, Takes
  <2> DEFINE new == [sub |-> s, message_id |-> messages[i].message_id,
                     start |-> messages[i].start, len |-> messages[i].len,
                     auto_release |-> TRUE]
  <2>2. new.sub = s /\ new.message_id = ReadId(s) /\ new.auto_release = TRUE
    BY <2>1
  <2>3. rgrants' = rgrants \cup {new}
    BY <2>1
  <2> HIDE DEF new
  <2>4. IsFiniteSet(rgrants')
    BY <2>3, FS_AddElement DEF LastRead
  <2>5. cursor'[s] = new.message_id + 1
    BY <2>0, <2>1, <2>2
  <2>6. ASSUME NEW r \in rgrants
        PROVE  /\ r.auto_release /\ r.sub \in live'
               /\ cursor'[r.sub] = r.message_id + 1 /\ sub_task'[r.sub] = "idle"
    <3>1. r.sub \in Subscribers \ {s}
      BY <1>0, <1>5 DEF TypeOK, LastRead
    <3>2. cursor'[r.sub] = cursor[r.sub]
      BY <2>0, <2>1, <3>1
    <3> QED
      BY <1>5, <3>1, <3>2 DEF LastRead
  <2> QED
    BY <1>5, <2>2, <2>3, <2>4, <2>5, <2>6 DEF LastRead
<1>6. CASE \/ TakePublisher \/ DropPublisher \/ FinishImmediate \/ PollGrant \/ CancelGrant
           \/ UNCHANGED vars \/ Clear
           \/ \E sz \in Sizes : Grant(sz) \/ GrantAsync(sz) \/ GrantImmediate(sz)
  BY <1>2, <1>6 DEF TakePublisher, DropPublisher, FinishImmediate, PollGrant, CancelGrant,
                    vars, Clear, Grant, GrantAsync, GrantImmediate
<1>7. ASSUME NEW w \in wgrants,
             DropWriteGrant(w) \/ \E used \in Sizes : Commit(w, used) \/ ToCommit(w, used)
      PROVE  LastRead'
  BY <1>3, <1>7 DEF DropWriteGrant, Commit, CommitInner, ToCommit
<1>8. ASSUME NEW s \in Subscribers, NewSubscriber(s) PROVE LastRead'
  <2>1. \A r \in rgrants : r.sub # s
    BY <1>8 DEF NewSubscriber, LastRead
  <2> QED
    BY <1>0, <1>4, <1>8, <2>1 DEF NewSubscriber, TypeOK
<1>9. ASSUME NEW s \in Subscribers, Read(s) PROVE LastRead'
  <2>1. \A r \in rgrants : r.sub # s
    BY <1>9, HandsFree DEF Read
  <2>2. CASE CanRead(s) /\ TakeFrame(s)
    BY <1>5, <1>9, <2>1, <2>2 DEF Read
  <2>3. CASE cursor' = [cursor EXCEPT ![s] = ReadId(s)] /\ UNCHANGED rgrants
    BY <1>0, <1>4, <1>9, <2>1, <2>3 DEF Read, TypeOK
  <2> QED
    BY <1>9, <2>2, <2>3 DEF Read
<1>10. ASSUME NEW s \in Subscribers, ReadAsync(s) PROVE LastRead'
  <2>1. \A r \in rgrants : r.sub # s
    BY <1>10, HandsFree DEF ReadAsync
  <2> QED
    BY <1>0, <1>4, <1>10, <2>1 DEF ReadAsync, TypeOK
<1>11. ASSUME NEW s \in Subscribers, PollRead(s) \/ CancelRead(s) PROVE LastRead'
  <2>1. \A r \in rgrants : r.sub # s
    BY <1>11 DEF PollRead, CancelRead, LastRead
  <2>2. CASE PollRead(s) /\ CanRead(s) /\ TakeFrame(s)
    <3>1. s \in live
      BY <2>2 DEF PollRead, ReadersInv
    <3>2. sub_task' = [sub_task EXCEPT ![s] = "idle"] /\ UNCHANGED live
      BY <2>2 DEF PollRead
    <3> QED
      BY <1>0, <1>5, <2>1, <2>2, <3>1, <3>2 DEF TypeOK
  <2>3. CASE PollRead(s) /\ ~CanRead(s)
    <3>1. /\ cursor' = [cursor EXCEPT ![s] = ReadId(s)] /\ ParkSubscriber(s)
          /\ UNCHANGED <<live, rgrants>>
      BY <2>3 DEF PollRead
    <3> QED
      BY <1>0, <1>4, <2>1, <3>1 DEF TypeOK
  <2>4. CASE CancelRead(s)
    BY <1>0, <1>4, <2>1, <2>4 DEF CancelRead, TypeOK
  <2> QED
    BY <1>11, <2>2, <2>3, <2>4 DEF PollRead
<1>12. ASSUME NEW s \in Subscribers, DropSubscriber(s) PROVE LastRead'
  BY <1>12 DEF DropSubscriber, HandsOff
<1>13. ASSUME NEW r \in rgrants, Release(r) PROVE LastRead'
  <2>1. WakeSubscribers \/ UNCHANGED sub_task
    BY <1>13 DEF Release, ReleaseInner
  <2> QED
    BY <1>3, <1>13, <2>1 DEF Release
<1>14. ASSUME NEW r \in rgrants, DropReadGrant(r) \/ \E b \in BOOLEAN : AutoRelease(r, b)
       PROVE  LastRead'
  BY <1>13, <1>14 DEF DropReadGrant, AutoRelease, TakesTurns, LastRead
<1> QED
  BY <1>6, <1>7, <1>8, <1>9, <1>10, <1>11, <1>12, <1>13, <1>14 DEF Next

\* Marks are made with a grant and cleared with it.
LEMMA MarksStep ==
  ASSUME HandsOff, TakesTurns, ChannelInv, ReadersInv, HeldGrantsPinned, OneReader,
         LastRead, MarkedIsHeld, [Next]_vars
  PROVE  MarkedIsHeld'
<1>1. ASSUME UNCHANGED rgrants,
             \A i \in 1..Len(messages') : messages'[i].read_in_progress =>
               \E j \in 1..Len(messages) : messages'[i] = messages[j]
      PROVE  MarkedIsHeld'
  BY <1>1 DEF MarkedIsHeld
<1>2. CASE UNCHANGED <<messages, rgrants>>
  BY <1>1, <1>2
<1>3. ASSUME UNCHANGED rgrants, NEW n \in 0..Len(messages), Popped(n) PROVE MarkedIsHeld'
  <2>1. ASSUME NEW i \in 1..Len(messages')
        PROVE  \E j \in 1..Len(messages) : messages'[i] = messages[j]
    <3>1. i \in 1..(Len(messages) - n) /\ i + n \in 1..Len(messages)
      BY <1>3, Queue DEF Popped
    <3> QED
      BY <1>3, <3>1 DEF Popped
  <2> QED
    BY <1>1, <1>3, <2>1
<1>4. ASSUME UNCHANGED rgrants, NEW w \in wgrants, NEW used \in Nat, CommitInner(w, used)
      PROVE  MarkedIsHeld'
  <2>1. CASE UNCHANGED messages
    BY <1>2, <1>4, <2>1
  <2>2. CASE /\ Len(messages') = Len(messages) + 1
             /\ \A i \in 1..Len(messages) : messages'[i] = messages[i]
             /\ messages'[Len(messages) + 1].read_in_progress = FALSE
    <3>1. ASSUME NEW i \in 1..Len(messages'), messages'[i].read_in_progress
          PROVE  i \in 1..Len(messages)
      BY <2>2, <3>1, Queue
    <3> QED
      BY <1>1, <1>4, <2>2, <3>1
  <2> QED
    BY <1>4, <2>1, <2>2, Commits
<1>5. ASSUME NEW s \in live, Taken(s) PROVE MarkedIsHeld'
  <2>0. s \in Subscribers
    BY DEF ChannelInv, TypeOK
  <2>1. PICK i \in 1..Len(messages) :
          /\ Marked(i, messages[i].subscriber_count - 1, TRUE)
          /\ rgrants' = rgrants \cup {[sub |-> s, message_id |-> messages[i].message_id,
                                       start |-> messages[i].start,
                                       len |-> messages[i].len,
                                       auto_release |-> TRUE]}
    BY <1>5, <2>0, Takes DEF Taken
  <2> DEFINE new == [sub |-> s, message_id |-> messages[i].message_id,
                     start |-> messages[i].start, len |-> messages[i].len,
                     auto_release |-> TRUE]
  <2>2. new.message_id = messages[i].message_id
    OBVIOUS
  <2>3. rgrants' = rgrants \cup {new}
    BY <2>1
  <2> HIDE DEF new
  <2> QED
    BY <2>1, <2>2, <2>3 DEF MarkedIsHeld, Marked
<1>6. ASSUME NEW r \in rgrants, Release(r) PROVE MarkedIsHeld'
  <2>1. rgrants' = rgrants \ {r} /\ ReleaseInner(r)
    BY <1>6 DEF Release
  \* It is enough that r's own frame is not marked any more.
  <2>2. ASSUME \A i \in 1..Len(messages') : messages'[i].read_in_progress =>
                 \E j \in 1..Len(messages) :
                   messages'[i] = messages[j] /\ messages[j].message_id # r.message_id
        PROVE  MarkedIsHeld'
    <3> SUFFICES ASSUME NEW i \in 1..Len(messages'), messages'[i].read_in_progress
                 PROVE  \E q \in rgrants' : q.message_id = messages'[i].message_id
      BY DEF MarkedIsHeld
    <3>1. PICK j \in 1..Len(messages) :
            messages'[i] = messages[j] /\ messages[j].message_id # r.message_id
      BY <2>2
    <3>2. PICK q \in rgrants : q.message_id = messages[j].message_id
      BY <3>1 DEF MarkedIsHeld
    <3> QED
      BY <2>1, <3>1, <3>2
  <2>3. CASE /\ UNCHANGED messages
             /\ \A j \in 1..Len(messages) :
                  messages[j].message_id = r.message_id => ~messages[j].read_in_progress
    BY <2>2, <2>3
  <2>4. CASE Popped(1) /\ Len(messages) > 0 /\ messages[1].message_id = r.message_id
    <3>1. ASSUME NEW i \in 1..Len(messages')
          PROVE  \E j \in 1..Len(messages) :
                   messages'[i] = messages[j] /\ messages[j].message_id # r.message_id
      <4>1. i \in 1..(Len(messages) - 1) /\ i + 1 \in 1..Len(messages)
        BY <2>4, Queue DEF Popped
      <4>2. messages'[i] = messages[i + 1]
        BY <2>4, <4>1 DEF Popped
      <4>3. 1 \in 1..Len(messages)
        BY <4>1
      <4>4. /\ messages[1].message_id = StartId + 1 - 1
            /\ messages[i + 1].message_id = StartId + (i + 1) - 1
            /\ StartId \in Nat
        BY <4>1, <4>3, Queue
      <4>5. messages[i + 1].message_id # messages[1].message_id
        BY <4>1, <4>4
      <4> QED
        BY <2>4, <4>1, <4>2, <4>5
    <3> QED
      BY <2>2, <3>1
  <2>5. ASSUME NEW k \in 1..Len(messages), messages[k].message_id = r.message_id,
               Marked(k, messages[k].subscriber_count, FALSE)
        PROVE  MarkedIsHeld'
    <3>1. ASSUME NEW i \in 1..Len(messages'), messages'[i].read_in_progress
          PROVE  \E j \in 1..Len(messages) :
                   messages'[i] = messages[j] /\ messages[j].message_id # r.message_id
      <4>1. i \in 1..Len(messages) /\ i # k /\ messages'[i] = messages[i]
        BY <2>5, <3>1 DEF Marked
      <4>2. /\ messages[i].message_id = StartId + i - 1
            /\ messages[k].message_id = StartId + k - 1
            /\ StartId \in Nat
        BY <4>1, Queue
      <4>3. messages[i].message_id # messages[k].message_id
        BY <4>1, <4>2
      <4> QED
        BY <2>5, <4>1, <4>3
    <3> QED
      BY <2>2, <3>1
  <2> QED
    BY <2>1, <2>3, <2>4, <2>5, Releases
<1> QED
  BY <1>2, <1>3, <1>4, <1>5, <1>6, GrantSteps DEF TakesTurns, LastRead

\* Behind a spent frame every other is waited for: whoever holds the spent one
\* has it still to read.
LEMMA SpentIsFirst ==
  ASSUME ChannelInv, CountExact, LastRead, MarkedIsHeld, SpentFramesFreed,
         NEW i \in 1..Len(messages), messages[i].subscriber_count = 0
  PROVE  i = 1
<1> SUFFICES ASSUME i # 1 PROVE FALSE
  OBVIOUS
<1>1. /\ 1 \in 1..Len(messages) /\ messages[1].message_id = StartId
      /\ messages[i].message_id = StartId + i - 1 /\ StartId \in Nat
      /\ i \in Nat /\ i > 1
  <2>1. Len(messages) \in Nat /\ StartId \in Nat
    BY Queue
  <2>2. i \in Nat /\ i > 1 /\ 1 \in 1..Len(messages)
    BY <2>1
  <2>3. messages[1].message_id = StartId + 1 - 1 /\ messages[i].message_id = StartId + i - 1
    BY <2>2, Queue
  <2> QED
    BY <2>1, <2>2, <2>3
<1> DEFINE a == messages[1].message_id
           b == messages[i].message_id
<1>2. a \in Nat /\ b \in Nat /\ a + 1 <= b
  BY <1>1
<1>3. /\ messages[1].subscriber_count = Cardinality(Awaiting(a))
      /\ Cardinality(Awaiting(b)) = 0
  BY <1>1 DEF CountExact
<1>4. \A s \in live : cursor[s] \in Nat
  BY DEF ChannelInv, TypeOK
<1> HIDE DEF a, b
<1>5. Awaiting(b) = {}
  <2>1. IsFiniteSet(Awaiting(b))
    BY <1>2, UnreadType
  <2> QED
    BY <1>3, <2>1, FS_EmptySet
<1>6. Awaiting(a) = {}
  BY <1>2, <1>4, <1>5 DEF Awaiting
<1>7. messages[1].subscriber_count = 0
  BY <1>3, <1>6, FS_EmptySet
<1>8. PICK r \in rgrants : r.message_id = a
  BY <1>1, <1>7 DEF SpentFramesFreed, MarkedIsHeld, a
<1>9. r.sub \in live /\ cursor[r.sub] = a + 1
  BY <1>8 DEF LastRead
<1>10. r.sub \in Awaiting(b)
  BY <1>2, <1>9 DEF Awaiting
<1> QED
  BY <1>5, <1>10

\* A frame is freed, or still waited for, when its mark is cleared.
LEMMA SpentStep ==
  ASSUME HandsOff, TakesTurns, ChannelInv, ReadersInv, CountExact, LastRead,
         MarkedIsHeld, SpentFramesFreed, [Next]_vars
  PROVE  SpentFramesFreed'
<1>1. ASSUME \A i \in 1..Len(messages') :
               \/ \E j \in 1..Len(messages) : messages'[i] = messages[j]
               \/ messages'[i].subscriber_count # 0
               \/ messages'[i].read_in_progress
      PROVE  SpentFramesFreed'
  BY <1>1 DEF SpentFramesFreed
<1>2. CASE UNCHANGED messages
  BY <1>1, <1>2
<1>3. ASSUME NEW n \in 0..Len(messages), Popped(n) PROVE SpentFramesFreed'
  <2>1. ASSUME NEW i \in 1..Len(messages')
        PROVE  \E j \in 1..Len(messages) : messages'[i] = messages[j]
    <3>1. i \in 1..(Len(messages) - n) /\ i + n \in 1..Len(messages)
      BY <1>3, Queue DEF Popped
    <3> QED
      BY <1>3, <3>1 DEF Popped
  <2> QED
    BY <1>1, <2>1
<1>4. ASSUME NEW w \in wgrants, NEW used \in Nat, CommitInner(w, used)
      PROVE  SpentFramesFreed'
  <2>1. CASE UNCHANGED messages
    BY <1>2, <2>1
  <2>2. CASE /\ subscriber_count # 0
             /\ Len(messages') = Len(messages) + 1
             /\ \A i \in 1..Len(messages) : messages'[i] = messages[i]
             /\ messages'[Len(messages) + 1].subscriber_count = subscriber_count
    <3>1. ASSUME NEW i \in 1..Len(messages')
          PROVE  i \in 1..Len(messages) \/ i = Len(messages) + 1
      BY <2>2, Queue
    <3> QED
      BY <1>1, <2>2, <3>1
  <2> QED
    BY <1>4, <2>1, <2>2, Commits
<1>5. ASSUME NEW s \in live, Taken(s) PROVE SpentFramesFreed'
  <2>0. s \in Subscribers
    BY DEF ChannelInv, TypeOK
  <2>1. PICK i \in 1..Len(messages) : Marked(i, messages[i].subscriber_count - 1, TRUE)
    BY <1>5, <2>0, Takes DEF Taken
  <2> QED
    BY <1>1, <2>1 DEF Marked
<1>6. ASSUME NEW r \in rgrants, Release(r) PROVE SpentFramesFreed'
  <2>1. ReleaseInner(r)
    BY <1>6 DEF Release
  <2>2. CASE Popped(1) /\ Len(messages) > 0
    <3>1. 1 \in 0..Len(messages)
      BY <2>2, Queue
    <3> QED
      BY <1>3, <2>2, <3>1
  <2>3. ASSUME NEW i \in 1..Len(messages), ~(i = 1 /\ messages[i].subscriber_count = 0),
               Marked(i, messages[i].subscriber_count, FALSE)
        PROVE  SpentFramesFreed'
    <3>1. messages[i].subscriber_count # 0
      BY <2>3, SpentIsFirst
    <3> QED
      BY <1>1, <2>3, <3>1 DEF Marked
  <2> QED
    BY <1>2, <2>1, <2>2, <2>3, Releases
<1> QED
  BY <1>2, <1>3, <1>4, <1>5, <1>6, GrantSteps

\* Where every subscriber takes one frame at a time and gives it back, no frame
\* is left in the queue that nobody will read: release_inner() looks only at the
\* front, and a spent frame always is the front, since whoever holds an older one
\* has the newer ones still to read.  (A subscriber that holds two frames, or a
\* grant that is dropped with auto_release(false), leaves such frames behind.)
THEOREM SpentFramesGo ==
  HandsOff /\ TakesTurns => (Spec => []SpentFramesFreed)
<1> SUFFICES ASSUME HandsOff, TakesTurns PROVE Spec => []SpentFramesFreed
  OBVIOUS
<1> DEFINE Inv == LastRead /\ MarkedIsHeld /\ SpentFramesFreed
<1>1. Init => Inv
  <2> SUFFICES ASSUME Init PROVE Inv
    OBVIOUS
  <2>1. Len(messages) = 0 /\ rgrants = {} /\ IsFiniteSet({})
    BY EmptySeq, FS_EmptySet DEF Init
  <2> QED
    BY <2>1 DEF LastRead, MarkedIsHeld, SpentFramesFreed
<1>2. HeldInv /\ CountExact /\ Inv /\ [Next]_vars => Inv'
  BY LastReadStep, MarksStep, SpentStep DEF HeldInv, CoveredInv
<1>3. Inv => SpentFramesFreed
  OBVIOUS
<1>4. Spec => []CountExact
  <2>1. SafeToLeave
    BY DEF HandsOff, SafeToLeave
  <2> QED
    BY <2>1, CountsAreExact
<1>5. Spec => []HeldInv
  BY HeldInvariance
<1> HIDE DEF Inv
<1> QED
  BY <1>1, <1>2, <1>3, <1>4, <1>5, PTL DEF Spec
==============================================================================
