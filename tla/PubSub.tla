------------------------------- MODULE PubSub -------------------------------
(***************************************************************************)
(* The framed publish/subscribe channel of src/src/pubsub: one publisher   *)
(* writes variable-length frames into a contiguous ring buffer, up to SUBS *)
(* subscribers read every frame published since they were created.  The    *)
(* client uses two of them: the transmit channel (one subscriber, the      *)
(* stack) and the receive channel (one subscriber per Subscription).       *)
(*                                                                         *)
(* Every action is one critical section of PubSubChannel::inner, which is  *)
(* how the code interleaves.  Buffer bytes are abstracted to the regions   *)
(* that frames and grants occupy; torn records the frames some byte of     *)
(* which was rewritten after their commit.                                 *)
(***************************************************************************)
EXTENDS Integers, Sequences, FiniteSets

CONSTANTS
  Capacity,     \* State::capacity, the length of the buffer in bytes
  MaxMessages,  \* MAX_PUBSUB_MESSAGES, the capacity of the header deque
  SUBS,         \* const generic SUBS: how many subscribers may exist
  Subscribers,  \* FrameSubscriber handles the application may create
  Sizes,        \* frame sizes the application requests and commits
  LenMod,       \* 2^16: Header::len is a u16
  Calls,        \* the optional operations the application makes use of
  MaxHeld,      \* bound: read grants one subscriber keeps at the same time
  MaxId         \* bound: messages published in a behaviour

AllCalls ==
  { "grant", "grant_immediate", "grant_async", "overlap", "to_commit",
    "cancel", "manual_release", "drop_subscriber", "drop_publisher", "clear" }

ASSUME CapacityAssumption    == Capacity \in Nat
ASSUME MaxMessagesAssumption == MaxMessages \in Nat \ {0}
ASSUME SUBSAssumption        == SUBS \in Nat
ASSUME SubscribersAssumption == IsFiniteSet(Subscribers)
ASSUME SizesAssumption       == Sizes \subseteq Nat
ASSUME LenModAssumption      == LenMod \in Nat \ {0}
ASSUME CallsAssumption       == Calls \subseteq AllCalls
ASSUME MaxHeldAssumption     == MaxHeld \in Nat
ASSUME MaxIdAssumption       == MaxId \in Nat

VARIABLES
  messages,           \* State::messages, front first
  write_in_progress,  \* State::write_in_progress
  next_message_id,    \* State::next_message_id
  subscriber_count,   \* State::subscriber_count
  publisher_taken,    \* State::publisher_taken
  publisher_waker,    \* State::publisher_waker holds a waker
  subscriber_wakers,  \* State::subscriber_wakers, by subscriber
  live,               \* the FrameSubscribers that exist
  cursor,             \* FrameSubscriber::next_message_id
  wgrants,            \* the FrameGrantWs that exist
  rgrants,            \* the FrameGrantRs that exist
  pub_task,           \* the publisher's call in progress: its size and state
  sub_task,           \* the GrantReadFuture of each subscriber
  torn                \* history: ids of frames rewritten after their commit

wakerVars == <<publisher_waker, subscriber_wakers>>
taskVars  == <<pub_task, sub_task>>
vars == <<messages, write_in_progress, next_message_id, subscriber_count,
          publisher_taken, publisher_waker, subscriber_wakers, live, cursor,
          wgrants, rgrants, pub_task, sub_task, torn>>

Header  == [message_id : Nat, start : Nat, len : Nat,
            subscriber_count : Int, read_in_progress : BOOLEAN]
GrantW  == [start : Nat, size : Nat, to_commit : Nat]
GrantR  == [sub : Subscribers, message_id : Nat, start : Nat, len : Nat,
            auto_release : BOOLEAN]
TaskState == {"idle", "ready", "parked", "granting"}

-----------------------------------------------------------------------------
(* The ring: free_space() and the placement of the next frame.             *)

End(m)      == m.start + m.len
Larger(a, b)  == IF a >= b THEN a ELSE b
Smaller(a, b) == IF a <= b THEN a ELSE b

Front(q) == q[1]
Back(q)  == q[Len(q)]

\* The newest frame ends at or before the oldest one: the free part is the
\* gap between them.
Inverted(q) == End(Back(q)) <= Front(q).start

\* Mutant: forgets that the ring may have wrapped.
FreeSpaceUnwrapped(q) ==
  IF q = <<>> THEN Capacity
  ELSE Larger(Front(q).start, Capacity - End(Back(q)))

FreeSpace(q) ==
  IF q = <<>> THEN Capacity
  ELSE IF Inverted(q) THEN Front(q).start - End(Back(q))
  ELSE Larger(Front(q).start, Capacity - End(Back(q)))

\* heapless::Deque::is_full()
DequeFull(q) == Len(q) >= MaxMessages

\* Mutant: forgets the capacity of the deque.
HasRoomInBuffer(q, sz) == sz <= FreeSpace(q)

HasRoom(q, sz) == sz <= FreeSpace(q) /\ ~DequeFull(q)

\* Mutant: never wraps.
NewStartUnwrapped(q, sz) == IF q = <<>> THEN 0 ELSE End(Back(q))

NewStart(q, sz) ==
  IF q = <<>> THEN 0
  ELSE IF Inverted(q) \/ sz <= Capacity - End(Back(q)) THEN End(Back(q))
  ELSE 0

PopFront(q, n) == SubSeq(q, n + 1, Len(q))

StartId == next_message_id - Len(messages)

-----------------------------------------------------------------------------
(* Wakers.  A WakerRegistration holds one task, a MultiWakerRegistration a *)
(* set of them; wake() schedules whoever is parked and empties it.         *)

Resume(t) == IF t = "parked" THEN "ready" ELSE t

WakePublisher ==
  /\ publisher_waker' = FALSE
  /\ pub_task' = IF publisher_waker
                 THEN [pub_task EXCEPT !.state = Resume(@)]
                 ELSE pub_task

WakeSubscribers ==
  /\ subscriber_wakers' = {}
  /\ sub_task' = [s \in Subscribers |->
                    IF s \in subscriber_wakers THEN Resume(sub_task[s])
                                               ELSE sub_task[s]]

\* A full registration wakes everyone it holds before it takes the new waker.
ParkSubscriber(s) ==
  LET full   == s \notin subscriber_wakers
                /\ Cardinality(subscriber_wakers) >= SUBS
      woken  == IF full THEN subscriber_wakers ELSE {}
  IN  /\ subscriber_wakers' = (subscriber_wakers \ woken) \cup {s}
      /\ sub_task' = [t \in Subscribers |->
                        IF t = s THEN "parked"
                        ELSE IF t \in woken THEN Resume(sub_task[t])
                        ELSE sub_task[t]]

-----------------------------------------------------------------------------
Init ==
  /\ messages = <<>>
  /\ write_in_progress = FALSE
  /\ next_message_id = 0
  /\ subscriber_count = 0
  /\ publisher_taken = FALSE
  /\ publisher_waker = FALSE
  /\ subscriber_wakers = {}
  /\ live = {}
  /\ cursor = [s \in Subscribers |-> 0]
  /\ wgrants = {}
  /\ rgrants = {}
  /\ pub_task = [state |-> "idle", size |-> 0]
  /\ sub_task = [s \in Subscribers |-> "idle"]
  /\ torn = {}

(* PubSubChannel *)

\* Mutant: starts at the oldest frame.
NewSubscriberAtStart(s) ==
  /\ s \notin live
  /\ subscriber_count < SUBS
  /\ subscriber_count' = subscriber_count + 1
  /\ live' = live \cup {s}
  /\ cursor' = [cursor EXCEPT ![s] = StartId]
  /\ UNCHANGED <<messages, write_in_progress, next_message_id, publisher_taken,
                 wakerVars, wgrants, rgrants, taskVars, torn>>

\* subscriber(): sees only what is published from now on.
NewSubscriber(s) ==
  /\ s \notin live
  /\ subscriber_count < SUBS
  /\ subscriber_count' = subscriber_count + 1
  /\ live' = live \cup {s}
  /\ cursor' = [cursor EXCEPT ![s] = next_message_id]
  /\ UNCHANGED <<messages, write_in_progress, next_message_id, publisher_taken,
                 wakerVars, wgrants, rgrants, taskVars, torn>>

\* The ids of the frames that lose bytes when [from, to) is written.
Overwritten(q, from, to) ==
  { m.message_id : m \in { x \in { q[i] : i \in 1..Len(q) } \cup rgrants :
                             x.len > 0 /\ x.start < to /\ from < End(x) } }

\* publisher(): taking it zeroes the whole buffer.
TakePublisher ==
  /\ ~publisher_taken
  /\ publisher_taken' = TRUE
  /\ torn' = torn \cup Overwritten(messages, 0, Capacity)
  /\ UNCHANGED <<messages, write_in_progress, next_message_id,
                 subscriber_count, wakerVars, live, cursor, wgrants, rgrants,
                 taskVars>>

DropPublisher ==
  /\ "drop_publisher" \in Calls
  /\ publisher_taken
  /\ pub_task.state = "idle"
  /\ publisher_taken' = FALSE
  /\ UNCHANGED <<messages, write_in_progress, next_message_id,
                 subscriber_count, wakerVars, live, cursor, wgrants, rgrants,
                 taskVars, torn>>

\* clear(): no waker is woken.
Clear ==
  /\ "clear" \in Calls
  /\ messages' = <<>>
  /\ UNCHANGED <<write_in_progress, next_message_id, subscriber_count,
                 publisher_taken, wakerVars, live, cursor, wgrants, rgrants,
                 taskVars, torn>>

-----------------------------------------------------------------------------
(* FramePublisher *)

\* What every publisher call needs: the publisher, not borrowed by a future,
\* and, for this model, an id left for the frame.
PublisherFree ==
  /\ publisher_taken
  /\ pub_task.state = "idle"
  /\ next_message_id < MaxId
  /\ wgrants = {} \/ "overlap" \in Calls

\* The part of grant_with_context() that succeeds, on the queue q.
TakeGrant(q, sz) ==
  /\ write_in_progress' = TRUE
  /\ wgrants' = wgrants \cup {[start     |-> NewStart(q, sz),
                               size      |-> sz,
                               to_commit |-> 0]}
  /\ torn' = torn \cup Overwritten(q, NewStart(q, sz), NewStart(q, sz) + sz)

CanGrant(q, sz) == ~write_in_progress /\ HasRoom(q, sz)

\* grant(): a refusal changes nothing.
Grant(sz) ==
  /\ "grant" \in Calls
  /\ PublisherFree
  /\ CanGrant(messages, sz)
  /\ TakeGrant(messages, sz)
  /\ UNCHANGED <<messages, next_message_id, subscriber_count, publisher_taken,
                 wakerVars, live, cursor, rgrants, taskVars>>

\* Mutant: evicts a frame that is being read.
EvictsAnything(q, sz, n) ==
  /\ \A i \in 1..n : ~HasRoom(PopFront(q, i - 1), sz)
  /\ n < Len(q) => HasRoom(PopFront(q, n), sz)

\* grant_immediate() pops the front while there is no room, and stops at a
\* frame that is being read: n frames go.
Evicts(q, sz, n) ==
  /\ \A i \in 1..n : /\ ~HasRoom(PopFront(q, i - 1), sz)
                     /\ ~q[i].read_in_progress
  /\ n < Len(q) => \/ HasRoom(PopFront(q, n), sz)
                   \/ q[n + 1].read_in_progress

\* Its first critical section.  The evictions stay when it gives up.
GrantImmediate(sz) ==
  /\ "grant_immediate" \in Calls
  /\ PublisherFree
  /\ \E n \in 0..Len(messages) :
       LET q == PopFront(messages, n)
       IN  /\ Evicts(messages, sz, n)
           /\ messages' = q
           /\ pub_task' = IF q = <<>> \/ HasRoom(q, sz)
                          THEN [state |-> "granting", size |-> sz]
                          ELSE pub_task
  /\ UNCHANGED <<write_in_progress, next_message_id, subscriber_count,
                 publisher_taken, wakerVars, live, cursor, wgrants, rgrants,
                 sub_task, torn>>

\* Its second one: grant() on whatever the channel has become.
FinishImmediate ==
  /\ pub_task.state = "granting"
  /\ pub_task' = [state |-> "idle", size |-> 0]
  /\ \/ /\ CanGrant(messages, pub_task.size)
        /\ TakeGrant(messages, pub_task.size)
     \/ /\ ~CanGrant(messages, pub_task.size)
        /\ UNCHANGED <<write_in_progress, wgrants, torn>>
  /\ UNCHANGED <<messages, next_message_id, subscriber_count, publisher_taken,
                 wakerVars, live, cursor, rgrants, sub_task>>

\* grant_async() makes a GrantFuture; its first poll comes as the task runs.
GrantAsync(sz) ==
  /\ "grant_async" \in Calls
  /\ PublisherFree
  /\ pub_task' = [state |-> "ready", size |-> sz]
  /\ UNCHANGED <<messages, write_in_progress, next_message_id,
                 subscriber_count, publisher_taken, wakerVars, live, cursor,
                 wgrants, rgrants, sub_task, torn>>

\* GrantFuture::poll()
PollGrant ==
  /\ pub_task.state = "ready"
  /\ \/ /\ CanGrant(messages, pub_task.size)
        /\ TakeGrant(messages, pub_task.size)
        /\ pub_task' = [state |-> "idle", size |-> 0]
        /\ UNCHANGED publisher_waker
     \/ /\ ~CanGrant(messages, pub_task.size)
        /\ publisher_waker' = TRUE
        /\ pub_task' = [pub_task EXCEPT !.state = "parked"]
        /\ UNCHANGED <<write_in_progress, wgrants, torn>>
  /\ UNCHANGED <<messages, next_message_id, subscriber_count, publisher_taken,
                 subscriber_wakers, live, cursor, rgrants, sub_task>>

\* The future is dropped, as a timeout does; the waker stays registered.
CancelGrant ==
  /\ "cancel" \in Calls
  /\ pub_task.state \in {"ready", "parked"}
  /\ pub_task' = [state |-> "idle", size |-> 0]
  /\ UNCHANGED <<messages, write_in_progress, next_message_id,
                 subscriber_count, publisher_taken, wakerVars, live, cursor,
                 wgrants, rgrants, sub_task, torn>>

-----------------------------------------------------------------------------
(* FrameGrantW *)

NewHeader(w, used) ==
  [message_id       |-> next_message_id,
   start            |-> w.start,
   len              |-> Smaller(w.size, used) % LenMod,
   subscriber_count |-> subscriber_count,
   read_in_progress |-> FALSE]

\* Mutant: leaves the readers asleep.
CommitInnerSilent(w, used) ==
  /\ wgrants' = wgrants \ {w}
  /\ write_in_progress' = FALSE
  /\ messages' = IF DequeFull(messages) \/ subscriber_count = 0 THEN messages
                 ELSE Append(messages, NewHeader(w, used))
  /\ next_message_id' = IF subscriber_count = 0 THEN next_message_id
                        ELSE next_message_id + 1
  /\ UNCHANGED <<subscriber_wakers, sub_task>>

\* commit_inner(): the id is spent even if the deque refuses the header.
CommitInner(w, used) ==
  /\ wgrants' = wgrants \ {w}
  /\ IF ~write_in_progress
     THEN UNCHANGED <<messages, next_message_id, write_in_progress,
                      subscriber_wakers, sub_task>>
     ELSE /\ write_in_progress' = FALSE
          /\ IF subscriber_count = 0
             THEN UNCHANGED <<messages, next_message_id, subscriber_wakers,
                              sub_task>>
             ELSE /\ messages' = IF DequeFull(messages) THEN messages
                                 ELSE Append(messages, NewHeader(w, used))
                  /\ next_message_id' = next_message_id + 1
                  /\ WakeSubscribers

Commit(w, used) ==
  /\ CommitInner(w, used)
  /\ UNCHANGED <<subscriber_count, publisher_taken, publisher_waker, live,
                 cursor, rgrants, pub_task, torn>>

ToCommit(w, amt) ==
  /\ "to_commit" \in Calls
  /\ wgrants' = (wgrants \ {w}) \cup {[w EXCEPT !.to_commit = amt]}
  /\ UNCHANGED <<messages, write_in_progress, next_message_id,
                 subscriber_count, publisher_taken, wakerVars, live, cursor,
                 rgrants, taskVars, torn>>

\* Dropping the grant, as an early return or a cancelled future does.
DropWriteGrant(w) == Commit(w, w.to_commit)

-----------------------------------------------------------------------------
(* FrameSubscriber *)

\* The id the subscriber reads next: one that lags is moved to the front.
ReadId(s)    == Larger(cursor[s], StartId)
ReadIndex(s) == ReadId(s) - StartId + 1

Available(s) == ReadIndex(s) <= Len(messages)

CanRead(s) == Available(s) /\ ~messages[ReadIndex(s)].read_in_progress

HeldBy(s) == { r \in rgrants : r.sub = s }

\* Mutant: forgets to count the reader off.
TakeFrameUncounted(s) ==
  LET i == ReadIndex(s)
      m == messages[i]
  IN  /\ messages' = [messages EXCEPT ![i].read_in_progress = TRUE]
      /\ cursor' = [cursor EXCEPT ![s] = ReadId(s) + 1]
      /\ rgrants' = rgrants \cup {[sub |-> s, message_id |-> m.message_id,
                                   start |-> m.start, len |-> m.len,
                                   auto_release |-> TRUE]}

\* The part of read_with_context() that succeeds.
TakeFrame(s) ==
  LET i == ReadIndex(s)
      m == messages[i]
  IN  /\ messages' = [messages EXCEPT ![i].subscriber_count = @ - 1,
                                      ![i].read_in_progress = TRUE]
      /\ cursor' = [cursor EXCEPT ![s] = ReadId(s) + 1]
      /\ rgrants' = rgrants \cup {[sub |-> s, message_id |-> m.message_id,
                                   start |-> m.start, len |-> m.len,
                                   auto_release |-> TRUE]}

\* read(): a refusal still moves a lagging cursor.
Read(s) ==
  /\ s \in live
  /\ sub_task[s] = "idle"
  /\ Cardinality(HeldBy(s)) < MaxHeld
  /\ \/ CanRead(s) /\ TakeFrame(s)
     \/ /\ ~CanRead(s)
        /\ cursor' = [cursor EXCEPT ![s] = ReadId(s)]
        /\ UNCHANGED <<messages, rgrants>>
  /\ UNCHANGED <<write_in_progress, next_message_id, subscriber_count,
                 publisher_taken, wakerVars, live, wgrants, taskVars, torn>>

\* read_async() makes a GrantReadFuture.
ReadAsync(s) ==
  /\ s \in live
  /\ sub_task[s] = "idle"
  /\ Cardinality(HeldBy(s)) < MaxHeld
  /\ sub_task' = [sub_task EXCEPT ![s] = "ready"]
  /\ UNCHANGED <<messages, write_in_progress, next_message_id,
                 subscriber_count, publisher_taken, wakerVars, live, cursor,
                 wgrants, rgrants, pub_task, torn>>

\* GrantReadFuture::poll()
PollRead(s) ==
  /\ sub_task[s] = "ready"
  /\ \/ /\ CanRead(s)
        /\ TakeFrame(s)
        /\ sub_task' = [sub_task EXCEPT ![s] = "idle"]
        /\ UNCHANGED subscriber_wakers
     \/ /\ ~CanRead(s)
        /\ cursor' = [cursor EXCEPT ![s] = ReadId(s)]
        /\ ParkSubscriber(s)
        /\ UNCHANGED <<messages, rgrants>>
  /\ UNCHANGED <<write_in_progress, next_message_id, subscriber_count,
                 publisher_taken, publisher_waker, live, wgrants, pub_task,
                 torn>>

CancelRead(s) ==
  /\ "cancel" \in Calls
  /\ sub_task[s] # "idle"
  /\ sub_task' = [sub_task EXCEPT ![s] = "idle"]
  /\ UNCHANGED <<messages, write_in_progress, next_message_id,
                 subscriber_count, publisher_taken, wakerVars, live, cursor,
                 wgrants, rgrants, pub_task, torn>>

\* Mutant: skips one frame too many.
UncountedPast(s) ==
  [i \in 1..Len(messages) |->
     IF StartId + i - 1 > cursor[s]
     THEN [messages[i] EXCEPT !.subscriber_count = @ - 1]
     ELSE messages[i]]

\* The queue with s taken off the count of every frame it has not read.
Uncounted(s) ==
  [i \in 1..Len(messages) |->
     IF StartId + i - 1 >= cursor[s]
     THEN [messages[i] EXCEPT !.subscriber_count = @ - 1]
     ELSE messages[i]]

\* The n frames at the front that nobody is left to read.
Spent(q, n) ==
  /\ n \in 0..Len(q)
  /\ \A i \in 1..n : q[i].subscriber_count = 0
  /\ n < Len(q) => q[n + 1].subscriber_count # 0

\* Mutant: the publisher is not told.
WakeIfFreedNever(n) == UNCHANGED <<publisher_waker, pub_task>>

\* n frames were freed.
WakeIfFreed(n) ==
  IF n > 0 THEN WakePublisher ELSE UNCHANGED <<publisher_waker, pub_task>>

\* Drop for FrameSubscriber: nothing is uncounted for one whose next frame was
\* evicted.
DropSubscriber(s) ==
  /\ "drop_subscriber" \in Calls
  /\ s \in live
  /\ sub_task[s] = "idle"
  /\ live' = live \ {s}
  /\ subscriber_count' = subscriber_count - 1
  /\ IF cursor[s] >= StartId
     THEN \E n \in 0..Len(messages) :
            /\ Spent(Uncounted(s), n)
            /\ messages' = PopFront(Uncounted(s), n)
            /\ WakeIfFreed(n)
     ELSE UNCHANGED <<messages, publisher_waker, pub_task>>
  /\ UNCHANGED <<write_in_progress, next_message_id, publisher_taken,
                 subscriber_wakers, cursor, wgrants, rgrants, sub_task, torn>>

-----------------------------------------------------------------------------
(* FrameGrantR *)

\* Index of the grant's frame, 0 when it is not in the queue any more.
Position(r) ==
  LET at == { i \in 1..Len(messages) : messages[i].message_id = r.message_id }
  IN  IF at = {} THEN 0 ELSE CHOOSE i \in at : \A j \in at : i <= j

\* Mutant: frees the front while others have it still to read.
ReleaseInnerEager(r) ==
  LET i == Position(r)
  IN  IF i = 0 \/ ~messages[i].read_in_progress
      THEN UNCHANGED <<messages, wakerVars, taskVars>>
      ELSE /\ IF i = 1
              THEN messages' = PopFront(messages, 1) /\ WakePublisher
              ELSE /\ messages' = [messages EXCEPT ![i].read_in_progress = FALSE]
                   /\ UNCHANGED <<publisher_waker, pub_task>>
           /\ WakeSubscribers

\* Mutant: never frees a frame, and so never wakes the publisher.
ReleaseInnerKeeping(r) ==
  LET i == Position(r)
  IN  IF i = 0 \/ ~messages[i].read_in_progress
      THEN UNCHANGED <<messages, wakerVars, taskVars>>
      ELSE /\ messages' = [messages EXCEPT ![i].read_in_progress = FALSE]
           /\ UNCHANGED <<publisher_waker, pub_task>>
           /\ WakeSubscribers

\* Mutant: frees the front without waking the publisher.
ReleaseInnerSilent(r) ==
  LET i == Position(r)
  IN  IF i = 0 \/ ~messages[i].read_in_progress
      THEN UNCHANGED <<messages, wakerVars, taskVars>>
      ELSE /\ messages' = IF i = 1 /\ messages[i].subscriber_count = 0
                          THEN PopFront(messages, 1)
                          ELSE [messages EXCEPT ![i].read_in_progress = FALSE]
           /\ UNCHANGED <<publisher_waker, pub_task>>
           /\ WakeSubscribers

ReleaseInner(r) ==
  LET i == Position(r)
  IN  IF i = 0 \/ ~messages[i].read_in_progress
      THEN UNCHANGED <<messages, wakerVars, taskVars>>
      ELSE /\ IF i = 1 /\ messages[i].subscriber_count = 0
              THEN messages' = PopFront(messages, 1) /\ WakePublisher
              ELSE /\ messages' = [messages EXCEPT ![i].read_in_progress = FALSE]
                   /\ UNCHANGED <<publisher_waker, pub_task>>
           /\ WakeSubscribers

Release(r) ==
  /\ ReleaseInner(r)
  /\ rgrants' = rgrants \ {r}
  /\ UNCHANGED <<write_in_progress, next_message_id, subscriber_count,
                 publisher_taken, live, cursor, wgrants, torn>>

AutoRelease(r, is_auto) ==
  /\ "manual_release" \in Calls
  /\ rgrants' = (rgrants \ {r}) \cup {[r EXCEPT !.auto_release = is_auto]}
  /\ UNCHANGED <<messages, write_in_progress, next_message_id,
                 subscriber_count, publisher_taken, wakerVars, live, cursor,
                 wgrants, taskVars, torn>>

DropReadGrant(r) ==
  \/ /\ r.auto_release
     /\ Release(r)
  \/ /\ ~r.auto_release
     /\ rgrants' = rgrants \ {r}
     /\ UNCHANGED <<messages, write_in_progress, next_message_id,
                    subscriber_count, publisher_taken, wakerVars, live, cursor,
                    wgrants, taskVars, torn>>

-----------------------------------------------------------------------------
Next ==
  \/ TakePublisher
  \/ DropPublisher
  \/ Clear
  \/ \E sz \in Sizes : Grant(sz) \/ GrantImmediate(sz) \/ GrantAsync(sz)
  \/ FinishImmediate
  \/ PollGrant
  \/ CancelGrant
  \/ \E w \in wgrants :
       \/ DropWriteGrant(w)
       \/ \E used \in Sizes : Commit(w, used) \/ ToCommit(w, used)
  \/ \E s \in Subscribers :
       \/ NewSubscriber(s)
       \/ Read(s)
       \/ ReadAsync(s)
       \/ PollRead(s)
       \/ CancelRead(s)
       \/ DropSubscriber(s)
  \/ \E r \in rgrants :
       \/ Release(r)
       \/ DropReadGrant(r)
       \/ \E b \in BOOLEAN : AutoRelease(r, b)

Spec == Init /\ [][Next]_vars

\* The executor polls a woken task, and the application neither sits on a
\* grant for ever nor stops reading.
Fairness ==
  /\ WF_vars(PollGrant)
  /\ WF_vars(\E w \in wgrants, used \in Sizes : Commit(w, used))
  /\ \A s \in Subscribers :
       /\ WF_vars(ReadAsync(s))
       /\ WF_vars(PollRead(s))
       /\ WF_vars(\E r \in rgrants : r.sub = s /\ DropReadGrant(r))

FairSpec == Spec /\ Fairness

-----------------------------------------------------------------------------
(* Properties *)

\* Every variable of the channel keeps its type.
TypeOK ==
  /\ messages \in Seq(Header)
  /\ write_in_progress \in BOOLEAN
  /\ next_message_id \in Nat
  /\ subscriber_count \in Nat
  /\ publisher_taken \in BOOLEAN
  /\ publisher_waker \in BOOLEAN
  /\ subscriber_wakers \subseteq Subscribers
  /\ live \subseteq Subscribers
  /\ cursor \in [Subscribers -> Nat]
  /\ wgrants \subseteq GrantW
  /\ rgrants \subseteq GrantR
  /\ pub_task \in [state : TaskState, size : Nat]
  /\ sub_task \in [Subscribers -> TaskState]
  /\ torn \subseteq Nat

Apart(from1, to1, from2, to2) == to1 <= from2 \/ to2 <= from1

\* The contiguous regions free_space() and grant_with_context() hand out lie
\* inside the buffer, and no queued frame shares a byte with another one or
\* with the region being written, however frames wrapped, shrank at commit or
\* left the queue in between.
RegionsDisjoint ==
  /\ \A i \in 1..Len(messages) :
       /\ End(messages[i]) <= Capacity
       /\ \A j \in (i + 1)..Len(messages) :
            Apart(messages[i].start, End(messages[i]),
                  messages[j].start, End(messages[j]))
  /\ \A w \in wgrants :
       /\ w.start + w.size <= Capacity
       /\ \A i \in 1..Len(messages) :
            Apart(messages[i].start, End(messages[i]),
                  w.start, w.start + w.size)

\* read_with_context() and Drop for FrameSubscriber find a frame by its
\* distance from start_id: the ids in the queue must have no gap.
IdsContiguous ==
  \A i \in 1..Len(messages) : messages[i].message_id = StartId + i - 1

\* No write grant reaches the bytes of a frame that is queued or in the hands
\* of a reader: what was committed is what is read.
FramesIntact == torn = {}

\* A frame that a FrameGrantR points into is still queued where it was and
\* marked read_in_progress, which is all that keeps the publisher off it.
HeldGrantsPinned ==
  \A r \in rgrants : \E i \in 1..Len(messages) :
    /\ messages[i].message_id = r.message_id
    /\ messages[i].start = r.start
    /\ messages[i].len = r.len
    /\ messages[i].read_in_progress

Awaiting(id) == { s \in live : cursor[s] <= id }

\* The u8 a header counts its readers with never underflows nor misses a
\* subscriber that has the frame still to read, whoever joined, lagged, left or
\* was dropped.
CountCovers ==
  \A i \in 1..Len(messages) :
    messages[i].subscriber_count
      \in Cardinality(Awaiting(messages[i].message_id))..SUBS

\* The counter of a frame is exactly the number of subscribers it still waits for:
\* no read, release or eviction leaves it too high, and a subscriber that is dropped
\* is taken off it ("All messages that haven't been read yet by this subscriber must
\* have their counter decremented", Drop for FrameSubscriber).  The code keeps this
\* where nobody is dropped (run channel) or nothing is evicted (run progress).  With
\* both it does not, and CountCovers is what is left: the drop of a subscriber that
\* was overtaken takes it off nothing.
CountExact ==
  \A i \in 1..Len(messages) :
    messages[i].subscriber_count
      = Cardinality(Awaiting(messages[i].message_id))

\* release_inner() frees a frame that nobody is left to read: the only such
\* frames in the queue are in somebody's hands.
SpentFramesFreed ==
  \A i \in 1..Len(messages) :
    messages[i].subscriber_count = 0 => messages[i].read_in_progress

\* Whoever went to sleep in GrantFuture or GrantReadFuture is registered to be
\* woken and has nothing to proceed with: no state change that would let it
\* proceed forgot to wake it.
NoLostWakeup ==
  /\ pub_task.state = "parked" =>
       publisher_waker /\ ~CanGrant(messages, pub_task.size)
  /\ \A s \in Subscribers :
       sub_task[s] = "parked" => s \in subscriber_wakers /\ ~CanRead(s)

\* The channel is a frame log: in-order delivery, exactly once, of every frame
\* published after subscriber(), with losses only where the publisher forces
\* frames out or the channel is cleared.
Log == INSTANCE FrameLog WITH
  Members   <- Subscribers,
  Lossy     <- Calls \cap {"grant_immediate", "clear"} # {},
  published <- next_message_id,
  floor     <- StartId,
  members   <- live,
  next      <- [s \in Subscribers |-> IF s \in live THEN ReadId(s) ELSE 0]

ImplementsLog == Log!LogSpec

\* grant_async() "will pend until space becomes available": as long as readers
\* read and release, every GrantFuture resolves.
GrantFutureResolves ==
  pub_task.state # "idle" ~> pub_task.state = "idle"

\* Every frame reaches every subscriber that was there when it was committed,
\* read_async() being woken by commit_inner() and release_inner().
EveryFrameDelivered ==
  \A s \in Subscribers, id \in 0..MaxId :
    (s \in live /\ cursor[s] <= id /\ id < next_message_id)
      ~> (s \notin live \/ cursor[s] > id)

-----------------------------------------------------------------------------
(* The inductive invariant behind RegionsDisjoint and IdsContiguous.       *)

\* The regions of q, oldest first, climb through the buffer, and at most once
\* start over from the bottom, below the oldest one: the first k of them are
\* the ones from before the wrap.
Layout(q) ==
  \E k \in 0..Len(q) :
    /\ Len(q) > 0 => k >= 1
    /\ \A i, j \in 1..Len(q) :
         (i < j /\ (j <= k \/ i > k)) => End(q[i]) <= q[j].start
    /\ \A i \in 1..Len(q) : End(q[i]) <= Capacity
    /\ k < Len(q) => End(q[Len(q)]) <= q[1].start

\* The write grant as the frame it may become: all of its bytes reserved.
Pending(w) ==
  [message_id |-> next_message_id, start |-> w.start, len |-> w.size,
   subscriber_count |-> 0, read_in_progress |-> FALSE]

\* One write grant at a time, marked by write_in_progress, with a place kept
\* for it in the deque.
OneWriter ==
  /\ ~write_in_progress => wgrants = {}
  /\ write_in_progress => Len(messages) < MaxMessages
  /\ \A w1, w2 \in wgrants : w1 = w2

Reserved ==
  /\ wgrants = {} => Layout(messages)
  /\ \A w \in wgrants : Layout(Append(messages, Pending(w)))

\* What every critical section of the channel preserves: the ring stays laid
\* out in order whatever is pending, and the ids and the subscribers are
\* counted right.
ChannelInv ==
  /\ TypeOK
  /\ subscriber_count = Cardinality(live)
  /\ Len(messages) <= next_message_id
  /\ IdsContiguous
  /\ OneWriter
  /\ Reserved
=============================================================================
