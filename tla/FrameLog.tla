------------------------------ MODULE FrameLog ------------------------------
(***************************************************************************)
(* What the framed channel of src/src/pubsub promises to its users, with   *)
(* no buffer, no grants and no wakers: an append-only log of frames,       *)
(* numbered from 0.  A member that joins is handed, in order and once      *)
(* each, the frames published since.  Frames below floor are gone; in a    *)
(* lossless log (the transmit channel) only frames that every member has   *)
(* taken may go, in a lossy one (the receive channel, where                *)
(* grant_immediate() makes room) a slow member skips the ones it missed.   *)
(***************************************************************************)
EXTENDS Naturals

CONSTANTS
  Members,  \* who may ever subscribe
  Lossy     \* whether a frame may go before every member has taken it

VARIABLES
  published,  \* how many frames were published
  floor,      \* the oldest frame that is still there
  members,    \* who is subscribed now
  next        \* the frame each member takes next, 0 for the others

logVars == <<published, floor, members, next>>

LogTypeOK ==
  /\ published \in Nat
  /\ floor \in 0..published
  /\ members \subseteq Members
  /\ next \in [Members -> 0..published]

LogInit ==
  /\ published = 0
  /\ floor = 0
  /\ members = {}
  /\ next = [s \in Members |-> 0]

\* Nobody to publish to: the frame is not even counted.
Publish ==
  /\ members # {}
  /\ published' = published + 1
  /\ UNCHANGED <<floor, members, next>>

\* The frames below f go, and whoever is left of ms moves up to f.
RetireTo(f, ms) ==
  /\ Lossy \/ \A s \in ms : next[s] >= f
  /\ floor' = f
  /\ next' = [s \in Members |->
                IF s \notin ms THEN 0
                ELSE IF next[s] >= f THEN next[s] ELSE f]

Retire ==
  /\ \E f \in floor..published : RetireTo(f, members)
  /\ UNCHANGED <<published, members>>

Join(s) ==
  /\ s \notin members
  /\ members' = members \cup {s}
  /\ next' = [next EXCEPT ![s] = published]
  /\ UNCHANGED <<published, floor>>

Leave(s) ==
  /\ s \in members
  /\ members' = members \ {s}
  /\ \E f \in floor..published : RetireTo(f, members \ {s})
  /\ UNCHANGED published

Deliver(s) ==
  /\ s \in members
  /\ next[s] < published
  /\ next' = [next EXCEPT ![s] = @ + 1]
  /\ UNCHANGED <<published, floor, members>>

LogNext ==
  \/ Publish
  \/ Retire
  \/ \E s \in Members : Join(s) \/ Leave(s) \/ Deliver(s)

LogSpec == LogInit /\ [][LogNext]_logVars
=============================================================================
