----------------------------- MODULE ThreadFeed -----------------------------
(***************************************************************************)
(* What following a thread promises: its durable events have increasing    *)
(* numbers, and a reader that moves its position forward has been given    *)
(* every durable event it moved past, in whatever order writers, losses    *)
(* and reconnects happened.                                                *)
(***************************************************************************)
EXTENDS Integers

VARIABLES
  durable,     \* numbers of the durable events in the thread
  position,    \* the reader has no more use for events up to this number
  got          \* the durable events the reader was given

FeedInit == durable = {} /\ position = -1 /\ got = {}

\* A transaction adds events, all of them later than the events there are and
\* than anything the reader moved past.
Append ==
  /\ durable \subseteq durable'
  /\ \A n \in durable' \ durable : n > position /\ \A d \in durable : n > d
  /\ UNCHANGED <<position, got>>

\* The reader moves on, by durable events and by others.
Read ==
  /\ position' > position
  /\ got' = got \union {d \in durable : position < d /\ d <= position'}
  /\ UNCHANGED durable

\* The reader loads the thread afresh, up to its newest event.
Load ==
  /\ \A d \in durable : d <= position'
  /\ got' = durable
  /\ UNCHANGED durable

FeedSpec == FeedInit /\ [][Append \/ Read \/ Load]_<<durable, position, got>>
=============================================================================
