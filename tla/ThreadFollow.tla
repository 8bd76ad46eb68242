---------------------------- MODULE ThreadFollow ----------------------------
(***************************************************************************)
(* The event log of a thread and one client that follows it: transactions  *)
(* that append to the log, the notifications sent after them, the API      *)
(* process that listens for notifications, followThreadEvents with its     *)
(* ChangeLatch, and the client, which reconnects from the cursor it kept.  *)
(*                                                                         *)
(* Events are their number (thread.nextEventSeq) and whether they last:    *)
(* progress events are deleted, all others stay.                           *)
(***************************************************************************)
EXTENDS Integers, FiniteSets, Sequences

CONSTANTS
  Writers,     \* concurrent transactions of the API and the workers
  BatchSize,   \* EVENT_BATCH_SIZE
  MaxEvents,   \* bound: events appended
  MaxBreaks    \* bound: streams and listener connections broken, publishes
               \* that failed, page loads

ASSUME FollowConstants ==
  /\ BatchSize \in Nat \ {0}
  /\ MaxEvents \in Nat
  /\ MaxBreaks \in Nat

VARIABLES
  rows,        \* the event table: records of seq and kind
  nextSeq,     \* thread.nextEventSeq, as the transaction that locks it sees it
  stage,       \* where each writer is
  first,       \* nextSeq when the writer's transaction began
  action,      \* what the writer's transaction does
  link,        \* the listener connection of the API process
  wire,        \* notifications on their way to that process
  silent,      \* events whose notification failed (a history variable)
  place,       \* where followThreadEvents is
  heard,       \* whether the follower is subscribed to the thread's topic
  changed,     \* latch.generation # observedGeneration
  reach,       \* `seq` of followThreadEvents
  batch,       \* fetched and not yet yielded; yielded lowest first
  more,        \* batchSize = EVENT_BATCH_SIZE
  stream,      \* events yielded and on their way to the client
  cursor,      \* the client's cursor
  got,         \* durable events the client was given (a history variable)
  breaks       \* faults so far

writerVars == <<stage, first, action>>
logVars == <<rows, nextSeq, writerVars>>
linkVars == <<link, wire, silent>>
followVars == <<place, heard, changed, reach, batch, more, stream>>
clientVars == <<cursor, got>>
threadFollowVars == <<logVars, linkVars, followVars, clientVars, breaks>>

Kinds == {"progress", "durable"}
Event == [seq : Nat, kind : Kinds]

\* appendEvent for a progress event or any other, and finalizeRun, which adds
\* the message and run.completed, or run.failed only, and clears the progress.
Actions == {"progress", "append", "complete", "fail"}
Size(a) == IF a = "complete" THEN 2 ELSE 1
KindOf(a) == IF a = "progress" THEN "progress" ELSE "durable"
Clears(a) == a \in {"complete", "fail"}

SeqsOf(events) == {e.seq : e \in events}
Lasting == {e \in rows : e.kind = "durable"}
After(n) == {e \in rows : e.seq > n}

FollowTypeOK ==
  /\ rows \subseteq Event /\ IsFiniteSet(rows)
  /\ nextSeq \in Nat
  /\ stage \in [Writers -> {"idle", "open", "notify"}]
  /\ first \in [Writers -> Nat]
  /\ action \in [Writers -> Actions]
  /\ link \in {"down", "connecting", "listening", "up"}
  /\ wire \in Nat
  /\ silent \subseteq Nat
  /\ place \in {"closed", "look", "fetch", "yield", "wait"}
  /\ heard \in BOOLEAN /\ changed \in BOOLEAN /\ more \in BOOLEAN
  /\ reach \in Int
  /\ batch \subseteq Event
  /\ stream \in Seq(Event)
  /\ cursor \in Int
  /\ got \subseteq Nat
  /\ breaks \in Nat

FollowInit ==
  /\ rows = {} /\ nextSeq = 0
  /\ stage = [w \in Writers |-> "idle"]
  /\ first = [w \in Writers |-> 0]
  /\ action = [w \in Writers |-> "append"]
  /\ link = "down" /\ wire = 0 /\ silent = {}
  /\ place = "closed" /\ heard = FALSE /\ changed = FALSE
  /\ reach = -1 /\ batch = {} /\ more = FALSE /\ stream = <<>>
  /\ cursor = -1 /\ got = {}
  /\ breaks = 0
-----------------------------------------------------------------------------
(* Writers. *)

\* Slip: the number is taken without holding the row to the end.
BeginUnlocked(w, a) ==
  /\ stage[w] = "idle"
  /\ nextSeq + Size(a) <= MaxEvents
  /\ nextSeq' = nextSeq + Size(a)
  /\ stage' = [stage EXCEPT ![w] = "open"]
  /\ first' = [first EXCEPT ![w] = nextSeq]
  /\ action' = [action EXCEPT ![w] = a]
  /\ UNCHANGED <<rows, linkVars, followVars, clientVars, breaks>>

\* The update of thread.nextEventSeq locks the thread's row to the end of the
\* transaction: one writer at a time is between its increment and its commit.
Begin(w, a) ==
  /\ stage[w] = "idle"
  /\ \A v \in Writers : stage[v] # "open"
  /\ nextSeq + Size(a) <= MaxEvents
  /\ nextSeq' = nextSeq + Size(a)
  /\ stage' = [stage EXCEPT ![w] = "open"]
  /\ first' = [first EXCEPT ![w] = nextSeq]
  /\ action' = [action EXCEPT ![w] = a]
  /\ UNCHANGED <<rows, linkVars, followVars, clientVars, breaks>>

NewEvents(w) ==
  [seq : first[w] .. first[w] + Size(action[w]) - 1, kind : {KindOf(action[w])}]

\* The writer is done with its event, or with its transaction.
Done(w) ==
  /\ stage' = [stage EXCEPT ![w] = "idle"]
  /\ first' = [first EXCEPT ![w] = 0]
  /\ action' = [action EXCEPT ![w] = "append"]

Commit(w) ==
  /\ stage[w] = "open"
  /\ rows' = (IF Clears(action[w]) THEN Lasting ELSE rows) \union NewEvents(w)
  /\ stage' = [stage EXCEPT ![w] = "notify"]
  /\ UNCHANGED <<nextSeq, first, action, linkVars, followVars, clientVars, breaks>>

\* The transaction throws: the increment is undone with the rest.
Rollback(w) ==
  /\ stage[w] = "open"
  /\ nextSeq' = first[w]
  /\ Done(w)
  /\ UNCHANGED <<rows, linkVars, followVars, clientVars, breaks>>

\* notifyRealtime, after the commit: pg_notify reaches the connections that
\* listen by then.  A publish that fails is swallowed, and a process that dies
\* before it has committed an event without telling anyone.
Publish(w) ==
  /\ stage[w] = "notify"
  /\ wire' = IF link \in {"listening", "up"} THEN wire + 1 ELSE wire
  /\ Done(w)
  /\ UNCHANGED <<rows, nextSeq, link, silent, followVars, clientVars, breaks>>

PublishFails(w) ==
  /\ breaks < MaxBreaks
  /\ stage[w] = "notify"
  /\ silent' = silent \union SeqsOf(NewEvents(w))
  /\ Done(w)
  /\ breaks' = breaks + 1
  /\ UNCHANGED <<rows, nextSeq, link, wire, followVars, clientVars>>

\* stop, and a run that pauses, delete its progress events on their own.
ClearProgress ==
  /\ rows # Lasting
  /\ rows' = Lasting
  /\ UNCHANGED <<nextSeq, writerVars, linkVars, followVars, clientVars, breaks>>
-----------------------------------------------------------------------------
(* PostgresRealtimeFanout in the API process. *)

\* The latches of the subscribers: this thread's follower, if it subscribed.
NotifySubscribers == changed' = (changed \/ heard)

\* ensureConnected, called by subscribe and by the reconnect timer.
Connect ==
  /\ link = "down" /\ heard
  /\ link' = "connecting"
  /\ UNCHANGED <<logVars, wire, silent, followVars, clientVars, breaks>>

\* LISTEN took effect: from here on notifications reach this process.
Listen ==
  /\ link = "connecting"
  /\ link' = "listening"
  /\ UNCHANGED <<logVars, wire, silent, followVars, clientVars, breaks>>

\* Slip: a connection that is back says nothing to the subscribers.
ConnectedQuietly ==
  /\ link = "listening" /\ heard
  /\ link' = "up"
  /\ UNCHANGED <<logVars, wire, silent, followVars, clientVars, breaks>>

\* connectClient goes on after LISTEN: every subscriber is told to catch up,
\* for what was published before.  With no subscriber left it disconnects.
Connected ==
  /\ link = "listening"
  /\ \/ /\ heard
        /\ link' = "up"
        /\ NotifySubscribers
        /\ UNCHANGED wire
     \/ /\ ~heard
        /\ link' = "down"
        /\ wire' = 0
        /\ UNCHANGED changed
  /\ UNCHANGED <<logVars, silent, place, heard, reach, batch, more, stream,
                 clientVars, breaks>>

\* The connection fails or ends; what was on its way is lost.
Disconnect ==
  /\ breaks < MaxBreaks
  /\ link # "down"
  /\ link' = "down" /\ wire' = 0
  /\ breaks' = breaks + 1
  /\ UNCHANGED <<logVars, silent, followVars, clientVars>>

\* Slip: the listener is called though nothing arrived.
HandleAnything ==
  /\ link = "up"
  /\ wire' = wire - 1
  /\ NotifySubscribers
  /\ UNCHANGED <<logVars, link, silent, place, heard, reach, batch, more,
                 stream, clientVars, breaks>>

HandleNotification ==
  /\ wire > 0
  /\ wire' = wire - 1
  /\ NotifySubscribers
  /\ UNCHANGED <<logVars, link, silent, place, heard, reach, batch, more,
                 stream, clientVars, breaks>>
-----------------------------------------------------------------------------
(* followThreadEvents. *)

\* The client subscribes from its cursor.  A subscription that throws leaves
\* the follower with its timer only.
Follow ==
  /\ place = "closed"
  /\ place' = "look"
  /\ heard' \in BOOLEAN
  /\ changed' = FALSE
  /\ reach' = cursor
  /\ UNCHANGED <<logVars, linkVars, batch, more, stream, clientVars, breaks>>

StepTo(to) == place' = to /\ UNCHANGED heard

\* observedGeneration = latch.generation
Look ==
  /\ place = "look"
  /\ StepTo("fetch")
  /\ changed' = FALSE
  /\ UNCHANGED <<logVars, linkVars, reach, batch, more, stream, clientVars,
                 breaks>>

\* eventsAfter: the first BatchSize events after `seq`.
EventsAfter(n) ==
  {e \in After(n) : Cardinality({d \in After(n) : d.seq < e.seq}) < BatchSize}

Fetch ==
  /\ place = "fetch"
  /\ StepTo("yield")
  /\ batch' = EventsAfter(reach)
  /\ more' = (Cardinality(After(reach)) >= BatchSize)
  /\ UNCHANGED <<logVars, linkVars, changed, reach, stream, clientVars, breaks>>

Yield ==
  /\ place = "yield"
  /\ \E e \in batch :
       /\ \A d \in batch : e.seq <= d.seq
       /\ batch' = batch \ {e}
       /\ reach' = e.seq
       /\ stream' = Append(stream, e)
  /\ UNCHANGED <<logVars, linkVars, place, heard, changed, more, clientVars,
                 breaks>>

\* The batch is used up: fetch on, or wait.
EndOfBatch ==
  /\ place = "yield" /\ batch = {}
  /\ StepTo(IF more THEN "fetch" ELSE "wait")
  /\ UNCHANGED <<logVars, linkVars, changed, reach, batch, more, stream,
                 clientVars, breaks>>

\* waitForChange returns at once, or as soon as the latch is notified.
Wake ==
  /\ place = "wait" /\ changed
  /\ StepTo("look")
  /\ UNCHANGED <<logVars, linkVars, changed, reach, batch, more, stream,
                 clientVars, breaks>>

\* Slip: the wait has no timer.
CatchUpWhenChanged ==
  /\ place = "wait" /\ changed
  /\ StepTo("look")
  /\ UNCHANGED <<logVars, linkVars, changed, reach, batch, more, stream,
                 clientVars, breaks>>

\* Or when catchUpMs is over.
CatchUp ==
  /\ place = "wait"
  /\ StepTo("look")
  /\ UNCHANGED <<logVars, linkVars, changed, reach, batch, more, stream,
                 clientVars, breaks>>
-----------------------------------------------------------------------------
(* The client. *)

\* An event arrives.
Receive ==
  /\ stream # <<>>
  /\ LET e == Head(stream) IN
       /\ cursor' = IF e.seq > cursor THEN e.seq ELSE cursor
       /\ got' = IF e.kind = "durable" THEN got \union {e.seq} ELSE got
  /\ stream' = Tail(stream)
  /\ UNCHANGED <<logVars, linkVars, place, heard, changed, reach, batch, more,
                 breaks>>

\* The stream breaks: the generator is closed, its finally block unsubscribes
\* and what was on its way is lost.
Close ==
  /\ place' = "closed" /\ heard' = FALSE /\ changed' = FALSE
  /\ reach' = -1 /\ batch' = {} /\ more' = FALSE /\ stream' = <<>>

Break ==
  /\ breaks < MaxBreaks
  /\ place # "closed"
  /\ Close
  /\ breaks' = breaks + 1
  /\ UNCHANGED <<logVars, linkVars, clientVars>>

\* The page is loaded: a snapshot, and its cursor, the newest event of the log.
Load ==
  /\ breaks < MaxBreaks
  /\ Close
  /\ breaks' = breaks + 1
  /\ cursor' \in {n \in SeqsOf(rows) \union {-1} : \A e \in rows : e.seq <= n}
  /\ got' = SeqsOf(Lasting)
  /\ UNCHANGED <<logVars, linkVars>>
-----------------------------------------------------------------------------
Write(w) ==
  \/ \E a \in Actions : Begin(w, a)
  \/ Commit(w) \/ Rollback(w) \/ Publish(w) \/ PublishFails(w)

Generate == Look \/ Fetch \/ Yield \/ EndOfBatch \/ Wake \/ CatchUp

FollowNext ==
  \/ \E w \in Writers : Write(w)
  \/ ClearProgress
  \/ Connect \/ Listen \/ Connected \/ Disconnect \/ HandleNotification
  \/ Follow \/ Generate \/ Receive \/ Break \/ Load

FollowSpec == FollowInit /\ [][FollowNext]_threadFollowVars

\* The client retries until it is closed, the generator and its timer run on,
\* and bytes arrive while the stream is up.  Writers, notifications and the
\* listener connection are not fair.
FairFollow ==
  FollowSpec /\ WF_threadFollowVars(Follow) /\ WF_threadFollowVars(Generate)
    /\ WF_threadFollowVars(Receive)
-----------------------------------------------------------------------------
(* Safety. *)

\* The client is given every durable event up to its cursor, whatever commits,
\* rolls back, breaks or is deleted meanwhile: the thread is followed without
\* gaps.
Feed == INSTANCE ThreadFeed WITH durable <- SeqsOf(Lasting), position <- cursor
ImplementsFeed == Feed!FeedSpec

\* A follower asleep on its latch while the listener is up has been given, or
\* will be woken for, every event: its notification is on its way or yet to be
\* published.  The timer is needed only for publishes that fail.
ToBeAnnounced == UNION {SeqsOf(NewEvents(w)) : w \in {v \in Writers : stage[v] = "notify"}}

NoLostWakeup ==
  place = "wait" /\ heard /\ link = "up" /\ ~changed =>
    wire > 0 \/ SeqsOf(After(reach)) \subseteq ToBeAnnounced \union silent
-----------------------------------------------------------------------------
(* Liveness, under FairFollow. *)

\* Every durable event reaches the client though any notification is lost.
EventuallyGiven ==
  \A n \in 0 .. MaxEvents - 1 : n \in SeqsOf(Lasting) ~> n \in got
=============================================================================
