----------------------------- MODULE ThreadView ------------------------------
(***************************************************************************)
(* What a client shows of a thread: the snapshot that the API puts         *)
(* together from four separate reads, the events that the client applies   *)
(* to it as they stream in, the refreshes that replace it, and the older   *)
(* pages that are loaded above it.  The web client and the mobile client   *)
(* do the same.                                                            *)
(*                                                                         *)
(* A message is its number in the thread, an answer in progress the        *)
(* sequence of its deltas.  The stream hands out the events of the log in  *)
(* their order (module ThreadFeed).                                        *)
(***************************************************************************)
EXTENDS Naturals, Sequences, FiniteSets, SequencesExt

CONSTANTS
  PageSize,     \* THREAD_MESSAGE_PAGE_SIZE
  MaxMessages,  \* bound: messages of the thread
  MaxViewDeltas,    \* bound: deltas of a run
  MaxViewRuns,  \* bound: runs
  MaxBreaks     \* bound: lost connections and failed requests

ASSUME ViewConstants ==
  /\ PageSize \in Nat \ {0}
  /\ MaxMessages \in Nat /\ MaxViewDeltas \in Nat /\ MaxViewRuns \in Nat /\ MaxBreaks \in Nat

VARIABLES
  messages,  \* rows of the messages table
  unsaid,    \* rows whose event is not yet appended
  log,       \* the events table, by seq; "gone" where one was deleted
  turn,      \* the run at work
  view,      \* the snapshot on the screen
  cursor,    \* the client's own cursor
  stream,    \* its subscription
  fetch,     \* its requests for the thread: the loop's and another
  page,      \* its request for an older page
  expanded,  \* expandedHistoryThread
  base,      \* the request whose answer the view was built on, and its first message
  breaks

threadVars == <<messages, unsaid, log, turn>>
clientVars == <<view, cursor, stream, fetch, page, expanded, base, breaks>>
viewVars == <<threadVars, clientVars>>

Created(m) == [kind |-> "message", id |-> m, run |-> 0]
TextDelta(n, r) == [kind |-> "delta", id |-> n, run |-> r]
Over == [kind |-> "over", id |-> 0, run |-> 0]
Gone == [kind |-> "gone", id |-> 0, run |-> 0]

\* An entry of the view: seq is the message's in a page, the event's if streamed.
Entry(m, seq) == [id |-> m, seq |-> seq]
NoView == [shown |-> FALSE, entries |-> <<>>, run |-> 0, text |-> <<>>, older |-> 0]
Unasked == [at |-> "idle", why |-> "event", todo |-> {}, top |-> 0, run |-> 0, last |-> 0,
            text |-> <<>>]
Fetches == {"loop", "other"}

MessageNos == 1..MaxMessages
SeqNos == 0..(2 * MaxMessages + MaxViewDeltas * MaxViewRuns + MaxViewRuns)
Texts == Seq(1..MaxViewDeltas)

(***************************************************************************)
(* Every variable has its type.                                            *)
(***************************************************************************)
ViewTypeOK ==
  /\ messages \in 0..MaxMessages
  /\ unsaid \subseteq 1..messages
  /\ log \in Seq([kind : {"message", "delta", "over", "gone"}, id : SeqNos,
                  run : 0..MaxViewRuns])
  /\ turn \in [n : 0..MaxViewRuns, live : BOOLEAN, said : 0..MaxViewDeltas]
  /\ view \in [shown : BOOLEAN, entries : Seq([id : MessageNos, seq : SeqNos]),
               run : 0..MaxViewRuns, text : Texts, older : 0..MaxMessages]
  /\ cursor \in SeqNos
  /\ stream \in {"none", "on", "lost"}
  /\ fetch \in [Fetches ->
       [at : {"idle", "reading", "live", "answer"}, why : {"first", "event", "reconnect"},
        todo : SUBSET {"page", "run", "last"}, top : 0..MaxMessages,
        run : 0..MaxViewRuns, last : SeqNos, text : Texts]]
  /\ page \in [at : {"idle", "answer"}, before : 0..MaxMessages]
  /\ expanded \in BOOLEAN
  /\ base \in [why : {"none", "first", "event", "reconnect"}, from : Nat]
  /\ breaks \in 0..MaxBreaks

ViewInit ==
  /\ messages = 0
  /\ unsaid = {}
  /\ log = <<>>
  /\ turn = [n |-> 0, live |-> FALSE, said |-> 0]
  /\ view = NoView
  /\ cursor = 0
  /\ stream = "none"
  /\ fetch = [f \in Fetches |-> Unasked]
  /\ page = [at |-> "idle", before |-> 0]
  /\ expanded = FALSE
  /\ base = [why |-> "none", from |-> 0]
  /\ breaks = 0

-----------------------------------------------------------------------------
(* The thread. *)

\* send, followUp, a peer: the row in one transaction ...
CreateMessage ==
  /\ messages < MaxMessages
  /\ messages' = messages + 1
  /\ unsaid' = unsaid \union {messages + 1}
  /\ UNCHANGED <<log, turn, clientVars>>

\* ... and its event in another.
AppendCreated(m) ==
  /\ m \in unsaid
  /\ unsaid' = unsaid \ {m}
  /\ log' = Append(log, Created(m))
  /\ UNCHANGED <<messages, turn, clientVars>>

StartTurn ==
  /\ ~turn.live
  /\ turn.n < MaxViewRuns
  /\ turn' = [n |-> turn.n + 1, live |-> TRUE, said |-> 0]
  /\ UNCHANGED <<messages, unsaid, log, clientVars>>

\* A thread.progress event.
SayDelta ==
  /\ turn.live
  /\ turn.said < MaxViewDeltas
  /\ turn' = [turn EXCEPT !.said = @ + 1]
  /\ log' = Append(log, TextDelta(turn.said + 1, turn.n))
  /\ UNCHANGED <<messages, unsaid, clientVars>>

\* finalizeRun: message, events and the end of the progress in one transaction.
FinishTurn ==
  /\ turn.live
  /\ messages < MaxMessages
  /\ messages' = messages + 1
  /\ turn' = [turn EXCEPT !.live = FALSE]
  /\ log' = [i \in 1..Len(log) |-> IF log[i].kind = "delta" THEN Gone ELSE log[i]]
              \o <<Created(messages + 1), Over>>
  /\ UNCHANGED <<unsaid, clientVars>>

-----------------------------------------------------------------------------
(* The snapshot: page, run and last event are read side by side, the live  *)
(* events of the run that was found after them.                            *)

ByServer == UNCHANGED <<threadVars, view, cursor, stream, page, expanded, base, breaks>>
Awaits(f, what) == fetch[f].at = "reading" /\ what \in fetch[f].todo
Rest(f, what) == fetch[f].todo \ {what}

ReadPage(f) ==
  /\ Awaits(f, "page")
  /\ fetch' = [fetch EXCEPT ![f].todo = Rest(f, "page"), ![f].top = messages]
  /\ ByServer

ReadRun(f) ==
  /\ Awaits(f, "run")
  /\ fetch' = [fetch EXCEPT ![f].todo = Rest(f, "run"),
                            ![f].run = IF turn.live THEN turn.n ELSE 0]
  /\ ByServer

ReadLast(f) ==
  /\ Awaits(f, "last")
  /\ fetch' = [fetch EXCEPT ![f].todo = Rest(f, "last"), ![f].last = Len(log)]
  /\ ByServer

\* The entries that are not in `out`, in their order.
Without(entries, out) ==
  LET kept[n \in 0..Len(entries)] ==
        IF n = 0 THEN <<>>
        ELSE IF entries[n] \in out THEN kept[n - 1] ELSE Append(kept[n - 1], entries[n])
  IN kept[Len(entries)]

\* projectMessages of the run's progress events.
ReadLive(f) ==
  LET others == {e \in {log[i] : i \in 1..Len(log)} : e.kind # "delta" \/ e.run # fetch[f].run}
      ofRun == Without(log, others) IN
  /\ fetch[f].at = "reading" /\ fetch[f].todo = {}
  /\ fetch' = [fetch EXCEPT ![f].at = "answer",
                            ![f].text = [i \in 1..Len(ofRun) |-> ofRun[i].id]]
  /\ ByServer

-----------------------------------------------------------------------------
(* Pages. *)

\* loadMessagePage: the last messages up to one, and whether there are older ones.
First(top) == IF top > PageSize THEN top - PageSize + 1 ELSE 1
PageOf(top) == [i \in 1..(top - First(top) + 1) |-> Entry(First(top) + i - 1, First(top) + i - 1)]
OlderOf(top) == IF First(top) > 1 THEN First(top) ELSE 0

Ids(entries) == {entries[i].id : i \in 1..Len(entries)}

EntriesOf(ids) == [id : ids, seq : Nat]

\* mergeMessagesById
MergeById(first, second) == first \o Without(second, EntriesOf(Ids(first)))

\* mergeMessagePages: what lies before the recent page stays.
MergePages(previous, recent) ==
  LET late == {e \in EntriesOf(MessageNos) : \E i \in 1..Len(recent) : recent[i].seq <= e.seq}
  IN IF recent = <<>> THEN recent ELSE MergeById(Without(previous, late), recent)

SnapshotOf(f) ==
  [shown |-> TRUE, entries |-> PageOf(fetch[f].top), run |-> fetch[f].run,
   text |-> fetch[f].text, older |-> OlderOf(fetch[f].top)]

\* mergeThreadHistory
MergeHistory(prev, recent) ==
  IF prev.shown /\ expanded
  THEN [recent EXCEPT !.entries = MergePages(prev.entries, @), !.older = prev.older]
  ELSE recent

-----------------------------------------------------------------------------
(* The client. *)

\* refreshThread
AskThread(f, why) ==
  /\ fetch[f].at = "idle"
  /\ fetch' = [fetch EXCEPT ![f] = [Unasked EXCEPT !.at = "reading", !.why = why,
                                                   !.todo = {"page", "run", "last"}]]

\* The thread is opened, or its stream broke.
AskFirst ==
  /\ stream = "none"
  /\ AskThread("loop", "first")
  /\ UNCHANGED <<threadVars, view, cursor, stream, page, expanded, base, breaks>>

AskAgain ==
  /\ stream = "lost"
  /\ AskThread("loop", "reconnect")
  /\ UNCHANGED <<threadVars, view, cursor, stream, page, expanded, base, breaks>>

\* Mutant: every snapshot sets the cursor.
ApplyWithCursor(f) ==
  /\ fetch[f].at = "answer"
  /\ view' = MergeHistory(view, SnapshotOf(f))
  /\ base' = [why |-> fetch[f].why, from |-> First(fetch[f].top)]
  /\ cursor' = fetch[f].last
  /\ stream' = IF f = "loop" THEN "on" ELSE stream
  /\ fetch' = [fetch EXCEPT ![f] = Unasked]
  /\ UNCHANGED <<threadVars, page, expanded, breaks>>

\* The answer replaces the view.  Only the first one sets the cursor; after it,
\* and after the one of a reconnect, the client subscribes.
Apply(f) ==
  /\ fetch[f].at = "answer"
  /\ view' = MergeHistory(view, SnapshotOf(f))
  /\ base' = [why |-> fetch[f].why, from |-> First(fetch[f].top)]
  /\ cursor' = IF fetch[f].why = "first" THEN fetch[f].last ELSE cursor
  /\ stream' = IF f = "loop" THEN "on" ELSE stream
  /\ fetch' = [fetch EXCEPT ![f] = Unasked]
  /\ UNCHANGED <<threadVars, page, expanded, breaks>>

\* The request fails: the loop subscribes all the same.
FailFetch(f) ==
  /\ fetch[f].at # "idle"
  /\ breaks < MaxBreaks
  /\ breaks' = breaks + 1
  /\ stream' = IF f = "loop" THEN "on" ELSE stream
  /\ fetch' = [fetch EXCEPT ![f] = Unasked]
  /\ UNCHANGED <<threadVars, view, cursor, page, expanded, base>>

\* reduceThreadSnapshot, applyMobileThreadEvent.  A delta goes on with the text
\* of its run, a message takes the place of the text and of its own entry.
Reduced(e, seq) ==
  IF ~view.shown THEN view
  ELSE CASE e.kind = "delta" ->
              [view EXCEPT !.run = e.run,
                           !.text = (IF view.run = e.run THEN @ ELSE <<>>) \o <<e.id>>]
         [] e.kind = "message" ->
              [view EXCEPT !.text = <<>>,
                           !.entries = Append(Without(@, EntriesOf({e.id})), Entry(e.id, seq))]
         [] OTHER -> view

\* The next event of the stream.  The end of a run asks for another snapshot.
Receive ==
  /\ stream = "on"
  /\ \E i \in 1..Len(log) :
       /\ i > cursor
       /\ log[i].kind # "gone"
       /\ \A j \in 1..(i - 1) : j > cursor => log[j].kind = "gone"
       /\ cursor' = i
       /\ view' = Reduced(log[i], i)
       /\ IF log[i].kind = "over" THEN AskThread("other", "event") ELSE UNCHANGED fetch
  /\ UNCHANGED <<threadVars, stream, page, expanded, base, breaks>>

LoseStream ==
  /\ stream = "on"
  /\ breaks < MaxBreaks
  /\ breaks' = breaks + 1
  /\ stream' = "lost"
  /\ UNCHANGED <<threadVars, view, cursor, fetch, page, expanded, base>>

\* loadOlderMessages: the request, its read, and its answer above the view.
AskOlder ==
  /\ page.at = "idle"
  /\ view.older # 0
  /\ page' = [at |-> "answer", before |-> view.older]
  /\ UNCHANGED <<threadVars, view, cursor, stream, fetch, expanded, base, breaks>>

\* What lies before a message does not change, so when the page is read is all one.
Prepend ==
  /\ page.at = "answer"
  /\ view' = [view EXCEPT !.entries = MergeById(PageOf(page.before - 1), @),
                          !.older = OlderOf(page.before - 1)]
  /\ expanded' = TRUE
  /\ page' = [at |-> "idle", before |-> 0]
  /\ UNCHANGED <<threadVars, cursor, stream, fetch, base, breaks>>

ThreadStep ==
  CreateMessage \/ (\E m \in unsaid : AppendCreated(m)) \/ StartTurn \/ SayDelta \/ FinishTurn
ClientStep ==
  \/ AskFirst \/ AskAgain \/ Receive \/ LoseStream \/ AskOlder \/ Prepend
  \/ \E f \in Fetches : ReadPage(f) \/ ReadRun(f) \/ ReadLast(f) \/ ReadLive(f) \/ Apply(f)
                          \/ FailFetch(f)

ViewNext == ThreadStep \/ ClientStep

ViewSpec == ViewInit /\ [][ViewNext]_viewVars

-----------------------------------------------------------------------------
CaughtUp == stream = "on" /\ \A i \in 1..Len(log) : i > cursor => log[i].kind = "gone"

(***************************************************************************)
(* A reconnect loses no message: once the stream has caught up, the view   *)
(* that the reconnect's refresh built has every message from the first of  *)
(* its page on, whatever was written between its reads, and each once.     *)
(***************************************************************************)
NothingLost ==
  (CaughtUp /\ base.why = "reconnect") =>
    /\ (base.from..messages) \ unsaid \subseteq Ids(view.entries)
    /\ Cardinality(Ids(view.entries)) = Len(view.entries)
=============================================================================
