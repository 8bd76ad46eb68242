------------------------- MODULE ThreadFollowProofs -------------------------
(***************************************************************************)
(* Theorems about ThreadFollow for any number of writers, any batch size   *)
(* and any bounds: types, that no wake-up is lost, and that the log and    *)
(* its followers implement ThreadFeed, step by step.                       *)
(***************************************************************************)
EXTENDS ThreadFollow, FiniteSetTheorems, TLAPS

\* The new events of a transaction are one or two events.
LEMMA NewEventsType ==
  ASSUME FollowTypeOK, NEW w \in Writers
  PROVE  NewEvents(w) \subseteq Event /\ IsFiniteSet(NewEvents(w))
<1> DEFINE k == KindOf(action[w])
           A == [seq |-> first[w], kind |-> k]
           B == [seq |-> first[w] + 1, kind |-> k]
<1>1. first[w] \in Nat /\ action[w] \in Actions
  BY DEF FollowTypeOK
<1>2. k \in Kinds /\ Size(action[w]) \in {1, 2}
  BY <1>1 DEF KindOf, Kinds, Size, Actions
<1>3. NewEvents(w) \subseteq Event
  BY <1>1, <1>2 DEF NewEvents, Event
<1>4. ASSUME NEW e \in NewEvents(w) PROVE e \in {A, B}
  <2>1. e = [seq |-> e.seq, kind |-> e.kind] /\ e.kind = k
    BY DEF NewEvents
  <2>2. e.seq = first[w] \/ e.seq = first[w] + 1
    BY <1>1, <1>2 DEF NewEvents
  <2> QED BY <2>1, <2>2
<1>5. IsFiniteSet({A} \cup {B})
  BY FS_Singleton, FS_AddElement
<1>6. NewEvents(w) \in SUBSET ({A} \cup {B})
  BY <1>4
<1> QED BY <1>3, <1>5, <1>6, FS_Subset

-----------------------------------------------------------------------------
(* Types. *)

LEMMA InitTypes == FollowInit => FollowTypeOK
<1> SUFFICES ASSUME FollowInit PROVE FollowTypeOK
  OBVIOUS
<1>1. IsFiniteSet(rows)
  BY FS_EmptySet DEF FollowInit
<1>2. stream \in Seq(Event)
  BY DEF FollowInit
<1>3. reach \in Int /\ cursor \in Int
  BY DEF FollowInit
<1>4. rows \subseteq Event /\ batch \subseteq Event
  BY DEF FollowInit
<1> QED BY <1>1, <1>2, <1>3, <1>4 DEF FollowInit, FollowTypeOK, Actions

LEMMA WritersTyped ==
  ASSUME FollowTypeOK, NEW w \in Writers, Write(w)
  PROVE  FollowTypeOK'
<1>1. ASSUME NEW a \in Actions, Begin(w, a) PROVE FollowTypeOK'
  BY <1>1 DEF FollowTypeOK, Begin, Size, linkVars, followVars, clientVars
<1>2. CASE Commit(w)
  <2>1. Lasting \subseteq rows /\ IsFiniteSet(Lasting)
    BY FS_Subset DEF FollowTypeOK, Lasting
  <2>2. rows' \subseteq rows \cup NewEvents(w)
    BY <1>2, <2>1 DEF Commit
  <2>3. IsFiniteSet(rows') /\ rows' \subseteq Event
    BY <2>2, NewEventsType, FS_Union, FS_Subset DEF FollowTypeOK
  <2> QED BY <1>2, <2>3 DEF Commit, FollowTypeOK, linkVars, followVars, clientVars
<1>3. CASE Rollback(w)
  BY <1>3 DEF FollowTypeOK, Rollback, Done, Actions, linkVars, followVars, clientVars
<1>4. CASE Publish(w)
  BY <1>4 DEF FollowTypeOK, Publish, Done, Actions, followVars, clientVars
<1>5. CASE PublishFails(w)
  <2>1. SeqsOf(NewEvents(w)) \subseteq Nat
    BY NewEventsType DEF SeqsOf, Event
  <2>2. silent' \subseteq Nat
    BY <1>5, <2>1 DEF PublishFails, FollowTypeOK
  <2> QED BY <1>5, <2>2
          DEF FollowTypeOK, PublishFails, Done, Actions, followVars, clientVars
<1> QED BY <1>1, <1>2, <1>3, <1>4, <1>5 DEF Write

LEMMA LinkTyped ==
  ASSUME FollowTypeOK, Connect \/ Listen \/ Connected \/ Disconnect \/ HandleNotification
  PROVE  FollowTypeOK'
<1> USE DEF FollowTypeOK, logVars, writerVars, followVars, clientVars
<1>1. CASE Connect BY <1>1 DEF Connect
<1>2. CASE Listen BY <1>2 DEF Listen
<1>3. NotifySubscribers => changed' \in BOOLEAN
  BY DEF NotifySubscribers
<1>4. CASE Connected BY <1>3, <1>4 DEF Connected
<1>5. CASE Disconnect BY <1>5 DEF Disconnect
<1>6. CASE HandleNotification BY <1>3, <1>6 DEF HandleNotification
<1> QED BY <1>1, <1>2, <1>4, <1>5, <1>6

LEMMA FollowerTyped ==
  ASSUME FollowTypeOK, Follow \/ Generate
  PROVE  FollowTypeOK'
<1> USE DEF FollowTypeOK, StepTo, logVars, writerVars, linkVars, clientVars
<1>1. CASE Follow BY <1>1 DEF Follow
<1>2. CASE Look BY <1>2 DEF Look
<1>3. CASE Fetch
  <2>1. EventsAfter(reach) \subseteq Event
    BY DEF EventsAfter, After
  <2> QED BY <1>3, <2>1 DEF Fetch
<1>4. CASE Yield
  <2> PICK e \in batch : /\ batch' = batch \ {e}
                         /\ reach' = e.seq
                         /\ stream' = Append(stream, e)
    BY <1>4 DEF Yield
  <2>1. e \in Event /\ e.seq \in Int
    BY DEF Event
  <2>2. stream' \in Seq(Event)
    BY <2>1
  <2> QED BY <1>4, <2>1, <2>2 DEF Yield
<1>5. CASE EndOfBatch BY <1>5 DEF EndOfBatch
<1>6. CASE Wake BY <1>6 DEF Wake
<1>7. CASE CatchUp BY <1>7 DEF CatchUp
<1> QED BY <1>1, <1>2, <1>3, <1>4, <1>5, <1>6, <1>7 DEF Generate

LEMMA CloseTyped ==
  ASSUME Close
  PROVE  /\ place' = "closed" /\ heard' \in BOOLEAN /\ changed' \in BOOLEAN
         /\ more' \in BOOLEAN /\ reach' \in Int /\ batch' \subseteq Event
         /\ stream' \in Seq(Event)
<1>1. stream' \in Seq(Event)
  BY DEF Close
<1>2. reach' \in Int
  BY DEF Close
<1>3. batch' \subseteq Event
  BY DEF Close
<1> QED BY <1>1, <1>2, <1>3 DEF Close

LEMMA ClientTyped ==
  ASSUME FollowTypeOK, ClearProgress \/ Receive \/ Break \/ Load
  PROVE  FollowTypeOK'
<1>1. Lasting \subseteq rows /\ IsFiniteSet(Lasting)
  BY FS_Subset DEF FollowTypeOK, Lasting
<1>2. CASE ClearProgress
  BY <1>1, <1>2 DEF FollowTypeOK, ClearProgress, writerVars, linkVars, followVars, clientVars
<1>3. CASE Receive
  <2>1. Head(stream) \in Event /\ Tail(stream) \in Seq(Event)
    BY <1>3 DEF Receive, FollowTypeOK
  <2>2. Head(stream).seq \in Nat
    BY <2>1 DEF Event
  <2>3. cursor' \in Int
    BY <1>3, <2>2 DEF Receive, FollowTypeOK
  <2>4. got' \subseteq Nat
    BY <1>3, <2>2 DEF Receive, FollowTypeOK
  <2>5. stream' \in Seq(Event)
    BY <1>3, <2>1 DEF Receive
  <2> QED BY <1>3, <2>3, <2>4, <2>5 DEF Receive, FollowTypeOK, logVars, writerVars, linkVars
<1>4. CASE Break
  BY <1>4, CloseTyped DEF FollowTypeOK, Break, logVars, writerVars, linkVars, clientVars
<1>5. CASE Load
  <2>1. SeqsOf(rows) \subseteq Nat /\ SeqsOf(Lasting) \subseteq Nat
    BY <1>1 DEF FollowTypeOK, SeqsOf, Event
  <2>2. cursor' \in Int /\ got' \subseteq Nat
    BY <1>5, <2>1 DEF Load
  <2> QED BY <1>5, CloseTyped, <2>1, <2>2 DEF FollowTypeOK, Load, logVars, writerVars, linkVars
<1> QED BY <1>2, <1>3, <1>4, <1>5

LEMMA StepTyped == FollowTypeOK /\ [FollowNext]_threadFollowVars => FollowTypeOK'
<1> SUFFICES ASSUME FollowTypeOK, [FollowNext]_threadFollowVars PROVE FollowTypeOK'
  OBVIOUS
<1>1. CASE UNCHANGED threadFollowVars
  BY <1>1 DEF FollowTypeOK, threadFollowVars, logVars, writerVars, linkVars, followVars, clientVars
<1> QED BY <1>1, WritersTyped, LinkTyped, FollowerTyped, ClientTyped DEF FollowNext

\* Every variable of the follower, the log and the connection keeps its type.
THEOREM TypeCorrect == FollowSpec => []FollowTypeOK
BY InitTypes, StepTyped, PTL DEF FollowSpec
-----------------------------------------------------------------------------
(* No wake-up is lost. *)

Covered == ToBeAnnounced \union silent

\* Asleep, or about to fall asleep, with nothing left to look up.
Dozing == /\ place = "wait" \/ (place = "yield" /\ ~more)
          /\ heard /\ link = "up" /\ ~changed

Behind == /\ place # "yield" => batch = {}
          /\ \A e \in batch : reach <= e.seq

NothingMissed == \A e \in rows : e.seq > reach => e \in batch \/ e.seq \in Covered

WakeInv == FollowTypeOK /\ Behind /\ (Dozing => wire > 0 \/ NothingMissed)

LEMMA WakeImplies == WakeInv => NoLostWakeup
BY DEF WakeInv, Dozing, NothingMissed, Behind, NoLostWakeup, Covered, SeqsOf, After

LEMMA InitWakes == FollowInit => WakeInv
BY InitTypes DEF FollowInit, WakeInv, Dozing, Behind

\* A transaction that is begun, committed or undone, and a publish that fails,
\* leave every event covered that was, and cover what they add.
LEMMA WritersCover ==
  ASSUME FollowTypeOK, NEW w \in Writers, Write(w), ~Publish(w)
  PROVE  /\ Covered \subseteq Covered'
         /\ SeqsOf(rows' \ rows) \subseteq Covered'
<1>1. ASSUME NEW v \in Writers, stage[v] = "notify", v # w
      PROVE  stage'[v] = "notify" /\ NewEvents(v)' = NewEvents(v)
  BY <1>1 DEF Write, Begin, Commit, Rollback, Publish, PublishFails, Done, FollowTypeOK, NewEvents
<1>2. silent \subseteq silent'
  BY DEF Write, Begin, Commit, Rollback, Publish, PublishFails, linkVars
<1>3. stage[w] = "notify" => SeqsOf(NewEvents(w)) \subseteq silent'
  BY DEF Write, Begin, Commit, Rollback, Publish, PublishFails
<1>4. Covered \subseteq Covered'
  BY <1>1, <1>2, <1>3 DEF Covered, ToBeAnnounced, SeqsOf
<1>5. CASE Commit(w)
  <2>1. rows' \ rows \subseteq NewEvents(w)
    BY <1>5 DEF Commit, Lasting
  <2>2. stage'[w] = "notify" /\ NewEvents(w)' = NewEvents(w)
    BY <1>5 DEF Commit, FollowTypeOK, NewEvents
  <2> QED BY <1>4, <2>1, <2>2 DEF Covered, ToBeAnnounced, SeqsOf
<1>6. CASE ~Commit(w)
  <2>1. rows' = rows
    BY <1>6 DEF Write, Begin, Rollback, Publish, PublishFails
  <2> QED BY <1>4, <2>1 DEF SeqsOf
<1> QED BY <1>5, <1>6

LEMMA WritersWake ==
  ASSUME WakeInv, NEW w \in Writers, Write(w)
  PROVE  WakeInv'
<1>1. FollowTypeOK' /\ UNCHANGED followVars /\ link' = link
  BY WritersTyped
  DEF WakeInv, Write, Begin, Commit, Rollback, Publish, PublishFails, linkVars
<1>2. Behind'
  BY <1>1 DEF WakeInv, Behind, followVars
<1>3. CASE Publish(w)
  <2>1. Dozing' => wire' > 0
    BY <1>1, <1>3 DEF WakeInv, FollowTypeOK, Publish, Dozing
  <2> QED BY <1>1, <1>2, <2>1 DEF WakeInv
<1>4. CASE ~Publish(w)
  <2>1. wire' = wire
    BY <1>4 DEF Write, Begin, Commit, Rollback, Publish, PublishFails, linkVars
  <2>2. NothingMissed => NothingMissed'
    BY <1>1, <1>4, WritersCover DEF WakeInv, NothingMissed, followVars, SeqsOf
  <2>3. Dozing' => Dozing
    BY <1>1 DEF Dozing, followVars
  <2> QED BY <1>1, <1>2, <2>1, <2>2, <2>3 DEF WakeInv
<1> QED BY <1>3, <1>4

\* A connection that changes its state is down, or has told its subscribers.
LEMMA LinkWakes ==
  ASSUME WakeInv, Connect \/ Listen \/ Connected \/ Disconnect \/ HandleNotification
  PROVE  WakeInv'
<1>1. FollowTypeOK' /\ Behind'
  BY LinkTyped DEF WakeInv, Behind, Connect, Listen, Connected, Disconnect,
                   HandleNotification, followVars
<1>2. ~Dozing'
  BY DEF WakeInv, FollowTypeOK, Dozing, Connect, Listen, Connected, Disconnect,
         HandleNotification, NotifySubscribers, followVars
<1> QED BY <1>1, <1>2 DEF WakeInv

\* A batch that is not full holds every event there is to fetch.
LEMMA ShortBatch ==
  ASSUME FollowTypeOK, NEW n \in Int, ~(Cardinality(After(n)) >= BatchSize)
  PROVE  EventsAfter(n) = After(n)
<1>1. IsFiniteSet(After(n)) /\ Cardinality(After(n)) \in Nat
  BY FS_Subset, FS_CardinalityType DEF FollowTypeOK, After
<1>2. ASSUME NEW e \in After(n)
      PROVE  Cardinality({d \in After(n) : d.seq < e.seq}) < BatchSize
  <2> DEFINE Lower == {d \in After(n) : d.seq < e.seq}
  <2>1. Lower \in SUBSET After(n)
    OBVIOUS
  <2>2. Cardinality(Lower) <= Cardinality(After(n)) /\ Cardinality(Lower) \in Nat
    BY <1>1, <2>1, FS_Subset, FS_CardinalityType
  <2> HIDE DEF Lower
  <2>3. Cardinality(Lower) < BatchSize
    BY <1>1, <2>2, FollowConstants
  <2> QED BY <2>3 DEF Lower
<1> QED BY <1>2 DEF EventsAfter

LEMMA FollowerWakes ==
  ASSUME WakeInv, Follow \/ Generate
  PROVE  WakeInv'
<1>1. FollowTypeOK' /\ UNCHANGED logVars /\ UNCHANGED linkVars
  BY FollowerTyped
  DEF WakeInv, Follow, Generate, Look, Fetch, Yield, EndOfBatch, Wake, CatchUp
<1>2. Covered' = Covered /\ rows' = rows
  BY <1>1 DEF Covered, ToBeAnnounced, NewEvents, SeqsOf, logVars, writerVars, linkVars
<1>3. CASE Follow \/ Look \/ Wake \/ CatchUp
  BY <1>1, <1>3 DEF WakeInv, Behind, Dozing, Follow, Look, Wake, CatchUp, StepTo
<1>4. CASE Fetch
  <2>1. Behind'
    BY <1>4 DEF WakeInv, FollowTypeOK, Behind, Fetch, StepTo, EventsAfter, After, Event
  <2>2. Dozing' => NothingMissed'
    <3> SUFFICES ASSUME Dozing' PROVE NothingMissed'
      OBVIOUS
    <3>1. batch' = After(reach)
      BY <1>4, ShortBatch DEF WakeInv, FollowTypeOK, Fetch, StepTo, Dozing
    <3> QED BY <1>2, <1>4, <3>1 DEF NothingMissed, Fetch, After
  <2> QED BY <1>1, <2>1, <2>2 DEF WakeInv
<1>5. CASE Yield
  <2> PICK e \in batch : /\ \A d \in batch : e.seq <= d.seq
                         /\ batch' = batch \ {e}
                         /\ reach' = e.seq
    BY <1>5 DEF Yield
  <2>1. Behind'
    BY <1>5 DEF Yield, Behind
  <2>2. ASSUME NothingMissed PROVE NothingMissed'
    <3> SUFFICES ASSUME NEW d \in rows, d.seq > e.seq
                 PROVE  d \in batch \ {e} \/ d.seq \in Covered
      BY <1>2 DEF NothingMissed
    <3>1. d.seq \in Int /\ e.seq \in Int /\ reach \in Int /\ reach <= e.seq
      BY DEF WakeInv, FollowTypeOK, Behind, Event
    <3>2. d.seq > reach /\ d # e
      BY <3>1
    <3> QED BY <2>2, <3>2 DEF NothingMissed
  <2>3. (Dozing' => Dozing) /\ wire' = wire
    BY <1>1, <1>5 DEF Dozing, Yield, linkVars
  <2> QED BY <1>1, <2>1, <2>2, <2>3 DEF WakeInv
<1>6. CASE EndOfBatch
  <2>1. Behind'
    BY <1>6 DEF WakeInv, Behind, EndOfBatch, StepTo
  <2>2. NothingMissed => NothingMissed'
    BY <1>2, <1>6 DEF NothingMissed, EndOfBatch
  <2>3. (Dozing' => Dozing) /\ wire' = wire
    BY <1>1, <1>6 DEF Dozing, EndOfBatch, StepTo, linkVars
  <2> QED BY <1>1, <2>1, <2>2, <2>3 DEF WakeInv
<1> QED BY <1>3, <1>4, <1>5, <1>6 DEF Generate

LEMMA ClientWakes ==
  ASSUME WakeInv, ClearProgress \/ Receive \/ Break \/ Load
  PROVE  WakeInv'
<1>1. FollowTypeOK'
  BY ClientTyped DEF WakeInv
<1>2. CASE Break \/ Load
  BY <1>1, <1>2 DEF WakeInv, Break, Load, Close, Behind, Dozing
<1>3. CASE ClearProgress \/ Receive
  <2>1. /\ UNCHANGED <<place, heard, changed, reach, batch, more>>
        /\ UNCHANGED linkVars /\ UNCHANGED writerVars /\ rows' \subseteq rows
    BY <1>3 DEF ClearProgress, Receive, followVars, logVars, Lasting
  <2>2. Covered' = Covered
    BY <2>1 DEF Covered, ToBeAnnounced, NewEvents, SeqsOf, writerVars, linkVars
  <2> QED BY <1>1, <2>1, <2>2 DEF WakeInv, Behind, Dozing, NothingMissed, linkVars
<1> QED BY <1>2, <1>3

LEMMA StepWakes == WakeInv /\ [FollowNext]_threadFollowVars => WakeInv'
<1> SUFFICES ASSUME WakeInv, [FollowNext]_threadFollowVars PROVE WakeInv'
  OBVIOUS
<1>1. CASE UNCHANGED threadFollowVars
  BY <1>1, StepTyped
  DEF WakeInv, Behind, Dozing, NothingMissed, Covered, ToBeAnnounced, NewEvents,
      SeqsOf, threadFollowVars, logVars, writerVars, linkVars, followVars, clientVars
<1> QED BY <1>1, WritersWake, LinkWakes, FollowerWakes, ClientWakes DEF FollowNext

\* A follower asleep under a live listener is woken for every event it has not
\* read, save those whose publish failed.
THEOREM NoWakeupLost == FollowSpec => []NoLostWakeup
BY InitWakes, StepWakes, WakeImplies, PTL DEF FollowSpec
-----------------------------------------------------------------------------
(* The feed is implemented. *)

(***************************************************************************)
(* The numbers every event to come will exceed: the writer that holds the  *)
(* thread's row, if there is one, has taken its own already.               *)
(***************************************************************************)
Spent ==
  {n \in Int : n < nextSeq /\ \A w \in Writers : stage[w] = "open" => n < first[w]}

\* One writer at most is between its increment and its commit.
OneOpen ==
  \A w \in Writers : stage[w] = "open" =>
    /\ nextSeq = first[w] + Size(action[w])
    /\ \A v \in Writers : stage[v] = "open" => v = w

\* Numbers name events, and all that was read or is under way is spent.
AllSpent ==
  /\ \A e \in rows : e.seq \in Spent
  /\ \A e \in batch : e.seq \in Spent
  /\ \A i \in 1..Len(stream) : stream[i].seq \in Spent
  /\ cursor \in Spent /\ reach \in Spent
  /\ \A d, e \in rows : d.seq = e.seq => d = e

\* What was fetched: later than `reach`, without a gap, and there to stay if it lasts.
BatchInv ==
  /\ \A e \in batch : reach < e.seq /\ (e.kind = "durable" => e \in rows)
  /\ \A d, e \in batch : d.seq = e.seq => d = e
  /\ \A d \in Lasting, b \in batch : reach < d.seq /\ d.seq <= b.seq => d \in batch

\* What is on its way: in order, between the client and `reach`, and without a gap.
StreamInv ==
  /\ \A i \in 1..Len(stream) :
       /\ cursor < stream[i].seq /\ stream[i].seq <= reach
       /\ stream[i].kind = "durable" => stream[i] \in rows
       /\ \A j \in 1..Len(stream) : i < j => stream[i].seq < stream[j].seq
  /\ \A d \in Lasting : cursor < d.seq /\ d.seq <= reach =>
       \E i \in 1..Len(stream) : stream[i] = d
  /\ IF place = "closed" THEN batch = {} /\ stream = <<>> ELSE cursor <= reach

FeedInv == FollowTypeOK /\ OneOpen /\ AllSpent /\ BatchInv /\ StreamInv

LEMMA InitFeeds == FollowInit => FeedInv
<1> SUFFICES ASSUME FollowInit PROVE FeedInv
  OBVIOUS
<1>1. FollowTypeOK
  BY InitTypes
<1>2. OneOpen /\ AllSpent
  BY DEF FollowInit, OneOpen, AllSpent, Spent
<1>3. BatchInv /\ StreamInv
  BY DEF FollowInit, BatchInv, StreamInv, Lasting
<1> QED BY <1>1, <1>2, <1>3 DEF FeedInv

\* The numbers of a transaction's events.
LEMMA NewNumbers ==
  ASSUME FollowTypeOK, NEW w \in Writers
  PROVE  /\ first[w] \in Nat /\ Size(action[w]) \in {1, 2}
         /\ \A e \in NewEvents(w) :
              /\ e.seq \in Nat /\ first[w] <= e.seq
              /\ e.seq < first[w] + Size(action[w])
              /\ e.kind = KindOf(action[w])
         /\ \A d, e \in NewEvents(w) : d.seq = e.seq => d = e
<1>1. first[w] \in Nat /\ Size(action[w]) \in {1, 2}
  BY DEF FollowTypeOK, Size
<1>2. \A e \in NewEvents(w) :
        /\ e.seq \in first[w] .. first[w] + Size(action[w]) - 1
        /\ e.kind = KindOf(action[w])
        /\ e = [seq |-> e.seq, kind |-> KindOf(action[w])]
  BY DEF NewEvents
<1> QED BY <1>1, <1>2

\* Spent numbers stay spent, and one writer at a time holds the row.
LEMMA WritersSpend ==
  ASSUME FollowTypeOK, OneOpen, NEW w \in Writers, Write(w)
  PROVE  Spent \subseteq Spent' /\ OneOpen'
<1>1. ASSUME NEW a \in Actions, Begin(w, a) PROVE Spent \subseteq Spent' /\ OneOpen'
  <2>1. /\ nextSeq \in Nat /\ Size(a) \in {1, 2} /\ nextSeq' = nextSeq + Size(a)
        /\ first'[w] = nextSeq /\ stage'[w] = "open" /\ action'[w] = a
        /\ \A v \in Writers : stage'[v] = "open" => v = w
    BY <1>1 DEF Begin, FollowTypeOK, Size
  <2>2. Spent \subseteq Spent'
    BY <2>1 DEF Spent
  <2> QED BY <2>1, <2>2 DEF OneOpen
<1>2. ASSUME Commit(w) \/ Publish(w) \/ PublishFails(w)
      PROVE  Spent \subseteq Spent' /\ OneOpen'
  <2>1. /\ nextSeq' = nextSeq
        /\ \A v \in Writers : stage'[v] = "open" =>
             stage[v] = "open" /\ first'[v] = first[v] /\ action'[v] = action[v]
    BY <1>2 DEF Commit, Publish, PublishFails, Done, FollowTypeOK
  <2> QED BY <2>1 DEF Spent, OneOpen
<1>3. CASE Rollback(w)
  <2>1. /\ nextSeq' = first[w] /\ stage[w] = "open"
        /\ \A v \in Writers : stage'[v] # "open"
    BY <1>3 DEF Rollback, Done, FollowTypeOK, OneOpen
  <2> QED BY <2>1 DEF Spent, OneOpen
<1> QED BY <1>1, <1>2, <1>3 DEF Write

LEMMA OthersSpend ==
  ASSUME OneOpen, UNCHANGED <<nextSeq, writerVars>>
  PROVE  Spent' = Spent /\ OneOpen'
BY DEF OneOpen, Spent, writerVars

\* What a commit adds lies past everything that is spent; what lasts, stays.
LEMMA CommitAdds ==
  ASSUME FeedInv, NEW w \in Writers, Commit(w)
  PROVE  /\ rows' \subseteq rows \cup NewEvents(w)
         /\ Lasting \subseteq Lasting' /\ Lasting' \subseteq Lasting \cup NewEvents(w)
         /\ \A e \in NewEvents(w) : e.seq \in Spent' /\ \A n \in Spent : n < e.seq
<1>1. /\ rows' \subseteq rows \cup NewEvents(w)
      /\ Lasting \subseteq Lasting' /\ Lasting' \subseteq Lasting \cup NewEvents(w)
  BY DEF Commit, Lasting
<1>2. ASSUME NEW e \in NewEvents(w)
      PROVE  e.seq \in Spent' /\ \A n \in Spent : n < e.seq
  <2>1. /\ e.seq \in Int /\ first[w] \in Int /\ first[w] <= e.seq
        /\ e.seq < first[w] + Size(action[w])
    BY NewNumbers DEF FeedInv
  <2>2. /\ stage[w] = "open" /\ nextSeq' = first[w] + Size(action[w])
        /\ \A v \in Writers : stage'[v] # "open"
    BY DEF Commit, FeedInv, FollowTypeOK, OneOpen
  <2> QED BY <2>1, <2>2 DEF Spent
<1> QED BY <1>1, <1>2

LEMMA CommitFeeds ==
  ASSUME FeedInv, NEW w \in Writers, Commit(w)
  PROVE  FeedInv'
<1>1. /\ FollowTypeOK' /\ OneOpen' /\ Spent \subseteq Spent'
      /\ UNCHANGED <<followVars, clientVars>>
  BY WritersTyped, WritersSpend DEF FeedInv, Write, Commit
<1>2. AllSpent'
  <2>1. \A e \in rows' : e.seq \in Spent'
    BY <1>1, CommitAdds DEF FeedInv, AllSpent
  <2>2. ASSUME NEW d \in rows', NEW e \in rows', d.seq = e.seq PROVE d = e
    <3>1. CASE d \in rows /\ e \in rows
      BY <2>2, <3>1 DEF FeedInv, AllSpent
    <3>2. CASE d \in NewEvents(w) /\ e \in NewEvents(w)
      BY <2>2, <3>2, NewNumbers DEF FeedInv
    <3>3. ASSUME NEW x \in rows, NEW y \in NewEvents(w) PROVE x.seq # y.seq
      <4>1. x.seq < y.seq /\ x.seq \in Int
        BY CommitAdds DEF FeedInv, AllSpent, Spent
      <4>2. y.seq \in Int
        BY NewNumbers DEF FeedInv
      <4> QED BY <4>1, <4>2
    <3> QED BY <2>2, <3>1, <3>2, <3>3, CommitAdds
  <2> QED BY <1>1, <2>1, <2>2 DEF FeedInv, AllSpent, followVars, clientVars
<1>3. \A d \in Lasting', n \in Spent : d.seq <= n => d \in Lasting
  <2> SUFFICES ASSUME NEW d \in NewEvents(w), NEW n \in Spent PROVE ~(d.seq <= n)
    BY CommitAdds
  <2>1. n < d.seq /\ n \in Int /\ d.seq \in Int
    BY CommitAdds, NewNumbers DEF FeedInv, Spent
  <2> QED BY <2>1
<1>4. \A e \in rows : e.kind = "durable" => e \in rows'
  BY CommitAdds DEF Lasting
<1>5. BatchInv'
  BY <1>1, <1>3, <1>4 DEF FeedInv, BatchInv, AllSpent, followVars
<1>6. StreamInv'
  BY <1>1, <1>3, <1>4 DEF FeedInv, StreamInv, AllSpent, followVars, clientVars
<1> QED BY <1>1, <1>2, <1>5, <1>6 DEF FeedInv

LEMMA WritersFeed ==
  ASSUME FeedInv, NEW w \in Writers, Write(w)
  PROVE  FeedInv'
<1>1. CASE Commit(w)
  BY <1>1, CommitFeeds
<1>2. CASE ~Commit(w)
  <2>1. /\ FollowTypeOK' /\ OneOpen' /\ Spent \subseteq Spent'
        /\ UNCHANGED <<rows, followVars, clientVars>>
    BY <1>2, WritersTyped, WritersSpend
    DEF FeedInv, Write, Begin, Rollback, Publish, PublishFails
  <2>2. AllSpent'
    BY <2>1 DEF FeedInv, AllSpent, followVars, clientVars
  <2>3. BatchInv' /\ StreamInv'
    BY <2>1 DEF FeedInv, BatchInv, StreamInv, Lasting, followVars, clientVars
  <2> QED BY <2>1, <2>2, <2>3 DEF FeedInv
<1> QED BY <1>1, <1>2

\* Notifications, the listener and progress that is cleared lose nothing that lasts.
LEMMA LinkFeeds ==
  ASSUME FeedInv, Connect \/ Listen \/ Connected \/ Disconnect \/ HandleNotification
  PROVE  FeedInv'
<1>1. UNCHANGED <<logVars, place, reach, batch, stream, clientVars>>
  BY DEF Connect, Listen, Connected, Disconnect, HandleNotification, followVars
<1>2. FollowTypeOK' /\ OneOpen' /\ Spent' = Spent
  BY <1>1, LinkTyped, OthersSpend DEF FeedInv, logVars
<1>3. AllSpent'
  BY <1>1, <1>2 DEF FeedInv, AllSpent, logVars, clientVars
<1>4. BatchInv' /\ StreamInv'
  BY <1>1 DEF FeedInv, BatchInv, StreamInv, Lasting, logVars, clientVars
<1> QED BY <1>2, <1>3, <1>4 DEF FeedInv

LEMMA ClearFeeds ==
  ASSUME FeedInv, ClearProgress
  PROVE  FeedInv'
<1>1. /\ UNCHANGED <<nextSeq, writerVars, followVars, clientVars>>
      /\ rows' \subseteq rows /\ Lasting' = Lasting /\ Lasting \subseteq rows'
  BY DEF ClearProgress, Lasting
<1>2. FollowTypeOK' /\ OneOpen' /\ Spent' = Spent
  BY <1>1, ClientTyped, OthersSpend DEF FeedInv
<1>3. AllSpent'
  BY <1>1, <1>2 DEF FeedInv, AllSpent, followVars, clientVars
<1>4. \A e \in rows : e.kind = "durable" => e \in rows'
  BY <1>1 DEF Lasting
<1>5. BatchInv' /\ StreamInv'
  BY <1>1, <1>4 DEF FeedInv, BatchInv, StreamInv, followVars, clientVars
<1> QED BY <1>2, <1>3, <1>5 DEF FeedInv

\* What is fetched are the first events after `seq`: whatever lies between `seq`
\* and one of them is one of them.
LEMMA FetchedTogether ==
  ASSUME FollowTypeOK, NEW n \in Int, NEW b \in EventsAfter(n), NEW d \in After(n),
         d.seq <= b.seq
  PROVE  d \in EventsAfter(n)
<1> DEFINE Below(x) == {y \in After(n) : y.seq < x.seq}
<1>1. IsFiniteSet(After(n)) /\ \A x \in After(n) : x.seq \in Int
  BY FS_Subset DEF FollowTypeOK, After, Event
<1>2. b \in After(n) /\ Cardinality(Below(b)) < BatchSize
  BY DEF EventsAfter
<1>3. Below(d) \subseteq Below(b)
  BY <1>1, <1>2
<1>4. Below(b) \in SUBSET After(n) /\ Below(d) \in SUBSET Below(b)
  BY <1>3
<1>5. IsFiniteSet(Below(b))
  BY <1>1, <1>4, FS_Subset
<1>6. /\ Cardinality(Below(d)) <= Cardinality(Below(b))
      /\ Cardinality(Below(d)) \in Nat /\ Cardinality(Below(b)) \in Nat
  BY <1>4, <1>5, FS_Subset, FS_CardinalityType
<1> HIDE DEF Below
<1>7. Cardinality(Below(d)) < BatchSize
  BY <1>2, <1>6, FollowConstants
<1> QED BY <1>7 DEF Below, EventsAfter

LEMMA FetchFeeds ==
  ASSUME FeedInv, Fetch
  PROVE  FeedInv'
<1>1. /\ UNCHANGED <<logVars, reach, stream, clientVars>>
      /\ place = "fetch" /\ place' = "yield" /\ batch' = EventsAfter(reach)
  BY DEF Fetch, StepTo
<1>2. FollowTypeOK' /\ OneOpen' /\ Spent' = Spent
  BY <1>1, FollowerTyped, OthersSpend DEF FeedInv, Generate, logVars
<1>3. \A e \in batch' : e \in rows /\ reach < e.seq
  BY <1>1 DEF EventsAfter, After, FeedInv, FollowTypeOK, Event
<1>4. AllSpent'
  BY <1>1, <1>2, <1>3 DEF FeedInv, AllSpent, logVars, clientVars
<1>5. BatchInv'
  <2>1. ASSUME NEW d \in Lasting, NEW b \in batch', reach < d.seq, d.seq <= b.seq
        PROVE  d \in batch'
    <3>1. reach \in Int /\ d \in After(reach)
      BY <2>1 DEF FeedInv, FollowTypeOK, Lasting, After, Event
    <3> QED BY <1>1, <2>1, <3>1, FetchedTogether DEF FeedInv
  <2>2. Lasting' = Lasting /\ rows' = rows /\ reach' = reach
    BY <1>1 DEF Lasting, logVars
  <2>3. \A d, e \in batch' : d.seq = e.seq => d = e
    BY <1>3 DEF FeedInv, AllSpent
  <2> QED BY <1>3, <2>1, <2>2, <2>3 DEF BatchInv
<1>6. StreamInv'
  BY <1>1 DEF FeedInv, StreamInv, Lasting, logVars, clientVars
<1> QED BY <1>2, <1>4, <1>5, <1>6 DEF FeedInv

\* The last of what was on its way, and the event after it.
LEMMA Appended ==
  ASSUME NEW s \in Seq(Event), NEW e \in Event
  PROVE  /\ Append(s, e) \in Seq(Event) /\ Len(Append(s, e)) = Len(s) + 1
         /\ \A i \in 1..Len(s) : Append(s, e)[i] = s[i]
         /\ Append(s, e)[Len(s) + 1] = e /\ Len(s) \in Nat
OBVIOUS

LEMMA YieldFeeds ==
  ASSUME FeedInv, Yield
  PROVE  FeedInv'
<1> PICK e \in batch : /\ \A d \in batch : e.seq <= d.seq
                       /\ batch' = batch \ {e}
                       /\ reach' = e.seq
                       /\ stream' = Append(stream, e)
  BY DEF Yield
<1>1. /\ UNCHANGED <<logVars, place, clientVars>> /\ place = "yield"
  BY DEF Yield
<1>2. FollowTypeOK' /\ OneOpen' /\ Spent' = Spent
  BY <1>1, FollowerTyped, OthersSpend DEF FeedInv, Generate, logVars
<1>3. /\ e.seq \in Int /\ reach \in Int /\ cursor \in Int /\ reach < e.seq
      /\ cursor <= reach /\ e \in Event
      /\ \A d \in batch \cup rows : d.seq \in Int
  BY <1>1 DEF FeedInv, FollowTypeOK, BatchInv, StreamInv, Event
<1> DEFINE n == Len(stream)
<1>4. /\ n \in Nat /\ Len(stream') = n + 1 /\ stream'[n + 1] = e
      /\ \A i \in 1..n : stream'[i] = stream[i]
      /\ \A i \in 1..n : stream[i].seq \in Int
  <2>1. stream \in Seq(Event)
    BY DEF FeedInv, FollowTypeOK
  <2>2. \A i \in 1..n : stream[i] \in Event
    BY <2>1
  <2> QED BY <1>3, <2>1, <2>2, Appended DEF Event
<1> HIDE DEF n
<1>5. 1..n \subseteq 1..Len(stream) /\ 1..Len(stream) \subseteq 1..n
  BY DEF n
<1>6. \A i \in 1..Len(stream') : i \in 1..n \/ i = n + 1
  BY <1>4
<1>7. AllSpent'
  <2>1. \A i \in 1..Len(stream') : stream'[i].seq \in Spent
    BY <1>4, <1>5, <1>6 DEF FeedInv, AllSpent
  <2> QED BY <1>1, <1>2, <2>1 DEF FeedInv, AllSpent, logVars, clientVars
<1>8. BatchInv'
  <2>1. ASSUME NEW b \in batch' PROVE e.seq < b.seq
    <3>1. b \in batch /\ b # e /\ e.seq # b.seq /\ e.seq <= b.seq
      BY DEF FeedInv, BatchInv
    <3> QED BY <1>3, <3>1
  <2>2. ASSUME NEW d \in Lasting, NEW b \in batch', e.seq < d.seq, d.seq <= b.seq
        PROVE  d \in batch'
    <3>1. d.seq \in Int /\ reach < d.seq /\ d # e
      BY <1>3, <2>2 DEF Lasting
    <3> QED BY <2>2, <3>1 DEF FeedInv, BatchInv
  <2>3. Lasting' = Lasting /\ rows' = rows
    BY <1>1 DEF Lasting, logVars
  <2> QED BY <2>1, <2>2, <2>3 DEF FeedInv, BatchInv
<1>9. StreamInv'
  <2>1. ASSUME NEW i \in 1..n
        PROVE  /\ cursor < stream[i].seq /\ stream[i].seq <= reach
               /\ stream[i].kind = "durable" => stream[i] \in rows
               /\ \A j \in 1..n : i < j => stream[i].seq < stream[j].seq
    BY <1>5 DEF FeedInv, StreamInv
  <2>2. ASSUME NEW i \in 1..Len(stream')
        PROVE  /\ cursor < stream'[i].seq /\ stream'[i].seq <= e.seq
               /\ stream'[i].kind = "durable" => stream'[i] \in rows
    <3>1. CASE i \in 1..n
      BY <1>3, <1>4, <2>1, <3>1
    <3>2. CASE i = n + 1
      BY <1>3, <1>4, <3>2 DEF FeedInv, BatchInv
    <3> QED BY <1>6, <3>1, <3>2
  <2>3. ASSUME NEW i \in 1..Len(stream'), NEW j \in 1..Len(stream'), i < j
        PROVE  stream'[i].seq < stream'[j].seq
    <3>1. i \in 1..n
      BY <1>4, <2>3
    <3>2. CASE j \in 1..n
      BY <1>4, <2>1, <2>3, <3>1, <3>2
    <3>3. CASE j = n + 1
      BY <1>3, <1>4, <2>1, <3>1, <3>3
    <3> QED BY <1>6, <3>2, <3>3
  <2>4. ASSUME NEW d \in Lasting, cursor < d.seq, d.seq <= e.seq
        PROVE  \E i \in 1..Len(stream') : stream'[i] = d
    <3>1. CASE d.seq <= reach
      <4>1. PICK i \in 1..n : stream[i] = d
        BY <1>5, <2>4, <3>1 DEF FeedInv, StreamInv
      <4> QED BY <1>4, <4>1
    <3>2. CASE ~(d.seq <= reach)
      <4>1. d \in batch
        BY <1>3, <2>4, <3>2 DEF FeedInv, BatchInv, Lasting
      <4>2. d.seq = e.seq
        BY <1>3, <2>4, <4>1
      <4>3. d = e
        BY <4>1, <4>2 DEF FeedInv, BatchInv
      <4> QED BY <1>4, <4>3
    <3> QED BY <3>1, <3>2
  <2>5. Lasting' = Lasting /\ rows' = rows /\ cursor' = cursor /\ place' = "yield"
        /\ reach' = e.seq /\ cursor' <= reach'
    BY <1>1, <1>3 DEF Lasting, logVars, clientVars
  <2> QED BY <2>2, <2>3, <2>4, <2>5 DEF StreamInv
<1> QED BY <1>2, <1>7, <1>8, <1>9 DEF FeedInv

LEMMA FollowerFeeds ==
  ASSUME FeedInv, Follow \/ Generate
  PROVE  FeedInv'
<1>1. CASE Follow
  <2>1. /\ UNCHANGED <<logVars, batch, stream, clientVars>> /\ reach' = cursor
        /\ place = "closed" /\ place' = "look" /\ batch = {} /\ stream = <<>>
    BY <1>1 DEF Follow, FeedInv, StreamInv
  <2>2. FollowTypeOK' /\ OneOpen' /\ Spent' = Spent
    BY <1>1, <2>1, FollowerTyped, OthersSpend DEF FeedInv, logVars
  <2>3. AllSpent' /\ BatchInv'
    BY <2>1, <2>2 DEF FeedInv, AllSpent, BatchInv, logVars, clientVars
  <2>4. StreamInv'
    <3>1. cursor \in Int /\ \A e \in rows : e.seq \in Int
      BY DEF FeedInv, FollowTypeOK, Event
    <3>2. Lasting' = Lasting /\ cursor' = cursor /\ reach' = cursor /\ Len(stream') = 0
      BY <2>1 DEF Lasting, logVars, clientVars
    <3>3. \A d \in Lasting : ~(cursor < d.seq /\ d.seq <= cursor)
      BY <3>1 DEF Lasting
    <3> QED BY <2>1, <3>1, <3>2, <3>3 DEF StreamInv
  <2> QED BY <2>2, <2>3, <2>4 DEF FeedInv
<1>2. CASE Look \/ EndOfBatch \/ Wake \/ CatchUp
  <2>1. /\ UNCHANGED <<logVars, reach, batch, stream, clientVars>>
        /\ place # "closed" /\ place' # "closed"
    BY <1>2 DEF Look, EndOfBatch, Wake, CatchUp, StepTo
  <2>2. FollowTypeOK' /\ OneOpen' /\ Spent' = Spent
    BY <2>1, FollowerTyped, OthersSpend DEF FeedInv, logVars
  <2>3. AllSpent'
    BY <2>1, <2>2 DEF FeedInv, AllSpent, logVars, clientVars
  <2>4. BatchInv' /\ StreamInv'
    BY <2>1 DEF FeedInv, BatchInv, StreamInv, Lasting, logVars, clientVars
  <2> QED BY <2>2, <2>3, <2>4 DEF FeedInv
<1> QED BY <1>1, <1>2, FetchFeeds, YieldFeeds DEF Generate

\* The rest of what is on its way, and what arrives.
LEMMA Advanced ==
  ASSUME NEW s \in Seq(Event), s # <<>>
  PROVE  /\ Len(s) \in Nat /\ Len(s) >= 1 /\ Len(Tail(s)) = Len(s) - 1
         /\ Head(s) = s[1] /\ Head(s) \in Event /\ Tail(s) \in Seq(Event)
         /\ \A i \in 1..Len(Tail(s)) : Tail(s)[i] = s[i + 1]
         /\ \A i \in 1..Len(s) : s[i] \in Event
OBVIOUS

\* What arrives is the next number, and the next of what lasts.
LEMMA NextArrives ==
  ASSUME FeedInv, stream # <<>>
  PROVE  LET e == Head(stream) IN
           /\ e.seq \in Int /\ cursor < e.seq /\ e.seq <= reach /\ e.seq \in Spent
           /\ e.kind = "durable" => e \in Lasting
           /\ \A d \in Lasting : cursor < d.seq /\ d.seq <= e.seq => d = e
<1> DEFINE e == Head(stream)
<1>1. /\ stream \in Seq(Event) /\ Len(stream) \in Nat /\ Len(stream) >= 1
      /\ e = stream[1] /\ e \in Event /\ \A i \in 1..Len(stream) : stream[i] \in Event
  BY Advanced DEF FeedInv, FollowTypeOK
<1> HIDE DEF e
<1>2. 1 \in 1..Len(stream) /\ e.seq \in Int /\ reach \in Int
  BY <1>1 DEF Event, FeedInv, FollowTypeOK
<1>3. /\ cursor < e.seq /\ e.seq <= reach /\ e.seq \in Spent
      /\ e.kind = "durable" => e \in Lasting
      /\ \A j \in 1..Len(stream) : 1 < j => e.seq < stream[j].seq
  BY <1>1, <1>2 DEF FeedInv, StreamInv, AllSpent, Lasting
<1>4. ASSUME NEW d \in Lasting, cursor < d.seq, d.seq <= e.seq PROVE d = e
  <2>1. d.seq \in Int /\ d.seq <= reach
    BY <1>2, <1>3, <1>4 DEF Lasting, FeedInv, FollowTypeOK, Event
  <2>2. PICK j \in 1..Len(stream) : stream[j] = d
    BY <1>4, <2>1 DEF FeedInv, StreamInv
  <2>3. ~(1 < j)
    BY <1>2, <1>3, <1>4, <2>1, <2>2
  <2>4. j = 1
    BY <1>1, <2>3
  <2> QED BY <1>1, <2>2, <2>4
<1> QED BY <1>2, <1>3, <1>4 DEF e

LEMMA ReceiveReads ==
  ASSUME FeedInv, Receive
  PROVE  /\ cursor' = Head(stream).seq /\ cursor < cursor'
         /\ got' = got \cup {n \in SeqsOf(Lasting) : cursor < n /\ n <= cursor'}
<1> DEFINE e == Head(stream)
<1>1. stream # <<>>
  BY DEF Receive
<1>2. /\ e.seq \in Int /\ cursor < e.seq
      /\ e.kind = "durable" => e \in Lasting
      /\ \A d \in Lasting : cursor < d.seq /\ d.seq <= e.seq => d = e
  BY <1>1, NextArrives
<1>3. cursor \in Int
  BY DEF FeedInv, FollowTypeOK
<1>4. /\ cursor' = e.seq
      /\ got' = IF e.kind = "durable" THEN got \cup {e.seq} ELSE got
  BY <1>2, <1>3 DEF Receive
<1> DEFINE Between == {n \in SeqsOf(Lasting) : cursor < n /\ n <= e.seq}
<1> HIDE DEF e
<1>5. CASE e.kind = "durable"
  <2>1. Between = {e.seq}
    BY <1>2, <1>3, <1>5 DEF SeqsOf
  <2> QED BY <1>2, <1>4, <1>5, <2>1 DEF e
<1>6. CASE e.kind # "durable"
  <2>1. Between = {}
    BY <1>2, <1>6 DEF SeqsOf, Lasting
  <2> QED BY <1>2, <1>4, <1>6, <2>1 DEF e
<1> QED BY <1>5, <1>6

LEMMA ReceiveFeeds ==
  ASSUME FeedInv, Receive
  PROVE  FeedInv'
<1> DEFINE e == Head(stream)
           n == Len(stream)
<1>1. /\ UNCHANGED <<logVars, place, reach, batch>> /\ stream # <<>>
      /\ stream' = Tail(stream)
  BY DEF Receive
<1>2. FollowTypeOK' /\ OneOpen' /\ Spent' = Spent
  BY <1>1, ClientTyped, OthersSpend DEF FeedInv, logVars
<1>3. /\ cursor' = e.seq /\ e.seq \in Int /\ cursor < e.seq /\ e.seq <= reach
      /\ e.seq \in Spent /\ cursor \in Int
  BY <1>1, NextArrives, ReceiveReads DEF FeedInv, FollowTypeOK
<1>4. /\ n \in Nat /\ n >= 1 /\ Len(stream') = n - 1 /\ e = stream[1]
      /\ \A i \in 1..Len(stream') : stream'[i] = stream[i + 1]
      /\ \A i \in 1..n : stream[i] \in Event
  BY <1>1, Advanced DEF FeedInv, FollowTypeOK
<1> HIDE DEF e
<1>5. \A i \in 1..n :
        /\ cursor < stream[i].seq /\ stream[i].seq <= reach /\ stream[i].seq \in Spent
        /\ stream[i].kind = "durable" => stream[i] \in rows
        /\ \A j \in 1..n : i < j => stream[i].seq < stream[j].seq
  BY DEF FeedInv, StreamInv, AllSpent
<1>6. place # "closed"
  BY <1>1 DEF FeedInv, StreamInv
<1> HIDE DEF n
<1>7. \A i \in 1..Len(stream') : i + 1 \in 1..n /\ 1 \in 1..n /\ 1 < i + 1
  BY <1>4
<1>8. AllSpent'
  <2>1. \A i \in 1..Len(stream') : stream'[i].seq \in Spent
    BY <1>4, <1>5, <1>7
  <2> QED BY <1>1, <1>2, <1>3, <2>1 DEF FeedInv, AllSpent, logVars
<1>9. BatchInv'
  BY <1>1 DEF FeedInv, BatchInv, Lasting, logVars
<1>10. StreamInv'
  <2>1. ASSUME NEW i \in 1..Len(stream')
        PROVE  /\ e.seq < stream'[i].seq /\ stream'[i].seq <= reach
               /\ stream'[i].kind = "durable" => stream'[i] \in rows
               /\ \A j \in 1..Len(stream') : i < j => stream'[i].seq < stream'[j].seq
    <3>1. i + 1 \in 1..n /\ 1 \in 1..n /\ 1 < i + 1 /\ stream'[i] = stream[i + 1]
      BY <1>4, <1>7
    <3>2. ASSUME NEW j \in 1..Len(stream'), i < j
          PROVE  stream'[i].seq < stream'[j].seq
      <4>1. j + 1 \in 1..n /\ i + 1 < j + 1 /\ stream'[j] = stream[j + 1]
        BY <1>4, <1>7, <3>2
      <4> QED BY <1>5, <3>1, <4>1
    <3> QED BY <1>4, <1>5, <3>1, <3>2
  <2>2. ASSUME NEW d \in Lasting, e.seq < d.seq, d.seq <= reach
        PROVE  \E i \in 1..Len(stream') : stream'[i] = d
    <3>1. d.seq \in Int
      BY DEF Lasting, FeedInv, FollowTypeOK, Event
    <3>2. PICK j \in 1..n : stream[j] = d
      BY <1>3, <2>2, <3>1 DEF FeedInv, StreamInv, n
    <3>3. j # 1
      BY <1>3, <1>4, <2>2, <3>1, <3>2
    <3>4. j - 1 \in 1..Len(stream') /\ (j - 1) + 1 = j
      BY <1>4, <3>3
    <3> QED BY <1>4, <3>2, <3>4
  <2>3. Lasting' = Lasting /\ rows' = rows /\ reach' = reach /\ place' = place
    BY <1>1 DEF Lasting, logVars
  <2> QED BY <1>3, <1>6, <2>1, <2>2, <2>3 DEF StreamInv
<1> QED BY <1>2, <1>8, <1>9, <1>10 DEF FeedInv

\* A stream that is closed starts over from the client's cursor.
LEMMA ClosedFeeds ==
  ASSUME FeedInv, Close, UNCHANGED logVars, cursor' \in Spent, FollowTypeOK'
  PROVE  FeedInv'
<1>1. /\ place' = "closed" /\ reach' = -1 /\ batch' = {} /\ stream' = <<>>
      /\ rows' = rows /\ Lasting' = Lasting
  BY DEF Close, logVars, Lasting
<1>2. OneOpen' /\ Spent' = Spent
  BY OthersSpend DEF FeedInv, logVars
<1>3. -1 \in Spent
  BY DEF FeedInv, FollowTypeOK, Spent
<1>4. AllSpent' /\ BatchInv'
  BY <1>1, <1>2, <1>3 DEF FeedInv, AllSpent, BatchInv
<1>5. StreamInv'
  <2>1. cursor' \in Int /\ \A d \in Lasting : d.seq \in Nat
    BY DEF FeedInv, FollowTypeOK, Lasting, Event, Spent
  <2>2. Spent = Spent'
    BY <1>2
  <2>3. \A d \in Lasting : ~(d.seq <= -1)
    BY <2>1
  <2> QED BY <1>1, <2>3 DEF StreamInv
<1> QED BY <1>2, <1>4, <1>5 DEF FeedInv

LEMMA ClientFeeds ==
  ASSUME FeedInv, Break \/ Load
  PROVE  FeedInv'
<1>1. Close /\ UNCHANGED logVars /\ FollowTypeOK'
  BY ClientTyped DEF Break, Load, FeedInv
<1>2. cursor' \in Spent
  <2>1. CASE Break
    BY <2>1 DEF Break, clientVars, FeedInv, AllSpent
  <2>2. CASE Load
    <3>1. -1 \in Spent /\ SeqsOf(rows) \subseteq Spent
      BY DEF FeedInv, FollowTypeOK, Spent, AllSpent, SeqsOf
    <3> QED BY <2>2, <3>1 DEF Load
  <2> QED BY <2>1, <2>2
<1> QED BY <1>1, <1>2, ClosedFeeds

LEMMA StepFeeds == FeedInv /\ [FollowNext]_threadFollowVars => FeedInv'
<1> SUFFICES ASSUME FeedInv, [FollowNext]_threadFollowVars PROVE FeedInv'
  OBVIOUS
<1>1. CASE UNCHANGED threadFollowVars
  <2>1. UNCHANGED <<logVars, place, reach, batch, stream, clientVars>>
    BY <1>1 DEF threadFollowVars, followVars
  <2>2. FollowTypeOK' /\ OneOpen' /\ Spent' = Spent
    BY <1>1, <2>1, StepTyped, OthersSpend DEF FeedInv, logVars
  <2>3. AllSpent'
    BY <2>1, <2>2 DEF FeedInv, AllSpent, logVars, clientVars
  <2>4. BatchInv' /\ StreamInv'
    BY <2>1 DEF FeedInv, BatchInv, StreamInv, Lasting, logVars, clientVars
  <2> QED BY <2>2, <2>3, <2>4 DEF FeedInv
<1> QED BY <1>1, WritersFeed, LinkFeeds, ClearFeeds, FollowerFeeds, ReceiveFeeds,
           ClientFeeds DEF FollowNext

\* Each step adds later events, moves the reader on, loads the page, or changes
\* nothing the feed speaks of.
LEMMA StepRefines ==
  ASSUME FeedInv, [FollowNext]_threadFollowVars
  PROVE  [Feed!Append \/ Feed!Read \/ Feed!Load]_<<SeqsOf(Lasting), cursor, got>>
<1>1. ASSUME NEW w \in Writers, Write(w)
      PROVE  [Feed!Append]_<<SeqsOf(Lasting), cursor, got>>
  <2>1. UNCHANGED <<cursor, got>>
    BY <1>1 DEF Write, Begin, Commit, Rollback, Publish, PublishFails, clientVars
  <2>2. CASE Commit(w)
    <3>1. /\ Lasting \subseteq Lasting' /\ Lasting' \subseteq Lasting \cup NewEvents(w)
          /\ \A e \in NewEvents(w) : \A n \in Spent : n < e.seq
      BY <2>2, CommitAdds
    <3>2. /\ cursor \in Spent /\ SeqsOf(Lasting) \subseteq Spent
          /\ Spent \subseteq Int /\ \A e \in NewEvents(w) : e.seq \in Int
      BY NewNumbers DEF FeedInv, AllSpent, Lasting, SeqsOf, Spent
    <3>3. SeqsOf(Lasting) \subseteq SeqsOf(Lasting')
      BY <3>1 DEF SeqsOf
    <3>4. ASSUME NEW n \in SeqsOf(Lasting') \ SeqsOf(Lasting)
          PROVE  n > cursor /\ \A d \in SeqsOf(Lasting) : n > d
      <4>1. PICK e \in NewEvents(w) : n = e.seq
        BY <3>1 DEF SeqsOf
      <4> QED BY <3>1, <3>2, <4>1
    <3>5. SeqsOf(Lasting)' = SeqsOf(Lasting')
      BY DEF SeqsOf
    <3> QED BY <2>1, <3>3, <3>4, <3>5 DEF Feed!Append
  <2>3. CASE ~Commit(w)
    <3>1. rows' = rows
      BY <1>1, <2>3 DEF Write, Begin, Rollback, Publish, PublishFails
    <3> QED BY <2>1, <3>1 DEF Lasting, SeqsOf
  <2> QED BY <2>2, <2>3
<1>2. CASE Receive
  <2>1. UNCHANGED SeqsOf(Lasting)
    BY <1>2 DEF Receive, logVars, Lasting, SeqsOf
  <2>2. cursor < cursor' /\ cursor \in Int /\ cursor' \in Int
    BY <1>2, ReceiveReads, ClientTyped DEF FeedInv, FollowTypeOK
  <2> QED BY <1>2, <2>1, <2>2, ReceiveReads DEF Feed!Read
<1>3. CASE Load
  <2>1. UNCHANGED SeqsOf(Lasting)
    BY <1>3 DEF Load, logVars, Lasting, SeqsOf
  <2>2. \A d \in SeqsOf(Lasting) : d <= cursor'
    BY <1>3 DEF Load, Lasting, SeqsOf
  <2> QED BY <1>3, <2>1, <2>2 DEF Load, Feed!Load
<1>4. CASE ClearProgress
  BY <1>4 DEF ClearProgress, Lasting, SeqsOf, clientVars
<1>5. CASE Connect \/ Listen \/ Connected \/ Disconnect \/ HandleNotification
  BY <1>5 DEF Connect, Listen, Connected, Disconnect, HandleNotification, logVars,
              clientVars, Lasting, SeqsOf
<1>6. CASE Follow \/ Generate
  BY <1>6 DEF Follow, Generate, Look, Fetch, Yield, EndOfBatch, Wake, CatchUp, logVars,
              clientVars, Lasting, SeqsOf
<1>7. CASE Break
  BY <1>7 DEF Break, logVars, clientVars, Lasting, SeqsOf
<1>8. CASE UNCHANGED threadFollowVars
  BY <1>8 DEF threadFollowVars, logVars, clientVars, Lasting, SeqsOf
<1> QED BY <1>1, <1>2, <1>3, <1>4, <1>5, <1>6, <1>7, <1>8 DEF FollowNext

\* The thread is followed without gaps: the log, the notifications, the follower
\* and a client that reconnects from its cursor implement the feed.
THEOREM FeedImplemented == FollowSpec => ImplementsFeed
<1>1. FollowInit => Feed!FeedInit
  BY DEF FollowInit, Feed!FeedInit, SeqsOf, Lasting
<1> QED BY <1>1, InitFeeds, StepFeeds, StepRefines, PTL
        DEF FollowSpec, ImplementsFeed, Feed!FeedSpec
=============================================================================
