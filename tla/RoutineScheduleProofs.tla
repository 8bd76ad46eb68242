------------------------ MODULE RoutineScheduleProofs ------------------------
(***************************************************************************)
(* Why a scheduled time makes one run, for any number of routines,         *)
(* workers, requests and reconcilers and any clock skew.  The transaction  *)
(* of wakeRoutine compares the row with the time of its job, so a run can  *)
(* come only of a time that stands in the row, and the time that stands    *)
(* there has not been paid for yet: it has fired no oftener than it was    *)
(* put back.  That is the invariant.                                       *)
(*                                                                         *)
(* Then the types, of routines and of the runs that move side by side with *)
(* them.                                                                   *)
(***************************************************************************)
EXTENDS MCRunRoutine, RunLifecycleProofs, FiniteSetTheorems, WellFoundedInduction, TLAPS

HandlerFields == {"at", "routine", "time", "next", "run"}
RequestFields == {"at", "routine", "active", "next", "sync", "run"}

Tables ==
  /\ now \in Nat
  /\ row \in [Routines -> [state : {"absent", "there", "gone"}, active : BOOLEAN,
                           next : Times \union {Null}]]
  /\ fired \in [Routines -> [Times -> Nat]]
  /\ restored \in [Routines -> [Times -> Nat]]

\* What a handler has computed when it comes to its transaction.
Handlers ==
  /\ DOMAIN handler = Workers
  /\ \A w \in Workers :
       /\ DOMAIN handler[w] = HandlerFields
       /\ handler[w].at # "free" => handler[w].routine \in Routines
       /\ handler[w].at = "claim" =>
            /\ handler[w].next \in Times
            /\ handler[w].next # handler[w].time

\* What an update has read.
Updates ==
  /\ DOMAIN request = Requests
  /\ \A q \in Requests :
       /\ DOMAIN request[q] = RequestFields
       /\ request[q].at = "write" => /\ request[q].routine \in Routines
                                     /\ request[q].next \in Times \union {Null}

\* Ids are new: a routine that has not been created has not fired.
Unborn ==
  \A r \in Routines : row[r].state = "absent" =>
    row[r].next = Null /\ \A t \in Times : fired[r][t] = 0

\* The time in the row may still fire once.
Standing ==
  \A r \in Routines, t \in Times : row[r].next = t => fired[r][t] <= restored[r][t]

PaidInv == Tables /\ Handlers /\ Updates /\ Unborn /\ Standing /\ OneRunPerTime

(***************************************************************************)
(* Times are numbers, and none of them is nextRunAt null.                  *)
(***************************************************************************)
LEMMA TimesAreNumbers == Times \subseteq Nat /\ Null \notin Times
BY RoutineConstants DEF Times, Null

(***************************************************************************)
(* A row that stays, with the counts that go with it, stays paid for.      *)
(***************************************************************************)
LEMMA SameRow ==
  ASSUME PaidInv, UNCHANGED <<row, fired, restored>>, now' \in Nat
  PROVE  Tables' /\ Unborn' /\ Standing' /\ OneRunPerTime'
BY DEF PaidInv, Tables, Unborn, Standing, OneRunPerTime

(***************************************************************************)
(* Initially nothing is scheduled and nobody works.                        *)
(***************************************************************************)
LEMMA PaidAtFirst == RoutineInit => PaidInv
<1> SUFFICES ASSUME RoutineInit PROVE PaidInv
  OBVIOUS
<1>1. Tables
  BY DEF RoutineInit, Tables, NoRow
<1>2. Handlers
  BY DEF RoutineInit, Handlers, FreeWorker, HandlerFields
<1>3. Updates
  BY DEF RoutineInit, Updates, FreeRequest, RequestFields
<1>4. Unborn
  BY DEF RoutineInit, Unborn, NoRow
<1>5. Standing /\ OneRunPerTime
  BY TimesAreNumbers DEF RoutineInit, Standing, OneRunPerTime, NoRow
<1> QED BY <1>1, <1>2, <1>3, <1>4, <1>5 DEF PaidInv

(***************************************************************************)
(* wakeRoutine: only the transaction touches the row.                      *)
(***************************************************************************)
LEMMA HandlersPay ==
  ASSUME PaidInv, NEW w \in Workers,
         HandlerStep(w) \/ FailWake(w) \/ \E r \in Routines : HandOut(w, r)
  PROVE  PaidInv'
<1> USE DEF HandlerFields
<1>1. /\ UNCHANGED <<now, request>>
      /\ Updates'
  BY DEF PaidInv, Updates, RequestFields, HandlerStep, ReadRoutine, Defer, ClaimTime, EnqueueNext,
         EnqueueRoutineRun, FailWake, HandOut, ByWorker
<1>2. CASE ReadRoutine(w)
  <2>1. UNCHANGED <<row, fired, restored>>
    BY <1>2 DEF ReadRoutine, tally
  <2> DEFINE h == handler[w]
  <2>2. h.at = "read" /\ h.routine \in Routines /\ DOMAIN h = HandlerFields
    BY <1>2 DEF ReadRoutine, PaidInv, Handlers
  <2>3. ASSUME handler' = [handler EXCEPT ![w] = FreeWorker] \/ WakeAt(w, "defer")
        PROVE  Handlers'
    BY <2>2, <2>3 DEF PaidInv, Handlers, FreeWorker, WakeAt
  <2>4. ASSUME Stands(h.routine, h.time), h.time <= now,
               \E t \in Later(now) : handler' = [handler EXCEPT ![w].at = "claim", ![w].next = t]
        PROVE  Handlers'
    <3>1. PICK t \in Later(now) :
            handler' = [handler EXCEPT ![w].at = "claim", ![w].next = t]
      BY <2>4
    <3>2. t \in Times /\ t # h.time
      BY <2>2, <2>4, TimesAreNumbers DEF PaidInv, Tables, Stands, Later, Null
    <3> QED BY <2>2, <3>1, <3>2 DEF PaidInv, Handlers
  <2>5. Handlers'
    BY <1>2, <2>3, <2>4 DEF ReadRoutine, EndWake
  <2> QED BY <1>1, <2>1, <2>5, SameRow DEF PaidInv, Tables
<1>3. CASE Defer(w) \/ EnqueueNext(w) \/ EnqueueRoutineRun(w) \/ FailWake(w)
           \/ \E r \in Routines : HandOut(w, r)
  <2>1. UNCHANGED <<row, fired, restored>>
    BY <1>3 DEF Defer, EnqueueNext, EnqueueRoutineRun, FailWake, HandOut, tally
  <2>2. \/ handler' = [handler EXCEPT ![w] = FreeWorker]
        \/ handler[w].at # "free" /\ handler' = [handler EXCEPT ![w].at = "run"]
        \/ \E r \in Routines : handler' = [handler EXCEPT ![w] =
              [FreeWorker EXCEPT !.at = "read", !.routine = r, !.time = wakeJob[r]]]
    BY <1>3 DEF Defer, EnqueueNext, EnqueueRoutineRun, FailWake, HandOut, EndWake, WakeAt
  <2>3. CASE \/ handler' = [handler EXCEPT ![w] = FreeWorker]
             \/ handler[w].at # "free" /\ handler' = [handler EXCEPT ![w].at = "run"]
    <3>1. Handlers'
      BY <2>3 DEF PaidInv, Handlers, FreeWorker
    <3> QED BY <1>1, <2>1, <3>1, SameRow DEF PaidInv, Tables
  <2>4. ASSUME NEW r \in Routines, handler' = [handler EXCEPT ![w] =
                 [FreeWorker EXCEPT !.at = "read", !.routine = r, !.time = wakeJob[r]]]
        PROVE  PaidInv'
    <3>1. Handlers'
      BY <2>4 DEF PaidInv, Handlers, FreeWorker
    <3> QED BY <1>1, <2>1, <3>1, SameRow DEF PaidInv, Tables
  <2> QED BY <2>2, <2>3, <2>4
<1>4. CASE ClaimTime(w)
  <2> DEFINE h == handler[w]
  <2>1. /\ h.at = "claim" /\ h.routine \in Routines
        /\ h.next \in Times /\ h.next # h.time
    BY <1>4 DEF ClaimTime, PaidInv, Handlers
  <2>2. CASE ~Stands(h.routine, h.time)
    <3>1. UNCHANGED <<row, fired, restored>> /\ handler' = [handler EXCEPT ![w] = FreeWorker]
      BY <1>4, <2>2 DEF ClaimTime, tally, EndWake
    <3>2. Handlers'
      BY <3>1 DEF PaidInv, Handlers, FreeWorker
    <3> QED BY <1>1, <3>1, <3>2, SameRow DEF PaidInv, Tables
  <2>3. CASE Stands(h.routine, h.time)
    <3> DEFINE r == h.routine
               u == h.next
    <3>1. /\ row' = [row EXCEPT ![r].next = u]
          /\ fired' = [fired EXCEPT ![r][h.time] = @ + 1]
          /\ restored' = PutBack(r, u)
          /\ handler' = [handler EXCEPT ![w].at = "next", ![w].run = lastRun + 1]
      BY <1>4, <2>3 DEF ClaimTime, Fire
    <3>2. u # Null /\ r \in Routines /\ u \in Times
      BY <2>1, TimesAreNumbers
    <3>3. Handlers'
      BY <2>1, <3>1 DEF PaidInv, Handlers
    <3>4. row' \in [Routines -> [state : {"absent", "there", "gone"}, active : BOOLEAN,
                                 next : Times \union {Null}]]
      BY <3>1, <3>2 DEF PaidInv, Tables
    <3>5. fired' \in [Routines -> [Times -> Nat]]
      <4>1. fired[r] \in [Times -> Nat]
        BY <3>2 DEF PaidInv, Tables
      <4>2. [fired[r] EXCEPT ![h.time] = fired[r][h.time] + 1] \in [Times -> Nat]
        <5>1. CASE h.time \in Times
          BY <4>1, <5>1
        <5>2. CASE h.time = Null
          BY <4>1, <5>2, TimesAreNumbers
        <5>3. h.time \in Times \union {Null}
          BY <2>3, <3>2 DEF Stands, PaidInv, Tables
        <5> QED BY <5>1, <5>2, <5>3
      <4>3. fired' = [fired EXCEPT ![r] = [fired[r] EXCEPT ![h.time] = fired[r][h.time] + 1]]
        BY <3>1
      <4> QED BY <3>2, <4>2, <4>3 DEF PaidInv, Tables
    <3>6. restored' \in [Routines -> [Times -> Nat]]
      BY <3>1, <3>2 DEF PaidInv, Tables, PutBack
    <3>7. Tables'
      BY <1>1, <3>4, <3>5, <3>6 DEF PaidInv, Tables
    <3>8. Unborn'
      BY <2>3, <3>1, <3>2 DEF PaidInv, Tables, Unborn, Stands
    <3>9. \A x \in Routines, t \in Times :
            /\ restored'[x][t] >= restored[x][t]
            /\ ~(x = r /\ t = h.time) => fired'[x][t] = fired[x][t]
            /\ (x = r /\ t = h.time) => fired'[x][t] = fired[x][t] + 1
            /\ (x = r /\ t = u /\ fired[x][t] > 0) => restored'[x][t] = restored[x][t] + 1
      BY <3>1, <3>2 DEF PaidInv, Tables, PutBack
    <3>10. Standing'
      <4> SUFFICES ASSUME NEW x \in Routines, NEW t \in Times, row'[x].next = t
                   PROVE  fired'[x][t] <= restored'[x][t]
        BY DEF Standing
      <4>0. /\ fired[x][t] \in Nat /\ restored[x][t] \in Nat
            /\ fired'[x][t] \in Nat /\ restored'[x][t] \in Nat
        BY <3>5, <3>6 DEF PaidInv, Tables
      <4>1. CASE x = r
        <5>1. t = u
          BY <3>1, <3>2, <4>1 DEF PaidInv, Tables
        <5>2. fired'[x][t] = fired[x][t]
          BY <2>1, <3>9, <5>1
        <5>3. fired[x][t] <= 1 + restored[x][t]
          BY DEF PaidInv, OneRunPerTime
        <5> QED BY <3>9, <4>0, <4>1, <5>1, <5>2, <5>3
      <4>2. CASE x # r
        <5>1. row[x].next = t
          BY <3>1, <3>2, <4>2 DEF PaidInv, Tables
        <5>2. fired[x][t] <= restored[x][t]
          BY <5>1 DEF PaidInv, Standing
        <5> QED BY <3>9, <4>0, <4>2, <5>2
      <4> QED BY <4>1, <4>2
    <3>11. OneRunPerTime'
      <4> SUFFICES ASSUME NEW x \in Routines, NEW t \in Times
                   PROVE  fired'[x][t] <= 1 + restored'[x][t]
        BY DEF OneRunPerTime
      <4>0. /\ fired[x][t] \in Nat /\ restored[x][t] \in Nat
            /\ fired'[x][t] \in Nat /\ restored'[x][t] \in Nat
        BY <3>5, <3>6 DEF PaidInv, Tables
      <4>1. CASE x = r /\ t = h.time
        <5>1. fired[x][t] <= restored[x][t]
          BY <2>3, <4>1 DEF PaidInv, Standing, Stands
        <5> QED BY <3>9, <4>0, <4>1, <5>1
      <4>2. CASE ~(x = r /\ t = h.time)
        <5>1. fired[x][t] <= 1 + restored[x][t]
          BY DEF PaidInv, OneRunPerTime
        <5> QED BY <3>9, <4>0, <4>2, <5>1
      <4> QED BY <4>1, <4>2
    <3> QED BY <1>1, <3>3, <3>7, <3>8, <3>10, <3>11 DEF PaidInv
  <2> QED BY <2>2, <2>3
<1> QED BY <1>2, <1>3, <1>4 DEF HandlerStep

(***************************************************************************)
(* The API: creation gives a time that never fired, an update counts the   *)
(* time that it puts back, and removal leaves none.                        *)
(***************************************************************************)
LEMMA RequestsPay ==
  ASSUME PaidInv, NEW q \in Requests,
         RequestStep(q) \/ FailRequest(q) \/ \E r \in Routines : NewRequest(q, r)
  PROVE  PaidInv'
<1> USE DEF RequestFields
<1>1. UNCHANGED <<now, handler>> /\ Handlers'
  BY DEF PaidInv, Handlers, HandlerFields, RequestStep, WriteUpdate, EnqueueAsked, FailRequest, NewRequest,
         CreateRoutine, RemoveRoutine, TestRun, ReadUpdate, ByRequest
<1>2. CASE EnqueueAsked(q) \/ FailRequest(q) \/ \E r \in Routines : TestRun(q, r)
  <2>1. UNCHANGED <<row, fired, restored>>
    BY <1>2 DEF EnqueueAsked, FailRequest, TestRun, tally
  <2>2. CASE EnqueueAsked(q) \/ FailRequest(q)
    <3>1. request' = [request EXCEPT ![q] = FreeRequest]
      BY <2>2 DEF EnqueueAsked, FailRequest, Reply
    <3>2. Updates'
      BY <3>1 DEF PaidInv, Updates, FreeRequest
    <3> QED BY <1>1, <2>1, <3>2, SameRow DEF PaidInv, Tables
  <2>3. ASSUME NEW r \in Routines, TestRun(q, r)
        PROVE  PaidInv'
    <3>1. request' = [request EXCEPT ![q] = [FreeRequest EXCEPT !.at = "run", !.run = lastRun + 1]]
      BY <2>3 DEF TestRun
    <3>2. Updates'
      BY <3>1 DEF PaidInv, Updates, FreeRequest
    <3> QED BY <1>1, <2>1, <3>2, SameRow DEF PaidInv, Tables
  <2> QED BY <1>2, <2>2, <2>3
<1>3. ASSUME NEW r \in Routines, NEW active \in {"keep", "on", "off"}, NEW newCron \in BOOLEAN,
             ReadUpdate(q, r, active, newCron)
      PROVE  PaidInv'
  <2>1. UNCHANGED <<row, fired, restored>>
    BY <1>3 DEF ReadUpdate, tally
  <2>2. PICK t \in Times \union {Null}, sync \in BOOLEAN :
          request' = [request EXCEPT ![q] =
            [at |-> "write", routine |-> r, active |-> active, next |-> t, run |-> 0,
             sync |-> sync]]
    <3> DEFINE old == row[r]
               on == Chosen(active, old)
               changed == newCron \/ (~old.active /\ on)
               times == IF ~on THEN {Null}
                        ELSE IF changed \/ old.next = Null THEN Later(now) ELSE {old.next}
    <3>1. PICK t \in times :
            request' = [request EXCEPT ![q] =
              [at |-> "write", routine |-> r, active |-> active, next |-> t, run |-> 0,
               sync |-> changed \/ old.active # on \/ (old.next = Null /\ t # Null)]]
      BY <1>3 DEF ReadUpdate
    <3>2. t \in Times \union {Null}
      BY DEF PaidInv, Tables, Later
    <3>3. (changed \/ old.active # on \/ (old.next = Null /\ t # Null)) \in BOOLEAN
      OBVIOUS
    <3> QED BY <3>1, <3>2, <3>3
  <2>3. Updates'
    BY <2>2 DEF PaidInv, Updates
  <2> QED BY <1>1, <2>1, <2>3, SameRow DEF PaidInv, Tables
<1>4. ASSUME NEW r \in Routines, CreateRoutine(q, r)
      PROVE  PaidInv'
  <2>1. /\ row[r].state = "absent" /\ \A t \in Times : fired[r][t] = 0
        /\ UNCHANGED <<fired, restored>>
    BY <1>4 DEF CreateRoutine, PaidInv, Unborn, tally
  <2>2. \E active \in BOOLEAN, t \in Times \union {Null} :
          row' = [row EXCEPT ![r] = [state |-> "there", active |-> active, next |-> t]]
    <3>1. CASE \E t \in Later(now) :
                 row' = [row EXCEPT ![r] = [state |-> "there", active |-> TRUE, next |-> t]]
      BY <3>1 DEF Later
    <3>2. CASE row' = [row EXCEPT ![r] = [state |-> "there", active |-> FALSE, next |-> Null]]
      BY <3>2
    <3> QED BY <1>4, <3>1, <3>2 DEF CreateRoutine
  <2>3. Updates'
    BY <1>4 DEF CreateRoutine, PaidInv, Updates, FreeRequest
  <2>4. Tables' /\ Unborn'
    BY <1>1, <2>1, <2>2 DEF PaidInv, Tables, Unborn
  <2>5. Standing'
    <3>1. PICK active \in BOOLEAN, u \in Times \union {Null} :
            row' = [row EXCEPT ![r] = [state |-> "there", active |-> active, next |-> u]]
      BY <2>2
    <3>2. \A x \in Routines, t \in Times : fired[x][t] \in Nat /\ restored[x][t] \in Nat
      BY DEF PaidInv, Tables
    <3>3. \A x \in Routines : x # r => row'[x] = row[x]
      BY <3>1 DEF PaidInv, Tables
    <3>4. \A t \in Times : fired[r][t] <= restored[r][t]
      BY <2>1, <3>2
    <3> QED BY <2>1, <3>3, <3>4 DEF PaidInv, Standing
  <2>6. OneRunPerTime'
    BY <2>1 DEF PaidInv, OneRunPerTime
  <2> QED BY <1>1, <2>3, <2>4, <2>5, <2>6 DEF PaidInv
<1>5. ASSUME NEW r \in Routines, RemoveRoutine(q, r)
      PROVE  PaidInv'
  <2>1. /\ row' = [row EXCEPT ![r] = [state |-> "gone", active |-> FALSE, next |-> Null]]
        /\ UNCHANGED <<fired, restored>>
    BY <1>5 DEF RemoveRoutine, tally
  <2>2. Updates'
    BY <1>5 DEF RemoveRoutine, PaidInv, Updates, FreeRequest
  <2>3. Tables' /\ Unborn'
    BY <1>1, <2>1 DEF PaidInv, Tables, Unborn
  <2>4. Standing' /\ OneRunPerTime'
    BY <2>1, TimesAreNumbers DEF PaidInv, Tables, Standing, OneRunPerTime
  <2> QED BY <1>1, <2>2, <2>3, <2>4 DEF PaidInv
<1>6. CASE WriteUpdate(q)
  <2> DEFINE r == request[q].routine
             u == request[q].next
             on == Chosen(request[q].active, row[r])
  <2>1. r \in Routines /\ u \in Times \union {Null}
    BY <1>6 DEF WriteUpdate, PaidInv, Updates
  <2>2. fired' = fired
    BY <1>6 DEF WriteUpdate
  <2>3. Updates'
    BY <1>6 DEF WriteUpdate, Reply, PaidInv, Updates, FreeRequest
  <2>4. CASE row[r].state # "there"
    <3>1. UNCHANGED <<row, restored>>
      BY <1>6, <2>4 DEF WriteUpdate
    <3> QED BY <1>1, <2>2, <2>3, <3>1, SameRow DEF PaidInv, Tables
  <2>5. CASE row[r].state = "there"
    <3>1. /\ row' = [row EXCEPT ![r].active = on, ![r].next = u]
          /\ restored' = PutBack(r, u)
      BY <1>6, <2>5 DEF WriteUpdate
    <3>2. on \in BOOLEAN
      BY <2>1 DEF Chosen, PaidInv, Tables
    <3>3. row' \in [Routines -> [state : {"absent", "there", "gone"}, active : BOOLEAN,
                                 next : Times \union {Null}]]
      BY <2>1, <3>1, <3>2 DEF PaidInv, Tables
    <3>4. restored' \in [Routines -> [Times -> Nat]]
      BY <2>1, <3>1 DEF PaidInv, Tables, PutBack
    <3>5. Tables'
      BY <1>1, <2>2, <3>3, <3>4 DEF PaidInv, Tables
    <3>6. Unborn'
      BY <2>1, <2>2, <2>5, <3>1 DEF PaidInv, Tables, Unborn
    <3>7. \A x \in Routines, t \in Times :
            /\ restored'[x][t] >= restored[x][t]
            /\ (x = r /\ t = u /\ fired[x][t] > 0) => restored'[x][t] = restored[x][t] + 1
      BY <2>1, <3>1, TimesAreNumbers DEF PaidInv, Tables, PutBack
    <3>8. \A x \in Routines, t \in Times :
            fired[x][t] <= 1 + restored[x][t] /\ fired[x][t] \in Nat
            /\ restored[x][t] \in Nat /\ restored'[x][t] \in Nat
      BY <3>4 DEF PaidInv, Tables, OneRunPerTime
    <3>9. OneRunPerTime'
      BY <2>2, <3>7, <3>8 DEF OneRunPerTime
    <3>10. Standing'
      <4> SUFFICES ASSUME NEW x \in Routines, NEW t \in Times, row'[x].next = t
                   PROVE  fired[x][t] <= restored'[x][t]
        BY <2>2 DEF Standing
      <4>1. CASE x = r
        <5>1. t = u
          BY <2>1, <3>1, <4>1 DEF PaidInv, Tables
        <5> QED BY <3>7, <3>8, <4>1, <5>1
      <4>2. CASE x # r
        <5>1. row[x].next = t
          BY <2>1, <3>1, <4>2 DEF PaidInv, Tables
        <5>2. fired[x][t] <= restored[x][t]
          BY <5>1 DEF PaidInv, Standing
        <5> QED BY <3>7, <3>8, <5>2
      <4> QED BY <4>1, <4>2
    <3> QED BY <1>1, <2>3, <3>5, <3>6, <3>9, <3>10 DEF PaidInv
  <2> QED BY <2>4, <2>5
<1> QED BY <1>2, <1>3, <1>4, <1>5, <1>6 DEF RequestStep, NewRequest

(***************************************************************************)
(* The clock, the queue of runs and the reconcilers leave the rows alone.  *)
(***************************************************************************)
LEMMA StepsPay == PaidInv /\ [RoutineNext]_routineVars => PaidInv'
<1> SUFFICES ASSUME PaidInv, [RoutineNext]_routineVars PROVE PaidInv'
  OBVIOUS
<1>1. ASSUME UNCHANGED <<row, fired, restored, handler, request>>, now' \in Nat
      PROVE  PaidInv'
  BY <1>1, SameRow DEF PaidInv, Handlers, Updates
<1>2. CASE Tick
  BY <1>1, <1>2 DEF Tick, PaidInv, Tables, tally
<1>3. CASE \E i \in RunNos : TakeRun(i)
  BY <1>1, <1>3 DEF TakeRun, PaidInv, Tables, tally
<1>4. CASE \E p \in Reconcilers : ScanStep(p) \/ FailScan(p) \/ LoseLock(p) \/ LoseClient(p)
  BY <1>1, <1>4 DEF ScanStep, Scan, EnqueueScanned, FailScan, LoseLock, LoseClient,
                    ByReconciler, PaidInv, Tables, tally
<1>5. CASE UNCHANGED routineVars
  BY <1>1, <1>5 DEF routineVars, PaidInv, Tables, tally
<1>6. CASE \E w \in Workers : HandlerStep(w) \/ FailWake(w)
  BY <1>6, HandlersPay
<1>7. CASE \E w \in Workers, r \in Routines : HandOut(w, r)
  BY <1>7, HandlersPay
<1>8. CASE \E q \in Requests : RequestStep(q) \/ FailRequest(q)
  BY <1>8, RequestsPay
<1>9. CASE \E q \in Requests, r \in Routines : NewRequest(q, r)
  BY <1>9, RequestsPay
<1> QED BY <1>2, <1>3, <1>4, <1>5, <1>6, <1>7, <1>8, <1>9 DEF RoutineNext

(***************************************************************************)
(* A scheduled time makes one run, and one more for each time that it was  *)
(* written into the row after it had fired: however many handlers hold a   *)
(* wake-up for it, and whatever the queue and the reconcilers repeat.      *)
(***************************************************************************)
THEOREM OneRun == RoutineSpec => []OneRunPerTime
<1>1. PaidInv => OneRunPerTime
  BY DEF PaidInv
<1> QED BY <1>1, PaidAtFirst, StepsPay, PTL DEF RoutineSpec

-----------------------------------------------------------------------------
(* Cursors: a full batch has a last row. *)

(***************************************************************************)
(* A set of numbers has a least one.                                       *)
(***************************************************************************)
LEMMA LeastOf ==
  ASSUME NEW T \in SUBSET Nat, T # {}
  PROVE  \E x \in T : \A y \in T : x <= y
<1>1. PICK R : R = OpToRel(<, Nat)
  OBVIOUS
<1>2. \E x \in T : \A y \in T : ~(<<y, x>> \in R)
  <2>1. IsWellFoundedOn(R, Nat)
    BY <1>1, NatLessThanWellFounded
  <2>2. T \subseteq Nat
    OBVIOUS
  <2> QED BY <2>1, <2>2, WFMin
<1>3. OpToRel(<, Nat) = {ss \in Nat \X Nat : ss[1] < ss[2]}
  BY DEF OpToRel
<1>4. R = {ss \in Nat \X Nat : ss[1] < ss[2]}
  BY <1>1, <1>3, Zenon
<1>5. ASSUME NEW x \in Nat, NEW y \in Nat, ~(<<y, x>> \in R) PROVE x <= y
  BY <1>4, <1>5
<1> QED BY <1>2, <1>5

(***************************************************************************)
(* The last run of a batch: the bounds of the batch have a least one, and  *)
(* that is a run of it.                                                    *)
(***************************************************************************)
LEMMA LastRunOf ==
  ASSUME NEW S \in SUBSET RunNos, S # {}
  PROVE  \E i \in S : \A j \in S : j <= i
<1> DEFINE bs == {m \in Nat : \A j \in S : j <= m}
<1>0. S \subseteq Nat
  BY RoutineConstants DEF RunNos
<1>1. MaxRoutineRuns \in bs
  BY RoutineConstants DEF RunNos
<1>2. PICK m \in bs : \A y \in bs : m <= y
  BY <1>1, LeastOf
<1>3. m \in S
  <2> SUFFICES ASSUME m \notin S PROVE FALSE
    OBVIOUS
  <2>1. m # 0
    <3>1. PICK j \in S : TRUE
      OBVIOUS
    <3>2. j <= m /\ j >= 1 /\ j \in Nat
      BY <1>2, RoutineConstants DEF RunNos
    <3> QED BY <1>2, <3>2
  <2>2. m - 1 \in Nat
    BY <1>2, <2>1
  <2>3. m - 1 \in bs
    BY <1>0, <1>2, <2>2
  <2> QED BY <1>2, <2>2, <2>3
<1> QED BY <1>2, <1>3

(***************************************************************************)
(* The last routine of a batch, by its time and its id: of the numbers of  *)
(* rows for which there might be none, the least would be the successor of *)
(* one for which there is.                                                 *)
(***************************************************************************)
LEMMA LastRoutineOf ==
  ASSUME NEW S \in SUBSET (Times \X Routines), IsFiniteSet(S), S # {}
  PROVE  \E a \in S : \A b \in S : ~Before(a, b)
<1> DEFINE Rows == Times \X Routines
           Last(T) == \E a \in T : \A b \in T : ~Before(a, b)
           bad == {n \in Nat : \E T \in SUBSET Rows :
                     IsFiniteSet(T) /\ T # {} /\ Cardinality(T) = n /\ ~Last(T)}
<1>0. Times \subseteq Nat /\ Routines \subseteq Nat
  BY RoutineConstants DEF Times
<1>1. SUFFICES ASSUME ~Last(S) PROVE FALSE
  OBVIOUS
<1>2. Cardinality(S) \in bad
  BY <1>1, FS_CardinalityType
<1>3. PICK n \in bad : \A m \in bad : n <= m
  <2>1. bad \subseteq Nat /\ bad # {}
    BY <1>2
  <2> HIDE DEF bad
  <2> QED BY <2>1, LeastOf
<1>4. PICK T \in SUBSET Rows : IsFiniteSet(T) /\ T # {} /\ Cardinality(T) = n /\ ~Last(T)
  OBVIOUS
<1>5. PICK a \in T : TRUE
  BY <1>4
<1>6. a[1] \in Nat /\ a[2] \in Nat /\ ~Before(a, a)
  <2>1. a \in Times \X Routines
    BY <1>5
  <2>2. a[1] \in Nat /\ a[2] \in Nat
    BY <1>0, <2>1
  <2> QED BY <2>2 DEF Before
<1>7. IsFiniteSet(T \ {a}) /\ Cardinality(T \ {a}) = n - 1 /\ n \in Nat
  BY <1>4, FS_RemoveElement
<1>8. T \ {a} # {}
  BY <1>4, <1>6
<1>9. Last(T \ {a})
  <2>1. n - 1 \in Nat
    BY <1>7, FS_CardinalityType
  <2>2. n - 1 \notin bad
    BY <1>3, <1>7
  <2> QED BY <1>7, <1>8, <2>1, <2>2
<1>10. PICK b \in T \ {a} : \A c \in T \ {a} : ~Before(b, c)
  BY <1>9
<1>11. b[1] \in Nat /\ b[2] \in Nat
  BY <1>0
<1>12. CASE Before(b, a)
  <2>1. \A c \in T : ~Before(a, c)
    <3> SUFFICES ASSUME NEW c \in T, Before(a, c) PROVE FALSE
      OBVIOUS
    <3>1. c[1] \in Nat /\ c[2] \in Nat /\ c # a
      BY <1>0, <1>6
    <3>2. Before(b, c)
      BY <1>6, <1>11, <1>12, <3>1 DEF Before
    <3> QED BY <1>10, <3>1, <3>2
  <2> QED BY <1>4, <2>1
<1>13. CASE ~Before(b, a)
  BY <1>4, <1>10, <1>13
<1> QED BY <1>12, <1>13

(***************************************************************************)
(* What the cursors are after a scan that was full, or was not.            *)
(***************************************************************************)
LEMMA CursorsOf ==
  ASSUME NEW runs \in SUBSET RunNos, NEW routines \in SUBSET (Times \X Routines)
  PROVE  /\ (IF Cardinality(runs) = ScanBatch
             THEN CHOOSE i \in runs : \A j \in runs : j <= i ELSE 0) \in 0..MaxRoutineRuns
         /\ (IF Cardinality(routines) = ScanBatch
             THEN CHOOSE a \in routines : \A b \in routines : ~Before(a, b)
             ELSE NoCursor) \in Cursors
<1>1. ASSUME Cardinality(runs) = ScanBatch
      PROVE  (CHOOSE i \in runs : \A j \in runs : j <= i) \in 0..MaxRoutineRuns
  <2>1. runs # {}
    BY <1>1, FS_EmptySet, RoutineConstants
  <2>2. \E i \in runs : \A j \in runs : j <= i
    BY <2>1, LastRunOf
  <2>3. (CHOOSE i \in runs : \A j \in runs : j <= i) \in runs
    BY <2>2, Zenon
  <2>4. \A i \in runs : i \in 0..MaxRoutineRuns
    BY RoutineConstants DEF RunNos
  <2> QED BY <2>3, <2>4, Zenon
<1>2. ASSUME Cardinality(routines) = ScanBatch
      PROVE  (CHOOSE a \in routines : \A b \in routines : ~Before(a, b)) \in Cursors
  <2>1. routines # {}
    BY <1>2, FS_EmptySet, RoutineConstants
  <2>2. IsFiniteSet(routines)
    <3>1. IsFiniteSet(Times)
      BY RoutineConstants, FS_Interval DEF Times
    <3>2. IsFiniteSet(Times \X Routines)
      BY <3>1, RoutineConstants, FS_Product
    <3> QED BY <3>2, FS_Subset
  <2>3. (CHOOSE a \in routines : \A b \in routines : ~Before(a, b)) \in routines
    BY <2>1, <2>2, LastRoutineOf
  <2>4. Times \X Routines \subseteq Cursors
    BY RoutineConstants DEF Times, Cursors
  <2> QED BY <2>3, <2>4
<1>3. NoCursor \in Cursors /\ 0 \in 0..MaxRoutineRuns
  BY RoutineConstants DEF NoCursor, Cursors
<1> QED BY <1>1, <1>2, <1>3
-----------------------------------------------------------------------------
(* The types. *)

HandlerType ==
  [at : {"free", "read", "defer", "claim", "next", "run"},
   routine : Routines \union {0}, time : Times \union {Null},
   next : Times \union {Null}, run : 0..MaxRoutineRuns]
RequestType ==
  [at : {"free", "enqueue", "write", "cancel", "run"},
   routine : Routines \union {0}, active : {"keep", "on", "off"},
   next : Times \union {Null}, sync : BOOLEAN, run : 0..MaxRoutineRuns]
ScanType ==
  [at : {"idle", "enqueue"}, runs : SUBSET RunNos, routines : SUBSET (Times \X Routines),
   runCursor : 0..MaxRoutineRuns, routineCursor : Cursors]

JobsTyped ==
  /\ wakeJob \in [Routines -> Times \union {Null}]
  /\ lastRun \in 0..MaxRoutineRuns
  /\ queued \subseteq RunNos
  /\ runJobs \subseteq RunNos

\* Whoever is about to enqueue a run has created one.
WakesTyped ==
  /\ handler \in [Workers -> HandlerType]
  /\ \A w \in Workers : handler[w].at \in {"next", "run"} => handler[w].run \in RunNos
RequestsTyped ==
  /\ request \in [Requests -> RequestType]
  /\ \A q \in Requests : request[q].at = "run" => request[q].run \in RunNos

ScansTyped ==
  /\ advisory \in Reconcilers \union {Nobody}
  /\ leads \subseteq Reconcilers
  /\ scan \in [Reconcilers -> ScanType]

BoundsTyped == now <= Horizon /\ asked \in 0..MaxAsked /\ routineFaults \in 0..MaxRoutineFaults

RoutineInv ==
  PaidInv /\ JobsTyped /\ WakesTyped /\ RequestsTyped /\ ScansTyped /\ BoundsTyped

(***************************************************************************)
(* These are the parts of the type.                                        *)
(***************************************************************************)
LEMMA RoutineTypeParts == RoutineInv => RoutineTypeOK
<1> SUFFICES ASSUME RoutineInv PROVE RoutineTypeOK
  OBVIOUS
<1>1. now \in 0..Horizon
  BY RoutineConstants DEF RoutineInv, PaidInv, Tables, BoundsTyped
<1> QED
  BY <1>1 DEF RoutineInv, PaidInv, Tables, JobsTyped, WakesTyped, RequestsTyped, ScansTyped,
     BoundsTyped, RoutineTypeOK, HandlerType, RequestType, ScanType

LEMMA RoutinesTypedAtFirst == RoutineInit => RoutineInv
<1> SUFFICES ASSUME RoutineInit PROVE RoutineInv
  OBVIOUS
<1>1. JobsTyped /\ BoundsTyped
  BY RoutineConstants DEF RoutineInit, JobsTyped, BoundsTyped, RunNos
<1>2. WakesTyped /\ RequestsTyped
  BY RoutineConstants DEF RoutineInit, WakesTyped, RequestsTyped, FreeWorker, FreeRequest,
     HandlerType, RequestType, RunNos
<1>3. ScansTyped
  <2>1. NoCursor \in Cursors
    BY RoutineConstants DEF NoCursor, Cursors
  <2> QED BY <2>1, RoutineConstants DEF RoutineInit, ScansTyped, Resting, ScanType
<1> QED BY <1>1, <1>2, <1>3, PaidAtFirst DEF RoutineInv

(***************************************************************************)
(* wakeRoutine.                                                            *)
(***************************************************************************)
LEMMA WakesStayTyped ==
  ASSUME RoutineInv, NEW w \in Workers, HandlerStep(w)
  PROVE  JobsTyped' /\ WakesTyped'
<1> DEFINE h == handler[w]
<1> USE DEF RoutineInv, JobsTyped, WakesTyped
<1>1. h \in HandlerType /\ (h.at # "free" => h.routine \in Routines)
  BY DEF PaidInv, Handlers
<1>2. CASE ReadRoutine(w)
  <2>1. UNCHANGED <<wakeJob, lastRun, queued, runJobs>>
    BY <1>2 DEF ReadRoutine, jobVars, runVars
  <2>2. \/ handler' = [handler EXCEPT ![w] = FreeWorker]
        \/ handler' = [handler EXCEPT ![w].at = "defer"]
        \/ \E t \in Times : handler' = [handler EXCEPT ![w].at = "claim", ![w].next = t]
    BY <1>2 DEF ReadRoutine, EndWake, WakeAt, Later
  <2>3. WakesTyped'
    BY <1>1, <2>2, RoutineConstants DEF HandlerType, FreeWorker
  <2> QED BY <2>1, <2>3
<1>3. CASE Defer(w)
  BY <1>1, <1>3, RoutineConstants
     DEF Defer, EnqueueWake, EndWake, HandlerType, FreeWorker, runVars
<1>4. CASE ClaimTime(w)
  <2>1. CASE Stands(h.routine, h.time)
    <3>1. /\ lastRun < MaxRoutineRuns /\ lastRun' = lastRun + 1
          /\ queued' = queued \union {lastRun + 1}
          /\ handler' = [handler EXCEPT ![w].at = "next", ![w].run = lastRun + 1]
          /\ UNCHANGED <<wakeJob, runJobs>>
      BY <1>4, <2>1 DEF ClaimTime, CreateRoutineRun, jobVars
    <3>2. lastRun + 1 \in RunNos /\ RunNos \subseteq 0..MaxRoutineRuns
      BY <3>1, RoutineConstants DEF RunNos
    <3>3. JobsTyped'
      BY <3>1, <3>2
    <3> QED BY <1>1, <3>1, <3>2, <3>3 DEF HandlerType
  <2>2. CASE ~Stands(h.routine, h.time)
    BY <1>4, <2>2, RoutineConstants
       DEF ClaimTime, EndWake, runVars, jobVars, HandlerType, FreeWorker
  <2> QED BY <2>1, <2>2
<1>5. CASE EnqueueNext(w)
  BY <1>1, <1>5 DEF EnqueueNext, EnqueueWake, WakeAt, HandlerType, runVars
<1>6. CASE EnqueueRoutineRun(w)
  BY <1>1, <1>6, RoutineConstants DEF EnqueueRoutineRun, EndWake, HandlerType, FreeWorker, runVars
<1> QED BY <1>2, <1>3, <1>4, <1>5, <1>6 DEF HandlerStep

LEMMA DeliveriesStayTyped ==
  ASSUME RoutineInv, NEW w \in Workers, FailWake(w) \/ \E r \in Routines : HandOut(w, r)
  PROVE  JobsTyped' /\ WakesTyped'
<1> DEFINE h == handler[w]
<1> USE DEF RoutineInv, JobsTyped, WakesTyped
<1>1. h \in HandlerType /\ (h.at # "free" => h.routine \in Routines)
  BY DEF PaidInv, Handlers
<1>2. CASE FailWake(w)
  BY <1>1, <1>2, RoutineConstants
     DEF FailWake, EndWake, EnqueueWake, HandlerType, FreeWorker, runVars
<1>3. ASSUME NEW r \in Routines, HandOut(w, r) PROVE JobsTyped' /\ WakesTyped'
  <2>1. /\ handler' = [handler EXCEPT ![w] = [FreeWorker EXCEPT !.at = "read", !.routine = r,
                                                                !.time = wakeJob[r]]]
        /\ wakeJob' = [wakeJob EXCEPT ![r] = Null]
        /\ UNCHANGED <<lastRun, queued, runJobs>>
    BY <1>3 DEF HandOut, EnqueueWake, runVars
  <2>2. wakeJob[r] \in Times \union {Null}
    OBVIOUS
  <2>3. ASSUME NEW t \in Times \union {Null}
        PROVE  [FreeWorker EXCEPT !.at = "read", !.routine = r, !.time = t] \in HandlerType
    <3>1. FreeWorker \in HandlerType
      BY RoutineConstants DEF FreeWorker, HandlerType
    <3> QED BY <3>1 DEF HandlerType
  <2>4. [FreeWorker EXCEPT !.at = "read", !.routine = r, !.time = wakeJob[r]].at = "read"
    BY DEF FreeWorker
  <2>5. JobsTyped'
    BY <2>1
  <2> QED BY <2>1, <2>2, <2>3, <2>4, <2>5
<1> QED BY <1>2, <1>3

(***************************************************************************)
(* The handlers of the API.                                                *)
(***************************************************************************)
LEMMA RequestsStayTyped ==
  ASSUME RoutineInv, NEW q \in Requests,
         RequestStep(q) \/ FailRequest(q) \/ \E r \in Routines : NewRequest(q, r)
  PROVE  JobsTyped' /\ RequestsTyped'
<1> DEFINE u == request[q]
<1> USE DEF RoutineInv, JobsTyped, RequestsTyped
<1>1. u \in RequestType /\ FreeRequest \in RequestType
  BY RoutineConstants DEF RequestType, FreeRequest
<1>2. CASE WriteUpdate(q)
  <2>1. UNCHANGED <<wakeJob, lastRun, queued, runJobs>>
    BY <1>2 DEF WriteUpdate, jobVars, runVars
  <2>2. \/ request' = [request EXCEPT ![q] = FreeRequest]
        \/ request' = [request EXCEPT ![q].at = "enqueue"]
        \/ request' = [request EXCEPT ![q].at = "cancel"]
    BY <1>2 DEF WriteUpdate, Reply
  <2>3. JobsTyped'
    BY <2>1
  <2>4. CASE request' = [request EXCEPT ![q] = FreeRequest]
    BY <1>1, <2>3, <2>4 DEF FreeRequest
  <2>5. ASSUME NEW place \in {"enqueue", "cancel"},
               request' = [request EXCEPT ![q] = [u EXCEPT !.at = place]]
        PROVE  RequestsTyped'
    <3>1. [u EXCEPT !.at = place] \in RequestType
      BY <1>1 DEF RequestType
    <3> QED BY <1>1, <2>5, <3>1 DEF RequestType
  <2> QED BY <2>2, <2>3, <2>4, <2>5
<1>3. CASE EnqueueAsked(q)
  <2>1. request' = [request EXCEPT ![q] = FreeRequest] /\ UNCHANGED <<lastRun, queued>>
    BY <1>3 DEF EnqueueAsked, Reply, runVars
  <2>2. RequestsTyped'
    BY <1>1, <2>1 DEF FreeRequest
  <2>3. wakeJob' \in [Routines -> Times \union {Null}] /\ runJobs' \subseteq RunNos
    BY <1>1, <1>3 DEF EnqueueAsked, EnqueueWake, RequestType
  <2> QED BY <2>1, <2>2, <2>3
<1>4. CASE FailRequest(q)
  BY <1>1, <1>4 DEF FailRequest, Reply, FreeRequest, jobVars, runVars
<1>5. ASSUME NEW r \in Routines, CreateRoutine(q, r) \/ RemoveRoutine(q, r)
      PROVE  JobsTyped' /\ RequestsTyped'
  <2>1. UNCHANGED <<wakeJob, lastRun, queued, runJobs>>
    BY <1>5 DEF CreateRoutine, RemoveRoutine, jobVars, runVars
  <2>2. \/ UNCHANGED request
        \/ \E t \in Times : request' = [request EXCEPT ![q] =
             [FreeRequest EXCEPT !.at = "enqueue", !.routine = r, !.next = t]]
        \/ request' = [request EXCEPT ![q] = [FreeRequest EXCEPT !.at = "cancel", !.routine = r]]
    BY <1>5 DEF CreateRoutine, RemoveRoutine, Later
  <2>3. /\ \A t \in Times : [FreeRequest EXCEPT !.at = "enqueue", !.routine = r, !.next = t]
                             \in RequestType
        /\ [FreeRequest EXCEPT !.at = "cancel", !.routine = r] \in RequestType
    BY <1>1 DEF RequestType, FreeRequest
  <2> QED BY <2>1, <2>2, <2>3 DEF FreeRequest
<1>6. ASSUME NEW r \in Routines, TestRun(q, r) PROVE JobsTyped' /\ RequestsTyped'
  <2>1. /\ lastRun < MaxRoutineRuns /\ lastRun' = lastRun + 1
        /\ queued' = queued \union {lastRun + 1}
        /\ request' = [request EXCEPT ![q] = [FreeRequest EXCEPT !.at = "run", !.run = lastRun + 1]]
        /\ UNCHANGED <<wakeJob, runJobs>>
    BY <1>6 DEF TestRun, CreateRoutineRun, jobVars
  <2>2. lastRun + 1 \in RunNos /\ RunNos \subseteq 0..MaxRoutineRuns
    BY <2>1, RoutineConstants DEF RunNos
  <2>3. [FreeRequest EXCEPT !.at = "run", !.run = lastRun + 1] \in RequestType
    BY <1>1, <2>2 DEF RequestType, FreeRequest
  <2>4. JobsTyped'
    BY <2>1, <2>2
  <2> QED BY <2>1, <2>2, <2>3, <2>4 DEF FreeRequest
<1>7. ASSUME NEW r \in Routines, NEW active \in {"keep", "on", "off"}, NEW newCron \in BOOLEAN,
             ReadUpdate(q, r, active, newCron)
      PROVE  JobsTyped' /\ RequestsTyped'
  <2>1. UNCHANGED <<wakeJob, lastRun, queued, runJobs>>
    BY <1>7 DEF ReadUpdate, jobVars, runVars
  <2>2. \E t \in Times \union {Null}, sync \in BOOLEAN :
          request' = [request EXCEPT ![q] =
            [at |-> "write", routine |-> r, active |-> active, next |-> t, run |-> 0,
             sync |-> sync]]
    <3> DEFINE old == row[r]
               on == Chosen(active, old)
               changed == newCron \/ (~old.active /\ on)
               times == IF ~on THEN {Null}
                        ELSE IF changed \/ old.next = Null THEN Later(now) ELSE {old.next}
    <3>1. PICK t \in times :
            request' = [request EXCEPT ![q] =
              [at |-> "write", routine |-> r, active |-> active, next |-> t, run |-> 0,
               sync |-> changed \/ old.active # on \/ (old.next = Null /\ t # Null)]]
      BY <1>7 DEF ReadUpdate
    <3>2. t \in Times \union {Null}
      BY DEF PaidInv, Tables, Later
    <3>3. (changed \/ old.active # on \/ (old.next = Null /\ t # Null)) \in BOOLEAN
      OBVIOUS
    <3> QED BY <3>1, <3>2, <3>3
  <2>3. \A t \in Times \union {Null}, sync \in BOOLEAN :
          [at |-> "write", routine |-> r, active |-> active, next |-> t, run |-> 0,
           sync |-> sync] \in RequestType
    BY RoutineConstants DEF RequestType
  <2> QED BY <2>1, <2>2, <2>3
<1> QED BY <1>2, <1>3, <1>4, <1>5, <1>6, <1>7 DEF RequestStep, NewRequest

(***************************************************************************)
(* The reconcilers.                                                        *)
(***************************************************************************)
LEMMA RowsEnqueued ==
  ASSUME RoutineInv, NEW runs \in SUBSET RunNos, NEW routines \in SUBSET (Times \X Routines),
         EnqueueRows(runs, routines)
  PROVE  runJobs' \subseteq RunNos /\ wakeJob' \in [Routines -> Times \union {Null}]
<1>1. ASSUME NEW r \in Routines, \E a \in routines : a[2] = r
      PROVE  (CHOOSE a \in routines : a[2] = r)[1] \in Times
  <2>1. (CHOOSE a \in routines : a[2] = r) \in routines
    BY <1>1
  <2>2. \A a \in routines : a[1] \in Times
    OBVIOUS
  <2> QED BY <2>1, <2>2
<1> QED BY <1>1 DEF RoutineInv, JobsTyped, EnqueueRows

LEMMA ScansStayTyped ==
  ASSUME RoutineInv, NEW p \in Reconcilers,
         ScanStep(p) \/ FailScan(p) \/ LoseLock(p) \/ LoseClient(p)
  PROVE  JobsTyped' /\ ScansTyped'
<1> DEFINE s == scan[p]
<1>1. s \in ScanType /\ UNCHANGED <<lastRun, queued>>
  BY DEF RoutineInv, ScansTyped, ScanStep, Scan, EnqueueScanned, FailScan, LoseLock, LoseClient,
         ByReconciler, runVars
<1>2. ASSUME NEW place \in {"idle", "enqueue"}, NEW c \in 0..MaxRoutineRuns, NEW d \in Cursors,
             NEW runs \in SUBSET RunNos, NEW routines \in SUBSET (Times \X Routines)
      PROVE  [at |-> place, runs |-> runs, routines |-> routines, runCursor |-> c,
              routineCursor |-> d] \in ScanType
  BY DEF ScanType
<1>3. s.runs \in SUBSET RunNos /\ s.routines \in SUBSET (Times \X Routines)
  BY <1>1 DEF ScanType
<1>4. 0 \in 0..MaxRoutineRuns /\ NoCursor \in Cursors
  BY RoutineConstants DEF NoCursor, Cursors
<1>5. CASE Scan(p)
  <2> DEFINE due == {<<row[r].next, r>> : r \in {r \in Routines :
                row[r].active /\ row[r].next # Null /\ row[r].next <= now + Ahead}}
             runs == FirstRuns({i \in queued : i > s.runCursor})
             routines == FirstRoutines({a \in due : Before(s.routineCursor, a)})
  <2>1. due \subseteq Times \X Routines
    BY DEF RoutineInv, PaidInv, Tables
  <2>2. runs \subseteq RunNos /\ routines \subseteq Times \X Routines
    BY <2>1 DEF RoutineInv, JobsTyped, FirstRuns, FirstRoutines
  <2>3. scan' = [scan EXCEPT ![p].at = "enqueue", ![p].runs = runs, ![p].routines = routines]
    BY <1>5 DEF Scan
  <2> HIDE DEF due, runs, routines
  <2>4. [s EXCEPT !.at = "enqueue", !.runs = runs, !.routines = routines] \in ScanType
    BY <1>1, <2>2 DEF ScanType
  <2>5. scan' = [scan EXCEPT ![p] = [s EXCEPT !.at = "enqueue", !.runs = runs,
                                               !.routines = routines]]
    BY <2>3
  <2>6. scan' \in [Reconcilers -> ScanType]
    BY <2>4, <2>5 DEF RoutineInv, ScansTyped
  <2>7. JobsTyped'
    BY <1>1, <1>5 DEF Scan, jobVars, RoutineInv, JobsTyped
  <2>8. advisory' \in Reconcilers \union {Nobody} /\ leads' \subseteq Reconcilers
    BY <1>5 DEF Scan, RoutineInv, ScansTyped
  <2> QED BY <2>6, <2>7, <2>8 DEF ScansTyped
<1>6. CASE EnqueueScanned(p)
  <2> DEFINE c == IF Cardinality(s.runs) = ScanBatch
                  THEN CHOOSE i \in s.runs : \A j \in s.runs : j <= i ELSE 0
             d == IF Cardinality(s.routines) = ScanBatch
                  THEN CHOOSE a \in s.routines : \A b \in s.routines : ~Before(a, b)
                  ELSE NoCursor
  <2>1. c \in 0..MaxRoutineRuns /\ d \in Cursors
    BY <1>3, CursorsOf
  <2>2. scan' = [scan EXCEPT ![p] = [Resting EXCEPT !.runCursor = c, !.routineCursor = d]]
    BY <1>6 DEF EnqueueScanned
  <2>3. EnqueueRows(s.runs, s.routines) /\ UNCHANGED <<advisory, leads>>
    BY <1>6 DEF EnqueueScanned
  <2> HIDE DEF c, d
  <2>4. Resting \in ScanType
    BY <1>2, <1>4 DEF Resting
  <2>5. [Resting EXCEPT !.runCursor = c, !.routineCursor = d] \in ScanType
    BY <2>1, <2>4 DEF ScanType
  <2>6. JobsTyped'
    BY <1>1, <1>3, <2>3, RowsEnqueued DEF RoutineInv, JobsTyped
  <2> QED BY <2>2, <2>3, <2>5, <2>6 DEF RoutineInv, ScansTyped
<1>7. CASE FailScan(p)
  <2>1. PICK runs \in SUBSET s.runs, routines \in SUBSET s.routines : EnqueueRows(runs, routines)
    BY <1>7 DEF FailScan
  <2>2. JobsTyped'
    BY <1>1, <1>3, <2>1, RowsEnqueued DEF RoutineInv, JobsTyped
  <2>3. UNCHANGED <<advisory, leads>>
        /\ \/ scan' = [scan EXCEPT ![p] = [Resting EXCEPT !.runCursor = s.runCursor,
                                                         !.routineCursor = s.routineCursor]]
           \/ scan' = [scan EXCEPT ![p] = Resting]
    BY <1>7 DEF FailScan
  <2>4. Resting \in ScanType
    BY <1>2, <1>4 DEF Resting
  <2>5. [Resting EXCEPT !.runCursor = s.runCursor, !.routineCursor = s.routineCursor] \in ScanType
    BY <1>1, <2>4 DEF ScanType
  <2> QED BY <2>2, <2>3, <2>4, <2>5 DEF RoutineInv, ScansTyped
<1>8. CASE LoseLock(p) \/ LoseClient(p)
  BY <1>1, <1>8 DEF LoseLock, LoseClient, jobVars, RoutineInv, JobsTyped, ScansTyped
<1> QED BY <1>5, <1>6, <1>7, <1>8 DEF ScanStep

(***************************************************************************)
(* Every step keeps the types.                                             *)
(***************************************************************************)
LEMMA RoutinesStayTyped == RoutineInv /\ [RoutineNext]_routineVars => RoutineInv'
<1> SUFFICES ASSUME RoutineInv, [RoutineNext]_routineVars PROVE RoutineInv'
  OBVIOUS
<1> DEFINE Rest == JobsTyped' /\ WakesTyped' /\ RequestsTyped' /\ ScansTyped' /\ BoundsTyped'
<1>0. PaidInv'
  BY StepsPay DEF RoutineInv
<1> USE DEF RoutineInv
<1>1. ASSUME Tick PROVE Rest
  <2>1. /\ UNCHANGED <<wakeJob, runJobs, lastRun, queued, handler, request, advisory, leads, scan>>
        /\ UNCHANGED <<asked, routineFaults>> /\ now < Horizon /\ now' = now + 1
    BY <1>1 DEF Tick, jobVars, runVars, bounds
  <2>2. JobsTyped' /\ ScansTyped'
    BY <2>1 DEF JobsTyped, ScansTyped
  <2>3. WakesTyped' /\ RequestsTyped'
    BY <2>1 DEF WakesTyped, RequestsTyped
  <2>4. BoundsTyped'
    BY <2>1, RoutineConstants DEF BoundsTyped, PaidInv, Tables
  <2> QED BY <2>2, <2>3, <2>4
<1>2. ASSUME NEW i \in RunNos, TakeRun(i) PROVE Rest
  BY <1>2 DEF TakeRun, bounds, JobsTyped, WakesTyped, RequestsTyped, ScansTyped, BoundsTyped
<1>3. ASSUME NEW w \in Workers, HandlerStep(w) PROVE Rest
  <2>1. UNCHANGED <<now, request, advisory, leads, scan, asked, routineFaults>>
    BY <1>3 DEF HandlerStep, ReadRoutine, Defer, ClaimTime, EnqueueNext, EnqueueRoutineRun,
                ByWorker, bounds
  <2> QED BY <1>3, <2>1, WakesStayTyped DEF RequestsTyped, ScansTyped, BoundsTyped
<1>4. ASSUME NEW w \in Workers, FailWake(w) \/ \E r \in Routines : HandOut(w, r) PROVE Rest
  <2>1. /\ UNCHANGED <<now, request, advisory, leads, scan, asked>>
        /\ \/ UNCHANGED routineFaults
           \/ routineFaults < MaxRoutineFaults /\ routineFaults' = routineFaults + 1
    BY <1>4 DEF FailWake, HandOut, ByWorker, bounds
  <2>2. BoundsTyped'
    BY <2>1, RoutineConstants DEF BoundsTyped
  <2> QED BY <1>4, <2>1, <2>2, DeliveriesStayTyped DEF RequestsTyped, ScansTyped
<1>5. ASSUME NEW q \in Requests,
             RequestStep(q) \/ FailRequest(q) \/ \E r \in Routines : NewRequest(q, r)
      PROVE  Rest
  <2>1. /\ UNCHANGED <<now, handler, advisory, leads, scan>>
        /\ UNCHANGED asked \/ (asked < MaxAsked /\ asked' = asked + 1)
        /\ \/ UNCHANGED routineFaults
           \/ routineFaults < MaxRoutineFaults /\ routineFaults' = routineFaults + 1
    BY <1>5 DEF RequestStep, FailRequest, NewRequest, WriteUpdate, EnqueueAsked, CreateRoutine,
                RemoveRoutine, TestRun, ReadUpdate, Accept, ByRequest
  <2>2. BoundsTyped'
    BY <2>1, RoutineConstants DEF BoundsTyped
  <2> QED BY <1>5, <2>1, <2>2, RequestsStayTyped DEF WakesTyped, ScansTyped
<1>6. ASSUME NEW p \in Reconcilers, ScanStep(p) \/ FailScan(p) \/ LoseLock(p) \/ LoseClient(p)
      PROVE  Rest
  <2>1. /\ UNCHANGED <<now, handler, request, asked>>
        /\ \/ UNCHANGED routineFaults
           \/ routineFaults < MaxRoutineFaults /\ routineFaults' = routineFaults + 1
    BY <1>6 DEF ScanStep, Scan, EnqueueScanned, FailScan, LoseLock, LoseClient, ByReconciler
  <2>2. BoundsTyped'
    BY <2>1, RoutineConstants DEF BoundsTyped
  <2> QED BY <1>6, <2>1, <2>2, ScansStayTyped DEF WakesTyped, RequestsTyped
<1>7. ASSUME UNCHANGED routineVars PROVE Rest
  <2>1. /\ UNCHANGED <<now, wakeJob, runJobs, lastRun, queued, handler, request, advisory, leads>>
        /\ UNCHANGED <<scan, asked, routineFaults>>
    BY <1>7 DEF routineVars, jobVars, runVars, bounds
  <2>2. JobsTyped' /\ ScansTyped' /\ BoundsTyped'
    BY <2>1 DEF JobsTyped, ScansTyped, BoundsTyped
  <2>3. WakesTyped' /\ RequestsTyped'
    BY <2>1 DEF WakesTyped, RequestsTyped
  <2> QED BY <2>2, <2>3
<1>8. Rest
  BY <1>1, <1>2, <1>3, <1>4, <1>5, <1>6, <1>7 DEF RoutineNext
<1> QED BY <1>0, <1>8

-----------------------------------------------------------------------------
(* Runs and routines side by side. *)

BothInv == part \in Parts /\ TypeInv /\ RoutineInv

(***************************************************************************)
(* Whichever of the two moves keeps its types, and the other stays.        *)
(***************************************************************************)
LEMMA BothStay == BothInv /\ [RunRoutineNext]_runRoutineVars => BothInv'
<1> SUFFICES ASSUME BothInv, [RunRoutineNext]_runRoutineVars PROVE BothInv'
  OBVIOUS
<1>1. part' = part /\ [Next]_vars /\ [RoutineNext]_routineVars
  BY DEF RunRoutineNext, runRoutineVars
<1>2. TypeInv'
  BY <1>1, RowsStayTyped, SlotsStayTyped DEF BothInv, TypeInv
<1>3. RoutineInv'
  BY <1>1, RoutinesStayTyped DEF BothInv
<1> QED BY <1>1, <1>2, <1>3 DEF BothInv

(***************************************************************************)
(* Every variable of the component that moves keeps its type: among other  *)
(* things, a cursor of the reconciler always is a row of its batch or the  *)
(* start, although it is chosen among rows that may be gone, and whoever   *)
(* is about to enqueue a run has created one.                              *)
(***************************************************************************)
THEOREM RunRoutineStaysTyped == RunRoutineSpec => []RunRoutineTypeOK
<1>1. RunRoutineInit => BothInv
  BY InitTypes, RoutinesTypedAtFirst DEF RunRoutineInit, BothInv
<1>2. BothInv => RunRoutineTypeOK
  BY TypeParts, RoutineTypeParts DEF BothInv, TypeInv, RunRoutineTypeOK
<1> QED BY <1>1, <1>2, BothStay, PTL DEF RunRoutineSpec
=============================================================================
