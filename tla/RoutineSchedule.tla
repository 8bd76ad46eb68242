--------------------------- MODULE RoutineSchedule ---------------------------
(***************************************************************************)
(* Routines and the jobs that wake them: the routine handlers of the API,  *)
(* wakeRoutine, the keyed job queue, and the reconciler that enqueues what *)
(* a lost job left behind, a batch after the other, in the process that    *)
(* holds the advisory lock.                                                *)
(*                                                                         *)
(* Time is counted in ticks of a cron's resolution; the second by which    *)
(* wakeRoutine may be early is less than a tick.  A cron is any choice of  *)
(* a later tick (module Cron has the real one).                            *)
(***************************************************************************)
EXTENDS Naturals, FiniteSets

CONSTANTS
  Routines,     \* ids of the rows of a table, in the order of the database
  Workers,      \* bound: wake-ups handled at once
  Requests,     \* bound: requests of the API under way at once
  Reconcilers,  \* processes with a reconciler
  Nobody,       \* no holder of the lock
  Horizon,      \* bound: the last tick
  Ahead,        \* ROUTINE_LOOKAHEAD_MS in ticks
  Skew,         \* how far the database's clock may be ahead of a worker's
  ScanBatch,    \* batchSize
  MaxRoutineRuns,      \* bound: runs, numbered in the order of their creation
  MaxAsked,     \* bound: requests in all
  MaxRoutineFaults     \* bound: failed steps and lost connections

ASSUME RoutineConstants ==
  /\ Routines \subseteq Nat \ {0} /\ IsFiniteSet(Routines)
  /\ Nobody \notin Reconcilers
  /\ Horizon \in Nat /\ Ahead \in Nat /\ Skew \in Nat
  /\ ScanBatch \in Nat \ {0}
  /\ MaxRoutineRuns \in Nat /\ MaxAsked \in Nat /\ MaxRoutineFaults \in Nat

VARIABLES
  now,        \* the clock
  row,        \* the routines table; next 0 is nextRunAt null
  wakeJob,    \* the job with the routine's key that waits, by its time; 0 is none
  lastRun,    \* runs created so far
  queued,     \* runs nobody has taken yet
  runJobs,    \* runs with a waiting run.continue job
  handler,    \* wakeRoutine in each worker
  request,    \* the API's handler in each request
  advisory,   \* who holds the advisory lock
  leads,      \* reconcilers with a leaderClient
  scan,       \* what each reconciler still has to enqueue, and its cursors
  fired,      \* how many runs each routine got for each time
  restored,   \* how often a time that had fired was written into the row again
  asked, routineFaults

jobVars == <<wakeJob, runJobs>>
runVars == <<lastRun, queued>>
tally == <<fired, restored>>
bounds == <<asked, routineFaults>>
routineVars == <<now, row, jobVars, runVars, handler, request, advisory, leads, scan,
                 tally, bounds>>

Times == 1..(Horizon + 1)
RunNos == 1..MaxRoutineRuns
Null == 0
Later(t) == {u \in Times : u > t}      \* what nextCronDate may answer

NoRow == [state |-> "absent", active |-> FALSE, next |-> Null]
FreeWorker == [at |-> "free", routine |-> 0, time |-> Null, next |-> Null, run |-> 0]
FreeRequest == [at |-> "free", routine |-> 0, active |-> "keep", next |-> Null,
                sync |-> FALSE, run |-> 0]
NoCursor == <<0, 0>>                      \* no cursor
Resting == [at |-> "idle", runs |-> {}, routines |-> {}, runCursor |-> 0,
            routineCursor |-> NoCursor]

Cursors == (0..(Horizon + 1)) \X (Routines \union {0})

(***************************************************************************)
(* Every variable has its type.                                            *)
(***************************************************************************)
RoutineTypeOK ==
  /\ now \in 0..Horizon
  /\ row \in [Routines -> [state : {"absent", "there", "gone"}, active : BOOLEAN,
                           next : Times \union {Null}]]
  /\ wakeJob \in [Routines -> Times \union {Null}]
  /\ lastRun \in 0..MaxRoutineRuns
  /\ queued \subseteq RunNos
  /\ runJobs \subseteq RunNos
  /\ handler \in [Workers ->
       [at : {"free", "read", "defer", "claim", "next", "run"},
        routine : Routines \union {0}, time : Times \union {Null},
        next : Times \union {Null}, run : 0..MaxRoutineRuns]]
  /\ request \in [Requests ->
       [at : {"free", "enqueue", "write", "cancel", "run"},
        routine : Routines \union {0}, active : {"keep", "on", "off"},
        next : Times \union {Null}, sync : BOOLEAN, run : 0..MaxRoutineRuns]]
  /\ advisory \in Reconcilers \union {Nobody}
  /\ leads \subseteq Reconcilers
  /\ scan \in [Reconcilers ->
       [at : {"idle", "enqueue"}, runs : SUBSET RunNos,
        routines : SUBSET (Times \X Routines), runCursor : 0..MaxRoutineRuns,
        routineCursor : Cursors]]
  /\ fired \in [Routines -> [Times -> Nat]]
  /\ restored \in [Routines -> [Times -> Nat]]
  /\ asked \in 0..MaxAsked
  /\ routineFaults \in 0..MaxRoutineFaults

RoutineInit ==
  /\ now = 0
  /\ row = [r \in Routines |-> NoRow]
  /\ wakeJob = [r \in Routines |-> Null]
  /\ lastRun = 0
  /\ queued = {}
  /\ runJobs = {}
  /\ handler = [w \in Workers |-> FreeWorker]
  /\ request = [q \in Requests |-> FreeRequest]
  /\ advisory = Nobody
  /\ leads = {}
  /\ scan = [p \in Reconcilers |-> Resting]
  /\ fired = [r \in Routines |-> [t \in Times |-> 0]]
  /\ restored = [r \in Routines |-> [t \in Times |-> 0]]
  /\ asked = 0
  /\ routineFaults = 0

-----------------------------------------------------------------------------

Tick ==
  /\ now < Horizon
  /\ now' = now + 1
  /\ UNCHANGED <<row, jobVars, runVars, handler, request, advisory, leads, scan, tally, bounds>>

\* addJob under the routine's key: the job that waits is replaced.
EnqueueWake(r, t) == wakeJob' = [wakeJob EXCEPT ![r] = t]

\* A task and a queued run.
CreateRoutineRun ==
  /\ lastRun < MaxRoutineRuns
  /\ lastRun' = lastRun + 1
  /\ queued' = queued \union {lastRun + 1}

\* run.continue finds the run (module RunLifecycle has the rest).
TakeRun(i) ==
  /\ i \in runJobs
  /\ runJobs' = runJobs \ {i}
  /\ queued' = queued \ {i}
  /\ UNCHANGED <<now, row, wakeJob, lastRun, handler, request, advisory, leads, scan, tally,
                 bounds>>

-----------------------------------------------------------------------------
(* wakeRoutine *)

WakeAt(w, place) == handler' = [handler EXCEPT ![w].at = place]
EndWake(w) == handler' = [handler EXCEPT ![w] = FreeWorker]
ByWorker == UNCHANGED <<now, request, advisory, leads, scan, bounds>>

\* The queue hands out a job whose time its own clock has reached.
HandOut(w, r) ==
  /\ handler[w].at = "free"
  /\ wakeJob[r] # Null
  /\ wakeJob[r] <= now + Skew
  /\ handler' = [handler EXCEPT ![w] = [FreeWorker EXCEPT !.at = "read", !.routine = r,
                                                          !.time = wakeJob[r]]]
  /\ EnqueueWake(r, Null)
  /\ UNCHANGED <<row, runJobs, runVars, tally>>
  /\ ByWorker

Stands(r, t) == row[r].state = "there" /\ row[r].active /\ row[r].next = t

\* The routine as it is now, and the time after this one.
ReadRoutine(w) ==
  LET h == handler[w] IN
  /\ h.at = "read"
  /\ \/ ~Stands(h.routine, h.time) /\ EndWake(w)
     \/ Stands(h.routine, h.time) /\ h.time > now /\ WakeAt(w, "defer")
     \/ /\ Stands(h.routine, h.time)
        /\ h.time <= now
        /\ \E t \in Later(now) :
             handler' = [handler EXCEPT ![w].at = "claim", ![w].next = t]
  /\ UNCHANGED <<row, jobVars, runVars, tally>>
  /\ ByWorker

\* deferFutureRoutine
Defer(w) ==
  /\ handler[w].at = "defer"
  /\ EnqueueWake(handler[w].routine, handler[w].time)
  /\ EndWake(w)
  /\ UNCHANGED <<row, runJobs, runVars, tally>>
  /\ ByWorker

Fire(r, t) == fired' = [fired EXCEPT ![r][t] = @ + 1]

\* A time goes into the row that had fired before: counted.
PutBack(r, t) ==
  IF t # Null /\ fired[r][t] > 0 THEN [restored EXCEPT ![r][t] = @ + 1] ELSE restored

\* Mutant: the transaction asks only whether the routine is active.
ClaimTimeAnyhow(w) ==
  LET h == handler[w] IN
  /\ h.at = "claim"
  /\ IF row[h.routine].state = "there" /\ row[h.routine].active
     THEN /\ row' = [row EXCEPT ![h.routine].next = h.next]
          /\ Fire(h.routine, h.time)
          /\ restored' = PutBack(h.routine, h.next)
          /\ CreateRoutineRun
          /\ handler' = [handler EXCEPT ![w].at = "next", ![w].run = lastRun + 1]
     ELSE /\ EndWake(w)
          /\ UNCHANGED <<row, runVars, tally>>
  /\ UNCHANGED jobVars
  /\ ByWorker

\* The transaction: whoever still finds the time in the row replaces it, and
\* creates the run.
ClaimTime(w) ==
  LET h == handler[w] IN
  /\ h.at = "claim"
  /\ IF Stands(h.routine, h.time)
     THEN /\ row' = [row EXCEPT ![h.routine].next = h.next]
          /\ Fire(h.routine, h.time)
          /\ restored' = PutBack(h.routine, h.next)
          /\ CreateRoutineRun
          /\ handler' = [handler EXCEPT ![w].at = "next", ![w].run = lastRun + 1]
     ELSE /\ EndWake(w)
          /\ UNCHANGED <<row, runVars, tally>>
  /\ UNCHANGED jobVars
  /\ ByWorker

EnqueueNext(w) ==
  /\ handler[w].at = "next"
  /\ EnqueueWake(handler[w].routine, handler[w].next)
  /\ WakeAt(w, "run")
  /\ UNCHANGED <<row, runJobs, runVars, tally>>
  /\ ByWorker

EnqueueRoutineRun(w) ==
  /\ handler[w].at = "run"
  /\ runJobs' = runJobs \union {handler[w].run}
  /\ EndWake(w)
  /\ UNCHANGED <<row, wakeJob, runVars, tally>>
  /\ ByWorker

\* A statement throws or the worker dies.  The queue tries the job again,
\* unless a job with its key has come meanwhile; the queue in memory does not.
FailWake(w) ==
  LET h == handler[w] IN
  /\ h.at # "free"
  /\ routineFaults < MaxRoutineFaults
  /\ routineFaults' = routineFaults + 1
  /\ EndWake(w)
  /\ \/ UNCHANGED wakeJob
     \/ wakeJob[h.routine] = Null /\ EnqueueWake(h.routine, h.time)
  /\ UNCHANGED <<now, row, runJobs, runVars, request, advisory, leads, scan, tally, asked>>

-----------------------------------------------------------------------------
(* The handlers of the API. *)

Accept(q) ==
  /\ request[q].at = "free"
  /\ asked < MaxAsked
  /\ asked' = asked + 1
Reply(q) == request' = [request EXCEPT ![q] = FreeRequest]
ByRequest == UNCHANGED <<now, handler, advisory, leads, scan, routineFaults>>

\* routines.create: an active routine gets its first time, and a job after that.
CreateRoutine(q, r) ==
  /\ Accept(q)
  /\ row[r].state = "absent"
  /\ \/ /\ \E t \in Later(now) :
             /\ row' = [row EXCEPT ![r] = [state |-> "there", active |-> TRUE, next |-> t]]
             /\ request' = [request EXCEPT ![q] = [FreeRequest EXCEPT
                              !.at = "enqueue", !.routine = r, !.next = t]]
     \/ /\ row' = [row EXCEPT ![r] = [state |-> "there", active |-> FALSE, next |-> Null]]
        /\ UNCHANGED request
  /\ UNCHANGED <<jobVars, runVars, tally>>
  /\ ByRequest

\* input.active ?? existing.active
Chosen(active, old) == active = "on" \/ (active = "keep" /\ old.active)

\* routines.update reads the row and computes the time to write: none when
\* inactive, the old one when the schedule stays, and a new one otherwise.
ReadUpdate(q, r, active, newCron) ==
  LET old == row[r]
      on == Chosen(active, old)
      changed == newCron \/ (~old.active /\ on)
      times == IF ~on THEN {Null}
               ELSE IF changed \/ old.next = Null THEN Later(now) ELSE {old.next} IN
  /\ Accept(q)
  /\ old.state = "there"
  /\ \E t \in times :
       request' = [request EXCEPT ![q] =
         [at |-> "write", routine |-> r, active |-> active, next |-> t, run |-> 0,
          sync |-> changed \/ old.active # on \/ (old.next = Null /\ t # Null)]]
  /\ UNCHANGED <<row, jobVars, runVars, tally>>
  /\ ByRequest

\* ... and writes it over whatever the row has become.
WriteUpdate(q) ==
  LET u == request[q]
      old == row[u.routine]
      on == Chosen(u.active, old) IN
  /\ u.at = "write"
  /\ IF old.state = "there"
     THEN /\ row' = [row EXCEPT ![u.routine].active = on, ![u.routine].next = u.next]
          /\ restored' = PutBack(u.routine, u.next)
          /\ IF u.sync
             THEN request' = [request EXCEPT ![q].at =
                                IF on /\ u.next # Null THEN "enqueue" ELSE "cancel"]
             ELSE Reply(q)
     ELSE Reply(q) /\ UNCHANGED <<row, restored>>
  /\ UNCHANGED <<jobVars, runVars, fired, asked>>
  /\ ByRequest

\* routines.remove
RemoveRoutine(q, r) ==
  /\ Accept(q)
  /\ row[r].state = "there"
  /\ row' = [row EXCEPT ![r] = [state |-> "gone", active |-> FALSE, next |-> Null]]
  /\ request' = [request EXCEPT ![q] = [FreeRequest EXCEPT !.at = "cancel", !.routine = r]]
  /\ UNCHANGED <<jobVars, runVars, tally>>
  /\ ByRequest

\* routines.testRun
TestRun(q, r) ==
  /\ Accept(q)
  /\ row[r].state = "there"
  /\ CreateRoutineRun
  /\ request' = [request EXCEPT ![q] = [FreeRequest EXCEPT !.at = "run", !.run = lastRun + 1]]
  /\ UNCHANGED <<row, jobVars, tally>>
  /\ ByRequest

\* The job of the request, after the row.
EnqueueAsked(q) ==
  /\ request[q].at \in {"enqueue", "cancel", "run"}
  /\ IF request[q].at = "run"
     THEN /\ runJobs' = runJobs \union {request[q].run}
          /\ UNCHANGED wakeJob
     ELSE /\ EnqueueWake(request[q].routine,
                         IF request[q].at = "enqueue" THEN request[q].next ELSE Null)
          /\ UNCHANGED runJobs
  /\ Reply(q)
  /\ UNCHANGED <<row, runVars, tally, asked>>
  /\ ByRequest

FailRequest(q) ==
  /\ request[q].at # "free"
  /\ routineFaults < MaxRoutineFaults
  /\ routineFaults' = routineFaults + 1
  /\ Reply(q)
  /\ UNCHANGED <<now, row, jobVars, runVars, handler, advisory, leads, scan, tally, asked>>

-----------------------------------------------------------------------------
(* reconcileOnce *)

Before(a, b) == a[1] < b[1] \/ (a[1] = b[1] /\ a[2] < b[2])
FirstRuns(S) == {i \in S : Cardinality({j \in S : j < i}) < ScanBatch}
FirstRoutines(S) == {a \in S : Cardinality({b \in S : Before(b, a)}) < ScanBatch}

ByReconciler == UNCHANGED <<now, row, runVars, handler, request, tally, asked>>

\* tryAcquire, and the two queries behind the cursors.
Scan(p) ==
  LET due == {<<row[r].next, r>> : r \in {r \in Routines :
                row[r].active /\ row[r].next # Null /\ row[r].next <= now + Ahead}} IN
  /\ scan[p].at = "idle"
  /\ p \in leads \/ advisory = Nobody
  /\ advisory' = IF p \in leads THEN advisory ELSE p
  /\ leads' = leads \union {p}
  /\ scan' = [scan EXCEPT
       ![p].at = "enqueue",
       ![p].runs = FirstRuns({i \in queued : i > scan[p].runCursor}),
       ![p].routines = FirstRoutines({a \in due : Before(scan[p].routineCursor, a)})]
  /\ UNCHANGED <<jobVars, routineFaults>>
  /\ ByReconciler

\* Mutants: the reconciler forgets the routines, or the runs.
EnqueueRunsOnly(runs, routines) == runJobs' = runJobs \union runs /\ UNCHANGED wakeJob
EnqueueRoutinesOnly(runs, routines) ==
  /\ wakeJob' = [r \in Routines |->
       IF \E a \in routines : a[2] = r
       THEN (CHOOSE a \in routines : a[2] = r)[1] ELSE wakeJob[r]]
  /\ UNCHANGED runJobs

\* The jobs of some of the rows; each has a key of its own.
EnqueueRows(runs, routines) ==
  /\ runJobs' = runJobs \union runs
  /\ wakeJob' = [r \in Routines |->
       IF \E a \in routines : a[2] = r
       THEN (CHOOSE a \in routines : a[2] = r)[1] ELSE wakeJob[r]]

\* A full batch moves the cursor to its last row, a shorter one resets it.
EnqueueScanned(p) ==
  LET s == scan[p] IN
  /\ s.at = "enqueue"
  /\ EnqueueRows(s.runs, s.routines)
  /\ scan' = [scan EXCEPT ![p] =
       [Resting EXCEPT
         !.runCursor = IF Cardinality(s.runs) = ScanBatch
                       THEN CHOOSE i \in s.runs : \A j \in s.runs : j <= i ELSE 0,
         !.routineCursor = IF Cardinality(s.routines) = ScanBatch
                           THEN CHOOSE a \in s.routines : \A b \in s.routines : ~Before(a, b)
                           ELSE NoCursor]]
  /\ UNCHANGED <<advisory, leads, routineFaults>>
  /\ ByReconciler

\* Some enqueue fails, or the process dies: the others are done or not, and the
\* cursors stay, or are gone.
FailScan(p) ==
  LET s == scan[p] IN
  /\ s.at = "enqueue"
  /\ routineFaults < MaxRoutineFaults
  /\ routineFaults' = routineFaults + 1
  /\ \E runs \in SUBSET s.runs, routines \in SUBSET s.routines : EnqueueRows(runs, routines)
  /\ \E kept \in BOOLEAN :
       scan' = [scan EXCEPT ![p] =
         IF kept THEN [Resting EXCEPT !.runCursor = s.runCursor,
                                      !.routineCursor = s.routineCursor]
         ELSE Resting]
  /\ UNCHANGED <<advisory, leads>>
  /\ ByReconciler

\* The server ends the session, and with it the lock; the process finds out
\* later, by loseClient, or was the one that released it.
LoseLock(p) ==
  /\ advisory = p
  /\ routineFaults < MaxRoutineFaults
  /\ routineFaults' = routineFaults + 1
  /\ advisory' = Nobody
  /\ UNCHANGED <<jobVars, leads, scan>>
  /\ ByReconciler

LoseClient(p) ==
  /\ p \in leads
  /\ advisory # p
  /\ leads' = leads \ {p}
  /\ UNCHANGED <<jobVars, advisory, scan, routineFaults>>
  /\ ByReconciler

HandlerStep(w) ==
  ReadRoutine(w) \/ Defer(w) \/ ClaimTime(w) \/ EnqueueNext(w) \/ EnqueueRoutineRun(w)
RequestStep(q) == WriteUpdate(q) \/ EnqueueAsked(q)
NewRequest(q, r) ==
  \/ CreateRoutine(q, r)
  \/ RemoveRoutine(q, r)
  \/ TestRun(q, r)
  \/ \E active \in {"keep", "on", "off"}, newCron \in BOOLEAN :
       ReadUpdate(q, r, active, newCron)
ScanStep(p) == Scan(p) \/ EnqueueScanned(p)

RoutineNext ==
  \/ Tick
  \/ \E i \in RunNos : TakeRun(i)
  \/ \E w \in Workers : HandlerStep(w) \/ FailWake(w)
  \/ \E w \in Workers, r \in Routines : HandOut(w, r)
  \/ \E q \in Requests : RequestStep(q) \/ FailRequest(q)
  \/ \E q \in Requests, r \in Routines : NewRequest(q, r)
  \/ \E p \in Reconcilers : ScanStep(p) \/ FailScan(p) \/ LoseLock(p) \/ LoseClient(p)

RoutineSpec == RoutineInit /\ [][RoutineNext]_routineVars

\* The timer of the reconciler fires, the queue hands out some job while it has
\* one, and handlers go on.
RoutineFairness ==
  /\ \A p \in Reconcilers : WF_routineVars(ScanStep(p)) /\ WF_routineVars(LoseClient(p))
  /\ \A w \in Workers : WF_routineVars(HandlerStep(w))
  /\ WF_routineVars(\E w \in Workers, r \in Routines : HandOut(w, r))
  /\ WF_routineVars(\E i \in RunNos : TakeRun(i))

FairRoutine == RoutineSpec /\ RoutineFairness

-----------------------------------------------------------------------------
(***************************************************************************)
(* A scheduled time makes one run, however often its wake-up is delivered, *)
(* deferred, tried again or enqueued by reconcilers that all believe to    *)
(* lead; one more for each time that an update, or a handler that stood    *)
(* still, wrote it into the row although it had fired in the meantime.     *)
(***************************************************************************)
OneRunPerTime ==
  \A r \in Routines, t \in Times : fired[r][t] <= 1 + restored[r][t]

(***************************************************************************)
(* A time that has come does not stay: the routine fires, or someone       *)
(* changes it, although wake-ups are lost, replaced by stale ones, or      *)
(* behind a full batch of the reconciler.                                  *)
(***************************************************************************)
DueFires ==
  \A r \in Routines, t \in 1..Horizon :
    (Stands(r, t) /\ t <= now) ~> ~Stands(r, t)

(***************************************************************************)
(* A run that a routine created is taken, although its job was lost and    *)
(* others fill the batches before it.                                      *)
(***************************************************************************)
RunsTaken == \A i \in RunNos : i \in queued ~> i \notin queued
=============================================================================
