---------------------------- MODULE RunLifecycle ----------------------------
(***************************************************************************)
(* The life of a run: the API handlers that create, stop, answer and       *)
(* release it, the job queue and the reconciler that hand it to a worker,  *)
(* and RunExecutor.continueRun, which leases it, opens an attempt, works,  *)
(* and pauses, finishes, fails or gives it back.                           *)
(*                                                                         *)
(* Every database statement (or transaction) of the code is one step.      *)
(* What continueRun read before an await is kept in the slot's own         *)
(* variables and may be stale when it is used.  The model, the tools, the  *)
(* computer and the wording of messages are abstracted: a turn ends in     *)
(* whatever way the code lets it end.                                      *)
(***************************************************************************)
EXTENDS Naturals

CONSTANTS
  Runs,        \* run ids of one bot; a run is absent until a handler creates it
  NoRun,       \* what an idle slot works on
  Tasks,       \* job slots of the workers: concurrent calls of continueRun
  Owners,      \* values a worker passes as workerId (process.pid)
  OwnerOf,     \* the workerId of each slot; the slots of one process share it
  NoOwner,     \* leaseOwner = null
  MaxFaults,   \* bound: thrown errors, crashes and leases lost while held
  MaxResumes   \* bound: calls of answer and release

ASSUME LifecycleConstants ==
  /\ NoRun \notin Runs
  /\ OwnerOf \in [Tasks -> Owners]
  /\ NoOwner \notin Owners
  /\ MaxFaults \in Nat
  /\ MaxResumes \in Nat

VARIABLES
  status,      \* run.status, "absent" before the row exists
  owner,       \* run.leaseOwner
  fence,       \* run.leaseFence
  expires,     \* run.leaseExpiresAt: null, in the future, or past
  announced,   \* since it was last leased, the run put an ask or computer
               \* block in the thread (a history of publishMessage)
  settled,     \* how often finalizeRun has committed for the run
  answers,     \* how often answer has been called for the run
  api,         \* what the handler that touched the run has left to do
  pending,     \* run.continue jobs of the run waiting in the queue
  pc,          \* where each slot is in continueRun
  work,        \* the run a slot works on
  token,       \* the slot's `fence`, computed from the row it read
  valid,       \* the slot's `leaseValid`
  aim,         \* the status the slot is about to give the run
  faults,      \* faults so far
  resumes      \* answers and releases so far

rowVars == <<status, owner, fence, expires>>
dbVars == <<rowVars, announced, settled, answers>>
localVars == <<work, token, valid, aim>>
vars == <<dbVars, api, pending, pc, localVars, faults, resumes>>

Waiting == {"waiting_input", "waiting_takeover"}
Leased == {"leased", "running"}
ActiveStatuses == {"queued"} \union Leased \union Waiting
Terminal == {"completed", "failed", "cancelled"}
Outcomes == {"completed", "failed"}

\* Places in continueRun, in the order of the code.  From "setup" on the slot
\* has (or is creating) an attempt row.  Only the slot itself writes that row,
\* in the steps that write the run, and nothing reads it back: it is left out.
Working == {"setup", "turn", "announce", "pause", "finalize", "release"}
Places == {"idle", "claim", "start"} \union Working

(***************************************************************************)
(* Every variable has its type, and a slot that is busy works on a run.    *)
(***************************************************************************)
TypeOK ==
  /\ status \in [Runs -> ActiveStatuses \union Terminal \union {"absent"}]
  /\ owner \in [Runs -> Owners \union {NoOwner}]
  /\ fence \in [Runs -> Nat]
  /\ expires \in [Runs -> {"null", "future", "past"}]
  /\ announced \in [Runs -> BOOLEAN]
  /\ settled \in [Runs -> Nat]
  /\ answers \in [Runs -> Nat]
  /\ api \in [Runs -> {"idle", "supersede", "enqueue"}]
  /\ pending \in [Runs -> Nat]
  /\ pc \in [Tasks -> Places]
  /\ work \in [Tasks -> Runs \union {NoRun}]
  /\ \A t \in Tasks : pc[t] # "idle" => work[t] \in Runs
  /\ token \in [Tasks -> Nat]
  /\ valid \in [Tasks -> BOOLEAN]
  /\ aim \in [Tasks -> {"none"} \union Waiting \union Outcomes]
  /\ faults \in Nat
  /\ resumes \in Nat

Init ==
  /\ status = [r \in Runs |-> "absent"]
  /\ owner = [r \in Runs |-> NoOwner]
  /\ fence = [r \in Runs |-> 0]
  /\ expires = [r \in Runs |-> "null"]
  /\ announced = [r \in Runs |-> FALSE]
  /\ settled = [r \in Runs |-> 0]
  /\ answers = [r \in Runs |-> 0]
  /\ api = [r \in Runs |-> "idle"]
  /\ pending = [r \in Runs |-> 0]
  /\ pc = [t \in Tasks |-> "idle"]
  /\ work = [t \in Tasks |-> NoRun]
  /\ token = [t \in Tasks |-> 0]
  /\ valid = [t \in Tasks |-> FALSE]
  /\ aim = [t \in Tasks |-> "none"]
  /\ faults = 0
  /\ resumes = 0

-----------------------------------------------------------------------------
(* The job queue, as the code uses it. *)

\* addJob with jobKey run:<id>: a job of that key that is not being worked on
\* is replaced, so enqueuing twice leaves one job.
Enqueue(r) == pending' = [pending EXCEPT ![r] = IF @ = 0 THEN 1 ELSE @]

\* The run was created by send, followUp, a routine, a peer message or the
\* like.  send goes on to cancel the bot's other queued runs.
CreateRun(r) ==
  /\ status[r] = "absent"
  /\ status' = [status EXCEPT ![r] = "queued"]
  /\ \E next \in {"supersede", "enqueue"} : api' = [api EXCEPT ![r] = next]
  /\ UNCHANGED <<owner, fence, expires, announced, settled, answers, pending,
                 pc, localVars, faults, resumes>>

SupersedeQueued(r) ==
  /\ api[r] = "supersede"
  /\ status' = [q \in Runs |-> IF q # r /\ status[q] = "queued"
                               THEN "cancelled" ELSE status[q]]
  /\ api' = [api EXCEPT ![r] = "enqueue"]
  /\ UNCHANGED <<owner, fence, expires, announced, settled, answers, pending,
                 pc, localVars, faults, resumes>>

EnqueueRun(r) ==
  /\ api[r] = "enqueue"
  /\ Enqueue(r)
  /\ api' = [api EXCEPT ![r] = "idle"]
  /\ UNCHANGED <<dbVars, pc, localVars, faults, resumes>>

\* Slip: stop also cancels the runs that are over.
StopEverything ==
  /\ \E r \in Runs : status[r] # "absent"
  /\ status' = [r \in Runs |-> IF status[r] # "absent"
                               THEN "cancelled" ELSE status[r]]
  /\ UNCHANGED <<owner, fence, expires, announced, settled, answers, api,
                 pending, pc, localVars, faults, resumes>>

\* threads.stop: one statement cancels every active run of the bot, and the
\* lease columns stay as they are.
Stop ==
  /\ \E r \in Runs : status[r] \in ActiveStatuses
  /\ status' = [r \in Runs |-> IF status[r] \in ActiveStatuses
                               THEN "cancelled" ELSE status[r]]
  /\ UNCHANGED <<owner, fence, expires, announced, settled, answers, api,
                 pending, pc, localVars, faults, resumes>>

\* threads.answer: the row goes to queued whatever its status was, and the job
\* follows.  (The answer becomes the task's prompt.)
Answer(r) ==
  /\ resumes < MaxResumes
  /\ status[r] # "absent"
  /\ api[r] = "idle"
  /\ status' = [status EXCEPT ![r] = "queued"]
  /\ answers' = [answers EXCEPT ![r] = @ + 1]
  /\ api' = [api EXCEPT ![r] = "enqueue"]
  /\ resumes' = resumes + 1
  /\ UNCHANGED <<owner, fence, expires, announced, settled, pending, pc,
                 localVars, faults>>

\* computer.release: only the job; continueRun itself leaves waiting_takeover.
ReleaseTakeover(r) ==
  /\ resumes < MaxResumes
  /\ status[r] = "waiting_takeover"
  /\ api[r] = "idle"
  /\ api' = [api EXCEPT ![r] = "enqueue"]
  /\ resumes' = resumes + 1
  /\ UNCHANGED <<dbVars, pending, pc, localVars, faults>>

\* The runs reconcileOnce looks for, and two slips: it sees one kind only.
OnlyLapsed(r) == status[r] \in Leased /\ expires[r] = "past"
OnlyQueued(r) == status[r] = "queued"

Recoverable(r) ==
  \/ status[r] = "queued"
  \/ status[r] \in Leased /\ expires[r] = "past"

\* reconcileOnce, one run of its batch.  Its scan and its enqueue are two
\* statements, but a job may wait in the queue for any time, so an enqueue on
\* stale data is no different from a job that was delivered late.
Reconcile(r) ==
  /\ Recoverable(r)
  /\ pending[r] = 0
  /\ Enqueue(r)
  /\ UNCHANGED <<dbVars, api, pc, localVars, faults, resumes>>
-----------------------------------------------------------------------------
(* RunExecutor.continueRun. *)

Goto(t, place) == pc' = [pc EXCEPT ![t] = place]

\* The call returns: the finally block clears the heartbeat, the slot's local
\* variables are gone and the queue drops the job.
Leave(t) ==
  /\ Goto(t, "idle")
  /\ work' = [work EXCEPT ![t] = NoRun]
  /\ token' = [token EXCEPT ![t] = 0]
  /\ valid' = [valid EXCEPT ![t] = FALSE]
  /\ aim' = [aim EXCEPT ![t] = "none"]

Return(t) == Leave(t) /\ UNCHANGED pending

\* The call throws: the queue retries the job, or gives it up when its
\* attempts are used up (InMemoryJobQueue never retries).
ReturnThrowing(t) ==
  /\ Leave(t)
  /\ \E again \in {0, 1} : pending' = [pending EXCEPT ![work[t]] = @ + again]

\* The where clause that every statement on a lease carries.
Leases(t, r) == owner[r] = OwnerOf[t] /\ fence[r] = token[t]
Holds(t) == status[work[t]] = "running" /\ Leases(t, work[t])

\* Slip: a lease is taken over before it has lapsed.
ClaimableEarly(r) == status[r] \in {"queued"} \union Waiting \union Leased

\* The where clause of the claim; it does not mention the fence.
Claimable(r) ==
  \/ status[r] \in {"queued"} \union Waiting
  \/ status[r] \in Leased /\ expires[r] = "past"

\* The queue delivers a job: the run is read, and a run that is gone or terminal
\* ends the call.
Deliver(t, r) ==
  /\ pending' = [pending EXCEPT ![r] = @ - 1]
  /\ \/ /\ status[r] \in ActiveStatuses
        /\ Goto(t, "claim")
        /\ work' = [work EXCEPT ![t] = r]
        /\ token' = [token EXCEPT ![t] = fence[r] + 1]
     \/ /\ status[r] \notin ActiveStatuses
        /\ UNCHANGED <<pc, work, token>>
  /\ UNCHANGED <<dbVars, api, valid, aim, faults, resumes>>

\* Slip: a job that was already taken is delivered once more.
DispatchAgain(t, r) == pc[t] = "idle" /\ Deliver(t, r)

Dispatch(t, r) == pc[t] = "idle" /\ pending[r] > 0 /\ Deliver(t, r)

\* Slip: the claim leaves leaseExpiresAt as it was.
ClaimForever(t) ==
  LET r == work[t] IN
  /\ pc[t] = "claim"
  /\ \/ /\ Claimable(r)
        /\ status' = [status EXCEPT ![r] = "leased"]
        /\ owner' = [owner EXCEPT ![r] = OwnerOf[t]]
        /\ fence' = [fence EXCEPT ![r] = token[t]]
        /\ announced' = [announced EXCEPT ![r] = FALSE]
        /\ Goto(t, "start")
        /\ UNCHANGED <<expires, localVars, pending>>
     \/ /\ ~Claimable(r)
        /\ Return(t)
        /\ UNCHANGED <<rowVars, announced>>
  /\ UNCHANGED <<settled, answers, api, faults, resumes>>

Claim(t) ==
  LET r == work[t] IN
  /\ pc[t] = "claim"
  /\ \/ /\ Claimable(r)
        /\ status' = [status EXCEPT ![r] = "leased"]
        /\ owner' = [owner EXCEPT ![r] = OwnerOf[t]]
        /\ fence' = [fence EXCEPT ![r] = token[t]]
        /\ expires' = [expires EXCEPT ![r] = "future"]
        /\ announced' = [announced EXCEPT ![r] = FALSE]
        /\ Goto(t, "start")
        /\ UNCHANGED <<localVars, pending>>
     \/ /\ ~Claimable(r)
        /\ Return(t)
        /\ UNCHANGED <<rowVars, announced>>
  /\ UNCHANGED <<settled, answers, api, faults, resumes>>

\* The row is read again, then moved from leased to running if it is still this
\* slot's.  If it went back to queued or waiting in between, assertTransition
\* throws, or the update finds no row, depending on when that happened.
Start(t) ==
  LET r == work[t]
      mine == status[r] = "leased" /\ Leases(t, r) IN
  /\ pc[t] = "start"
  /\ \/ /\ mine
        /\ status' = [status EXCEPT ![r] = "running"]
        /\ valid' = [valid EXCEPT ![t] = TRUE]
        /\ Goto(t, "setup")
        /\ UNCHANGED <<work, token, aim, pending>>
     \/ /\ ~mine
        /\ IF status[r] \in {"queued"} \union Waiting THEN ReturnThrowing(t)
                                                      ELSE Return(t)
        /\ UNCHANGED status
  /\ UNCHANGED <<owner, fence, expires, announced, settled, answers, api,
                 faults, resumes>>

\* attempt.create, then rows, connectors, model key, computer and artifact
\* baseline.  None of these steps looks at the lease.
SetUp(t) ==
  /\ pc[t] = "setup"
  /\ Goto(t, "turn")
  /\ UNCHANGED <<dbVars, api, pending, localVars, faults, resumes>>

\* Slip: the renewal names the run only and writes the lease as its own.
HeartbeatTakesBack(t) ==
  /\ pc[t] \in Working
  /\ status[work[t]] = "running"
  /\ owner' = [owner EXCEPT ![work[t]] = OwnerOf[t]]
  /\ fence' = [fence EXCEPT ![work[t]] = token[t]]
  /\ expires' = [expires EXCEPT ![work[t]] = "future"]
  /\ UNCHANGED <<status, announced, settled, answers, api, pending, pc,
                 localVars, faults, resumes>>

\* The heartbeat interval of an attempt: renewRunLease, and a renewal that
\* matches no row clears leaseValid (which only the turn reads).
Heartbeat(t) ==
  /\ pc[t] \in Working
  /\ \/ /\ Holds(t)
        /\ expires[work[t]] = "past"
        /\ expires' = [expires EXCEPT ![work[t]] = "future"]
        /\ UNCHANGED valid
     \/ /\ ~Holds(t)
        /\ valid[t] /\ pc[t] \in {"setup", "turn"}
        /\ valid' = [valid EXCEPT ![t] = FALSE]
        /\ UNCHANGED expires
  /\ UNCHANGED <<status, owner, fence, announced, settled, answers, api,
                 pending, pc, work, token, aim, faults, resumes>>

\* The checks at the head of the event loop: leaseValid, then the row, of which
\* only the cancelled status counts.
NoticeLoss(t) ==
  LET r == work[t] IN
  /\ pc[t] = "turn"
  /\ ~valid[t] \/ status[r] = "cancelled" \/ ~Leases(t, r)
  /\ Return(t)
  /\ UNCHANGED <<dbVars, api, faults, resumes>>

\* renewRunLease before the turn ends; a lease that is not ours ends the call.
RenewThen(t, place, how) ==
  /\ \/ /\ Holds(t)
        /\ expires' = [expires EXCEPT ![work[t]] = "future"]
        /\ Goto(t, place)
        /\ aim' = [aim EXCEPT ![t] = how]
        /\ UNCHANGED <<work, token, valid, pending>>
     \/ /\ ~Holds(t)
        /\ Return(t)
        /\ UNCHANGED expires
  /\ UNCHANGED <<status, owner, fence, announced, settled, answers, api,
                 faults, resumes>>

\* The model asks the user, or wants the user at the screen.
Ask(t) ==
  /\ pc[t] = "turn"
  /\ \E how \in Waiting : RenewThen(t, "announce", how)

\* The ask or computer block is published, then the workspace checkpointed.
Announce(t) ==
  /\ pc[t] = "announce"
  /\ announced' = [announced EXCEPT ![work[t]] = TRUE]
  /\ Goto(t, "pause")
  /\ UNCHANGED <<rowVars, settled, answers, api, pending, localVars, faults,
                 resumes>>

\* The lease is given up with the status that ends the call.
GiveUp(r, to) ==
  /\ status' = [status EXCEPT ![r] = to]
  /\ owner' = [owner EXCEPT ![r] = NoOwner]
  /\ expires' = [expires EXCEPT ![r] = "null"]

\* Slip: the pause asks for a running run and not for the lease.
PauseUnfenced(t) ==
  /\ pc[t] = "pause"
  /\ IF status[work[t]] = "running" THEN GiveUp(work[t], aim[t])
                                    ELSE UNCHANGED <<status, owner, expires>>
  /\ Return(t)
  /\ UNCHANGED <<fence, announced, settled, answers, api, faults, resumes>>

Pause(t) ==
  /\ pc[t] = "pause"
  /\ IF Holds(t) THEN GiveUp(work[t], aim[t])
                 ELSE UNCHANGED <<status, owner, expires>>
  /\ Return(t)
  /\ UNCHANGED <<fence, announced, settled, answers, api, faults, resumes>>

\* The event stream ended: checkpoint, artifacts, then renewRunLease.
Finish(t) ==
  /\ pc[t] = "turn"
  /\ RenewThen(t, "finalize", "completed")

\* Slips: the terminal update trusts the renewal before it, or asks for the
\* lease columns and not for the status.
FinalizeUnchecked(t) ==
  /\ pc[t] = "finalize"
  /\ GiveUp(work[t], aim[t])
  /\ settled' = [settled EXCEPT ![work[t]] = @ + 1]
  /\ Return(t)
  /\ UNCHANGED <<fence, announced, answers, api, faults, resumes>>

FinalizeOnLease(t) ==
  LET r == work[t] IN
  /\ pc[t] = "finalize"
  /\ IF Leases(t, r) THEN /\ GiveUp(r, aim[t])
                          /\ settled' = [settled EXCEPT ![r] = @ + 1]
                     ELSE UNCHANGED <<status, owner, expires, settled>>
  /\ Return(t)
  /\ UNCHANGED <<fence, announced, answers, api, faults, resumes>>

\* ThreadEvents.finalizeRun, one transaction: the run, the attempt, the task
\* and, for a completed run, the bot's message and its events.
Finalize(t) ==
  LET r == work[t] IN
  /\ pc[t] = "finalize"
  /\ IF Holds(t) THEN /\ GiveUp(r, aim[t])
                      /\ settled' = [settled EXCEPT ![r] = @ + 1]
                 ELSE UNCHANGED <<status, owner, expires, settled>>
  /\ Return(t)
  /\ UNCHANGED <<fence, announced, answers, api, faults, resumes>>

\* Anything the turn awaits may throw: the inner catch finalizes the run as
\* failed, and what throws there, or during setup, reaches the outer catch.
Throw(t) ==
  /\ faults < MaxFaults
  /\ faults' = faults + 1
  /\ \/ /\ pc[t] \in {"turn", "announce", "pause", "finalize"}
        /\ aim[t] # "failed"
        /\ Goto(t, "finalize")
        /\ aim' = [aim EXCEPT ![t] = "failed"]
     \/ /\ pc[t] = "setup" \/ (pc[t] = "finalize" /\ aim[t] = "failed")
        /\ Goto(t, "release")
        /\ UNCHANGED aim
  /\ UNCHANGED <<dbVars, api, pending, work, token, valid, resumes>>

\* A statement outside the try throws, attempt.create and the one of the outer
\* catch included: nothing is undone.
Abandon(t) ==
  /\ faults < MaxFaults
  /\ pc[t] \in {"claim", "start", "setup", "release"}
  /\ faults' = faults + 1
  /\ ReturnThrowing(t)
  /\ UNCHANGED <<dbVars, api, resumes>>

\* The outer catch gives a run that is still ours back to the queue and throws
\* once more; a run that is not is left alone.
Release(t) ==
  /\ pc[t] = "release"
  /\ \/ Holds(t) /\ GiveUp(work[t], "queued") /\ ReturnThrowing(t)
     \/ ~Holds(t) /\ Return(t) /\ UNCHANGED <<status, owner, expires>>
  /\ UNCHANGED <<fence, announced, settled, answers, api, faults, resumes>>
-----------------------------------------------------------------------------
(* The environment. *)

\* A worker process dies: every slot of its workerId stops where it is.  Its
\* jobs stay locked in the queue and may be delivered again later.
Crash(w) ==
  LET dead == {t \in Tasks : OwnerOf[t] = w /\ pc[t] # "idle"} IN
  /\ faults < MaxFaults
  /\ dead # {}
  /\ faults' = faults + 1
  /\ pc' = [t \in Tasks |-> IF t \in dead THEN "idle" ELSE pc[t]]
  /\ work' = [t \in Tasks |-> IF t \in dead THEN NoRun ELSE work[t]]
  /\ token' = [t \in Tasks |-> IF t \in dead THEN 0 ELSE token[t]]
  /\ valid' = [t \in Tasks |-> IF t \in dead THEN FALSE ELSE valid[t]]
  /\ aim' = [t \in Tasks |-> IF t \in dead THEN "none" ELSE aim[t]]
  /\ \E again \in SUBSET {work[t] : t \in dead} :
       pending' = [r \in Runs |-> IF r \in again THEN pending[r] + 1
                                               ELSE pending[r]]
  /\ UNCHANGED <<dbVars, api, resumes>>

\* The API process dies between two statements of a handler.
ApiCrash(r) ==
  /\ faults < MaxFaults
  /\ api[r] # "idle"
  /\ faults' = faults + 1
  /\ api' = [api EXCEPT ![r] = "idle"]
  /\ UNCHANGED <<dbVars, pending, pc, localVars, resumes>>

\* Five minutes pass without a renewal.  That is a fault while a live slot
\* holds the lease, and only a matter of time when none does.
LeaseLapses(r) ==
  /\ status[r] \in Leased
  /\ expires[r] = "future"
  /\ expires' = [expires EXCEPT ![r] = "past"]
  /\ \/ /\ \E t \in Tasks : work[t] = r /\ pc[t] # "claim"
        /\ faults < MaxFaults
        /\ faults' = faults + 1
     \/ /\ \A t \in Tasks : work[t] = r => pc[t] = "claim"
        /\ UNCHANGED faults
  /\ UNCHANGED <<status, owner, fence, announced, settled, answers, api,
                 pending, pc, localVars, resumes>>
-----------------------------------------------------------------------------
Serve(r) == CreateRun(r) \/ SupersedeQueued(r) \/ EnqueueRun(r)
              \/ Answer(r) \/ ReleaseTakeover(r)

Step(t) ==
  \/ Claim(t) \/ Start(t) \/ SetUp(t) \/ NoticeLoss(t) \/ Ask(t) \/ Announce(t)
  \/ Pause(t) \/ Finish(t) \/ Finalize(t) \/ Release(t)

Next ==
  \/ \E r \in Runs : Serve(r) \/ Reconcile(r) \/ ApiCrash(r) \/ LeaseLapses(r)
  \/ Stop
  \/ \E t \in Tasks, r \in Runs : Dispatch(t, r)
  \/ \E t \in Tasks : Step(t) \/ Heartbeat(t) \/ Throw(t) \/ Abandon(t)
  \/ \E w \in Owners : Crash(w)

Spec == Init /\ [][Next]_vars

\* The reconciler ticks every 30 seconds, leases lapse with time, the queue
\* serves jobs in order of arrival, and a slot goes on with what it awaits.
\* Users, handlers, faults and the heartbeat are not fair.
Fairness ==
  /\ \A r \in Runs : /\ WF_vars(Reconcile(r))
                     /\ WF_vars(LeaseLapses(r))
                     /\ SF_vars(\E t \in Tasks : Dispatch(t, r))
  /\ \A t \in Tasks : WF_vars(Step(t))

FairSpec == Spec /\ Fairness
-----------------------------------------------------------------------------
(* Safety. *)

\* A run that is leased or running has an expiry time, so that the claim and
\* the reconciler, which both ask for leaseExpiresAt <= now, can recover it
\* whatever happens to its worker (null never compares).
LeasesCanBeReclaimed ==
  \A r \in Runs : status[r] \in Leased => expires[r] # "null"

\* finalizeRun commits at most once for the prompt a run was created with and
\* once for each answer, however many slots believe they hold the run: a run
\* still active has one commit left, a run that is over has none.
Allowance(r) == IF status[r] = "absent" THEN 0 ELSE answers[r] + 1
Claims(r) == settled[r] + (IF status[r] \in ActiveStatuses THEN 1 ELSE 0)

OneOutcomePerPrompt == \A r \in Runs : Claims(r) <= Allowance(r)

\* A run waits for the user only after the call that leased it put the block
\* that tells the user so in the thread: a call that asked before it lost the
\* run does not pause the next one.
PausesAreAnnounced ==
  \A r \in Runs : status[r] \in Waiting => announced[r]

\* A running run leaves that status by the hand of the slot that holds its
\* lease, by a claim after the lease lapsed, by stop or by answer: a slot that
\* lost the run never writes its row.
RunningLeftByHolder ==
  [][\A r \in Runs :
       status[r] = "running" /\ status'[r] # "running" =>
         \/ status'[r] = "cancelled" \/ answers'[r] > answers[r]
         \/ expires[r] = "past" /\ status'[r] = "leased"
         \/ \E t \in Tasks : work[t] = r /\ Holds(t) /\ pc'[t] # pc[t]]_vars

\* A slot with a workerId of its own that does not hold the lease of the run it
\* has an attempt for never holds it again in that call: fencing is final.
\* (Slots that share a workerId can: the claim does not check the fence.)
Alone(t) == \A u \in Tasks : OwnerOf[u] = OwnerOf[t] => u = t

LostLeaseStaysLost ==
  [][\A t \in Tasks :
       Alone(t) /\ pc[t] \in Working /\ ~Holds(t) /\ work'[t] = work[t]
         => ~Holds(t)']_vars

\* Stop is final for the thread: no outcome is committed and no row is paused
\* for a run that is cancelled, unless the user answers it.
StopIsFinal ==
  [][\A r \in Runs : status[r] = "cancelled" /\ answers'[r] = answers[r]
                       => status'[r] = "cancelled" /\ settled'[r] = settled[r]]_vars
\* The statements of the API and the executor together keep to the transition
\* table and commit an outcome exactly when a run ends.
Table == INSTANCE RunTable
ImplementsTable == Table!TableSpec
-----------------------------------------------------------------------------
(* Liveness, under Fairness. *)

\* A queued run is picked up or cancelled even if its enqueue was lost.
QueuedIsPickedUp == \A r \in Runs : status[r] = "queued" ~> status[r] # "queued"

\* A run in the hands of a worker, alive or dead, pauses or ends.
LeasedIsLeft == \A r \in Runs : status[r] \in Leased ~> status[r] \notin Leased
-----------------------------------------------------------------------------
(* What the documents and tests say and the code does not do. *)

\* run-state.test.ts: "never leaves a terminal state except failed retry".
TerminalIsFinal ==
  [][\A r \in Runs : status[r] \in {"completed", "cancelled"}
                       => status'[r] = status[r]]_vars

\* executor-lifecycle.test.ts: "reclaims an expired running lease with a
\* higher fence".
ReclaimRaisesFence ==
  [][\A r \in Runs :
       status[r] = "running" /\ status'[r] = "leased" => fence'[r] > fence[r]]_vars
=============================================================================
