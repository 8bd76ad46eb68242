------------------------- MODULE RunLifecycleProofs -------------------------
(***************************************************************************)
(* Theorems about RunLifecycle, for all sets of runs, slots and owners and *)
(* all bounds on faults and answers.                                       *)
(*                                                                         *)
(* TypeInv is the inductive invariant that carries the rest: TypeOK alone  *)
(* is not inductive, because Pause and Finalize write the slot's `aim` to  *)
(* the row, which is a status only while AimsFit holds.  Given TypeInv,    *)
(* every step is a step of the abstract RunTable (StepImplements), and     *)
(* what the table promises about outcomes and about stop carries over.     *)
(***************************************************************************)
EXTENDS RunLifecycle, TLAPS

USE LifecycleConstants DEF rowVars, dbVars, localVars

Statuses == ActiveStatuses \union Terminal \union {"absent"}
Aims == {"none"} \union Waiting \union Outcomes

\* TypeOK in parts: what the database, the API and the queue hold, and what
\* the slots hold.
RowsTyped ==
  /\ status \in [Runs -> Statuses]
  /\ owner \in [Runs -> Owners \union {NoOwner}]
  /\ fence \in [Runs -> Nat]
  /\ expires \in [Runs -> {"null", "future", "past"}]
  /\ announced \in [Runs -> BOOLEAN]
  /\ settled \in [Runs -> Nat]
  /\ answers \in [Runs -> Nat]
  /\ api \in [Runs -> {"idle", "supersede", "enqueue"}]
  /\ pending \in [Runs -> Nat]
  /\ faults \in Nat
  /\ resumes \in Nat

SlotsTyped ==
  /\ pc \in [Tasks -> Places]
  /\ work \in [Tasks -> Runs \union {NoRun}]
  /\ token \in [Tasks -> Nat]
  /\ valid \in [Tasks -> BOOLEAN]
  /\ aim \in [Tasks -> Aims]

BusySlotsWork == \A t \in Tasks : pc[t] # "idle" => work[t] \in Runs

\* A slot about to write its `aim` has one that belongs in the row.
AimsFit ==
  \A t \in Tasks : /\ pc[t] \in {"announce", "pause"} => aim[t] \in Waiting
                   /\ pc[t] = "finalize" => aim[t] \in Outcomes

TypeInv == RowsTyped /\ SlotsTyped /\ BusySlotsWork /\ AimsFit

\* What the sets of names hold.
LEMMA Names ==
  /\ Waiting \subseteq ActiveStatuses /\ Leased \subseteq ActiveStatuses
  /\ ActiveStatuses \subseteq Statuses /\ Terminal \subseteq Statuses
  /\ Waiting \subseteq Aims /\ Outcomes \subseteq Aims
  /\ "none" \in Aims /\ "failed" \in Outcomes /\ "completed" \in Outcomes
  /\ "queued" \in ActiveStatuses /\ "leased" \in Leased /\ "running" \in Leased
  /\ "cancelled" \in Terminal /\ Outcomes \subseteq Terminal
  /\ "idle" \in Places /\ "idle" \notin Working /\ Working \subseteq Places
  /\ "claim" \in Places /\ "start" \in Places
  /\ {"setup", "turn", "announce", "pause", "finalize", "release"} = Working
BY DEF Waiting, Leased, ActiveStatuses, Terminal, Outcomes, Working, Places,
       Statuses, Aims

LEMMA TypeParts == TypeOK <=> RowsTyped /\ SlotsTyped /\ BusySlotsWork
BY DEF TypeOK, RowsTyped, SlotsTyped, BusySlotsWork, Statuses, Aims

LEMMA InitTypes == Init => TypeInv
BY DEF Init, TypeInv, RowsTyped, SlotsTyped, BusySlotsWork, AimsFit, Statuses,
       Aims, Waiting, Leased, ActiveStatuses, Terminal, Outcomes, Working, Places
-----------------------------------------------------------------------------
(* What the two sides of the system leave alone. *)

\* The handlers, the reconciler and the clock do not touch a slot.
LEMMA ApiFrame ==
  (\/ Stop
   \/ \E r \in Runs : Serve(r) \/ Reconcile(r) \/ ApiCrash(r) \/ LeaseLapses(r))
  => UNCHANGED <<pc, localVars>>
BY DEF Serve, CreateRun, SupersedeQueued, EnqueueRun, Answer, ReleaseTakeover,
       Reconcile, ApiCrash, LeaseLapses, Stop

\* A slot that leaves is idle, and the others are as they were.
LEMMA LeaveTypes ==
  ASSUME TypeInv, NEW t \in Tasks, Leave(t)
  PROVE  SlotsTyped' /\ BusySlotsWork' /\ AimsFit'
<1>1. SlotsTyped' /\ BusySlotsWork'
  BY Names DEF TypeInv, SlotsTyped, BusySlotsWork, Leave, Goto
<1>2. AimsFit'
  BY DEF TypeInv, SlotsTyped, AimsFit, Leave, Goto
<1>3. QED BY <1>1, <1>2
-----------------------------------------------------------------------------
\* No step takes a row, the API or the queue out of its type.
LEMMA RowsStayTyped == TypeInv /\ [Next]_vars => RowsTyped'
<1> SUFFICES ASSUME TypeInv, [Next]_vars PROVE RowsTyped'
  OBVIOUS
<1> USE Names DEF TypeInv, RowsTyped, SlotsTyped, BusySlotsWork, AimsFit
<1>1. ASSUME NEW r \in Runs, CreateRun(r) PROVE RowsTyped'
  BY <1>1 DEF CreateRun
<1>2. ASSUME NEW r \in Runs, SupersedeQueued(r) PROVE RowsTyped'
  BY <1>2 DEF SupersedeQueued
<1>3. ASSUME NEW r \in Runs, EnqueueRun(r) PROVE RowsTyped'
  BY <1>3 DEF EnqueueRun, Enqueue
<1>4. ASSUME NEW r \in Runs, Answer(r) PROVE RowsTyped'
  BY <1>4 DEF Answer
<1>5. ASSUME NEW r \in Runs, ReleaseTakeover(r) PROVE RowsTyped'
  BY <1>5 DEF ReleaseTakeover
<1>6. ASSUME NEW r \in Runs, Reconcile(r) PROVE RowsTyped'
  BY <1>6 DEF Reconcile, Enqueue
<1>7. ASSUME NEW r \in Runs, ApiCrash(r) PROVE RowsTyped'
  BY <1>7 DEF ApiCrash
<1>8. ASSUME NEW r \in Runs, LeaseLapses(r) PROVE RowsTyped'
  BY <1>8 DEF LeaseLapses
<1>9. ASSUME Stop PROVE RowsTyped'
  BY <1>9 DEF Stop
<1>10. ASSUME NEW t \in Tasks, NEW r \in Runs, Dispatch(t, r) PROVE RowsTyped'
  BY <1>10 DEF Dispatch, Deliver, Goto
<1>11. ASSUME NEW t \in Tasks, Claim(t) PROVE RowsTyped'
  <2>1. work[t] \in Runs /\ OwnerOf[t] \in Owners
    BY <1>11 DEF Claim
  <2>2. CASE Claimable(work[t])
    <3>1. /\ status' = [status EXCEPT ![work[t]] = "leased"]
          /\ owner' = [owner EXCEPT ![work[t]] = OwnerOf[t]]
          /\ fence' = [fence EXCEPT ![work[t]] = token[t]]
          /\ expires' = [expires EXCEPT ![work[t]] = "future"]
          /\ announced' = [announced EXCEPT ![work[t]] = FALSE]
          /\ UNCHANGED <<settled, answers, api, pending, faults, resumes>>
      BY <1>11, <2>2 DEF Claim
    <3>2. QED
      BY <2>1, <3>1
  <2>3. CASE ~Claimable(work[t])
    BY <1>11, <2>3 DEF Claim, Return
  <2>4. QED
    BY <2>2, <2>3
<1>12. ASSUME NEW t \in Tasks, Start(t) PROVE RowsTyped'
  BY <1>12 DEF Start, Return, ReturnThrowing, Goto
<1>13. ASSUME NEW t \in Tasks, SetUp(t) PROVE RowsTyped'
  BY <1>13 DEF SetUp, Goto
<1>14. ASSUME NEW t \in Tasks, NoticeLoss(t) PROVE RowsTyped'
  BY <1>14 DEF NoticeLoss, Return
<1>15. ASSUME NEW t \in Tasks, Ask(t) PROVE RowsTyped'
  BY <1>15 DEF Ask, RenewThen, Return, Goto
<1>16. ASSUME NEW t \in Tasks, Announce(t) PROVE RowsTyped'
  BY <1>16 DEF Announce, Goto
<1>17. ASSUME NEW t \in Tasks, Pause(t) PROVE RowsTyped'
  BY <1>17 DEF Pause, GiveUp, Return
<1>18. ASSUME NEW t \in Tasks, Finish(t) PROVE RowsTyped'
  BY <1>18 DEF Finish, RenewThen, Return, Goto
<1>19. ASSUME NEW t \in Tasks, Finalize(t) PROVE RowsTyped'
  BY <1>19 DEF Finalize, GiveUp, Return
<1>20. ASSUME NEW t \in Tasks, Release(t) PROVE RowsTyped'
  BY <1>20 DEF Release, GiveUp, Return, ReturnThrowing
<1>21. ASSUME NEW t \in Tasks, Heartbeat(t) PROVE RowsTyped'
  BY <1>21 DEF Heartbeat
<1>22. ASSUME NEW t \in Tasks, Throw(t) PROVE RowsTyped'
  BY <1>22 DEF Throw, Goto
<1>23. ASSUME NEW t \in Tasks, Abandon(t) PROVE RowsTyped'
  BY <1>23 DEF Abandon, ReturnThrowing
<1>24. ASSUME NEW w \in Owners, Crash(w) PROVE RowsTyped'
  BY <1>24 DEF Crash
<1>25. CASE UNCHANGED vars
  BY <1>25 DEF vars
<1>26. QED
  BY <1>1, <1>2, <1>3, <1>4, <1>5, <1>6, <1>7, <1>8, <1>9, <1>10, <1>11,
     <1>12, <1>13, <1>14, <1>15, <1>16, <1>17, <1>18, <1>19, <1>20, <1>21,
     <1>22, <1>23, <1>24, <1>25 DEF Next, Serve, Step

\* No step takes a slot out of its type, leaves a busy slot without a run, or
\* brings it to a write with nothing fit to write.
LEMMA SlotsStayTyped ==
  TypeInv /\ [Next]_vars => SlotsTyped' /\ BusySlotsWork' /\ AimsFit'
<1> DEFINE Goal == SlotsTyped' /\ BusySlotsWork' /\ AimsFit'
<1> SUFFICES ASSUME TypeInv, [Next]_vars PROVE Goal
  OBVIOUS
<1> USE Names DEF TypeInv, SlotsTyped, BusySlotsWork, AimsFit
<1>1. CASE UNCHANGED <<pc, localVars>>
  BY <1>1
<1>2. ASSUME NEW t \in Tasks, NEW r \in Runs, Dispatch(t, r) PROVE Goal
  BY <1>2 DEF Dispatch, Deliver, Goto, RowsTyped
<1>3. ASSUME NEW t \in Tasks, Claim(t) PROVE Goal
  BY LeaveTypes, <1>3 DEF Claim, Claimable, Return, Goto
<1>4. ASSUME NEW t \in Tasks, Start(t) PROVE Goal
  BY LeaveTypes, <1>4 DEF Start, Return, ReturnThrowing, Goto
<1>5. ASSUME NEW t \in Tasks, SetUp(t) PROVE Goal
  BY <1>5 DEF SetUp, Goto
<1>6. ASSUME NEW t \in Tasks, NoticeLoss(t) PROVE Goal
  BY LeaveTypes, <1>6 DEF NoticeLoss, Return
<1>7. ASSUME NEW t \in Tasks, Ask(t) PROVE Goal
  BY LeaveTypes, <1>7 DEF Ask, RenewThen, Return, Goto
<1>8. ASSUME NEW t \in Tasks, Announce(t) PROVE Goal
  BY <1>8 DEF Announce, Goto
<1>9. ASSUME NEW t \in Tasks, Pause(t) PROVE Goal
  BY LeaveTypes, <1>9 DEF Pause, GiveUp, Return
<1>10. ASSUME NEW t \in Tasks, Finish(t) PROVE Goal
  BY LeaveTypes, <1>10 DEF Finish, RenewThen, Return, Goto
<1>11. ASSUME NEW t \in Tasks, Finalize(t) PROVE Goal
  BY LeaveTypes, <1>11 DEF Finalize, GiveUp, Return
<1>12. ASSUME NEW t \in Tasks, Release(t) PROVE Goal
  BY LeaveTypes, <1>12 DEF Release, GiveUp, Return, ReturnThrowing
<1>13. ASSUME NEW t \in Tasks, Heartbeat(t) PROVE Goal
  BY <1>13 DEF Heartbeat
<1>14. ASSUME NEW t \in Tasks, Throw(t) PROVE Goal
  BY <1>14 DEF Throw, Goto
<1>15. ASSUME NEW t \in Tasks, Abandon(t) PROVE Goal
  BY LeaveTypes, <1>15 DEF Abandon, ReturnThrowing
<1>16. ASSUME NEW w \in Owners, Crash(w) PROVE Goal
  BY <1>16 DEF Crash
<1>17. CASE UNCHANGED vars
  BY <1>1, <1>17 DEF vars
<1>18. QED
  BY ApiFrame, <1>1, <1>2, <1>3, <1>4, <1>5, <1>6, <1>7, <1>8, <1>9, <1>10,
     <1>11, <1>12, <1>13, <1>14, <1>15, <1>16, <1>17 DEF Next, Step

\* TypeInv is inductive.
LEMMA TypeInvCorrect == Spec => []TypeInv
<1>1. TypeInv /\ [Next]_vars => TypeInv'
  BY RowsStayTyped, SlotsStayTyped DEF TypeInv
<1>2. QED BY InitTypes, <1>1, PTL DEF Spec

\* Every variable keeps its type, and a busy slot always works on a run.
THEOREM TypeCorrect == Spec => []TypeOK
<1>1. TypeInv => TypeOK
  BY TypeParts DEF TypeInv
<1>2. QED BY TypeInvCorrect, <1>1, PTL
-----------------------------------------------------------------------------
(* RunLifecycle implements RunTable. *)

tableVars == <<status, settled, answers>>

\* The moves of the table that the statements of the code rely on.
LEMMA TableFacts ==
  /\ \A s \in {"queued", "leased", "running"} \union Waiting :
       Table!CanTransition(s, "cancelled")
  /\ \A s \in {"queued", "running"} \union Waiting : Table!CanTransition(s, "leased")
  /\ Table!CanTransition("leased", "running")
  /\ \A s \in Waiting \union Outcomes : Table!CanTransition("running", s)
  /\ DOMAIN Table!Allowed = Statuses
  /\ \A s \in Statuses : ~Table!CanTransition("cancelled", s)
  /\ \A s, to \in Statuses :
       /\ Table!CanTransition(s, to) /\ to \in Outcomes => s = "running"
       /\ Table!CanTransition(s, to) /\ s # "failed" => s \in ActiveStatuses
       /\ Table!CanTransition(s, to) => to # "absent"
       /\ Table!CanTransition(s, "cancelled") => s \in ActiveStatuses
BY DEF Table!CanTransition, Table!Allowed, Statuses, ActiveStatuses, Terminal,
       Leased, Waiting, Outcomes

\* A slot that holds its run has a running run.
LEMMA HoldsRunning ==
  ASSUME NEW t \in Tasks, Holds(t) PROVE status[work[t]] = "running"
BY DEF Holds

\* Every step of the system is a step of the table, or leaves it alone.
LEMMA StepImplements == TypeInv /\ [Next]_vars => [Table!TableNext]_tableVars
<1> DEFINE Goal == [Table!TableNext]_tableVars
<1> SUFFICES ASSUME TypeInv, [Next]_vars PROVE Goal
  OBVIOUS
<1> USE DEF TypeInv, RowsTyped, BusySlotsWork, AimsFit, tableVars
<1>1. CASE UNCHANGED tableVars
  BY <1>1
<1>2. ASSUME NEW r \in Runs, CreateRun(r) PROVE Goal
  BY <1>2 DEF CreateRun, Table!TableNext, Table!Create
<1>3. ASSUME NEW r \in Runs, SupersedeQueued(r) PROVE Goal
  <2> DEFINE S == {q \in Runs : q # r /\ status[q] = "queued"}
  <2>1. Table!CancelAll(S)
    BY <1>3, TableFacts DEF SupersedeQueued, Table!CancelAll
  <2>2. QED BY <2>1 DEF Table!TableNext
<1>4. ASSUME Stop PROVE Goal
  <2> DEFINE S == {q \in Runs : status[q] \in ActiveStatuses}
  <2>1. Table!CancelAll(S)
    BY <1>4, TableFacts DEF Stop, Table!CancelAll, ActiveStatuses, Leased
  <2>2. QED BY <2>1 DEF Table!TableNext
<1>5. ASSUME NEW r \in Runs, Answer(r) PROVE Goal
  BY <1>5 DEF Answer, Table!TableNext, Table!Reopen
<1>6. ASSUME NEW t \in Tasks, Claim(t) PROVE Goal
  <2> DEFINE r == work[t]
  <2>1. CASE Claimable(r) /\ status[r] # "leased" /\ status' = [status EXCEPT ![r] = "leased"]
    <3>1. r \in Runs
      BY <1>6 DEF Claim
    <3>2. Table!CanTransition(status[r], "leased") /\ status[r] # "failed"
      BY <2>1, TableFacts DEF Claimable, Leased, Waiting
    <3>3. Table!Move(r, "leased")
      BY <1>6, <2>1, <3>2 DEF Claim, Table!Move
    <3>4. QED
      BY <3>1, <3>3, TableFacts, Names DEF Table!TableNext
  <2>2. CASE Claimable(r) /\ status[r] = "leased" /\ status' = [status EXCEPT ![r] = "leased"]
    BY <1>1, <1>6, <2>2 DEF Claim
  <2>3. CASE status' = status
    BY <1>1, <1>6, <2>3 DEF Claim
  <2>4. QED
    BY <1>6, <2>1, <2>2, <2>3 DEF Claim
<1>7. ASSUME NEW t \in Tasks, Start(t) PROVE Goal
  <2> DEFINE r == work[t]
  <2>1. CASE status[r] = "leased" /\ status' = [status EXCEPT ![r] = "running"]
    <3>1. r \in Runs
      BY <1>7 DEF Start
    <3>2. Table!Move(r, "running")
      BY <1>7, <2>1, TableFacts DEF Start, Table!Move
    <3>3. QED
      BY <3>1, <3>2, TableFacts, Names DEF Table!TableNext
  <2>2. CASE status' = status
    BY <1>1, <1>7, <2>2 DEF Start
  <2>3. QED
    BY <1>7, <2>1, <2>2 DEF Start
<1>8. ASSUME NEW t \in Tasks, Pause(t) PROVE Goal
  <2>1. CASE Holds(t)
    <3>1. work[t] \in Runs /\ aim[t] \in Waiting
      BY <1>8 DEF Pause
    <3>2. Table!Move(work[t], aim[t])
      BY <1>8, <2>1, <3>1, HoldsRunning, TableFacts
         DEF Pause, GiveUp, Table!Move, Waiting
    <3>3. QED
      BY <3>1, <3>2, TableFacts, Names DEF Table!TableNext
  <2>2. QED
    BY <1>1, <1>8, <2>1 DEF Pause
<1>9. ASSUME NEW t \in Tasks, Finalize(t) PROVE Goal
  <2>1. CASE Holds(t)
    <3>1. work[t] \in Runs /\ aim[t] \in Outcomes
      BY <1>9 DEF Finalize
    <3>2. Table!Settle(work[t], aim[t])
      BY <1>9, <2>1, <3>1, HoldsRunning, TableFacts
         DEF Finalize, GiveUp, Table!Settle, Outcomes
    <3>3. QED
      BY <3>1, <3>2, TableFacts, Names DEF Table!TableNext
  <2>2. QED
    BY <1>1, <1>9, <2>1 DEF Finalize
<1>10. ASSUME NEW t \in Tasks, Release(t) PROVE Goal
  <2>1. CASE Holds(t) /\ GiveUp(work[t], "queued")
    <3>1. work[t] \in Runs
      BY <1>10 DEF Release
    <3>2. Table!GiveBack(work[t])
      BY <1>10, <2>1, HoldsRunning DEF Release, GiveUp, Table!GiveBack
    <3>3. QED
      BY <3>1, <3>2 DEF Table!TableNext
  <2>2. QED
    BY <1>1, <1>10, <2>1 DEF Release
<1>11. ASSUME NEW r \in Runs,
             \/ EnqueueRun(r) \/ ReleaseTakeover(r) \/ Reconcile(r)
             \/ ApiCrash(r) \/ LeaseLapses(r)
       PROVE Goal
  BY <1>1, <1>11 DEF EnqueueRun, ReleaseTakeover, Reconcile, ApiCrash, LeaseLapses
<1>12. ASSUME NEW t \in Tasks, NEW r \in Runs, Dispatch(t, r) PROVE Goal
  BY <1>1, <1>12 DEF Dispatch, Deliver, dbVars
<1>13. ASSUME NEW t \in Tasks,
             \/ SetUp(t) \/ NoticeLoss(t) \/ Throw(t) \/ Abandon(t)
             \/ Announce(t) \/ Heartbeat(t)
       PROVE Goal
  BY <1>1, <1>13 DEF SetUp, NoticeLoss, Throw, Abandon, Announce, Heartbeat, dbVars
<1>14. ASSUME NEW t \in Tasks, Ask(t) \/ Finish(t) PROVE Goal
  BY <1>1, <1>14 DEF Ask, Finish, RenewThen
<1>15. ASSUME NEW w \in Owners, Crash(w) PROVE Goal
  BY <1>1, <1>15 DEF Crash, dbVars
<1>16. CASE UNCHANGED vars
  BY <1>1, <1>16 DEF vars
<1>17. QED
  BY <1>2, <1>3, <1>4, <1>5, <1>6, <1>7, <1>8, <1>9, <1>10, <1>11, <1>12, <1>13,
     <1>14, <1>15, <1>16 DEF Next, Serve, Step

\* The API and the executor together implement the transition table: no status
\* is written that the table, an answer or a give-back does not allow, and an
\* outcome is committed exactly when a run ends.
THEOREM Implements == Spec => ImplementsTable
<1>1. Init => Table!TableInit
  BY DEF Init, Table!TableInit
<1>2. QED
  BY <1>1, TypeInvCorrect, StepImplements, PTL
     DEF Spec, ImplementsTable, Table!TableSpec, tableVars
-----------------------------------------------------------------------------
(* What follows from the table. *)

\* Stop is final for the thread: no outcome is committed and no row is paused
\* for a run that is cancelled, unless the user answers it.
THEOREM StopFinal == Spec => StopIsFinal
<1> DEFINE Kept(r) == status[r] = "cancelled" /\ answers'[r] = answers[r]
                        => status'[r] = "cancelled" /\ settled'[r] = settled[r]
<1>1. ASSUME TypeInv, [Next]_vars, NEW r \in Runs PROVE Kept(r)
  <2> USE DEF TypeInv, RowsTyped
  <2>1. CASE UNCHANGED tableVars
    BY <2>1 DEF tableVars
  <2>2. ASSUME NEW q \in Runs, Table!Create(q) PROVE Kept(r)
    BY <2>2 DEF Table!Create
  <2>3. ASSUME NEW q \in Runs, Table!GiveBack(q) PROVE Kept(r)
    BY <2>3 DEF Table!GiveBack
  <2>4. ASSUME NEW q \in Runs, Table!Reopen(q) PROVE Kept(r)
    BY <1>1, <2>4 DEF Table!Reopen
  <2>5. ASSUME NEW q \in Runs, NEW to \in DOMAIN Table!Allowed,
               Table!Move(q, to) \/ Table!Settle(q, to)
        PROVE  Kept(r)
    BY <1>1, <2>5, TableFacts DEF Table!Move, Table!Settle
  <2>6. ASSUME NEW S \in SUBSET Runs, Table!CancelAll(S) PROVE Kept(r)
    BY <2>6 DEF Table!CancelAll
  <2>7. QED
    BY <1>1, StepImplements, <2>1, <2>2, <2>3, <2>4, <2>5, <2>6 DEF Table!TableNext
<1>2. TypeInv /\ [Next]_vars => [\A r \in Runs : Kept(r)]_vars
  BY <1>1
<1>3. QED
  BY <1>2, TypeInvCorrect, PTL DEF Spec, StopIsFinal

\* Each step of the table that commits an outcome ends an active run, and only
\* an answer makes a run that is over active again.
LEMMA OutcomesStep ==
  TypeInv /\ OneOutcomePerPrompt /\ [Next]_vars => OneOutcomePerPrompt'
<1> SUFFICES ASSUME TypeInv, OneOutcomePerPrompt, [Next]_vars, NEW r \in Runs
             PROVE  (Claims(r) <= Allowance(r))'
  BY DEF OneOutcomePerPrompt
<1> DEFINE Goal == (Claims(r) <= Allowance(r))'
<1>0. /\ settled[r] \in Nat /\ answers[r] \in Nat
      /\ Claims(r) <= Allowance(r)
  BY DEF TypeInv, RowsTyped, OneOutcomePerPrompt
<1> USE <1>0 DEF TypeInv, RowsTyped, Claims, Allowance, ActiveStatuses, Waiting, Leased
<1>1. CASE UNCHANGED tableVars
  BY <1>1 DEF tableVars
<1>2. ASSUME NEW q \in Runs, Table!Create(q) PROVE Goal
  BY <1>2 DEF Table!Create
<1>3. ASSUME NEW q \in Runs, Table!GiveBack(q) PROVE Goal
  BY <1>3 DEF Table!GiveBack
<1>4. ASSUME NEW q \in Runs, Table!Reopen(q) PROVE Goal
  BY <1>4 DEF Table!Reopen
<1>5. ASSUME NEW q \in Runs, NEW to \in DOMAIN Table!Allowed, Table!Move(q, to)
      PROVE  Goal
  <2>1. Table!CanTransition(status[q], to) /\ status[q] # "failed"
    BY <1>5 DEF Table!Move
  <2>2. status[q] \in ActiveStatuses /\ to # "absent"
    BY <2>1, TableFacts
  <2>3. QED
    BY <1>5, <2>2 DEF Table!Move
<1>6. ASSUME NEW q \in Runs, NEW to \in DOMAIN Table!Allowed, Table!Settle(q, to)
      PROVE  Goal
  <2>1. to \in Outcomes /\ Table!CanTransition(status[q], to)
    BY <1>6 DEF Table!Settle, Outcomes
  <2>2. status[q] = "running"
    BY <2>1, TableFacts
  <2>3. QED
    BY <1>6, <2>1, <2>2 DEF Table!Settle, Outcomes
<1>7. ASSUME NEW S \in SUBSET Runs, Table!CancelAll(S) PROVE Goal
  <2>1. \A q \in S : status[q] \in ActiveStatuses
    BY <1>7, TableFacts DEF Table!CancelAll
  <2>2. status'[r] = IF r \in S THEN "cancelled" ELSE status[r]
    BY <1>7 DEF Table!CancelAll
  <2>3. answers'[r] = answers[r] /\ settled'[r] = settled[r]
    BY <1>7 DEF Table!CancelAll
  <2>4. QED
    BY <2>1, <2>2, <2>3
<1>8. QED
  BY StepImplements, <1>1, <1>2, <1>3, <1>4, <1>5, <1>6, <1>7 DEF Table!TableNext

\* finalizeRun commits at most once for the prompt a run was created with and
\* once for each answer, however many slots believe they hold the run.
THEOREM OneOutcome == Spec => []OneOutcomePerPrompt
<1>1. Init => OneOutcomePerPrompt
  <2> SUFFICES ASSUME Init, NEW r \in Runs PROVE Claims(r) <= Allowance(r)
    BY DEF OneOutcomePerPrompt
  <2>1. settled[r] = 0 /\ status[r] = "absent" /\ "absent" \notin ActiveStatuses
    BY DEF Init, ActiveStatuses, Waiting, Leased
  <2>2. QED
    BY <2>1 DEF Claims, Allowance
<1>2. QED
  BY <1>1, TypeInvCorrect, OutcomesStep, PTL DEF Spec
-----------------------------------------------------------------------------
(* Leases. *)

\* The actions that write a status, an owner or a fence.
LEMMA Writers ==
  ASSUME [Next]_vars
  PROVE  \/ UNCHANGED <<status, owner, fence>>
         \/ Stop
         \/ \E r \in Runs : CreateRun(r) \/ SupersedeQueued(r) \/ Answer(r)
         \/ \E t \in Tasks : Claim(t) \/ Start(t) \/ Pause(t) \/ Finalize(t) \/ Release(t)
<1>1. ASSUME NEW r \in Runs,
             \/ EnqueueRun(r) \/ ReleaseTakeover(r) \/ Reconcile(r)
             \/ ApiCrash(r) \/ LeaseLapses(r)
      PROVE  UNCHANGED <<status, owner, fence>>
  BY <1>1 DEF EnqueueRun, ReleaseTakeover, Reconcile, ApiCrash, LeaseLapses, dbVars
<1>2. ASSUME NEW t \in Tasks, NEW r \in Runs, Dispatch(t, r)
      PROVE  UNCHANGED <<status, owner, fence>>
  BY <1>2 DEF Dispatch, Deliver, dbVars
<1>3. ASSUME NEW t \in Tasks,
             \/ SetUp(t) \/ NoticeLoss(t) \/ Ask(t) \/ Announce(t) \/ Finish(t)
             \/ Heartbeat(t) \/ Throw(t) \/ Abandon(t)
      PROVE  UNCHANGED <<status, owner, fence>>
  BY <1>3 DEF SetUp, NoticeLoss, Ask, Announce, Finish, RenewThen, Heartbeat,
              Throw, Abandon, dbVars
<1>4. ASSUME NEW w \in Owners, Crash(w) PROVE UNCHANGED <<status, owner, fence>>
  BY <1>4 DEF Crash, dbVars
<1>5. CASE UNCHANGED vars
  BY <1>5 DEF vars
<1>6. QED
  BY <1>1, <1>2, <1>3, <1>4, <1>5 DEF Next, Serve, Step

\* A busy slot that keeps its run keeps its token.
LEMMA TokensKept ==
  ASSUME TypeInv, [Next]_vars, NEW t \in Tasks, pc[t] # "idle", work'[t] = work[t]
  PROVE  token'[t] = token[t]
<1> USE Names DEF TypeInv, SlotsTyped, BusySlotsWork
<1>1. CASE UNCHANGED <<pc, localVars>>
  BY <1>1
<1>2. ASSUME NEW u \in Tasks, NEW r \in Runs, Dispatch(u, r) PROVE token'[t] = token[t]
  BY <1>2 DEF Dispatch, Deliver
<1>3. ASSUME NEW u \in Tasks, Leave(u) PROVE token'[t] = token[t]
  BY <1>3 DEF Leave
<1>4. ASSUME NEW u \in Tasks,
             \/ Claim(u) \/ Start(u) \/ SetUp(u) \/ NoticeLoss(u) \/ Ask(u)
             \/ Announce(u) \/ Pause(u) \/ Finish(u) \/ Finalize(u) \/ Release(u)
             \/ Heartbeat(u) \/ Throw(u) \/ Abandon(u)
      PROVE  Leave(u) \/ token' = token
  BY <1>4 DEF Claim, Start, SetUp, NoticeLoss, Ask, Announce, Pause, Finish,
              RenewThen, Finalize, Release, Heartbeat, Throw, Abandon, Return,
              ReturnThrowing
<1>5. ASSUME NEW w \in Owners, Crash(w) PROVE token'[t] = token[t]
  BY <1>5 DEF Crash
<1>6. CASE UNCHANGED vars
  BY <1>6 DEF vars
<1>7. QED
  BY ApiFrame, <1>1, <1>2, <1>3, <1>4, <1>5, <1>6 DEF Next, Step

\* A row is running after a step only if it was, for the same lease, or if the
\* slot it is leased to started it.
LEMMA RunningOrigin ==
  ASSUME TypeInv, [Next]_vars, NEW r \in Runs, status'[r] = "running"
  PROVE  \/ status[r] = "running" /\ owner'[r] = owner[r] /\ fence'[r] = fence[r]
         \/ \E u \in Tasks : /\ pc[u] = "start" /\ work[u] = r
                             /\ owner'[r] = OwnerOf[u]
<1> DEFINE Goal == \/ status[r] = "running" /\ owner'[r] = owner[r] /\ fence'[r] = fence[r]
                   \/ \E u \in Tasks : /\ pc[u] = "start" /\ work[u] = r
                                       /\ owner'[r] = OwnerOf[u]
<1> USE DEF TypeInv, RowsTyped, BusySlotsWork, AimsFit
<1>1. CASE UNCHANGED <<status, owner, fence>>
  BY <1>1
<1>2. CASE Stop
  BY <1>2 DEF Stop
<1>3. ASSUME NEW q \in Runs, CreateRun(q) \/ SupersedeQueued(q) \/ Answer(q) PROVE Goal
  BY <1>3 DEF CreateRun, SupersedeQueued, Answer
<1>4. ASSUME NEW t \in Tasks, Claim(t) PROVE Goal
  BY <1>4 DEF Claim
<1>5. ASSUME NEW t \in Tasks, Start(t) PROVE Goal
  BY <1>5 DEF Start, Leases
<1>6. ASSUME NEW t \in Tasks, Pause(t) PROVE Goal
  BY <1>6 DEF Pause, GiveUp, Waiting
<1>7. ASSUME NEW t \in Tasks, Finalize(t) PROVE Goal
  BY <1>7 DEF Finalize, GiveUp, Outcomes
<1>8. ASSUME NEW t \in Tasks, Release(t) PROVE Goal
  BY <1>8 DEF Release, GiveUp
<1>9. QED
  BY Writers, <1>1, <1>2, <1>3, <1>4, <1>5, <1>6, <1>7, <1>8

\* A slot with a workerId of its own that holds its run after a step of which
\* it keeps the run held it before.
LEMMA HeldBefore ==
  ASSUME TypeInv, [Next]_vars, NEW t \in Tasks,
         Alone(t), pc[t] \in Working, work'[t] = work[t], Holds(t)'
  PROVE  Holds(t)
<1> DEFINE r == work[t]
<1>1. pc[t] # "idle" /\ pc[t] # "start" /\ r \in Runs
  BY Names DEF TypeInv, BusySlotsWork, Working
<1>2. token'[t] = token[t]
  BY <1>1, TokensKept
<1>3. status'[r] = "running" /\ owner'[r] = OwnerOf[t] /\ fence'[r] = token[t]
  BY <1>2 DEF Holds, Leases
<1>4. ~\E u \in Tasks : pc[u] = "start" /\ work[u] = r /\ owner'[r] = OwnerOf[u]
  BY <1>1, <1>3 DEF Alone
<1>5. status[r] = "running" /\ owner'[r] = owner[r] /\ fence'[r] = fence[r]
  BY <1>1, <1>3, <1>4, RunningOrigin
<1>6. QED
  BY <1>3, <1>5 DEF Holds, Leases

\* A slot with a workerId of its own that lost its run never holds it again in
\* the same call.
THEOREM LostStaysLost == Spec => LostLeaseStaysLost
<1> DEFINE Kept(t) == Alone(t) /\ pc[t] \in Working /\ ~Holds(t) /\ work'[t] = work[t]
                        => ~Holds(t)'
<1>1. TypeInv /\ [Next]_vars => [\A t \in Tasks : Kept(t)]_vars
  BY HeldBefore
<1>2. QED
  BY <1>1, TypeInvCorrect, PTL DEF Spec, LostLeaseStaysLost

\* A running run leaves that status by the hand of the slot that holds its
\* lease, by a claim after the lease lapsed, by stop or by answer.
THEOREM RunningLeft == Spec => RunningLeftByHolder
<1> DEFINE Kept(r) ==
      status[r] = "running" /\ status'[r] # "running" =>
         \/ status'[r] = "cancelled" \/ answers'[r] > answers[r]
         \/ expires[r] = "past" /\ status'[r] = "leased"
         \/ \E t \in Tasks : work[t] = r /\ Holds(t) /\ pc'[t] # pc[t]
<1>1. ASSUME TypeInv, [Next]_vars, NEW r \in Runs PROVE Kept(r)
  <2> SUFFICES ASSUME status[r] = "running", status'[r] # "running" PROVE Kept(r)
    OBVIOUS
  <2> USE <1>1 DEF TypeInv, RowsTyped, BusySlotsWork
  <2>1. CASE UNCHANGED <<status, owner, fence>>
    BY <2>1
  <2>2. CASE Stop
    BY <2>2 DEF Stop
  <2>3. ASSUME NEW q \in Runs, CreateRun(q) \/ SupersedeQueued(q) PROVE Kept(r)
    BY <2>3 DEF CreateRun, SupersedeQueued
  <2>4. ASSUME NEW q \in Runs, Answer(q) PROVE Kept(r)
    BY <2>4 DEF Answer
  <2>5. ASSUME NEW t \in Tasks, Claim(t) PROVE Kept(r)
    BY <2>5 DEF Claim, Claimable, Waiting
  <2>6. ASSUME NEW t \in Tasks, Start(t) PROVE Kept(r)
    BY <2>6 DEF Start
  <2>7. ASSUME NEW t \in Tasks, Pause(t) \/ Finalize(t) \/ Release(t) PROVE Kept(r)
    <3>1. work[t] = r /\ Holds(t)
      BY <2>7 DEF Pause, Finalize, Release, GiveUp
    <3>2. pc[t] # "idle" /\ pc'[t] = "idle"
      BY <2>7 DEF Pause, Finalize, Release, Return, ReturnThrowing, Leave, Goto,
                  SlotsTyped
    <3>3. QED
      BY <3>1, <3>2
  <2>8. QED
    BY Writers, <2>1, <2>2, <2>3, <2>4, <2>5, <2>6, <2>7
<1>2. TypeInv /\ [Next]_vars => [\A r \in Runs : Kept(r)]_vars
  BY <1>1
<1>3. QED
  BY <1>2, TypeInvCorrect, PTL DEF Spec, RunningLeftByHolder

\* Every run that is leased or running has an expiry time, so that a claim can
\* recover it whatever happens to its worker.
THEOREM Reclaimable == Spec => []LeasesCanBeReclaimed
<1>1. Init => LeasesCanBeReclaimed
  BY DEF Init, LeasesCanBeReclaimed, Leased
<1>2. TypeInv /\ LeasesCanBeReclaimed /\ [Next]_vars => LeasesCanBeReclaimed'
  <2> DEFINE Goal == LeasesCanBeReclaimed'
  <2> SUFFICES ASSUME TypeInv, LeasesCanBeReclaimed, [Next]_vars PROVE Goal
    OBVIOUS
  <2> USE DEF TypeInv, RowsTyped, BusySlotsWork, AimsFit, LeasesCanBeReclaimed
  <2>1. CASE UNCHANGED <<status, expires>>
    BY <2>1
  <2>2. CASE Stop
    BY <2>2 DEF Stop, Leased
  <2>3. ASSUME NEW q \in Runs, CreateRun(q) \/ SupersedeQueued(q) \/ Answer(q) PROVE Goal
    BY <2>3 DEF CreateRun, SupersedeQueued, Answer, Leased
  <2>4. ASSUME NEW q \in Runs, LeaseLapses(q) PROVE Goal
    BY <2>4 DEF LeaseLapses
  <2>5. ASSUME NEW t \in Tasks, Claim(t) PROVE Goal
    BY <2>5 DEF Claim
  <2>6. ASSUME NEW t \in Tasks, Start(t) PROVE Goal
    BY <2>6 DEF Start, Leased
  <2>7. ASSUME NEW t \in Tasks, Heartbeat(t) \/ Ask(t) \/ Finish(t) PROVE Goal
    BY <2>7 DEF Heartbeat, Ask, Finish, RenewThen
  <2>8. ASSUME NEW t \in Tasks, Pause(t) PROVE Goal
    BY <2>8 DEF Pause, GiveUp, Waiting, Leased
  <2>9. ASSUME NEW t \in Tasks, Finalize(t) PROVE Goal
    BY <2>9 DEF Finalize, GiveUp, Outcomes, Leased
  <2>10. ASSUME NEW t \in Tasks, Release(t) PROVE Goal
    BY <2>10 DEF Release, GiveUp, Leased
  <2>11. ASSUME NEW r \in Runs,
                EnqueueRun(r) \/ ReleaseTakeover(r) \/ Reconcile(r) \/ ApiCrash(r)
         PROVE  UNCHANGED <<status, expires>>
    BY <2>11 DEF EnqueueRun, ReleaseTakeover, Reconcile, ApiCrash
  <2>12. ASSUME NEW t \in Tasks, NEW r \in Runs, Dispatch(t, r)
         PROVE  UNCHANGED <<status, expires>>
    BY <2>12 DEF Dispatch, Deliver
  <2>13. ASSUME NEW t \in Tasks,
                SetUp(t) \/ NoticeLoss(t) \/ Announce(t) \/ Throw(t) \/ Abandon(t)
         PROVE  UNCHANGED <<status, expires>>
    BY <2>13 DEF SetUp, NoticeLoss, Announce, Throw, Abandon
  <2>14. ASSUME NEW w \in Owners, Crash(w) PROVE UNCHANGED <<status, expires>>
    BY <2>14 DEF Crash
  <2>15. CASE UNCHANGED vars
    BY <2>1, <2>15 DEF vars
  <2>16. QED
    BY <2>1, <2>2, <2>3, <2>4, <2>5, <2>6, <2>7, <2>8, <2>9, <2>10, <2>11, <2>12,
       <2>13, <2>14, <2>15 DEF Next, Serve, Step
<1>3. QED
  BY <1>1, <1>2, TypeInvCorrect, PTL DEF Spec

\* Only a claim and an announcement change what the user was told.
LEMMA Announcers ==
  ASSUME [Next]_vars
  PROVE  announced' = announced \/ \E t \in Tasks : Claim(t) \/ Announce(t)
<1>1. ASSUME NEW r \in Runs, Serve(r) \/ Reconcile(r) \/ ApiCrash(r) \/ LeaseLapses(r)
      PROVE  announced' = announced
  BY <1>1 DEF Serve, CreateRun, SupersedeQueued, EnqueueRun, Answer,
              ReleaseTakeover, Reconcile, ApiCrash, LeaseLapses
<1>2. ASSUME Stop PROVE announced' = announced
  BY <1>2 DEF Stop
<1>3. ASSUME NEW t \in Tasks, NEW r \in Runs, Dispatch(t, r) PROVE announced' = announced
  BY <1>3 DEF Dispatch, Deliver
<1>4. ASSUME NEW t \in Tasks,
             \/ Start(t) \/ SetUp(t) \/ NoticeLoss(t) \/ Ask(t) \/ Pause(t)
             \/ Finish(t) \/ Finalize(t) \/ Release(t) \/ Heartbeat(t)
             \/ Throw(t) \/ Abandon(t)
      PROVE  announced' = announced
  BY <1>4 DEF Start, SetUp, NoticeLoss, Ask, Pause, Finish, RenewThen, Finalize,
              Release, Heartbeat, Throw, Abandon
<1>5. ASSUME NEW w \in Owners, Crash(w) PROVE announced' = announced
  BY <1>5 DEF Crash
<1>6. CASE UNCHANGED vars
  BY <1>6 DEF vars
<1>7. QED
  BY <1>1, <1>2, <1>3, <1>4, <1>5, <1>6 DEF Next, Step

\* A slot is about to pause because it was, or because it just told the user.
LEMMA PauseOrigin ==
  ASSUME TypeInv, [Next]_vars, NEW t \in Tasks, pc'[t] = "pause"
  PROVE  (pc[t] = "pause" /\ work'[t] = work[t]) \/ Announce(t)
<1> DEFINE Goal == (pc[t] = "pause" /\ work'[t] = work[t]) \/ Announce(t)
<1> USE DEF TypeInv, SlotsTyped
<1>1. CASE UNCHANGED <<pc, localVars>>
  BY <1>1
<1>2. ASSUME NEW u \in Tasks, NEW r \in Runs, Dispatch(u, r) PROVE Goal
  BY <1>2 DEF Dispatch, Deliver, Goto
<1>3. ASSUME NEW u \in Tasks, Leave(u) PROVE Goal
  BY <1>3 DEF Leave, Goto
<1>4. ASSUME NEW u \in Tasks, Announce(u) PROVE Goal
  BY <1>4 DEF Announce, Goto
<1>5. ASSUME NEW u \in Tasks, Claim(u) \/ Start(u) \/ Ask(u) \/ Finish(u) PROVE Goal
  BY <1>3, <1>5 DEF Claim, Start, Ask, Finish, RenewThen, Return, ReturnThrowing, Goto
<1>6. ASSUME NEW u \in Tasks, SetUp(u) \/ Heartbeat(u) \/ Throw(u) PROVE Goal
  BY <1>6 DEF SetUp, Heartbeat, Throw, Goto
<1>7. ASSUME NEW u \in Tasks,
             NoticeLoss(u) \/ Pause(u) \/ Finalize(u) \/ Release(u) \/ Abandon(u)
      PROVE  Goal
  BY <1>3, <1>7 DEF NoticeLoss, Pause, Finalize, Release, Abandon, Return, ReturnThrowing
<1>8. ASSUME NEW w \in Owners, Crash(w) PROVE Goal
  BY <1>8 DEF Crash
<1>9. CASE UNCHANGED vars
  BY <1>1, <1>9 DEF vars
<1>10. QED
  BY ApiFrame, <1>1, <1>2, <1>3, <1>4, <1>5, <1>6, <1>7, <1>8, <1>9 DEF Next, Step

\* A row waits because it did, or because the slot that holds it pauses it.
LEMMA WaitingOrigin ==
  ASSUME TypeInv, [Next]_vars, NEW r \in Runs, status'[r] \in Waiting
  PROVE  status[r] \in Waiting \/ \E t \in Tasks : Pause(t) /\ Holds(t) /\ work[t] = r
<1> DEFINE Goal == \/ status[r] \in Waiting
                   \/ \E t \in Tasks : Pause(t) /\ Holds(t) /\ work[t] = r
<1> USE DEF TypeInv, RowsTyped, Waiting
<1>1. CASE UNCHANGED <<status, owner, fence>>
  BY <1>1
<1>2. CASE Stop
  BY <1>2 DEF Stop
<1>3. ASSUME NEW q \in Runs, CreateRun(q) \/ SupersedeQueued(q) \/ Answer(q) PROVE Goal
  BY <1>3 DEF CreateRun, SupersedeQueued, Answer
<1>4. ASSUME NEW t \in Tasks, Claim(t) \/ Start(t) PROVE Goal
  BY <1>4 DEF Claim, Start
<1>5. ASSUME NEW t \in Tasks, Pause(t) PROVE Goal
  BY <1>5 DEF Pause, GiveUp
<1>6. ASSUME NEW t \in Tasks, Finalize(t) PROVE Goal
  BY <1>6 DEF Finalize, GiveUp, AimsFit, Outcomes
<1>7. ASSUME NEW t \in Tasks, Release(t) PROVE Goal
  BY <1>7 DEF Release, GiveUp
<1>8. QED
  BY Writers, <1>1, <1>2, <1>3, <1>4, <1>5, <1>6, <1>7

\* A slot about to pause a run it holds told the user under the same lease.
PauseBacked ==
  \A t \in Tasks : pc[t] = "pause" /\ Holds(t) => announced[work[t]]

\* A run waits for the user only after the call that leased it told the user
\* so, provided that every slot has a workerId of its own.
THEOREM PausesAnnounced ==
  ASSUME \A t \in Tasks : Alone(t)
  PROVE  Spec => []PausesAreAnnounced
<1> DEFINE Inv == PauseBacked /\ PausesAreAnnounced
<1>1. Init => Inv
  BY DEF Init, PauseBacked, PausesAreAnnounced, Waiting
<1>2. TypeInv /\ Inv /\ [Next]_vars => Inv'
  <2> SUFFICES ASSUME TypeInv, Inv, [Next]_vars PROVE Inv'
    OBVIOUS
  <2> USE DEF TypeInv, RowsTyped, BusySlotsWork, AimsFit
  <2>1. ASSUME NEW r \in Runs, announced[r] PROVE announced'[r] \/ status'[r] = "leased"
    BY <2>1, Announcers DEF Claim, Announce, Claimable
  <2>2. ASSUME NEW t \in Tasks, pc'[t] = "pause", Holds(t)' PROVE announced'[work'[t]]
    <3>1. CASE Announce(t)
      BY <3>1 DEF Announce
    <3>2. CASE pc[t] = "pause" /\ work'[t] = work[t]
      <4>1. work[t] \in Runs /\ announced[work[t]]
        BY <3>2, <2>2, HeldBefore, Names DEF PauseBacked
      <4>2. QED
        BY <2>1, <2>2, <3>2, <4>1 DEF Holds
    <3>3. QED
      BY <2>2, <3>1, <3>2, PauseOrigin
  <2>3. ASSUME NEW r \in Runs, status'[r] \in Waiting PROVE announced'[r]
    <3>1. CASE status[r] \in Waiting
      BY <2>1, <2>3, <3>1 DEF PausesAreAnnounced, Waiting
    <3>2. ASSUME NEW t \in Tasks, Pause(t), Holds(t), work[t] = r PROVE announced'[r]
      BY <3>2 DEF PauseBacked, Pause
    <3>3. QED
      BY <2>3, <3>1, <3>2, WaitingOrigin
  <2>4. QED
    BY <2>2, <2>3 DEF PauseBacked, PausesAreAnnounced
<1>3. QED
  BY <1>1, <1>2, TypeInvCorrect, PTL DEF Spec
=============================================================================
