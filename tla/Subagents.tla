------------------------------ MODULE Subagents ------------------------------
(***************************************************************************)
(* The helpers of one turn: run_subagent calls, which the agent makes at   *)
(* any time while its turn lasts.  A gate lets some of them work at once.  *)
(* What they report goes through the turn's queue to the executor, which   *)
(* appends it to the thread, and the last report of a helper once more as a*)
(* message; a client shows a card for each helper until the message        *)
(* replaces it.                                                            *)
(***************************************************************************)
EXTENDS Naturals, Sequences, FiniteSets

CONSTANTS
  Helpers,      \* execution ids of run_subagent calls
  MaxParallel,  \* MAX_PARALLEL_SUBAGENTS
  MaxReports    \* bound: reports of all helpers while they work

ASSUME SubagentConstants ==
  IsFiniteSet(Helpers) /\ MaxParallel \in Nat \ {0} /\ MaxReports \in Nat

VARIABLES
  helper,    \* where each call is
  active,    \* the gate's count
  waiters,   \* calls that wait at the gate, in order
  stopped,   \* the turn's signal is aborted
  agentTurn,      \* the agent's turn
  reports,   \* reports made while working, which MaxReports bounds
  events,    \* the turn's queue, as far as it is about helpers
  handling,  \* the report whose message the executor is about to write
  card,      \* what a client that follows the thread shows for each helper
  written    \* messages of each helper in the thread

gateVars == <<active, waiters>>
threadVars == <<handling, card, written>>
subagentVars == <<helper, gateVars, stopped, agentTurn, reports, events, threadVars>>

Final == {"completed", "failed"}
Report(h, status) == [of |-> h, status |-> status]
NoReport == [of |-> "none", status |-> "none"]

(***************************************************************************)
(* Every variable has its type.                                            *)
(***************************************************************************)
SubagentTypeOK ==
  /\ helper \in [Helpers -> {"none", "waiting", "called", "entered", "working", "over"}]
  /\ active \in Nat
  /\ waiters \in Seq(Helpers)
  /\ stopped \in BOOLEAN
  /\ agentTurn \in {"on", "closed"}
  /\ reports \in 0..MaxReports
  /\ events \in Seq([of : Helpers, status : Final \union {"running"}])
  /\ handling \in {NoReport} \union [of : Helpers, status : Final]
  /\ card \in [Helpers -> Final \union {"none", "running"}]
  /\ written \in [Helpers -> Nat]

SubagentInit ==
  /\ helper = [h \in Helpers |-> "none"]
  /\ active = 0 /\ waiters = <<>>
  /\ stopped = FALSE /\ agentTurn = "on" /\ reports = 0
  /\ events = <<>>
  /\ handling = NoReport
  /\ card = [h \in Helpers |-> "none"]
  /\ written = [h \in Helpers |-> 0]

-----------------------------------------------------------------------------
(* createGate and executeSubagent *)

ToHelper(h, place) == helper' = [helper EXCEPT ![h] = place]

\* acquire: with no place free the call waits, else it has one at once.
CallHelper(h) ==
  /\ agentTurn = "on"
  /\ helper[h] = "none"
  /\ IF active >= MaxParallel
     THEN waiters' = Append(waiters, h) /\ ToHelper(h, "waiting") /\ UNCHANGED active
     ELSE active' = active + 1 /\ ToHelper(h, "entered") /\ UNCHANGED waiters
  /\ UNCHANGED <<stopped, agentTurn, reports, events, threadVars>>

\* A waiter that was called goes on, and does not look again.
Resume(h) ==
  /\ helper[h] = "called"
  /\ active' = active + 1
  /\ ToHelper(h, "entered")
  /\ UNCHANGED <<waiters, stopped, agentTurn, reports, events, threadVars>>

\* release, with which every way out of executeSubagent ends: one waiter is called.
LetGo(h) ==
  /\ active' = IF active > 0 THEN active - 1 ELSE 0
  /\ IF waiters = <<>>
     THEN waiters' = waiters /\ ToHelper(h, "over")
     ELSE /\ waiters' = Tail(waiters)
          /\ helper' = [helper EXCEPT ![h] = "over", ![Head(waiters)] = "called"]

\* Mutant: the early return is outside the try that releases.
StartHelperOutside(h) ==
  /\ helper[h] = "entered"
  /\ events' = events \o <<Report(h, "running")>>
                \o (IF stopped THEN <<Report(h, "failed")>> ELSE <<>>)
  /\ ToHelper(h, IF stopped THEN "over" ELSE "working")
  /\ UNCHANGED <<gateVars, stopped, agentTurn, reports, threadVars>>

\* The call announces its helper; a turn that was stopped ends it there.
StartHelper(h) ==
  /\ helper[h] = "entered"
  /\ IF stopped
     THEN /\ events' = events \o <<Report(h, "running"), Report(h, "failed")>>
          /\ LetGo(h)
     ELSE /\ events' = Append(events, Report(h, "running"))
          /\ ToHelper(h, "working")
          /\ UNCHANGED gateVars
  /\ UNCHANGED <<stopped, agentTurn, reports, threadVars>>

\* A tool that it starts, or text of its answer.
Progress(h) ==
  /\ helper[h] = "working"
  /\ reports < MaxReports
  /\ reports' = reports + 1
  /\ events' = Append(events, Report(h, "running"))
  /\ UNCHANGED <<helper, gateVars, stopped, agentTurn, threadVars>>

\* Mutant: an error of the helper goes to its caller only.
EndHelperQuietly(h) ==
  /\ helper[h] = "working"
  /\ \/ events' = Append(events, Report(h, "completed"))
     \/ UNCHANGED events
  /\ LetGo(h)
  /\ UNCHANGED <<stopped, agentTurn, reports, threadVars>>

\* The helper answers, ends with an error, throws, or was aborted.
EndHelper(h) ==
  /\ helper[h] = "working"
  /\ \E status \in Final : events' = Append(events, Report(h, status))
  /\ LetGo(h)
  /\ UNCHANGED <<stopped, agentTurn, reports, threadVars>>

\* PiAgentRuntime.abort; the helpers at work end as they will.
Abort ==
  /\ agentTurn = "on" /\ ~stopped
  /\ stopped' = TRUE
  /\ UNCHANGED <<helper, gateVars, agentTurn, reports, events, threadVars>>

\* The agent is idle once its tool calls have answered; the queue is closed.
CloseTurn ==
  /\ agentTurn = "on"
  /\ \A h \in Helpers : helper[h] \in {"none", "over"}
  /\ agentTurn' = "closed"
  /\ UNCHANGED <<helper, gateVars, stopped, reports, events, threadVars>>

-----------------------------------------------------------------------------
(* The loop of continueRun, and reduceThreadSnapshot of a client. *)

PutCard(report) == card' = [card EXCEPT ![report.of] = report.status]
ReplaceCard(h) == card' = [card EXCEPT ![h] = "none"]

\* thread.subagent is appended: the client puts the card up, or changes it.
HandleReport ==
  /\ handling = NoReport
  /\ events # <<>>
  /\ events' = Tail(events)
  /\ PutCard(Head(events))
  /\ handling' = IF Head(events).status \in Final THEN Head(events) ELSE NoReport
  /\ UNCHANGED <<helper, gateVars, stopped, agentTurn, reports, written>>

\* The message of a helper that has ended, which replaces its card.
WriteHelper ==
  /\ handling # NoReport
  /\ written' = [written EXCEPT ![handling.of] = @ + 1]
  /\ ReplaceCard(handling.of)
  /\ handling' = NoReport
  /\ UNCHANGED <<helper, gateVars, stopped, agentTurn, reports, events>>

HelperStep(h) ==
  CallHelper(h) \/ Resume(h) \/ StartHelper(h) \/ Progress(h) \/ EndHelper(h)
SubagentNext ==
  (\E h \in Helpers : HelperStep(h)) \/ Abort \/ CloseTurn \/ HandleReport \/ WriteHelper

SubagentSpec == SubagentInit /\ [][SubagentNext]_subagentVars

-----------------------------------------------------------------------------
(***************************************************************************)
(* No call waits at the gate while fewer helpers than it may let in are at *)
(* work or called to it: as long as helpers end, all get their turn.       *)
(***************************************************************************)
NoIdlePlace ==
  waiters # <<>>
    => Cardinality({h \in Helpers : helper[h] \in {"called", "entered", "working"}})
         >= MaxParallel

(***************************************************************************)
(* Once the turn is over and its reports are handled, every helper that was*)
(* called is in the thread with one message, and no card of one is left, in*)
(* particular none that says it still works.                               *)
(***************************************************************************)
HelpersAreTold ==
  (agentTurn = "closed" /\ events = <<>> /\ handling = NoReport)
    => \A h \in Helpers : /\ card[h] = "none"
                          /\ written[h] = IF helper[h] = "over" THEN 1 ELSE 0
=============================================================================
