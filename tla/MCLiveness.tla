------------------------------ MODULE MCLiveness ------------------------------
(***************************************************************************)
(* The components that must come to an end, each under its own fairness.   *)
(* They share no state: `part` names the one that moves in a behaviour,    *)
(* and the others stay in their initial states.                            *)
(***************************************************************************)
EXTENDS RunLifecycle, AgentTurn, RoutineSchedule, HarnessProcess, ThreadFollow, TLC

CONSTANTS
  Parts,                 \* the components that the run checks
  r1, t1, t2, w1, w2     \* a run, slots of workers and worker processes

VARIABLE part

\* Two slots of two processes.
TwoProcesses == (t1 :> w1) @@ (t2 :> w2)

\* One of two turns of a run speaks.
MCMaxDeltas == [s \in Slots |-> IF s = "s1" THEN 2 ELSE 0]

LiveInit ==
  /\ part \in Parts
  /\ Init /\ TurnInit /\ RoutineInit /\ HarnessInit /\ FollowInit

LiveNext ==
  \/ /\ part = "run" /\ Next
     /\ UNCHANGED <<part, turnVars, routineVars, harnessVars, threadFollowVars>>
  \/ /\ part = "turn" /\ TurnNext
     /\ UNCHANGED <<part, vars, routineVars, harnessVars, threadFollowVars>>
  \/ /\ part = "routine" /\ RoutineNext
     /\ UNCHANGED <<part, vars, turnVars, harnessVars, threadFollowVars>>
  \/ /\ part = "harness" /\ HarnessNext
     /\ UNCHANGED <<part, vars, turnVars, routineVars, threadFollowVars>>
  \/ /\ part = "follow" /\ FollowNext
     /\ UNCHANGED <<part, vars, turnVars, routineVars, harnessVars>>

liveVars == <<part, vars, turnVars, routineVars, harnessVars, threadFollowVars>>

\* Fairness, TurnFairness, RoutineFairness, HarnessFairness and that of FairFollow, each
\* for the behaviours of its own component.
LiveFairness ==
  /\ \A r \in Runs : /\ WF_vars(part = "run" /\ Reconcile(r))
                     /\ WF_vars(part = "run" /\ LeaseLapses(r))
                     /\ SF_vars(part = "run" /\ \E t \in Tasks : Dispatch(t, r))
  /\ \A t \in Tasks : WF_vars(part = "run" /\ Step(t))
  /\ \A s \in Slots : /\ WF_turnVars(part = "turn" /\ AgentStep(s))
                      /\ WF_turnVars(part = "turn" /\ ReaderStep(s))
  /\ \A p \in Reconcilers : /\ WF_routineVars(part = "routine" /\ ScanStep(p))
                            /\ WF_routineVars(part = "routine" /\ LoseClient(p))
  /\ \A w \in Workers : WF_routineVars(part = "routine" /\ HandlerStep(w))
  /\ WF_routineVars(part = "routine" /\ \E w \in Workers, r \in Routines : HandOut(w, r))
  /\ WF_routineVars(part = "routine" /\ \E i \in RunNos : TakeRun(i))
  /\ WF_harnessVars(part = "harness" /\ TimeOut)
  /\ WF_harnessVars(part = "harness" /\ ForceKill)
  /\ WF_harnessVars(part = "harness" /\ "KILL" \in cli.signals /\ ChildExits)
  /\ WF_harnessVars(part = "harness" /\ cli.child = "dead" /\ HeirExits)
  /\ WF_harnessVars(part = "harness" /\ OnClose)
  /\ WF_threadFollowVars(part = "follow" /\ Follow)
  /\ WF_threadFollowVars(part = "follow" /\ Generate)
  /\ WF_threadFollowVars(part = "follow" /\ Receive)

LiveSpec == LiveInit /\ [][LiveNext]_liveVars /\ LiveFairness

(***************************************************************************)
(* A routine that is due is taken up and its run executed, whatever job,   *)
(* scan or worker is lost on the way.                                      *)
(***************************************************************************)
RoutinesAreServed == DueFires /\ RunsTaken
=============================================================================
