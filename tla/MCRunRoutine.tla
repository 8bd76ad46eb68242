----------------------------- MODULE MCRunRoutine -----------------------------
(***************************************************************************)
(* The two components that the worker's queue wakes, runs and routines,    *)
(* side by side: they share no state, `part` names the one that moves in a *)
(* behaviour, and the other stays in its initial state.                    *)
(***************************************************************************)
EXTENDS RunLifecycle, RoutineSchedule, TLC

CONSTANTS
  Parts,                 \* the components that the run checks
  r1, t1, t2, w1, w2     \* a run, slots of workers and worker processes

VARIABLE part

\* Two slots of two processes.
TwoProcesses == (t1 :> w1) @@ (t2 :> w2)

RunRoutineInit == part \in Parts /\ Init /\ RoutineInit

RunRoutineNext ==
  \/ part = "run" /\ Next /\ UNCHANGED <<part, routineVars>>
  \/ part = "routine" /\ RoutineNext /\ UNCHANGED <<part, vars>>

runRoutineVars == <<part, vars, routineVars>>
RunRoutineSpec == RunRoutineInit /\ [][RunRoutineNext]_runRoutineVars

(***************************************************************************)
(* Every variable of the component that moves has its type.                *)
(***************************************************************************)
RunRoutineTypeOK ==
  /\ part \in Parts
  /\ part = "run" => TypeOK
  /\ part = "routine" => RoutineTypeOK
==============================================================================
