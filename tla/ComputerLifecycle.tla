------------------------- MODULE ComputerLifecycle -------------------------
(***************************************************************************)
(* The computer of one bot on a remote provider: its row, the provider's   *)
(* machines, the stored home, and the calls that race for them: runs       *)
(* (ensureComputer, work, checkpoint), computer.boot, computer.stop and    *)
(* the idle job.  Each await of the code is one step.                      *)
(*                                                                         *)
(* What a run does on a machine is one piece of work, named by the run.    *)
(* A commit to the home is one step (HomeStore has its parts), and the     *)
(* lease of a run is not lost while it works (RunLifecycle has that).      *)
(***************************************************************************)
EXTENDS Naturals

CONSTANTS
  Runs,       \* runs of the bot
  Machines,   \* machines the provider may create
  NoMachine,
  MaxFaults,  \* bound: provisioning, restores or exports that throw, machines
              \* the provider loses
  MaxCalls    \* bound: boots, stops and idle jobs

ASSUME ComputerConstants ==
  /\ NoMachine \notin Machines
  /\ Runs \intersect {"boot", "stop", "sleep"} = {}
  /\ MaxFaults \in Nat /\ MaxCalls \in Nat

VARIABLES
  state,      \* computer.state
  named,      \* computer.providerRef
  touched,    \* computer.updatedAt differs from what the idle job read
  power,      \* each machine at the provider
  disk,       \* the work on each machine
  hydrated,   \* machines that received the stored home (a history variable)
  home,       \* the work in the stored home
  life,       \* each run: its status, as far as it is active or not
  call,       \* each call: where it is and what it holds
  faults, calls

rowVars == <<state, named, touched>>
machineVars == <<power, disk, hydrated>>
bounds == <<faults, calls>>
vars == <<rowVars, machineVars, home, life, call, bounds>>

Callers == Runs \union {"boot", "stop", "sleep"}
Ensurers == Runs \union {"boot"}
Living == {"running", "paused"}
Lives == {"new", "active", "completed", "failed", "cancelled"}

\* A call: its next await, the machine it has a reference to and whether that
\* was created for it, the work it exported, and how a run means to end.
Calls == [at : {"off", "mark", "provision", "restore", "record", "work", "check",
                "export", "commit", "finish", "recheck", "row", "runs", "halt",
                "settle"},
          ref : Machines \union {NoMachine},
          fresh : BOOLEAN,
          snap : SUBSET Runs,
          goal : Lives]

NoCall == [at |-> "off", ref |-> NoMachine, fresh |-> FALSE, snap |-> {},
           goal |-> "active"]

\* Every call past its provisioning holds a machine.
TypeOK ==
  /\ state \in {"stopped", "booting", "running", "suspended", "error"}
  /\ named \in Machines \union {NoMachine}
  /\ touched \in BOOLEAN
  /\ power \in [Machines -> {"none", "lost", "destroyed"} \union Living]
  /\ disk \in [Machines -> SUBSET Runs]
  /\ hydrated \in SUBSET Machines
  /\ home \in SUBSET Runs
  /\ life \in [Runs -> Lives]
  /\ call \in [Callers -> Calls]
  /\ \A a \in Callers : call[a].at \notin {"off", "mark", "provision"} =>
                          call[a].ref \in Machines
  /\ faults \in Nat /\ calls \in Nat

Init ==
  /\ state = "stopped" /\ named = NoMachine /\ touched = FALSE
  /\ power = [m \in Machines |-> "none"]
  /\ disk = [m \in Machines |-> {}]
  /\ hydrated = {} /\ home = {}
  /\ life = [r \in Runs |-> "new"]
  /\ call = [a \in Callers |-> NoCall]
  /\ faults = 0 /\ calls = 0

At(a, here) == call[a].at = here
Go(a, there) == call' = [call EXCEPT ![a].at = there]
Leave(a) == call' = [call EXCEPT ![a] = NoCall]

\* Every update of the row moves updatedAt.
Write(s) == state' = s /\ touched' = TRUE

Alive(a) == call[a].ref # NoMachine /\ power[call[a].ref] \in Living

PowerOn(m) == power' = [power EXCEPT ![m] = "running"]

Throws == faults < MaxFaults /\ faults' = faults + 1 /\ UNCHANGED calls
Begins == calls < MaxCalls /\ calls' = calls + 1 /\ UNCHANGED faults
-----------------------------------------------------------------------------
(* Runs come and go. *)

Submit(r) ==
  /\ life[r] = "new"
  /\ life' = [life EXCEPT ![r] = "active"]
  /\ UNCHANGED <<rowVars, machineVars, home, call, bounds>>

\* thread.stop; the slot that works on the run finds out later.
Cancel(r) ==
  /\ life[r] = "active"
  /\ life' = [life EXCEPT ![r] = "cancelled"]
  /\ UNCHANGED <<rowVars, machineVars, home, call, bounds>>

\* A lease renewal, or the update that ends the run, finds no row.
NoticeCancel(r) ==
  /\ life[r] = "cancelled"
  /\ At(r, "work") \/ At(r, "finish")
  /\ Leave(r)
  /\ UNCHANGED <<rowVars, machineVars, home, life, bounds>>
-----------------------------------------------------------------------------
(* ensureComputer of a run, and computer.boot. *)

\* The row is read.
Ensure(a) ==
  /\ At(a, "off")
  /\ IF a \in Runs THEN life[a] = "active" /\ UNCHANGED bounds ELSE Begins
  /\ call' = [call EXCEPT ![a].at = "mark", ![a].ref = named]
  /\ UNCHANGED <<rowVars, machineVars, home, life>>

Mark(a) ==
  /\ At(a, "mark") /\ Go(a, "provision")
  /\ Write("booting")
  /\ UNCHANGED <<named, machineVars, home, life, bounds>>

\* The provider connects to the machine that is known, and resumes it.
Connect(a) ==
  /\ Alive(a)
  /\ At(a, "provision") /\ Go(a, "record")
  /\ PowerOn(call[a].ref)
  /\ UNCHANGED <<rowVars, disk, hydrated, home, life, bounds>>

\* There is none, or it is gone: a new one, for the step `next'.
CreateFor(a, next) ==
  /\ ~Alive(a)
  /\ At(a, "provision")
  /\ \E m \in Machines :
       /\ power[m] = "none"
       /\ PowerOn(m)
       /\ call' = [call EXCEPT ![a].at = next, ![a].ref = m, ![a].fresh = TRUE]
  /\ UNCHANGED <<rowVars, disk, hydrated, home, life, bounds>>

\* Slip: a bot that had a machine is not taken to need its home again.
CreateAndRecord(a) ==
  CreateFor(a, IF call[a].ref = NoMachine THEN "restore" ELSE "record")

\* Slip: the reference that provision returned is not kept.
CreateUnheld(a) ==
  /\ ~Alive(a)
  /\ At(a, "provision") /\ Go(a, "restore")
  /\ \E m \in Machines : power[m] = "none" /\ PowerOn(m)
  /\ UNCHANGED <<rowVars, disk, hydrated, home, life, bounds>>

\* A fresh machine is to be hydrated.
Create(a) == CreateFor(a, "restore")

\* restoreComputerWorkspace
Restore(a) ==
  /\ Alive(a)
  /\ At(a, "restore") /\ Go(a, "record")
  /\ disk' = [disk EXCEPT ![call[a].ref] = @ \union home]
  /\ hydrated' = hydrated \union {call[a].ref}
  /\ UNCHANGED <<rowVars, power, home, life, bounds>>

Record(a) ==
  /\ At(a, "record")
  /\ IF a \in Runs THEN Go(a, "work") ELSE Leave(a)
  /\ Write("running")
  /\ named' = call[a].ref
  /\ UNCHANGED <<machineVars, home, life, bounds>>

EnsureThrows(a) ==
  /\ At(a, "provision") \/ At(a, "restore") \/ At(a, "record")
  /\ Throws
  /\ Leave(a)
  /\ Write("error")
  /\ UNCHANGED <<named, disk, hydrated, home, life>>

Destroy(m) == power' = [power EXCEPT ![m] = "destroyed"]

\* Slip: the machine is destroyed whoever created it.
EnsureFailsDestroying(a) ==
  EnsureThrows(a) /\ IF call[a].ref # NoMachine THEN Destroy(call[a].ref) ELSE UNCHANGED power

\* A machine created by the call that throws is destroyed, unless that fails too.
\* A run stays active, and is dispatched again.
EnsureFails(a) ==
  EnsureThrows(a) /\ (UNCHANGED power \/ (call[a].fresh /\ Destroy(call[a].ref)))
-----------------------------------------------------------------------------
(* What a run does with its computer. *)

\* A machine that was paused under the run is resumed.  The run is then to be
\* completed, to fail, or to wait for an answer or a takeover: request_takeover
\* writes the row.
Work(r) ==
  /\ Alive(r)
  /\ At(r, "work")
  /\ \E goal \in {"completed", "failed", "active"} :
       /\ call' = [call EXCEPT ![r].at = "export", ![r].goal = goal]
       /\ \/ UNCHANGED <<state, touched>>
          \/ goal = "active" /\ Write("running")
  /\ PowerOn(call[r].ref)
  /\ disk' = [disk EXCEPT ![call[r].ref] = @ \union {r}]
  /\ UNCHANGED <<named, hydrated, home, life, bounds>>

\* The machine is not there.
WorkFails(r) ==
  /\ ~Alive(r)
  /\ At(r, "work")
  /\ call' = [call EXCEPT ![r].at = "export", ![r].goal = "failed"]
  /\ UNCHANGED <<rowVars, machineVars, home, life, bounds>>

\* finalizeRun, or a pause after which the run is dispatched anew.
Finish(r) ==
  /\ At(r, "finish") /\ Leave(r)
  /\ life[r] = "active"
  /\ life' = [life EXCEPT ![r] = call[r].goal]
  /\ UNCHANGED <<rowVars, machineVars, home, bounds>>
-----------------------------------------------------------------------------
(* checkpointAndRecordComputerWorkspace, of a run, a stop or the idle job. *)

Export(a) ==
  /\ Alive(a)
  /\ At(a, "export")
  /\ call' = [call EXCEPT ![a].at = "commit", ![a].snap = disk[call[a].ref]]
  /\ PowerOn(call[a].ref)
  /\ UNCHANGED <<rowVars, disk, hydrated, home, life, bounds>>

AfterCommit(a) ==
  CASE a \in Runs -> "finish"
    [] a = "stop" -> "halt"
    [] a = "sleep" -> "recheck"

Commit(a) ==
  /\ At(a, "commit") /\ Go(a, AfterCommit(a))
  /\ home' = call[a].snap
  /\ UNCHANGED <<rowVars, machineVars, life, bounds>>

\* The machine is gone, or the export or the commit throws.  A run tries once
\* more, and fails whatever comes of that.
CheckpointFails(a) ==
  /\ At(a, "export") \/ At(a, "commit")
  /\ (At(a, "export") /\ ~Alive(a) /\ UNCHANGED bounds) \/ Throws
  /\ IF a \notin Runs THEN Leave(a)
     ELSE IF call[a].goal = "failed" THEN Go(a, "finish")
     ELSE call' = [call EXCEPT ![a].at = "export", ![a].goal = "failed"]
  /\ UNCHANGED <<rowVars, machineVars, home, life>>
-----------------------------------------------------------------------------
(* computer.stop and the idle job, sleepComputerIfIdle. *)

Stop ==
  /\ At("stop", "off") /\ Begins
  /\ IF named # NoMachine
     THEN /\ call' = [call EXCEPT !["stop"].at = "export", !["stop"].ref = named]
          /\ UNCHANGED <<state, touched>>
     ELSE Write("stopped") /\ UNCHANGED call
  /\ UNCHANGED <<named, machineVars, home, life>>

Sleep ==
  /\ At("sleep", "off") /\ Begins
  /\ state = "running" /\ named # NoMachine
  /\ call' = [call EXCEPT !["sleep"].at = "check", !["sleep"].ref = named]
  /\ touched' = FALSE
  /\ UNCHANGED <<state, named, machineVars, home, life>>

Idle == \A r \in Runs : life[r] # "active"

Check ==
  /\ At("sleep", "check")
  /\ IF Idle THEN Go("sleep", "export") ELSE Leave("sleep")
  /\ UNCHANGED <<rowVars, machineVars, home, life, bounds>>

\* Slip: the row is compared without updatedAt.
SameMachine == state = "running" /\ named = call["sleep"].ref

RowStill == state = "running" /\ named = call["sleep"].ref /\ ~touched

SleepSees(fact, here, there) ==
  At("sleep", here) /\ IF fact THEN Go("sleep", there) ELSE Leave("sleep")

\* The row and the runs are read again, at once and in either order.
Recheck ==
  /\ \/ SleepSees(RowStill, "recheck", "runs") \/ SleepSees(Idle, "runs", "halt")
     \/ SleepSees(Idle, "recheck", "row") \/ SleepSees(RowStill, "row", "halt")
  /\ UNCHANGED <<rowVars, machineVars, home, life, bounds>>

\* sandbox.stop, whose failure is swallowed.
Halt(a) ==
  /\ At(a, "halt") /\ Go(a, "settle")
  /\ \/ UNCHANGED power
     \/ Alive(a) /\ power' = [power EXCEPT ![call[a].ref] = "paused"]
  /\ UNCHANGED <<rowVars, disk, hydrated, home, life, bounds>>

Settle(a) ==
  /\ At(a, "settle") /\ Leave(a)
  /\ Write(IF a = "stop" THEN "stopped" ELSE "suspended")
  /\ UNCHANGED <<named, machineVars, home, life, bounds>>
-----------------------------------------------------------------------------
\* computer.takeover, granted whatever the machine does.
Takeover ==
  /\ Write("running")
  /\ UNCHANGED <<named, machineVars, home, life, call, bounds>>

\* release; heartbeat, input and files, while the row says running.
Touch ==
  /\ touched' = TRUE
  /\ UNCHANGED <<state, named, machineVars, home, life, call, bounds>>

Lose(m) ==
  /\ power[m] \in Living
  /\ Throws
  /\ power' = [power EXCEPT ![m] = "lost"]
  /\ UNCHANGED <<rowVars, disk, hydrated, home, life, call>>

Next ==
  \/ \E r \in Runs : \/ Submit(r) \/ Cancel(r) \/ NoticeCancel(r)
                     \/ Work(r) \/ WorkFails(r) \/ Finish(r)
  \/ \E a \in Ensurers : \/ Ensure(a) \/ Mark(a) \/ Connect(a) \/ Create(a)
                         \/ Restore(a) \/ Record(a) \/ EnsureFails(a)
  \/ \E a \in Callers \ {"boot"} : Export(a) \/ Commit(a) \/ CheckpointFails(a)
  \/ Stop \/ Sleep \/ Check \/ Recheck
  \/ \E a \in {"stop", "sleep"} : Halt(a) \/ Settle(a)
  \/ Takeover \/ Touch
  \/ \E m \in Machines : Lose(m)

Spec == Init /\ [][Next]_vars
-----------------------------------------------------------------------------
(* Safety. *)

\* No run works on a machine, and the row names none, that did not receive the
\* stored home, however boots, runs and failed boots interleave.
HydratedBeforeUse ==
  /\ named # NoMachine => named \in hydrated
  /\ \A r \in Runs : At(r, "work") => call[r].ref \in hydrated

\* A boot that fails destroys no machine that the row names or a run works on.
InUseKept ==
  /\ named # NoMachine => power[named] # "destroyed"
  /\ \A r \in Runs : At(r, "work") => power[call[r].ref] # "destroyed"

\* When the idle job finds the row as it was, its checkpoint holds all the work
\* on the machine, a cancelled run's apart: a run that came and went during the
\* checkpoint shows, because it wrote the row.
SleepSawAll ==
  [][(/\ RowStill
      /\ \/ At("sleep", "recheck") /\ At("sleep", "runs")'
         \/ At("sleep", "row") /\ At("sleep", "halt")') =>
       \A r \in disk[named] : life[r] = "cancelled" \/ r \in call["sleep"].snap]_vars
-----------------------------------------------------------------------------
(* What the documentation says, and the code does not keep.                 *)

\* docs/computer-runtime.md: "The portable bot workspace is the durable
\* boundary."  The work of a completed run is in the stored home or on the
\* machine the bot will use next.
WorkKept ==
  \A r \in Runs : life[r] = "completed" =>
    r \in home \/ (named # NoMachine /\ r \in disk[named])
=============================================================================
