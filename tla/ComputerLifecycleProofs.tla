---------------------- MODULE ComputerLifecycleProofs ----------------------
(* Proofs about ComputerLifecycle, for any runs, machines and bounds.       *)
EXTENDS ComputerLifecycle, TLAPS

\* The steps of Next, by what they do to calls.
Running(r) == Submit(r) \/ Cancel(r) \/ NoticeCancel(r) \/ Work(r) \/ WorkFails(r) \/ Finish(r)
Ensuring(a) == Ensure(a) \/ Mark(a) \/ Connect(a) \/ Restore(a) \/ Record(a)
Checkpointing(a) == Export(a) \/ Commit(a) \/ CheckpointFails(a)
Sleeping == Stop \/ Sleep \/ Check \/ Recheck
Halting(a) == Halt(a) \/ Settle(a)
Outside == Takeover \/ Touch \/ \E m \in Machines : Lose(m)

\* One call changes, to a call.
OneCall(a, c) == c \in Calls /\ call' = [call EXCEPT ![a] = c]

HoldsWhatItNeeds(c) == c.at \notin {"off", "mark", "provision"} => c.ref \in Machines

LEMMA CallTyped ==
  ASSUME TypeOK, NEW a \in Callers, NEW c, OneCall(a, c), HoldsWhatItNeeds(c)
  PROVE  /\ call' \in [Callers -> Calls]
         /\ \A b \in Callers : HoldsWhatItNeeds(call'[b])
BY DEF TypeOK, OneCall, HoldsWhatItNeeds

LEMMA NoCallTyped == NoCall \in Calls /\ HoldsWhatItNeeds(NoCall)
BY DEF NoCall, Calls, Lives, HoldsWhatItNeeds

LEMMA InitTypes == Init => TypeOK
<1> SUFFICES ASSUME Init PROVE TypeOK
  OBVIOUS
<1>1. /\ call \in [Callers -> Calls]
      /\ \A a \in Callers : HoldsWhatItNeeds(call[a])
  BY NoCallTyped DEF Init
<1>2. life \in [Runs -> Lives]
  BY DEF Init, Lives
<1> QED BY <1>1, <1>2 DEF Init, TypeOK, HoldsWhatItNeeds

LEMMA RunningTyped ==
  ASSUME TypeOK, NEW r \in Runs, Running(r)
  PROVE  TypeOK'
<1>1. /\ call' \in [Callers -> Calls]
      /\ \A b \in Callers : HoldsWhatItNeeds(call'[b])
  BY NoCallTyped DEF TypeOK, Running, Submit, Cancel, NoticeCancel, Work, WorkFails, Finish,
     Leave, At, Calls, Callers, Lives, HoldsWhatItNeeds
<1>2. life' \in [Runs -> Lives]
  BY DEF TypeOK, Running, Submit, Cancel, NoticeCancel, Work, WorkFails, Finish,
     Callers, Calls, Lives
<1>3. /\ power' \in [Machines -> {"none", "lost", "destroyed"} \union Living]
      /\ disk' \in [Machines -> SUBSET Runs]
  BY DEF TypeOK, Running, Submit, Cancel, NoticeCancel, Work, WorkFails, Finish,
     PowerOn, Living, machineVars
<1>4. /\ state' \in {"stopped", "booting", "running", "suspended", "error"}
      /\ touched' \in BOOLEAN
  BY DEF TypeOK, Running, Submit, Cancel, NoticeCancel, Work, WorkFails, Finish,
     Write, rowVars
<1>5. UNCHANGED <<named, hydrated, home, faults, calls>>
  BY DEF Running, Submit, Cancel, NoticeCancel, Work, WorkFails, Finish,
     rowVars, machineVars, bounds
<1> QED BY <1>1, <1>2, <1>3, <1>4, <1>5 DEF TypeOK, HoldsWhatItNeeds

LEMMA EnsuringTyped ==
  ASSUME TypeOK, NEW a \in Ensurers, Ensuring(a)
  PROVE  TypeOK'
<1>1. /\ call' \in [Callers -> Calls]
      /\ \A b \in Callers : HoldsWhatItNeeds(call'[b])
  BY NoCallTyped DEF TypeOK, Ensuring, Ensure, Mark, Connect, Restore, Record, Alive,
     Go, Leave, At, Calls, Callers, Ensurers, HoldsWhatItNeeds
<1>2. named' \in Machines \union {NoMachine}
  BY DEF TypeOK, Ensuring, Ensure, Mark, Connect, Restore, Record, Calls, Callers,
     Ensurers, rowVars
<1>3. /\ power' \in [Machines -> {"none", "lost", "destroyed"} \union Living]
      /\ disk' \in [Machines -> SUBSET Runs]
      /\ hydrated' \in SUBSET Machines
  BY DEF TypeOK, Ensuring, Ensure, Mark, Connect, Restore, Record, PowerOn, Alive, At,
     Living, Callers, Ensurers, machineVars
<1>4. /\ state' \in {"stopped", "booting", "running", "suspended", "error"}
      /\ touched' \in BOOLEAN
  BY DEF TypeOK, Ensuring, Ensure, Mark, Connect, Restore, Record, Write, rowVars
<1>5. faults' \in Nat /\ calls' \in Nat
  BY DEF TypeOK, Ensuring, Ensure, Mark, Connect, Restore, Record, Begins, bounds
<1>6. UNCHANGED <<home, life>>
  BY DEF Ensuring, Ensure, Mark, Connect, Restore, Record
<1> QED BY <1>1, <1>2, <1>3, <1>4, <1>5, <1>6 DEF TypeOK, HoldsWhatItNeeds

LEMMA CreateTyped ==
  ASSUME TypeOK, NEW a \in Ensurers, Create(a)
  PROVE  TypeOK'
<1>1. PICK m \in Machines :
        /\ power[m] = "none"
        /\ PowerOn(m)
        /\ call' = [call EXCEPT ![a].at = "restore", ![a].ref = m, ![a].fresh = TRUE]
  BY DEF Create, CreateFor
<1>2. /\ call' \in [Callers -> Calls]
      /\ \A b \in Callers : HoldsWhatItNeeds(call'[b])
  <2> DEFINE c == [call[a] EXCEPT !.at = "restore", !.ref = m, !.fresh = TRUE]
  <2>1. call' = [call EXCEPT ![a] = c]
    BY <1>1 DEF TypeOK, Calls, Callers, Ensurers
  <2>2. c \in Calls /\ HoldsWhatItNeeds(c)
    <3>1. call[a] \in Calls
      BY DEF TypeOK, Callers, Ensurers
    <3>2. c \in Calls
      BY <3>1 DEF Calls
    <3>3. c.ref = m
      BY <3>1 DEF Calls
    <3> QED BY <3>2, <3>3 DEF HoldsWhatItNeeds
  <2>3. a \in Callers
    BY DEF Callers, Ensurers
  <2> QED BY <2>1, <2>2, <2>3, CallTyped DEF OneCall
<1>3. power' \in [Machines -> {"none", "lost", "destroyed"} \union Living]
  BY <1>1 DEF TypeOK, PowerOn, Living
<1> QED BY <1>2, <1>3 DEF TypeOK, HoldsWhatItNeeds, Create, CreateFor, rowVars, bounds

LEMMA EnsureFailsTyped ==
  ASSUME TypeOK, NEW a \in Ensurers, EnsureFails(a)
  PROVE  TypeOK'
<1>1. /\ call' \in [Callers -> Calls]
      /\ \A b \in Callers : HoldsWhatItNeeds(call'[b])
  BY NoCallTyped DEF TypeOK, EnsureFails, EnsureThrows, Leave, HoldsWhatItNeeds
<1>2. power' \in [Machines -> {"none", "lost", "destroyed"} \union Living]
  BY DEF TypeOK, EnsureFails, Destroy
<1> QED BY <1>1, <1>2 DEF TypeOK, HoldsWhatItNeeds, EnsureFails, EnsureThrows, Write, Throws

LEMMA CheckpointingTyped ==
  ASSUME TypeOK, NEW a \in Callers \ {"boot"}, Checkpointing(a)
  PROVE  TypeOK'
<1>1. AfterCommit(a) \in {"finish", "halt", "recheck"}
  BY DEF AfterCommit, Callers
<1>2. /\ call' \in [Callers -> Calls]
      /\ \A b \in Callers : HoldsWhatItNeeds(call'[b])
  BY <1>1, NoCallTyped DEF TypeOK, Checkpointing, Export, Commit, CheckpointFails, Alive, At,
     Go, Leave, Calls, Lives, HoldsWhatItNeeds
<1>3. /\ power' \in [Machines -> {"none", "lost", "destroyed"} \union Living]
      /\ home' \in SUBSET Runs
      /\ faults' \in Nat /\ calls' \in Nat
      /\ UNCHANGED <<state, named, touched, disk, hydrated, life>>
  BY DEF TypeOK, Checkpointing, Export, Commit, CheckpointFails, PowerOn, Living, Calls,
     Throws, rowVars, machineVars, bounds
<1> QED BY <1>2, <1>3 DEF TypeOK, HoldsWhatItNeeds

LEMMA SleepingTyped ==
  ASSUME TypeOK, Sleeping
  PROVE  TypeOK'
<1>1. /\ call' \in [Callers -> Calls]
      /\ \A b \in Callers : HoldsWhatItNeeds(call'[b])
  BY NoCallTyped DEF TypeOK, Sleeping, Stop, Sleep, Check, Recheck, SleepSees, At, Go, Leave,
     Calls, Callers, HoldsWhatItNeeds
<1>2. /\ state' \in {"stopped", "booting", "running", "suspended", "error"}
      /\ touched' \in BOOLEAN
  BY DEF TypeOK, Sleeping, Stop, Sleep, Check, Recheck, Write, rowVars
<1>3. faults' \in Nat /\ calls' \in Nat
  BY DEF TypeOK, Sleeping, Stop, Sleep, Check, Recheck, Begins, bounds
<1>4. UNCHANGED <<named, power, disk, hydrated, home, life>>
  BY DEF Sleeping, Stop, Sleep, Check, Recheck, rowVars, machineVars
<1> QED BY <1>1, <1>2, <1>3, <1>4 DEF TypeOK, HoldsWhatItNeeds

LEMMA HaltingTyped ==
  ASSUME TypeOK, NEW a \in {"stop", "sleep"}, Halting(a)
  PROVE  TypeOK'
<1>1. /\ call' \in [Callers -> Calls]
      /\ \A b \in Callers : HoldsWhatItNeeds(call'[b])
  BY NoCallTyped DEF TypeOK, Halting, Halt, Settle, At, Go, Leave, Calls, Callers,
     HoldsWhatItNeeds
<1>2. power' \in [Machines -> {"none", "lost", "destroyed"} \union Living]
  BY DEF TypeOK, Halting, Halt, Settle, Alive, Living, machineVars
<1> QED BY <1>1, <1>2 DEF TypeOK, HoldsWhatItNeeds, Halting, Halt, Settle, Write,
     rowVars, machineVars, bounds

LEMMA OutsideTyped ==
  ASSUME TypeOK, Outside
  PROVE  TypeOK'
<1>1. power' \in [Machines -> {"none", "lost", "destroyed"} \union Living]
  BY DEF TypeOK, Outside, Takeover, Touch, Lose, machineVars
<1>2. faults' \in Nat /\ calls' \in Nat
  BY DEF TypeOK, Outside, Takeover, Touch, Lose, Throws, bounds
<1>3. state' \in {"stopped", "booting", "running", "suspended", "error"} /\ touched' \in BOOLEAN
  BY DEF TypeOK, Outside, Takeover, Touch, Lose, Write, rowVars
<1>4. UNCHANGED <<named, disk, hydrated, home, life, call>>
  BY DEF Outside, Takeover, Touch, Lose, rowVars, machineVars
<1> QED BY <1>1, <1>2, <1>3, <1>4 DEF TypeOK

LEMMA Steps ==
  ASSUME Next
  PROVE  \/ \E r \in Runs : Running(r)
         \/ \E a \in Ensurers : Ensuring(a) \/ Create(a) \/ EnsureFails(a)
         \/ \E a \in Callers \ {"boot"} : Checkpointing(a)
         \/ Sleeping
         \/ \E a \in {"stop", "sleep"} : Halting(a)
         \/ Outside
BY DEF Next, Running, Ensuring, Checkpointing, Sleeping, Halting, Outside

LEMMA TypeStep == TypeOK /\ [Next]_vars => TypeOK'
<1> SUFFICES ASSUME TypeOK, [Next]_vars PROVE TypeOK'
  OBVIOUS
<1>1. CASE UNCHANGED vars
  BY <1>1 DEF TypeOK, vars, rowVars, machineVars, bounds
<1>2. CASE Next
  BY <1>2, Steps, RunningTyped, EnsuringTyped, CreateTyped, EnsureFailsTyped,
     CheckpointingTyped, SleepingTyped, HaltingTyped, OutsideTyped
<1> QED BY <1>1, <1>2

(* Every variable of the model keeps its type, and a call past its         *)
(* provisioning holds a machine.                                           *)
THEOREM TypeCorrect == Spec => []TypeOK
<1>1. Init => TypeOK
  BY InitTypes
<1>2. TypeOK /\ [Next]_vars => TypeOK'
  BY TypeStep
<1> QED BY <1>1, <1>2, PTL DEF Spec
-----------------------------------------------------------------------------
(* Why machines in use are hydrated and kept: a machine that a call created *)
(* is no one else's until it is recorded.                                   *)

Gone == {"none", "destroyed"}

\* Every reference is to a machine that was created and not destroyed, and that
\* received the home unless the call has still to restore it.
RefsInService ==
  \A a \in Callers : call[a].ref # NoMachine =>
    /\ power[call[a].ref] \notin Gone
    /\ call[a].at # "restore" => call[a].ref \in hydrated

NamedInService == named # NoMachine => power[named] \notin Gone /\ named \in hydrated

Owns(a) == call[a].fresh /\ call[a].at \in {"restore", "record"}

OwnedBySelf ==
  \A a \in Callers : Owns(a) =>
    /\ call[a].ref # named
    /\ \A b \in Callers \ {a} : call[b].ref # call[a].ref

NotYetFresh ==
  \A a \in Callers : call[a].at \in {"off", "mark", "provision"} => ~call[a].fresh

Ownership == RefsInService /\ NamedInService /\ OwnedBySelf /\ NotYetFresh

\* A call takes up the named machine, or keeps its own beyond the record.
MovesOn(c, d) ==
  /\ c.at # "restore" /\ d.at \notin {"restore", "record"}
  /\ d.ref \in {c.ref, named}
  /\ ~d.fresh \/ d.at \notin {"off", "mark", "provision"}

\* Steps that neither create, destroy, restore nor record.
Calm ==
  /\ named' = named /\ hydrated' = hydrated
  /\ \A m \in Machines : power[m] \notin Gone => power'[m] \notin Gone
  /\ \A a \in Callers :
       call'[a] = call[a] \/ call'[a] = NoCall \/ MovesOn(call[a], call'[a])

LEMMA CalmKeeps ==
  ASSUME TypeOK, Ownership, Calm
  PROVE  Ownership'
<1>1. named # NoMachine => power'[named] \notin Gone /\ named \in hydrated'
  BY DEF TypeOK, Ownership, NamedInService, Calm
<1>2. NamedInService'
  BY <1>1 DEF NamedInService, Calm
<1>3. ASSUME NEW a \in Callers, call'[a].ref # NoMachine
      PROVE  power'[call'[a].ref] \notin Gone /\ (call'[a].at # "restore" => call'[a].ref \in hydrated')
  <2>1. CASE call'[a] = call[a]
    <3>1. call[a].ref \in Machines
      BY <1>3, <2>1 DEF TypeOK, Calls
    <3> QED BY <1>3, <2>1, <3>1 DEF Ownership, RefsInService, Calm
  <2>2. CASE MovesOn(call[a], call'[a])
    <3>1. CASE call'[a].ref = named
      BY <1>1, <1>3, <3>1
    <3>2. CASE call'[a].ref = call[a].ref
      <4>1. call[a].ref \in Machines
        BY <1>3, <3>2 DEF TypeOK, Calls
      <4> QED BY <1>3, <2>2, <3>2, <4>1 DEF Ownership, RefsInService, Calm, MovesOn
    <3> QED BY <2>2, <3>1, <3>2 DEF MovesOn
  <2>3. call'[a] # NoCall
    BY <1>3 DEF NoCall
  <2> QED BY <2>1, <2>2, <2>3 DEF Calm
<1>4. RefsInService'
  BY <1>3 DEF RefsInService
<1>5. NotYetFresh'
  BY DEF Ownership, NotYetFresh, Calm, MovesOn, NoCall
<1>6. ASSUME NEW a \in Callers, Owns(a)'
      PROVE  /\ Owns(a) /\ call'[a] = call[a]
             /\ call'[a].ref # named'
             /\ \A b \in Callers \ {a} : call'[b].ref # call'[a].ref
  <2>1. Owns(a) /\ call'[a] = call[a]
    BY <1>6 DEF Owns, Calm, MovesOn, NoCall
  <2>2. call[a].ref # named /\ \A b \in Callers \ {a} : call[b].ref # call[a].ref
    BY <2>1 DEF Ownership, OwnedBySelf
  <2>3. call[a].ref # NoMachine
    BY <2>1, ComputerConstants DEF TypeOK, Owns
  <2>4. ASSUME NEW b \in Callers \ {a} PROVE call'[b].ref # call[a].ref
    BY <2>2, <2>3 DEF Calm, MovesOn, NoCall
  <2> QED BY <2>1, <2>2, <2>4 DEF Calm
<1>7. OwnedBySelf'
  BY <1>6 DEF OwnedBySelf
<1> QED BY <1>2, <1>4, <1>5, <1>7 DEF Ownership

LEMMA RunningCalm == ASSUME TypeOK, Ownership, NEW r \in Runs, Running(r) PROVE Calm
<1>1. \A a \in Callers :
        call'[a] = call[a] \/ call'[a] = NoCall \/ MovesOn(call[a], call'[a])
  BY DEF TypeOK, Running, Submit, Cancel, NoticeCancel, Work, WorkFails, Finish,
     Leave, At, Calls, MovesOn
<1>2. \A m \in Machines : power[m] \notin Gone => power'[m] \notin Gone
  BY DEF TypeOK, Running, Submit, Cancel, NoticeCancel, Work, WorkFails, Finish,
     PowerOn, Gone, machineVars
<1>3. named' = named /\ hydrated' = hydrated
  BY DEF Running, Submit, Cancel, NoticeCancel, Work, WorkFails, Finish, rowVars, machineVars
<1> QED BY <1>1, <1>2, <1>3 DEF Calm

LEMMA BeginsCalm ==
  ASSUME TypeOK, Ownership, NEW a \in Ensurers, Ensure(a) \/ Mark(a)
  PROVE  Calm
<1>1. a \in Callers /\ (call[a].at \in {"off", "mark"} => ~call[a].fresh)
  BY DEF Ownership, NotYetFresh, Callers, Ensurers
<1>2. \A b \in Callers :
        call'[b] = call[b] \/ call'[b] = NoCall \/ MovesOn(call[b], call'[b])
  BY <1>1 DEF TypeOK, Ensure, Mark, At, Go, Calls, MovesOn
<1> QED BY <1>2 DEF Calm, Ensure, Mark, rowVars, machineVars

LEMMA CheckpointingCalm ==
  ASSUME TypeOK, Ownership, NEW a \in Callers \ {"boot"}, Checkpointing(a)
  PROVE  Calm
<1>1. AfterCommit(a) \in {"finish", "halt", "recheck"}
  BY DEF AfterCommit, Callers
<1>2. \A b \in Callers :
        call'[b] = call[b] \/ call'[b] = NoCall \/ MovesOn(call[b], call'[b])
  BY <1>1 DEF TypeOK, Checkpointing, Export, Commit, CheckpointFails, At, Go, Leave,
     Calls, MovesOn
<1>3. \A m \in Machines : power[m] \notin Gone => power'[m] \notin Gone
  BY DEF TypeOK, Checkpointing, Export, Commit, CheckpointFails, PowerOn, Gone, machineVars
<1>4. named' = named /\ hydrated' = hydrated
  BY DEF Checkpointing, Export, Commit, CheckpointFails, rowVars, machineVars
<1> QED BY <1>2, <1>3, <1>4 DEF Calm

LEMMA SleepingCalm == ASSUME TypeOK, Ownership, Sleeping PROVE Calm
<1>1. ~call["stop"].fresh \/ call["stop"].at # "off"
  BY DEF Ownership, NotYetFresh, Callers
<1>2. \A a \in Callers :
        call'[a] = call[a] \/ call'[a] = NoCall \/ MovesOn(call[a], call'[a])
  BY <1>1 DEF TypeOK, Sleeping, Stop, Sleep, Check, Recheck, SleepSees, At, Go, Leave,
     Calls, MovesOn
<1> QED BY <1>2 DEF Calm, Sleeping, Stop, Sleep, Check, Recheck, rowVars, machineVars

LEMMA HaltingCalm ==
  ASSUME TypeOK, Ownership, NEW a \in {"stop", "sleep"}, Halting(a)
  PROVE  Calm
<1>1. \A b \in Callers :
        call'[b] = call[b] \/ call'[b] = NoCall \/ MovesOn(call[b], call'[b])
  BY DEF TypeOK, Halting, Halt, Settle, At, Go, Leave, Calls, MovesOn
<1>2. \A m \in Machines : power[m] \notin Gone => power'[m] \notin Gone
  BY DEF TypeOK, Halting, Halt, Settle, Alive, Living, Gone, machineVars
<1> QED BY <1>1, <1>2 DEF Calm, Halting, Halt, Settle, rowVars, machineVars

LEMMA OutsideCalm == ASSUME TypeOK, Ownership, Outside PROVE Calm
<1>1. \A m \in Machines : power[m] \notin Gone => power'[m] \notin Gone
  BY DEF TypeOK, Outside, Takeover, Touch, Lose, Gone, machineVars
<1>2. UNCHANGED <<named, hydrated, call>>
  BY DEF Outside, Takeover, Touch, Lose, rowVars, machineVars
<1> QED BY <1>1, <1>2 DEF Calm

\* The machine that is connected to is one in service, and not fresh.
LEMMA ConnectKeeps ==
  ASSUME TypeOK, Ownership, NEW a \in Ensurers, Connect(a)
  PROVE  Ownership'
<1>1. /\ a \in Callers /\ call[a].ref \in Machines /\ call[a].ref \in hydrated
      /\ ~call[a].fresh
  BY DEF TypeOK, Ownership, RefsInService, NotYetFresh, Connect, Alive, At, Calls,
     Callers, Ensurers
<1>2. \A b \in Callers : call'[b].ref = call[b].ref /\ call'[b].fresh = call[b].fresh
  BY <1>1 DEF TypeOK, Connect, Go, Calls
<1>3. \A b \in Callers \ {a} : call'[b] = call[b]
  BY DEF TypeOK, Connect, Go
<1>4. call'[a].at = "record"
  BY <1>1 DEF TypeOK, Connect, Go, Calls
<1>5. \A m \in Machines : power[m] \notin Gone => power'[m] \notin Gone
  BY DEF TypeOK, Connect, PowerOn, Gone
<1>6. UNCHANGED <<named, hydrated>>
  BY DEF Connect, rowVars
<1>7. \A b \in Callers : call[b].ref \in Machines \union {NoMachine}
  BY DEF TypeOK, Calls
<1>8. RefsInService'
  BY <1>1, <1>2, <1>3, <1>4, <1>5, <1>6, <1>7 DEF Ownership, RefsInService
<1>9. NamedInService'
  BY <1>5, <1>6 DEF TypeOK, Ownership, NamedInService
<1>10. OwnedBySelf' /\ NotYetFresh'
  BY <1>1, <1>2, <1>3, <1>4, <1>6 DEF Ownership, OwnedBySelf, NotYetFresh, Owns
<1> QED BY <1>8, <1>9, <1>10 DEF Ownership

\* A new machine is in nobody's hands.
LEMMA CreateKeeps ==
  ASSUME TypeOK, Ownership, NEW a \in Ensurers, Create(a)
  PROVE  Ownership'
<1>1. PICK m \in Machines :
        /\ power[m] = "none"
        /\ power' = [power EXCEPT ![m] = "running"]
        /\ call' = [call EXCEPT ![a].at = "restore", ![a].ref = m, ![a].fresh = TRUE]
  BY DEF Create, CreateFor, PowerOn
<1>2. a \in Callers /\ \A b \in Callers \ {a} : call'[b] = call[b]
  BY <1>1 DEF TypeOK, Callers, Ensurers
<1>3. call'[a].ref = m /\ call'[a].at = "restore"
  BY <1>1, <1>2 DEF TypeOK, Calls
<1>4. named # m /\ \A b \in Callers : call[b].ref # m
  BY <1>1, ComputerConstants DEF Ownership, RefsInService, NamedInService, Gone
<1>5. \A n \in Machines : power[n] \notin Gone => power'[n] \notin Gone
  BY <1>1 DEF TypeOK, Gone
<1>6. power'[m] \notin Gone
  BY <1>1 DEF TypeOK, Gone
<1>7. UNCHANGED <<named, hydrated>>
  BY DEF Create, CreateFor, rowVars
<1>8. \A b \in Callers : call[b].ref \in Machines \union {NoMachine}
  BY DEF TypeOK, Calls
<1>9. RefsInService'
  BY <1>2, <1>3, <1>5, <1>6, <1>7, <1>8 DEF Ownership, RefsInService
<1>10. NamedInService'
  BY <1>5, <1>7 DEF TypeOK, Ownership, NamedInService
<1>11. OwnedBySelf' /\ NotYetFresh'
  BY <1>2, <1>3, <1>4, <1>7 DEF Ownership, OwnedBySelf, NotYetFresh, Owns
<1> QED BY <1>9, <1>10, <1>11 DEF Ownership

LEMMA RestoreKeeps ==
  ASSUME TypeOK, Ownership, NEW a \in Ensurers, Restore(a)
  PROVE  Ownership'
<1>1. a \in Callers /\ call[a].at = "restore"
  BY DEF Restore, At, Callers, Ensurers
<1>2. \A b \in Callers : call'[b].ref = call[b].ref /\ call'[b].fresh = call[b].fresh
  BY <1>1 DEF TypeOK, Restore, Go, Calls
<1>3. \A b \in Callers \ {a} : call'[b] = call[b]
  BY DEF TypeOK, Restore, Go
<1>4. call'[a].at = "record"
  BY <1>1 DEF TypeOK, Restore, Go, Calls
<1>5. /\ UNCHANGED <<named, power>>
      /\ hydrated' = hydrated \union {call[a].ref}
  BY DEF Restore, rowVars
<1>6. RefsInService' /\ NamedInService'
  BY <1>2, <1>3, <1>4, <1>5 DEF Ownership, RefsInService, NamedInService
<1>7. OwnedBySelf' /\ NotYetFresh'
  BY <1>1, <1>2, <1>3, <1>4, <1>5 DEF Ownership, OwnedBySelf, NotYetFresh, Owns
<1> QED BY <1>6, <1>7 DEF Ownership

\* The recorded machine is no other call's own.
LEMMA RecordKeeps ==
  ASSUME TypeOK, Ownership, NEW a \in Ensurers, Record(a)
  PROVE  Ownership'
<1>1. a \in Callers /\ call[a].at = "record" /\ call[a].ref \in Machines
  BY DEF TypeOK, Record, At, Callers, Ensurers
<1>2. \A b \in Callers \ {a} : call'[b] = call[b]
  BY DEF TypeOK, Record, Go, Leave
<1>3. \/ call'[a] = NoCall
      \/ call'[a].at = "work" /\ call'[a].ref = call[a].ref
  BY <1>1 DEF TypeOK, Record, Go, Leave, Calls
<1>4. UNCHANGED <<hydrated, power>> /\ named' = call[a].ref
  BY DEF Record, machineVars
<1>5. call[a].ref \in hydrated /\ power[call[a].ref] \notin Gone
  BY <1>1, ComputerConstants DEF Ownership, RefsInService
<1>6. RefsInService' /\ NamedInService'
  BY <1>1, <1>2, <1>3, <1>4, <1>5 DEF Ownership, RefsInService, NamedInService, NoCall
<1>7. NotYetFresh'
  BY <1>2, <1>3 DEF Ownership, NotYetFresh, NoCall
<1>8. ASSUME NEW b \in Callers, Owns(b)'
      PROVE  call'[b].ref # named' /\ \A c \in Callers \ {b} : call'[c].ref # call'[b].ref
  <2>1. b # a /\ Owns(b)
    BY <1>2, <1>3, <1>8 DEF Owns, NoCall
  <2>2. \A c \in Callers \ {b} : call[c].ref # call[b].ref
    BY <2>1 DEF Ownership, OwnedBySelf
  <2>3. call[b].ref \in Machines
    BY <2>1 DEF TypeOK, Owns
  <2> QED BY <1>1, <1>2, <1>3, <1>4, <2>1, <2>2, <2>3, ComputerConstants DEF NoCall
<1> QED BY <1>6, <1>7, <1>8 DEF Ownership, OwnedBySelf

\* What a failed boot destroys is its own.
LEMMA EnsureFailsKeeps ==
  ASSUME TypeOK, Ownership, NEW a \in Ensurers, EnsureFails(a)
  PROVE  Ownership'
<1>1. a \in Callers
  BY DEF Callers, Ensurers
<1>2. call' = [call EXCEPT ![a] = NoCall] /\ UNCHANGED <<named, hydrated>>
  BY DEF EnsureFails, EnsureThrows, Leave
<1>3. ~call[a].fresh \/ Owns(a)
  BY <1>1 DEF EnsureFails, EnsureThrows, At, Owns, Ownership, NotYetFresh
<1>4. ASSUME NEW m \in Machines, power[m] \notin Gone,
             m = named \/ \E b \in Callers \ {a} : call[b].ref = m
      PROVE  power'[m] \notin Gone
  <2>1. CASE UNCHANGED power
    BY <1>4, <2>1
  <2>2. CASE call[a].fresh /\ Destroy(call[a].ref)
    <3>1. m # call[a].ref
      BY <1>1, <1>3, <1>4, <2>2 DEF Ownership, OwnedBySelf
    <3> QED BY <1>4, <2>2, <3>1 DEF TypeOK, Destroy
  <2> QED BY <2>1, <2>2 DEF EnsureFails
<1>5. RefsInService'
  <2> SUFFICES ASSUME NEW b \in Callers, call'[b].ref # NoMachine
               PROVE  /\ power'[call'[b].ref] \notin Gone
                      /\ call'[b].at # "restore" => call'[b].ref \in hydrated'
    BY DEF RefsInService
  <2>1. b # a /\ call'[b] = call[b]
    BY <1>1, <1>2 DEF TypeOK, NoCall
  <2>2. call[b].ref \in Machines
    BY <2>1 DEF TypeOK, Calls
  <2> QED BY <1>2, <1>4, <2>1, <2>2 DEF Ownership, RefsInService
<1>6. NamedInService'
  BY <1>2, <1>4 DEF TypeOK, Ownership, NamedInService
<1>7. NotYetFresh'
  BY <1>2 DEF TypeOK, Ownership, NotYetFresh, NoCall
<1>8. ASSUME NEW b \in Callers, Owns(b)'
      PROVE  call'[b].ref # named' /\ \A c \in Callers \ {b} : call'[c].ref # call'[b].ref
  <2>1. b # a /\ Owns(b) /\ call'[b] = call[b]
    BY <1>1, <1>2, <1>8 DEF TypeOK, Owns, NoCall
  <2>2. call[b].ref # named /\ \A c \in Callers \ {b} : call[c].ref # call[b].ref
    BY <2>1 DEF Ownership, OwnedBySelf
  <2>3. call[b].ref \in Machines
    BY <2>1 DEF TypeOK, Owns
  <2>4. \A c \in Callers : call'[c] = call[c] \/ call'[c].ref = NoMachine
    BY <1>1, <1>2 DEF TypeOK, NoCall
  <2> QED BY <1>2, <2>1, <2>2, <2>3, <2>4, ComputerConstants
<1> QED BY <1>5, <1>6, <1>7, <1>8 DEF Ownership, OwnedBySelf

LEMMA OwnershipInit == Init => Ownership
BY DEF Init, Ownership, RefsInService, NamedInService, OwnedBySelf, NotYetFresh, Owns, NoCall

LEMMA OwnershipStep == TypeOK /\ Ownership /\ [Next]_vars => Ownership'
<1> SUFFICES ASSUME TypeOK, Ownership, [Next]_vars PROVE Ownership'
  OBVIOUS
<1>1. CASE UNCHANGED vars
  <2>1. Calm
    BY <1>1 DEF Calm, vars, rowVars, machineVars
  <2> QED BY <2>1, CalmKeeps
<1>2. CASE Next
  <2>1. ASSUME NEW a \in Ensurers, Ensuring(a) PROVE Ownership'
    BY <2>1, BeginsCalm, CalmKeeps, ConnectKeeps, RestoreKeeps, RecordKeeps DEF Ensuring
  <2> QED BY <1>2, <2>1, Steps, CalmKeeps, RunningCalm, CreateKeeps, EnsureFailsKeeps,
          CheckpointingCalm, SleepingCalm, HaltingCalm, OutsideCalm
<1> QED BY <1>1, <1>2

LEMMA OwnershipImplies == TypeOK /\ Ownership => HydratedBeforeUse /\ InUseKept
<1> SUFFICES ASSUME TypeOK, Ownership PROVE HydratedBeforeUse /\ InUseKept
  OBVIOUS
<1>1. \A r \in Runs : At(r, "work") =>
        call[r].ref \in hydrated /\ power[call[r].ref] \notin Gone
  BY ComputerConstants DEF TypeOK, Ownership, RefsInService, At, Callers
<1> QED BY <1>1 DEF Ownership, NamedInService, HydratedBeforeUse, InUseKept, Gone

LEMMA OwnershipAlways == Spec => [](TypeOK /\ Ownership)
<1>1. Init => TypeOK /\ Ownership
  BY InitTypes, OwnershipInit
<1>2. TypeOK /\ Ownership /\ [Next]_vars => (TypeOK /\ Ownership)'
  BY TypeStep, OwnershipStep
<1> QED BY <1>1, <1>2, PTL DEF Spec

(* No run works on a machine, and the row names none, that did not receive  *)
(* the stored home.                                                         *)
THEOREM AlwaysHydrated == Spec => []HydratedBeforeUse
<1>1. TypeOK /\ Ownership => HydratedBeforeUse
  BY OwnershipImplies
<1> QED BY <1>1, OwnershipAlways, PTL

(* A failed boot destroys no machine that the row names or a run works on.  *)
THEOREM NeverDestroyedInUse == Spec => []InUseKept
<1>1. TypeOK /\ Ownership => InUseKept
  BY OwnershipImplies
<1> QED BY <1>1, OwnershipAlways, PTL
-----------------------------------------------------------------------------
(* The idle job and the runs that come and go under its checkpoint.         *)

\* A run that has not begun or has ended makes no call.
Settled ==
  \A r \in Runs : life[r] \in {"new", "completed", "failed"} => At(r, "off")

RestoresOwn == \A a \in Callers : At(a, "restore") => call[a].fresh

\* The idle job found no active run, and the row was not written since.
Undisturbed(steps) == ~touched /\ call["sleep"].at \in steps

\* Whatever run is active since then has not got past its reading of the row.
ActiveOutside ==
  Undisturbed({"export", "commit", "recheck", "runs", "row"}) =>
    \A r \in Runs : life[r] = "active" => At(r, "off") \/ At(r, "mark")

\* What was exported is what there is, but for the runs that were cancelled.
ExportHolds ==
  Undisturbed({"commit", "recheck", "runs", "row"}) =>
    \A r \in disk[call["sleep"].ref] : life[r] = "cancelled" \/ r \in call["sleep"].snap

SleepInv == Settled /\ RestoresOwn /\ ActiveOutside /\ ExportHolds

LEMMA SleepInit == Init => SleepInv
<1> SUFFICES ASSUME Init PROVE SleepInv
  OBVIOUS
<1>1. \A a \in Callers : call[a].at = "off"
  BY DEF Init, NoCall
<1>2. Settled /\ RestoresOwn
  BY <1>1 DEF Settled, RestoresOwn, At, Callers
<1>3. call["sleep"].at = "off"
  BY <1>1 DEF Callers
<1>4. ActiveOutside /\ ExportHolds
  BY <1>3 DEF ActiveOutside, ExportHolds, Undisturbed
<1> QED BY <1>2, <1>4 DEF SleepInv

Unread(r) == life[r] = "active" => At(r, "off") \/ At(r, "mark")

\* What the idle job knows survives a step that writes the row, and one that
\* leaves its call alone and under which no run gets past its reading of the row
\* or adds to a machine, unless it was cancelled.
Unseen ==
  \/ touched'
  \/ /\ touched' = touched /\ call'["sleep"] = call["sleep"]
     /\ \A r \in Runs : life'[r] = "active" /\ Unread(r) => Unread(r)'
     /\ \A r \in Runs : life[r] = "cancelled" => life'[r] = "cancelled"
     /\ ActiveOutside /\ Undisturbed({"commit", "recheck", "runs", "row"}) =>
          \A r \in disk'[call["sleep"].ref] \ disk[call["sleep"].ref] :
            r \in Runs /\ life'[r] = "cancelled"

LEMMA UnseenKeeps ==
  ASSUME TypeOK, TypeOK', SleepInv, Unseen
  PROVE  ActiveOutside' /\ ExportHolds'
<1>1. CASE touched'
  BY <1>1 DEF ActiveOutside, ExportHolds, Undisturbed
<1>2. CASE touched' = touched
  <2> SUFFICES ASSUME ~touched' PROVE ActiveOutside' /\ ExportHolds'
    BY <1>1
  <2>1. call'["sleep"] = call["sleep"]
    BY DEF Unseen
  <2>2. ActiveOutside'
    BY <1>2, <2>1 DEF Unseen, SleepInv, ActiveOutside, Undisturbed, Unread
  <2>3. ASSUME Undisturbed({"commit", "recheck", "runs", "row"})'
        PROVE  \A r \in disk'[call["sleep"].ref] : life'[r] = "cancelled" \/ r \in call["sleep"].snap
    <3>1. Undisturbed({"commit", "recheck", "runs", "row"})
      BY <1>2, <2>1, <2>3 DEF Undisturbed
    <3>2. call["sleep"].ref \in Machines
      BY <3>1 DEF TypeOK, Undisturbed, Callers
    <3>3. disk[call["sleep"].ref] \subseteq Runs
      BY <3>2 DEF TypeOK
    <3> QED BY <3>1, <3>3 DEF Unseen, SleepInv, ExportHolds
  <2> QED BY <2>1, <2>2, <2>3 DEF ExportHolds
<1> QED BY <1>1, <1>2 DEF Unseen

\* A run that calls is active or cancelled.
LEMMA CallingRun ==
  ASSUME TypeOK, SleepInv, NEW r \in Runs, ~At(r, "off")
  PROVE  life[r] \in {"active", "cancelled"}
BY DEF TypeOK, Lives, SleepInv, Settled

LEMMA SleepApart == "sleep" \in Callers /\ "stop" \in Callers /\ "boot" \in Callers
                    /\ \A r \in Runs : r \in Callers /\ r \notin {"boot", "stop", "sleep"}
BY ComputerConstants DEF Callers

LEMMA RunningSleeps ==
  ASSUME TypeOK, TypeOK', SleepInv, NEW r \in Runs, Running(r)
  PROVE  SleepInv'
<1>1. /\ r \in Callers /\ r # "sleep" /\ "sleep" \in Callers
      /\ \A a \in Callers \ {r} : call'[a] = call[a]
      /\ \A a \in Runs \ {r} : life'[a] = life[a]
  BY SleepApart
  DEF TypeOK, Running, Submit, Cancel, NoticeCancel, Work, WorkFails, Finish, Leave
<1>2. RestoresOwn'
  <2>1. call'[r] = call[r] \/ ~At(r, "restore")'
    <3>1. CASE Submit(r) \/ Cancel(r)
      BY <3>1 DEF Submit, Cancel
    <3>2. CASE NoticeCancel(r) \/ Finish(r)
      BY <1>1, <3>2 DEF NoticeCancel, Finish, Leave, At, NoCall, TypeOK
    <3>3. CASE Work(r) \/ WorkFails(r)
      <4>1. call'[r].at = "export"
        BY <1>1, <3>3 DEF Work, WorkFails, TypeOK, Calls
      <4> QED BY <4>1 DEF At
    <3> QED BY <3>1, <3>2, <3>3 DEF Running
  <2> QED BY <1>1, <2>1 DEF SleepInv, RestoresOwn, At
<1>3. Settled'
  <2>1. life'[r] \in {"new", "completed", "failed"} => At(r, "off")'
    BY <1>1, CallingRun DEF TypeOK, SleepInv, Running, Submit, Cancel, NoticeCancel, Work,
       WorkFails, Finish, Leave, At, NoCall, Settled
  <2> QED BY <1>1, <2>1, SleepApart DEF SleepInv, Settled, At
<1>4. Unseen
  <2>1. CASE Submit(r)
    <3>1. /\ touched' = touched /\ disk' = disk /\ call' = call
          /\ life[r] = "new" /\ At(r, "off")
      BY <2>1 DEF Submit, SleepInv, Settled, machineVars, rowVars
    <3> QED BY <1>1, <3>1 DEF Unseen, Unread, At
  <2>2. CASE Cancel(r)
    <3>1. /\ touched' = touched /\ disk' = disk /\ call' = call /\ life'[r] = "cancelled"
      BY <2>2 DEF Cancel, TypeOK, machineVars, rowVars
    <3> QED BY <1>1, <3>1 DEF Unseen, Unread, At
  <2>3. CASE NoticeCancel(r)
    <3>1. /\ touched' = touched /\ life' = life /\ disk' = disk /\ life[r] = "cancelled"
          /\ call'["sleep"] = call["sleep"]
      BY <1>1, <2>3 DEF NoticeCancel, machineVars, rowVars
    <3> QED BY <1>1, <3>1, SleepApart DEF Unseen, Unread, At
  <2>4. CASE Work(r)
    <3> SUFFICES ASSUME ~touched' PROVE Unseen
      BY DEF Unseen
    <3>1. touched' = touched /\ life' = life /\ At(r, "work")
      BY <2>4 DEF Work, Write
    <3>2. call[r].ref \in Machines
      BY <1>1, <3>1 DEF TypeOK, At
    <3>3. \A m \in Machines : disk'[m] \ disk[m] \subseteq {r}
      BY <2>4, <3>2 DEF Work, TypeOK
    <3>4. life[r] = "active" \/ life[r] = "cancelled"
      BY <3>1, CallingRun DEF At
    <3>5. ActiveOutside /\ Undisturbed({"commit", "recheck", "runs", "row"}) =>
            life[r] = "cancelled" /\ call["sleep"].ref \in Machines
      BY <1>1, <3>1, <3>4 DEF ActiveOutside, Undisturbed, At, TypeOK
    <3> QED BY <1>1, <3>1, <3>3, <3>5, SleepApart DEF Unseen, Unread, At
  <2>5. CASE WorkFails(r)
    <3>1. /\ touched' = touched /\ life' = life /\ disk' = disk /\ At(r, "work")
          /\ call'["sleep"] = call["sleep"]
      BY <1>1, <2>5 DEF WorkFails, machineVars, rowVars
    <3> QED BY <1>1, <3>1, SleepApart DEF Unseen, Unread, At
  <2>6. CASE Finish(r)
    <3>1. /\ touched' = touched /\ disk' = disk /\ At(r, "finish")
          /\ life[r] = "active" /\ call'["sleep"] = call["sleep"]
      BY <1>1, <2>6 DEF Finish, machineVars, rowVars
    <3> QED BY <1>1, <3>1, SleepApart DEF Unseen, Unread, At
  <2> QED BY <2>1, <2>2, <2>3, <2>4, <2>5, <2>6 DEF Running
<1> QED BY <1>2, <1>3, <1>4, UnseenKeeps DEF SleepInv

\* A call of a run or a boot: no run's life changes, and what it restores to is
\* not the idle job's machine.
LEMMA EnsuringSleeps ==
  ASSUME TypeOK, TypeOK', Ownership, SleepInv, NEW a \in Ensurers,
         Ensuring(a) \/ Create(a) \/ EnsureFails(a)
  PROVE  SleepInv'
<1>1. /\ a \in Callers /\ a # "sleep" /\ "sleep" \in Callers /\ life' = life
      /\ \A b \in Callers \ {a} : call'[b] = call[b]
  BY SleepApart DEF Ensurers, TypeOK, Ensuring, Ensure, Mark, Connect, Create, CreateFor, Restore, Record,
     EnsureFails, EnsureThrows, Go, Leave
<1>2. RestoresOwn'
  <2>1. At(a, "restore")' => call'[a].fresh
    <3>1. CASE Create(a)
      BY <1>1, <3>1 DEF Create, CreateFor, TypeOK, Calls
    <3>2. CASE ~Create(a)
      <4>1. call'[a].at \in {"mark", "provision", "record", "work", "off"}
        BY <1>1, <3>2 DEF TypeOK, Ensuring, Ensure, Mark, Connect, Restore, Record,
           EnsureFails, EnsureThrows, Go, Leave, NoCall, Calls
      <4> QED BY <4>1 DEF At
    <3> QED BY <3>1, <3>2
  <2> QED BY <1>1, <2>1 DEF SleepInv, RestoresOwn, At
<1>3. Settled'
  <2>1. a \in Runs /\ life[a] \in {"new", "completed", "failed"} => At(a, "off")'
    BY <1>1, CallingRun DEF TypeOK, SleepInv, Settled, Ensuring, Ensure, Mark, Connect, Create,
       CreateFor, Restore, Record, EnsureFails, EnsureThrows, Go, Leave, At
  <2> QED BY <1>1, <2>1, SleepApart DEF SleepInv, Settled, At
<1>4. Unseen
  <2>1. CASE Ensure(a)
    <3>1. touched' = touched /\ disk' = disk /\ At(a, "mark")'
      BY <1>1, <2>1 DEF Ensure, TypeOK, Calls, At, machineVars, rowVars
    <3> QED BY <1>1, <3>1, SleepApart DEF Unseen, Unread, At
  <2>2. CASE Mark(a) \/ Record(a) \/ EnsureFails(a)
    BY <2>2 DEF Unseen, Mark, Record, EnsureFails, EnsureThrows, Write
  <2>3. CASE Connect(a) \/ Create(a)
    <3>1. touched' = touched /\ disk' = disk /\ At(a, "provision")
      BY <2>3 DEF Connect, Create, CreateFor, rowVars
    <3> QED BY <1>1, <3>1, SleepApart DEF Unseen, Unread, At
  <2>4. CASE Restore(a)
    <3>1. Owns(a)
      BY <1>1, <2>4 DEF SleepInv, RestoresOwn, Restore, Owns, At
    <3>2. call["sleep"].ref # call[a].ref
      BY <1>1, <3>1 DEF Ownership, OwnedBySelf
    <3>3. Undisturbed({"commit", "recheck", "runs", "row"}) => call["sleep"].ref \in Machines
      BY <1>1 DEF TypeOK, Undisturbed
    <3>4. Undisturbed({"commit", "recheck", "runs", "row"}) =>
            disk'[call["sleep"].ref] = disk[call["sleep"].ref]
      BY <2>4, <3>2, <3>3 DEF Restore, TypeOK
    <3> QED BY <1>1, <2>4, <3>4, SleepApart DEF Unseen, Unread, Restore, At, rowVars
  <2> QED BY <2>1, <2>2, <2>3, <2>4 DEF Ensuring
<1> QED BY <1>2, <1>3, <1>4, UnseenKeeps DEF SleepInv

\* A checkpoint changes no row, no machine's work and no run; that of the idle
\* job takes up all the work there is.
LEMMA CheckpointingSleeps ==
  ASSUME TypeOK, TypeOK', SleepInv, NEW a \in Callers \ {"boot"}, Checkpointing(a)
  PROVE  SleepInv'
<1>1. /\ UNCHANGED <<touched, life, disk>> /\ "sleep" \in Callers
      /\ \A b \in Callers \ {a} : call'[b] = call[b]
      /\ call[a].at \in {"export", "commit"}
      /\ call'[a].ref = call[a].ref \/ call'[a] = NoCall
  BY SleepApart DEF TypeOK, Calls, Checkpointing, Export, Commit, CheckpointFails, Go, Leave, At,
     rowVars, machineVars
<1>2. call'[a].at \in {"commit", "finish", "halt", "recheck", "export", "off"}
  <2>1. AfterCommit(a) \in {"finish", "halt", "recheck"}
    BY DEF AfterCommit, Callers
  <2> QED BY <2>1 DEF TypeOK, Calls, Checkpointing, Export, Commit, CheckpointFails, Go, Leave,
          NoCall
<1>3. RestoresOwn'
  BY <1>1, <1>2 DEF SleepInv, RestoresOwn, At
<1>4. Settled'
  <2>1. a \in Runs => life[a] \notin {"new", "completed", "failed"}
    BY <1>1 DEF SleepInv, Settled, At
  <2> QED BY <1>1, <2>1, SleepApart DEF SleepInv, Settled, At
<1>5. ActiveOutside' /\ ExportHolds'
  <2>1. CASE a # "sleep"
    <3>1. call'["sleep"] = call["sleep"]
      BY <1>1, <2>1
    <3>2. \A r \in Runs : Unread(r) => Unread(r)'
      BY <1>1, SleepApart DEF Unread, At
    <3>3. Unseen
      BY <1>1, <3>1, <3>2 DEF Unseen
    <3> QED BY <3>3, UnseenKeeps
  <2>2. CASE a = "sleep"
    <3>1. \A r \in Runs : call'[r] = call[r]
      BY <1>1, <2>2, SleepApart
    <3>2. ActiveOutside'
      BY <1>1, <2>2, <3>1 DEF SleepInv, ActiveOutside, Undisturbed, At
    <3>3. CASE Export(a)
      <4>1. call'["sleep"].snap = disk[call["sleep"].ref] /\ call'["sleep"].ref = call["sleep"].ref
        BY <1>1, <2>2, <3>3 DEF Export, TypeOK, Calls
      <4> QED BY <1>1, <3>2, <4>1 DEF ExportHolds
    <3>4. CASE Commit(a)
      <4>1. /\ call'["sleep"].snap = call["sleep"].snap
            /\ call'["sleep"].ref = call["sleep"].ref /\ call["sleep"].at = "commit"
        BY <1>1, <2>2, <3>4 DEF Commit, Go, At, TypeOK, Calls
      <4> QED BY <1>1, <3>2, <4>1 DEF SleepInv, ExportHolds, Undisturbed
    <3>5. CASE CheckpointFails(a)
      <4>1. call'["sleep"].at = "off"
        BY <1>1, <2>2, <3>5, SleepApart DEF CheckpointFails, Leave, NoCall, TypeOK
      <4> QED BY <3>2, <4>1 DEF ExportHolds, Undisturbed
    <3> QED BY <3>3, <3>4, <3>5 DEF Checkpointing
  <2> QED BY <2>1, <2>2
<1> QED BY <1>3, <1>4, <1>5 DEF SleepInv

\* The idle job goes on only while no run is active, and past its checkpoint with
\* what it exported.
LEMMA SleepingSleeps ==
  ASSUME TypeOK, TypeOK', SleepInv, Sleeping
  PROVE  SleepInv'
<1>1. /\ UNCHANGED <<life, disk>> /\ "sleep" \in Callers /\ "stop" \in Callers
      /\ \A r \in Runs : r \in Callers /\ call'[r] = call[r]
      /\ call'["boot"] = call["boot"] /\ "boot" \in Callers
  BY SleepApart DEF TypeOK, Sleeping, Stop, Sleep, Check, Recheck, SleepSees, Go, Leave, machineVars
<1>2. ~At("stop", "restore")' \/ call'["stop"] = call["stop"]
  BY <1>1 DEF TypeOK, Calls, Sleeping, Stop, Sleep, Check, Recheck, SleepSees, Go, Leave, At
<1>3. ~At("sleep", "restore")' \/ call'["sleep"] = call["sleep"]
  BY <1>1 DEF TypeOK, Calls, NoCall, Sleeping, Stop, Sleep, Check, Recheck, SleepSees, Go, Leave, At
<1>4. RestoresOwn'
  BY <1>1, <1>2, <1>3 DEF SleepInv, RestoresOwn, At, Callers
<1>5. Settled'
  BY <1>1 DEF SleepInv, Settled, At
<1>6. CASE Stop
  <2>1. call'["sleep"] = call["sleep"] /\ (touched' \/ touched' = touched)
    BY <1>1, <1>6 DEF Stop, Write, TypeOK
  <2>2. \A r \in Runs : Unread(r) => Unread(r)'
    BY <1>1 DEF Unread, At
  <2>3. Unseen
    BY <1>1, <2>1, <2>2 DEF Unseen
  <2> QED BY <1>4, <1>5, <2>3, UnseenKeeps DEF SleepInv
<1>7. CASE Sleep
  <2>1. call'["sleep"].at = "check"
    BY <1>1, <1>7 DEF Sleep, TypeOK, Calls
  <2> QED BY <1>4, <1>5, <2>1 DEF SleepInv, ActiveOutside, ExportHolds, Undisturbed
<1>8. CASE Check
  <2>1. (call'["sleep"].at = "export" /\ Idle) \/ call'["sleep"].at = "off"
    BY <1>1, <1>8 DEF Check, Go, Leave, NoCall, TypeOK, Calls
  <2> QED BY <1>1, <1>4, <1>5, <2>1 DEF SleepInv, ActiveOutside, ExportHolds, Undisturbed, Idle
<1>9. CASE Recheck
  <2>1. /\ touched' = touched /\ call["sleep"].at \in {"recheck", "runs", "row"}
        /\ \/ call'["sleep"].at \in {"off", "halt"}
           \/ /\ call'["sleep"].ref = call["sleep"].ref
              /\ call'["sleep"].snap = call["sleep"].snap
    BY <1>1, <1>9 DEF Recheck, SleepSees, At, Go, Leave, NoCall, TypeOK, Calls, rowVars
  <2>2. ActiveOutside'
    BY <1>1, <2>1 DEF SleepInv, ActiveOutside, Undisturbed, At
  <2>3. ExportHolds'
    BY <1>1, <2>1 DEF SleepInv, ExportHolds, Undisturbed
  <2> QED BY <1>4, <1>5, <2>2, <2>3 DEF SleepInv
<1> QED BY <1>6, <1>7, <1>8, <1>9 DEF Sleeping

LEMMA HaltingSleeps ==
  ASSUME TypeOK, TypeOK', SleepInv, NEW a \in {"stop", "sleep"}, Halting(a)
  PROVE  SleepInv'
<1>1. /\ UNCHANGED <<life, disk>> /\ a \in Callers /\ call'[a].at \in {"off", "settle"}
      /\ \A b \in Callers \ {a} : call'[b] = call[b]
      /\ touched' \/ touched' = touched
  BY SleepApart DEF TypeOK, Calls, NoCall, Halting, Halt, Settle, Go, Leave, Write, rowVars, machineVars
<1>2. RestoresOwn'
  BY <1>1 DEF SleepInv, RestoresOwn, At
<1>3. Settled' /\ \A r \in Runs : Unread(r) => Unread(r)'
  BY <1>1, SleepApart DEF SleepInv, Settled, Unread, At
<1>4. CASE a = "sleep"
  BY <1>1, <1>2, <1>3, <1>4 DEF SleepInv, ActiveOutside, ExportHolds, Undisturbed
<1>5. CASE a # "sleep"
  <2>1. Unseen
    BY <1>1, <1>3, <1>5, SleepApart DEF Unseen
  <2> QED BY <1>2, <1>3, <2>1, UnseenKeeps DEF SleepInv
<1> QED BY <1>4, <1>5

LEMMA OutsideSleeps ==
  ASSUME TypeOK, TypeOK', SleepInv, Outside \/ UNCHANGED vars
  PROVE  SleepInv'
<1>1. UNCHANGED <<life, disk, call>> /\ (touched' \/ touched' = touched)
  BY DEF Outside, Takeover, Touch, Lose, Write, vars, rowVars, machineVars
<1>2. RestoresOwn' /\ Settled' /\ \A r \in Runs : Unread(r) => Unread(r)'
  BY <1>1 DEF SleepInv, RestoresOwn, Settled, Unread, At
<1>3. Unseen
  BY <1>1, <1>2 DEF Unseen
<1> QED BY <1>2, <1>3, UnseenKeeps DEF SleepInv

LEMMA SleepStep == TypeOK /\ Ownership /\ SleepInv /\ [Next]_vars => SleepInv'
<1> SUFFICES ASSUME TypeOK, Ownership, SleepInv, [Next]_vars PROVE SleepInv'
  OBVIOUS
<1>1. TypeOK'
  BY TypeStep
<1>2. CASE UNCHANGED vars
  BY <1>1, <1>2, OutsideSleeps
<1>3. CASE Next
  BY <1>1, <1>3, Steps, RunningSleeps, EnsuringSleeps, CheckpointingSleeps, SleepingSleeps,
     HaltingSleeps, OutsideSleeps
<1> QED BY <1>2, <1>3

\* When the idle job finds the row as it was, its checkpoint holds all the work on
\* the machine, save that of runs that were cancelled.
THEOREM SleepMissesNothing == Spec => SleepSawAll
<1>1. ASSUME TypeOK, SleepInv
      PROVE  (/\ RowStill
              /\ \/ At("sleep", "recheck") /\ At("sleep", "runs")'
                 \/ At("sleep", "row") /\ At("sleep", "halt")') =>
               \A r \in disk[named] : life[r] = "cancelled" \/ r \in call["sleep"].snap
  BY <1>1 DEF SleepInv, ExportHolds, Undisturbed, RowStill, At
<1>2. Init => SleepInv
  BY SleepInit
<1>3. TypeOK /\ Ownership /\ SleepInv /\ [Next]_vars => SleepInv'
  BY SleepStep
<1> QED BY <1>1, <1>2, <1>3, OwnershipAlways, PTL DEF Spec, SleepSawAll
=============================================================================
