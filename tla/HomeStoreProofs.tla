-------------------------- MODULE HomeStoreProofs --------------------------
(* Proofs about HomeStore, for any calls, processes, bounds and faults.     *)
EXTENDS HomeStore, TLAPS

LEMMA InitTypes == Init => TypeOK
<1> SUFFICES ASSUME Init PROVE TypeOK
  OBVIOUS
<1>1. "idle" \in PlacesOf("commit") \union PlacesOf("read")
  BY DEF PlacesOf
<1>2. \A c \in Calls : place[c] \in PlacesOf(task[c])
  BY DEF Init, PlacesOf
<1>3. place \in [Calls -> PlacesOf("commit") \union PlacesOf("read")]
  BY <1>1 DEF Init
<1>4. /\ task \in [Calls -> {"commit", "read", "undo"}]
      /\ brings \in [Calls -> Nat]
  BY DEF Init
<1> QED BY <1>2, <1>3, <1>4 DEF Init, TypeOK, Directory

\* A call that moves on stays in the places of its task.
LEMMA RepairTyped ==
  ASSUME TypeOK, NEW c \in Calls, Repair(c)
  PROVE  TypeOK'
<1>1. /\ place' \in [Calls -> PlacesOf("commit") \union PlacesOf("read")]
      /\ \A d \in Calls : place'[d] \in PlacesOf(task[d])
  BY DEF TypeOK, Repair, Look, Check, Restore, RestoreLate, Repaired, Goto,
         PlacesOf, Repairing, Replacing
<1>2. dest' \in Directory /\ previous' \in Directory
  BY DEF TypeOK, Repair, Look, Check, Restore, RestoreLate, Directory, dirs
<1>3. UNCHANGED <<task, brings, landed, crossed, commits, faults>>
  BY DEF Repair, Look, Check, Restore, RestoreLate
<1> QED BY <1>1, <1>2, <1>3 DEF TypeOK

LEMMA CommitTyped ==
  ASSUME TypeOK, NEW c \in Calls, Commit(c)
  PROVE  TypeOK'
<1>1. /\ place' \in [Calls -> PlacesOf("commit") \union PlacesOf("read")]
      /\ task' \in [Calls -> {"commit", "read", "undo"}]
      /\ \A d \in Calls : place'[d] \in PlacesOf(task'[d])
  BY DEF TypeOK, Commit, StartCommit, Begin, Copy, Clear, Probe, Aside, AsideLate,
         Land, LandLate, Undo, Tidy, Goto, PlacesOf, Repairing, Replacing
<1>2. /\ dest' \in Directory /\ previous' \in Directory
      /\ landed' \in Nat \union {Absent}
  BY DEF TypeOK, Commit, StartCommit, Copy, Clear, Probe, Aside, AsideLate,
         Land, LandLate, Tidy, Directory, dirs
<1>3. brings' \in [Calls -> Nat] /\ commits' \in Nat
  BY DEF TypeOK, Commit, StartCommit, Copy, Clear, Probe, Aside, AsideLate,
         Land, LandLate, Tidy
<1>4. crossed' \in BOOLEAN /\ faults' = faults
  BY DEF TypeOK, Commit, StartCommit, Copy, Clear, Probe, Aside, AsideLate,
         Land, LandLate, Tidy
<1> QED BY <1>1, <1>2, <1>3, <1>4 DEF TypeOK

LEMMA OthersTyped ==
  ASSUME TypeOK,
         \/ \E c \in Calls : Read(c) \/ Fail(c)
         \/ \E p \in Processes : Crash(p)
         \/ MakeHome
  PROVE  TypeOK'
<1>1. ASSUME NEW c \in Calls, Read(c) PROVE TypeOK'
  <2>1. /\ place' \in [Calls -> PlacesOf("commit") \union PlacesOf("read")]
        /\ task' \in [Calls -> {"commit", "read", "undo"}]
        /\ \A d \in Calls : place'[d] \in PlacesOf(task'[d])
    BY <1>1 DEF TypeOK, Read, StartRead, Begin, Mkdir, Walk, Goto, PlacesOf,
                Repairing, Replacing
  <2>2. dest' \in Directory /\ previous' = previous
    BY <1>1 DEF TypeOK, Read, StartRead, Mkdir, MakeDirectory, Walk, Directory, dirs
  <2>3. UNCHANGED <<brings, landed, crossed, commits, faults>>
    BY <1>1 DEF Read, StartRead, Mkdir, Walk
  <2> QED BY <2>1, <2>2, <2>3 DEF TypeOK
<1>2. ASSUME NEW c \in Calls, Fail(c) PROVE TypeOK'
  <2>1. /\ place' \in [Calls -> PlacesOf("commit") \union PlacesOf("read")]
        /\ task' \in [Calls -> {"commit", "read", "undo"}]
        /\ \A d \in Calls : place'[d] \in PlacesOf(task'[d])
    BY <1>2 DEF TypeOK, Fail, Undo, Goto, PlacesOf, Repairing, Replacing
  <2> QED BY <1>2, <2>1 DEF TypeOK, Fail, dirs
<1>3. ASSUME NEW p \in Processes, Crash(p) PROVE TypeOK'
  <2>1. /\ place' \in [Calls -> PlacesOf("commit") \union PlacesOf("read")]
        /\ \A d \in Calls : place'[d] \in PlacesOf(task[d])
    BY <1>3 DEF TypeOK, Crash, PlacesOf, Repairing, Replacing
  <2> QED BY <1>3, <2>1 DEF TypeOK, Crash, dirs
<1>4. CASE MakeHome
  BY <1>4 DEF TypeOK, MakeHome, MakeDirectory, Directory
<1> QED BY <1>1, <1>2, <1>3, <1>4

LEMMA StepTyped == TypeOK /\ [Next]_vars => TypeOK'
<1> SUFFICES ASSUME TypeOK, [Next]_vars PROVE TypeOK'
  OBVIOUS
<1>1. CASE UNCHANGED vars
  BY <1>1 DEF TypeOK, vars, dirs
<1> QED BY <1>1, RepairTyped, CommitTyped, OthersTyped DEF Next

\* Every variable keeps its type, and every call its places: a read never goes
\* on into a commit, a failed commit only repairs.
THEOREM TypeCorrect == Spec => []TypeOK
BY InitTypes, StepTyped, PTL DEF Spec
-----------------------------------------------------------------------------
(* No rollback. *)

LEMMA InitForward == Init => NoRollback
BY HomeConstants DEF Init, NoRollback, Home

LEMMA StepForward == TypeOK /\ NoRollback /\ [Next]_vars => NoRollback'
<1> SUFFICES ASSUME TypeOK, NoRollback, [Next]_vars PROVE NoRollback'
  OBVIOUS
<1> USE DEF NoRollback, Home
<1>1. ASSUME NEW c \in Calls, Repair(c) PROVE NoRollback'
  BY <1>1, HomeConstants DEF Repair, Look, Check, Restore, RestoreLate, Free, dirs
<1>2. ASSUME NEW c \in Calls, Commit(c) PROVE NoRollback'
  <2>1. CASE Aside(c)
    BY <2>1, HomeConstants DEF Aside
  <2>2. CASE Land(c)
    BY <2>2, HomeConstants DEF TypeOK, Land
  <2>3. CASE Clear(c) \/ Tidy(c)
    BY <2>3, HomeConstants DEF Clear, Tidy
  <2>4. CASE StartCommit(c) \/ Copy(c) \/ Probe(c) \/ AsideLate(c) \/ LandLate(c)
    BY <2>4 DEF StartCommit, Copy, Probe, AsideLate, LandLate, dirs
  <2> QED BY <1>2, <2>1, <2>2, <2>3, <2>4 DEF Commit
<1>3. ASSUME NEW c \in Calls, Read(c) \/ Fail(c) PROVE NoRollback'
  BY <1>3, HomeConstants DEF Read, StartRead, Mkdir, Walk, Fail, MakeDirectory, dirs
<1>4. CASE MakeHome \/ (\E p \in Processes : Crash(p)) \/ UNCHANGED vars
  BY <1>4, HomeConstants DEF MakeHome, MakeDirectory, Crash, vars, dirs
<1> QED BY <1>1, <1>2, <1>3, <1>4 DEF Next

\* Commits, repairs and reads of any number of processes, failing or dying
\* anywhere, never put back a workspace older than the last that landed.
THEOREM NeverBack == Spec => []NoRollback
BY InitTypes, StepTyped, InitForward, StepForward, PTL DEF Spec
-----------------------------------------------------------------------------
(* Nothing is lost. *)

Writer(c) == task[c] # "read" /\ place[c] # "idle"

\* Commits are serialized unless they were under way in two processes.
Alone == \A c, d \in Calls : Writer(c) /\ Writer(d) => c = d

\* What the only writer knows of the directories, whatever readers do.
Knows ==
  \A c \in Calls :
    /\ place[c] = "probe" => previous = Absent
    /\ place[c] = "aside" => dest # Absent /\ previous = Absent
    /\ place[c] = "tidy" => Home(dest)

\* Before the first fault, the home is away only between the two renames.
Whole ==
  faults = 0 /\ landed # Absent =>
    Home(dest) \/ (Home(previous) /\ \E c \in Calls : place[c] = "land")

KeepInv ==
  /\ TypeOK
  /\ ~crossed => Alone /\ Knows /\ Whole
  /\ NotLost

LEMMA InitKeeps == Init => KeepInv
BY InitTypes DEF Init, KeepInv, Alone, Knows, Whole, NotLost, Writer

\* A call that replaces the home is a commit, and so a writer.
LEMMA ReplacingWrites ==
  ASSUME TypeOK, NEW c \in Calls, place[c] \in Replacing \union {"copy", "tidy"}
  PROVE  task[c] = "commit" /\ Writer(c)
BY DEF TypeOK, PlacesOf, Repairing, Replacing, Writer

LEMMA StepAlone ==
  ASSUME TypeOK, ~crossed => Alone, [Next]_vars
  PROVE  ~crossed' => Alone'
<1> SUFFICES ASSUME ~crossed' PROVE Alone'
  OBVIOUS
<1>1. ~crossed
  BY DEF TypeOK, Next, Repair, Commit, Read, Look, Check, Restore, RestoreLate,
         StartCommit, Copy, Clear, Probe, Aside, AsideLate, Land, LandLate, Tidy,
         StartRead, Mkdir, Walk, Fail, Crash, MakeHome, vars
<1>2. ASSUME NEW c \in Calls, StartCommit(c) PROVE Alone'
  <2>1. \A d \in Calls : ~Writer(d)
    BY <1>2, HomeConstants DEF StartCommit, Begin, Locked, Writer
  <2> QED BY <1>2, <2>1 DEF StartCommit, Begin, Goto, TypeOK, Alone, Writer
<1>3. ASSUME ~\E c \in Calls : StartCommit(c)
      PROVE  \A d \in Calls : Writer(d)' => Writer(d)
  <2> SUFFICES ASSUME NEW d \in Calls, Writer(d)' PROVE Writer(d)
    OBVIOUS
  <2>1. ASSUME NEW c \in Calls, Repair(c) \/ Commit(c) PROVE Writer(d)
    BY <1>3, <2>1 DEF TypeOK, Repair, Commit, Look, Check, Restore, RestoreLate,
       Repaired, Copy, Clear, Probe, Aside, AsideLate, Land, LandLate, Undo, Tidy,
       Goto, Writer, PlacesOf, Repairing, Replacing
  <2>2. ASSUME NEW c \in Calls, Read(c) \/ Fail(c) PROVE Writer(d)
    BY <2>2 DEF TypeOK, Read, StartRead, Begin, Mkdir, Walk, Fail, Undo, Goto,
       Writer, PlacesOf, Repairing, Replacing
  <2>3. CASE MakeHome \/ (\E p \in Processes : Crash(p)) \/ UNCHANGED vars
    BY <2>3 DEF TypeOK, MakeHome, Crash, Writer, vars
  <2> QED BY <2>1, <2>2, <2>3 DEF Next
<1> QED BY <1>1, <1>2, <1>3 DEF Alone

LEMMA RepairKeeps ==
  ASSUME KeepInv, NEW c \in Calls, Repair(c)
  PROVE  ~crossed' => Knows' /\ Whole' /\ NotLost'
<1> SUFFICES ASSUME ~crossed' PROVE Knows' /\ Whole' /\ NotLost'
  OBVIOUS
<1>1. /\ UNCHANGED <<task, landed, crossed, faults>>
      /\ place[c] \in Repairing
      /\ \A d \in Calls : d # c => place'[d] = place[d]
      /\ place'[c] \in {"check", "restore", "copy", "mkdir", "idle"}
  BY DEF KeepInv, TypeOK, Repair, Look, Check, Restore, RestoreLate, Repaired,
         Goto, PlacesOf, Repairing, Replacing
<1>2. \/ UNCHANGED dirs
      \/ /\ previous # Absent /\ Free(dest)
         /\ dest' = previous /\ previous' = Absent
  BY DEF Repair, Look, Check, Restore, RestoreLate
<1>3. Knows'
  BY <1>1, <1>2, HomeConstants DEF KeepInv, Knows, Free, Home, dirs
<1>4. \A d \in Calls : (place[d] = "land" => place'[d] = "land")
  BY <1>1 DEF Repairing
<1>5. Whole'
  BY <1>1, <1>2, <1>4, HomeConstants DEF KeepInv, Whole, Free, Home, dirs
<1>6. InFlight => InFlight'
  BY <1>1 DEF InFlight, Repairing, Replacing
<1>7. NotLost'
  BY <1>1, <1>2, <1>6, HomeConstants DEF KeepInv, NotLost, Stored, Free, Home, dirs
<1> QED BY <1>3, <1>5, <1>7

LEMMA CommitKeeps ==
  ASSUME KeepInv, NEW c \in Calls, Commit(c)
  PROVE  ~crossed' => Knows' /\ Whole' /\ NotLost'
<1> SUFFICES ASSUME ~crossed' PROVE Knows' /\ Whole' /\ NotLost'
  OBVIOUS
<1> USE HomeConstants
<1>1. CASE StartCommit(c)
  <2>1. ~crossed /\ UNCHANGED <<dirs, landed, faults>>
    BY <1>1 DEF KeepInv, TypeOK, StartCommit
  <2>2. /\ place[c] = "idle" /\ place'[c] = "look"
        /\ \A d \in Calls : d # c => place'[d] = place[d] /\ task'[d] = task[d]
    BY <1>1 DEF KeepInv, TypeOK, StartCommit, Begin, Goto
  <2>3. InFlight => InFlight'
    BY <2>2 DEF InFlight, Replacing
  <2> QED BY <2>1, <2>2, <2>3 DEF KeepInv, Knows, Whole, NotLost, Stored, dirs
<1>2. CASE ~StartCommit(c)
  <2>1. /\ ~crossed /\ UNCHANGED faults
        /\ place[c] \in Replacing \union {"copy", "tidy"}
    BY <1>2 DEF KeepInv, TypeOK, Commit, Copy, Clear, Probe, Aside, AsideLate,
                Land, LandLate, Tidy, Replacing
  <2>2. task[c] = "commit" /\ Writer(c)
    BY <2>1, ReplacingWrites DEF KeepInv
  <2>3. \A d \in Calls : d # c => ~(place[d] \in Replacing \union {"copy", "tidy"})
    BY <2>1, <2>2, ReplacingWrites DEF KeepInv, Alone
  <2>4. \A d \in Calls : d # c => place'[d] = place[d]
    BY <1>2 DEF KeepInv, TypeOK, Commit, Copy, Clear, Probe, Aside, AsideLate,
                Land, LandLate, Undo, Tidy, Goto
  <2>5. \A to : Goto(c, to) => place'[c] = to
    BY DEF KeepInv, TypeOK, Goto
  <2>6. CASE Copy(c) \/ Clear(c) \/ Probe(c) \/ Aside(c)
    <3>1. UNCHANGED <<task, landed>>
      BY <2>6 DEF Copy, Clear, Probe, Aside
    <3>2. Knows'
      BY <2>3, <2>4, <2>5, <2>6
      DEF KeepInv, Knows, Copy, Clear, Probe, Aside, Replacing, dirs
    <3>3. Whole'
      BY <2>1, <2>3, <2>4, <2>5, <2>6, <3>1
      DEF KeepInv, Whole, Copy, Clear, Probe, Aside, Replacing, Home, dirs
    <3>4. InFlight'
      BY <2>2, <2>5, <2>6, <3>1 DEF InFlight, Copy, Clear, Probe, Aside, Replacing
    <3> QED BY <3>2, <3>3, <3>4 DEF NotLost, Stored
  <2>7. CASE Land(c) \/ LandLate(c) \/ Tidy(c)
    <3>1. Home(dest') /\ place'[c] \in {"tidy", "look", "idle"}
      BY <2>1, <2>5, <2>7
      DEF KeepInv, TypeOK, Knows, Land, LandLate, Undo, Tidy, Home, Free, Directory, dirs
    <3>2. Knows'
      BY <2>3, <2>4, <3>1 DEF Knows, Replacing
    <3> QED BY <3>1, <3>2 DEF Whole, NotLost, Stored
  <2>8. ~AsideLate(c)
    BY <2>1 DEF KeepInv, Knows, AsideLate, Free
  <2> QED BY <1>2, <2>6, <2>7, <2>8 DEF Commit
<1> QED BY <1>1, <1>2

LEMMA ReadKeeps ==
  ASSUME KeepInv, MakeHome \/ \E c \in Calls : Read(c)
  PROVE  ~crossed' => Knows' /\ Whole' /\ NotLost'
<1> SUFFICES ASSUME ~crossed' PROVE Knows' /\ Whole' /\ NotLost'
  OBVIOUS
<1>1. /\ UNCHANGED <<previous, landed, crossed, faults>>
      /\ dest' = dest \/ (dest = Absent /\ dest' = Empty)
  BY DEF MakeHome, Read, StartRead, Mkdir, MakeDirectory, Walk, dirs
<1>2. \A d \in Calls :
        \/ place'[d] = place[d] /\ task'[d] = task[d]
        \/ /\ place[d] \in {"idle", "mkdir", "walk"}
           /\ place'[d] \in {"look", "walk", "idle"}
  BY DEF KeepInv, TypeOK, MakeHome, Read, StartRead, Begin, Mkdir, Walk, Goto
<1>3. InFlight => InFlight'
  BY <1>2 DEF InFlight, Replacing
<1>4. Knows'
  BY <1>1, <1>2, HomeConstants DEF KeepInv, Knows, Home
<1>5. Whole'
  BY <1>1, <1>2, HomeConstants DEF KeepInv, Whole, Home
<1>6. NotLost'
  BY <1>1, <1>3, HomeConstants DEF KeepInv, NotLost, Stored, Home
<1> QED BY <1>4, <1>5, <1>6

\* The first fault finds the home in one of its two places.
LEMMA FaultKeeps ==
  ASSUME KeepInv, (\E c \in Calls : Fail(c)) \/ (\E p \in Processes : Crash(p))
  PROVE  ~crossed' => Knows' /\ Whole' /\ NotLost'
<1> SUFFICES ASSUME ~crossed' PROVE Knows' /\ Whole' /\ NotLost'
  OBVIOUS
<1>1. UNCHANGED <<dirs, landed, crossed>> /\ faults' = faults + 1
  BY DEF Fail, Crash
<1>2. \A d \in Calls : place'[d] = place[d] \/ place'[d] \in {"idle", "look"}
  BY DEF KeepInv, TypeOK, Fail, Crash, Undo, Goto
<1>3. faults \in Nat
  BY DEF KeepInv, TypeOK
<1>4. Knows'
  BY <1>1, <1>2 DEF KeepInv, Knows, dirs
<1>5. Whole'
  BY <1>1, <1>3 DEF Whole
<1>6. NotLost'
  BY <1>1, <1>3 DEF KeepInv, Whole, NotLost, Stored, dirs
<1> QED BY <1>4, <1>5, <1>6

LEMMA StepKeeps == KeepInv /\ [Next]_vars => KeepInv'
<1> SUFFICES ASSUME KeepInv, [Next]_vars PROVE KeepInv'
  OBVIOUS
<1>1. TypeOK' /\ (~crossed' => Alone')
  BY StepTyped, StepAlone DEF KeepInv
<1>2. ~crossed' => Knows' /\ Whole' /\ NotLost'
  <2>1. CASE UNCHANGED vars
    BY <2>1 DEF KeepInv, Knows, Whole, NotLost, Stored, InFlight, vars, dirs
  <2> QED BY <2>1, RepairKeeps, CommitKeeps, ReadKeeps, FaultKeeps DEF Next
<1>3. crossed' => NotLost'
  BY DEF NotLost
<1> QED BY <1>1, <1>2, <1>3 DEF KeepInv

\* While commits are serialized, no single fault loses the stored home: it is
\* in its place, set aside, or about to be replaced.
THEOREM KeptThroughFault == Spec => []NotLost
BY InitKeeps, StepKeeps, PTL DEF Spec, KeepInv
=============================================================================
