----------------------------- MODULE HomeStore -----------------------------
(***************************************************************************)
(* The stored home of one bot: LocalAgentHomeStore in the API and worker   *)
(* processes, which share DATA_DIR.  A commit stages a copy, renames the   *)
(* home to .previous and the copy into its place; reads repair a commit    *)
(* that was interrupted, outside the mutex of their process; booting a     *)
(* computer makes an empty home where there is none.                       *)
(*                                                                         *)
(* A directory is absent, empty, or holds a workspace, named by the number *)
(* of the commit that brought it.  Each file operation is one step.        *)
(***************************************************************************)
EXTENDS Integers

CONSTANTS
  Calls,        \* concurrent calls on the store
  Processes,    \* processes that share DATA_DIR
  ProcessOf,    \* the process of each call
  Absent, Empty,
  MaxCommits,   \* bound: commits begun
  MaxFaults     \* bound: file operations that fail, processes that die

ASSUME HomeConstants ==
  /\ ProcessOf \in [Calls -> Processes]
  /\ Absent \notin Nat /\ Empty \notin Nat /\ Absent # Empty
  /\ MaxCommits \in Nat /\ MaxFaults \in Nat

VARIABLES
  dest,       \* homes/<bot>
  previous,   \* homes/<bot>.previous
  place,      \* where each call is
  task,       \* what it does: commit, read, or undo what it renamed
  brings,     \* the workspace a commit brings
  landed,     \* the workspace that came into place last (a history variable)
  crossed,    \* commits of two processes were under way at once (a history
              \* variable)
  commits, faults

dirs == <<dest, previous>>
vars == <<dirs, place, task, brings, landed, crossed, commits, faults>>

Directory == Nat \union {Absent, Empty}
Home(d) == d \in Nat

\* rename(2) moves a directory to a name that is free or an empty directory.
Free(d) == d \in {Absent, Empty}

Repairing == {"look", "check", "restore"}
Replacing == {"clear", "probe", "aside", "land"}
PlacesOf(t) ==
  CASE t = "commit" -> Repairing \union {"copy"} \union Replacing \union {"tidy", "idle"}
    [] t = "read" -> Repairing \union {"mkdir", "walk", "idle"}
    [] t = "undo" -> Repairing \union {"idle"}

TypeOK ==
  /\ dest \in Directory /\ previous \in Directory
  /\ landed \in Nat \union {Absent}
  /\ task \in [Calls -> {"commit", "read", "undo"}]
  /\ place \in [Calls -> PlacesOf("commit") \union PlacesOf("read")]
  /\ \A c \in Calls : place[c] \in PlacesOf(task[c])
  /\ brings \in [Calls -> Nat]
  /\ crossed \in BOOLEAN /\ commits \in Nat /\ faults \in Nat

Init ==
  /\ dest = Absent /\ previous = Absent /\ landed = Absent
  /\ place = [c \in Calls |-> "idle"]
  /\ task = [c \in Calls |-> "read"]
  /\ brings = [c \in Calls |-> 0]
  /\ crossed = FALSE /\ commits = 0 /\ faults = 0

Goto(c, to) == place' = [place EXCEPT ![c] = to]
-----------------------------------------------------------------------------
(* The mutex of a process: withBotWrite takes it, readers wait for it once. *)

Locked(p) ==
  \E c \in Calls : ProcessOf[c] = p /\ place[c] # "idle" /\ task[c] # "read"

Begin(c, t) ==
  /\ place[c] = "idle"
  /\ ~Locked(ProcessOf[c])
  /\ Goto(c, "look")
  /\ task' = [task EXCEPT ![c] = t]

StartCommit(c) ==
  /\ commits < MaxCommits
  /\ Begin(c, "commit")
  /\ brings' = [brings EXCEPT ![c] = commits]
  /\ commits' = commits + 1
  /\ crossed' = (crossed \/ \E p \in Processes \ {ProcessOf[c]} : Locked(p))
  /\ UNCHANGED <<dirs, landed, faults>>

\* exportHome, list and readFile.
StartRead(c) ==
  /\ Begin(c, "read")
  /\ UNCHANGED <<dirs, brings, landed, crossed, commits, faults>>
-----------------------------------------------------------------------------
(* recoverInterruptedCommit, and the same three steps when the second       *)
(* rename of a commit failed.                                               *)

\* Slip: a reader goes on where a commit does.
RepairedAll(c) == Goto(c, "copy")

Repaired(c) ==
  Goto(c, CASE task[c] = "commit" -> "copy"
            [] task[c] = "read" -> "mkdir"
            [] task[c] = "undo" -> "idle")

Look(c) ==
  /\ place[c] = "look"
  /\ IF dest # Absent THEN Repaired(c) ELSE Goto(c, "check")
  /\ UNCHANGED <<dirs, task, brings, landed, crossed, commits, faults>>

Check(c) ==
  /\ place[c] = "check"
  /\ IF previous = Absent THEN Repaired(c) ELSE Goto(c, "restore")
  /\ UNCHANGED <<dirs, task, brings, landed, crossed, commits, faults>>

\* Slip: whatever is in the way is removed first.
RestoreOver(c) ==
  /\ place[c] = "restore"
  /\ previous # Absent
  /\ dest' = previous /\ previous' = Absent
  /\ Repaired(c)
  /\ UNCHANGED <<task, brings, landed, crossed, commits, faults>>

Restore(c) ==
  /\ place[c] = "restore"
  /\ previous # Absent /\ Free(dest)
  /\ dest' = previous /\ previous' = Absent
  /\ Repaired(c)
  /\ UNCHANGED <<task, brings, landed, crossed, commits, faults>>

\* By now another call has moved or replaced it: the rename throws.
RestoreLate(c) ==
  /\ place[c] = "restore"
  /\ previous = Absent \/ ~Free(dest)
  /\ Goto(c, "idle")
  /\ UNCHANGED <<dirs, task, brings, landed, crossed, commits, faults>>
-----------------------------------------------------------------------------
(* commit. *)

\* The workspace is copied to a staging directory of the call's own.
Copy(c) ==
  /\ place[c] = "copy"
  /\ Goto(c, "clear")
  /\ UNCHANGED <<dirs, task, brings, landed, crossed, commits, faults>>

Clear(c) ==
  /\ place[c] = "clear"
  /\ previous' = Absent
  /\ Goto(c, "probe")
  /\ UNCHANGED <<dest, task, brings, landed, crossed, commits, faults>>

Probe(c) ==
  /\ place[c] = "probe"
  /\ Goto(c, IF dest # Absent THEN "aside" ELSE "land")
  /\ UNCHANGED <<dirs, task, brings, landed, crossed, commits, faults>>

\* Slip: the old home is removed, not set aside.
RemoveOld(c) ==
  /\ place[c] = "aside"
  /\ dest # Absent /\ Free(previous)
  /\ dest' = Absent
  /\ Goto(c, "land")
  /\ UNCHANGED <<previous, task, brings, landed, crossed, commits, faults>>

Aside(c) ==
  /\ place[c] = "aside"
  /\ dest # Absent /\ Free(previous)
  /\ previous' = dest /\ dest' = Absent
  /\ Goto(c, "land")
  /\ UNCHANGED <<task, brings, landed, crossed, commits, faults>>

AsideLate(c) ==
  /\ place[c] = "aside"
  /\ dest = Absent \/ ~Free(previous)
  /\ Goto(c, "idle")
  /\ UNCHANGED <<dirs, task, brings, landed, crossed, commits, faults>>

Land(c) ==
  /\ place[c] = "land"
  /\ Free(dest)
  /\ dest' = brings[c] /\ landed' = brings[c]
  /\ Goto(c, "tidy")
  /\ UNCHANGED <<previous, task, brings, crossed, commits, faults>>

\* The rename throws: the old home is put back, if there is still none.
Undo(c) ==
  /\ task' = [task EXCEPT ![c] = "undo"]
  /\ Goto(c, "look")

LandLate(c) ==
  /\ place[c] = "land"
  /\ ~Free(dest)
  /\ Undo(c)
  /\ UNCHANGED <<dirs, brings, landed, crossed, commits, faults>>

Tidy(c) ==
  /\ place[c] = "tidy"
  /\ previous' = Absent
  /\ Goto(c, "idle")
  /\ UNCHANGED <<dest, task, brings, landed, crossed, commits, faults>>
-----------------------------------------------------------------------------
(* Reads. *)

MakeDirectory == dest' = IF dest = Absent THEN Empty ELSE dest

Mkdir(c) ==
  /\ place[c] = "mkdir"
  /\ MakeDirectory
  /\ Goto(c, "walk")
  /\ UNCHANGED <<previous, task, brings, landed, crossed, commits, faults>>

\* What is found is returned; a directory that is not there has no files.
Walk(c) ==
  /\ place[c] = "walk"
  /\ Goto(c, "idle")
  /\ UNCHANGED <<dirs, task, brings, landed, crossed, commits, faults>>

\* ensureComputer and computer.boot make the home before they provision, and
\* without the store.
MakeHome ==
  /\ dest = Absent
  /\ MakeDirectory
  /\ UNCHANGED <<previous, place, task, brings, landed, crossed, commits, faults>>
-----------------------------------------------------------------------------
(* Faults. *)

\* A file operation throws.  Only the rename into place is undone.
Fail(c) ==
  /\ faults < MaxFaults
  /\ \/ /\ place[c] \in {"restore", "copy", "aside", "walk"}
        /\ Goto(c, "idle")
        /\ UNCHANGED task
     \/ /\ place[c] = "land"
        /\ Undo(c)
  /\ faults' = faults + 1
  /\ UNCHANGED <<dirs, brings, landed, crossed, commits>>

\* A process dies with its calls; its staging directories are never read.
Crash(p) ==
  /\ faults < MaxFaults
  /\ \E c \in Calls : ProcessOf[c] = p /\ place[c] # "idle"
  /\ place' = [c \in Calls |-> IF ProcessOf[c] = p THEN "idle" ELSE place[c]]
  /\ faults' = faults + 1
  /\ UNCHANGED <<dirs, task, brings, landed, crossed, commits>>
-----------------------------------------------------------------------------
Repair(c) == Look(c) \/ Check(c) \/ Restore(c) \/ RestoreLate(c)
Commit(c) ==
  \/ StartCommit(c) \/ Copy(c) \/ Clear(c) \/ Probe(c) \/ Aside(c)
  \/ AsideLate(c) \/ Land(c) \/ LandLate(c) \/ Tidy(c)
Read(c) == StartRead(c) \/ Mkdir(c) \/ Walk(c)

Next ==
  \/ \E c \in Calls : Repair(c) \/ Commit(c) \/ Read(c) \/ Fail(c)
  \/ \E p \in Processes : Crash(p)
  \/ MakeHome

Spec == Init /\ [][Next]_vars
-----------------------------------------------------------------------------
(* Safety. *)

\* Repairs and commits of all processes together never bring back a workspace
\* older than the last one that came into place, whichever of them die.
NoRollback ==
  /\ Home(dest) => dest = landed
  /\ ~Home(dest) /\ Home(previous) => previous = landed

\* Where commits are serialized and one fault strikes, a workspace that came
\* into place stays on disk until the next one does: in its place, set aside,
\* or with a commit on its way to replace it.  Readers repair, and computers
\* make the empty home, wherever they like.
InFlight == \E c \in Calls : task[c] = "commit" /\ place[c] \in Replacing
Stored == Home(dest) \/ Home(previous) \/ InFlight
NotLost == landed # Absent /\ faults <= 1 /\ ~crossed => Stored
-----------------------------------------------------------------------------
(* What the documentation says, and the code does not keep.                 *)

\* docs/computer-runtime.md: "Replacements are staged before the current copy
\* is swapped, and checkpoints are serialized per bot."  So one fault loses no
\* home; but the mutex is of one process, and two commit.
StagedAndSerialized == landed # Absent /\ faults <= 1 => Stored

\* docs/computer-runtime.md: "New or replacement machines import the latest
\* stored workspace before use."  A read while a workspace is stored finds it.
ImportsStored ==
  [][\A c \in Calls : Walk(c) /\ landed # Absent => Home(dest)]_vars
=============================================================================
