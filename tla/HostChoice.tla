------------------------------ MODULE HostChoice ------------------------------
(***************************************************************************)
(* Where a bot's computer is when the owner of a personal deployment may   *)
(* choose between a container and this Mac.  HostAwareSandbox provisions   *)
(* on the machine that is chosen now; calls that name a computer go to the *)
(* machine of its row.  The container works in the stored home itself,     *)
(* which is mounted in it; on this Mac the bot works in a directory of its *)
(* own, to which the home is copied and from which it is committed.        *)
(*                                                                         *)
(* Each handler is one step: how their statements interleave is the matter *)
(* of ComputerLifecycle.  Files are one number, the version last written.  *)
(***************************************************************************)
EXTENDS Naturals

CONSTANTS
  MaxVersions,      \* bound: versions written
  MaxSwitches,      \* bound: choices of the owner
  MaxHostTroubles   \* bound: restarts and failed provisions

ASSUME HostConstants ==
  MaxVersions \in Nat /\ MaxSwitches \in Nat /\ MaxHostTroubles \in Nat

VARIABLES
  computerHost,  \* the owner's choice
  named,         \* the kind of the computer's row
  rowRuns,       \* the row says running
  container,     \* the bot's container
  mounted,       \* the container sees the stored home, not one removed since
  removedHome,   \* what is in the home that the container sees otherwise
  home,          \* what is in the stored home
  desk,          \* what is in the directory on this Mac
  boxes,         \* the processes whose provider for this Mac knows the bot
  hostRun,       \* the bot's run: its computer, and what it has written
  newest,        \* versions written so far
  finished,      \* what the last finished turn wrote
  gap,           \* history: one of the two known gaps was met (see below)
  switches, hostTroubles

hostVars == <<computerHost, named, rowRuns, container, mounted, removedHome, home,
              desk, boxes, hostRun, newest, finished, gap, switches, hostTroubles>>
fileVars == <<mounted, removedHome, home, desk>>

HostProcesses == {"api", "worker"}
Computers == {"docker", "desktop"}
Chosen == IF computerHost = "this-mac" THEN "desktop" ELSE "docker"
NoTurn(at) == [at |-> at, machine |-> "none", wrote |-> 0]
Content(machine) ==
  IF machine = "desktop" THEN desk ELSE IF mounted THEN home ELSE removedHome

(***************************************************************************)
(* Every variable has its type.                                            *)
(***************************************************************************)
HostTypeOK ==
  /\ computerHost \in {"docker", "this-mac"}
  /\ named \in Computers \union {"none"}
  /\ container \in {"none", "running", "stopped"}
  /\ {rowRuns, mounted, gap} \subseteq BOOLEAN
  /\ {removedHome, home, desk, newest, finished} \subseteq 0..MaxVersions
  /\ boxes \subseteq HostProcesses
  /\ hostRun \in [at : {"off", "paused", "working"},
                  machine : Computers \union {"none"}, wrote : 0..MaxVersions]
  /\ switches \in 0..MaxSwitches
  /\ hostTroubles \in 0..MaxHostTroubles

HostInit ==
  /\ computerHost \in {"docker", "this-mac"}
  /\ named = "none" /\ rowRuns = FALSE
  /\ container = "none" /\ mounted = TRUE /\ boxes = {}
  /\ removedHome = 0 /\ home = 0 /\ desk = 0
  /\ hostRun = NoTurn("off")
  /\ newest = 0 /\ finished = 0 /\ gap = FALSE
  /\ switches = 0 /\ hostTroubles = 0

\* The owner chooses the other machine; nothing else is told.
Switch ==
  /\ switches < MaxSwitches
  /\ switches' = switches + 1
  /\ computerHost' = IF computerHost = "docker" THEN "this-mac" ELSE "docker"
  /\ UNCHANGED <<named, rowRuns, container, boxes, hostRun, newest, finished, gap,
                 hostTroubles, fileVars>>

Fresh(p) == IF Chosen = "desktop" THEN p \notin boxes ELSE container = "none"

\* A mutant: the row's kind is not looked at.
ReplacedFresh(fresh) == fresh

\* The computer is not the one that the row names: the home is restored to it.
Replaced(fresh) == fresh \/ named # Chosen

\* A container that runs already keeps its mount, also of a home removed since.
ProvisionComputer(p) ==
  IF Chosen = "desktop"
  THEN boxes' = boxes \union {p} /\ UNCHANGED <<container, mounted>>
  ELSE /\ container' = "running"
       /\ mounted' = (container # "running" \/ mounted)
       /\ UNCHANGED boxes

\* restoreComputerWorkspace returns at once for a container over a local home.
Restored(p) == IF Chosen = "desktop" /\ Replaced(Fresh(p)) THEN home ELSE desk

StaleMount == Chosen = "docker" /\ container = "running" /\ ~mounted

\* A turn of the run begins on the worker.
EnsureComputer ==
  /\ hostRun.at # "working"
  /\ ProvisionComputer("worker")
  /\ desk' = Restored("worker")
  /\ named' = Chosen /\ rowRuns' = TRUE
  /\ hostRun' = [at |-> "working", machine |-> Chosen, wrote |-> 0]
  /\ gap' = (gap \/ StaleMount)
  /\ UNCHANGED <<computerHost, removedHome, home, newest, finished, switches,
                 hostTroubles>>

\* Someone opens the computer, also while a turn works.
BootComputer ==
  /\ ProvisionComputer("api")
  /\ desk' = Restored("api")
  /\ named' = Chosen /\ rowRuns' = TRUE
  /\ gap' = \/ gap \/ StaleMount
            \/ /\ hostRun.at = "working"
               /\ Replaced(Fresh("api")) \/ Chosen # hostRun.machine
  /\ UNCHANGED <<computerHost, removedHome, home, hostRun, newest, finished, switches,
                 hostTroubles>>

\* Either call fails after the machine answered, with or without the files copied:
\* a fresh machine is destroyed, which leaves the directory on this Mac.
ProvisionFails(p) ==
  /\ hostTroubles < MaxHostTroubles
  /\ hostTroubles' = hostTroubles + 1
  /\ p = "worker" => hostRun.at # "working"
  /\ IF Fresh(p) THEN UNCHANGED <<container, mounted, boxes>> ELSE ProvisionComputer(p)
  /\ desk' \in {desk, Restored(p)}
  /\ rowRuns' = FALSE
  /\ gap' = (gap \/ (desk' # desk /\ hostRun.at = "working"))
  /\ hostRun' = IF p = "worker" THEN NoTurn("paused") ELSE hostRun
  /\ UNCHANGED <<computerHost, named, removedHome, home, newest, finished, switches>>

\* The turn writes a file, wherever the computer is that it was given.
Write ==
  /\ hostRun.at = "working" /\ newest < MaxVersions
  /\ hostRun.machine = "docker" => container = "running"
  /\ newest' = newest + 1
  /\ hostRun' = [hostRun EXCEPT !.wrote = newest + 1]
  /\ IF hostRun.machine = "desktop"
     THEN desk' = newest + 1 /\ UNCHANGED <<home, removedHome>>
     ELSE IF mounted THEN home' = newest + 1 /\ UNCHANGED <<desk, removedHome>>
     ELSE removedHome' = newest + 1 /\ UNCHANGED <<desk, home>>
  /\ UNCHANGED <<computerHost, named, rowRuns, container, mounted, boxes, finished, gap,
                 switches, hostTroubles>>

\* checkpointComputerWorkspace: a commit puts a new directory in the home's place.
CheckpointHome(machine) ==
  IF machine = "desktop"
  THEN home' = desk /\ mounted' = FALSE /\ removedHome' = 0
  ELSE UNCHANGED <<home, mounted, removedHome>>

\* The turn checkpoints its computer and pauses, or ends the run.
LeaveComputer(at) ==
  /\ hostRun.at = "working"
  /\ CheckpointHome(hostRun.machine)
  /\ finished' = IF hostRun.wrote > 0 THEN hostRun.wrote ELSE finished
  /\ hostRun' = NoTurn(at)
  /\ UNCHANGED <<computerHost, named, rowRuns, container, desk, boxes, newest, gap,
                 switches, hostTroubles>>

\* The computer that the row names is checkpointed and stopped.
HaltComputer(p) ==
  /\ CheckpointHome(named)
  /\ container' = IF named = "docker" /\ container = "running" THEN "stopped" ELSE container
  /\ boxes' = IF named = "desktop" THEN boxes \union {p} ELSE boxes
  /\ rowRuns' = FALSE
  /\ UNCHANGED <<computerHost, named, desk, hostRun, newest, finished, gap, switches,
                 hostTroubles>>

StopHost == named # "none" /\ HaltComputer("api")

SleepHost == rowRuns /\ hostRun.at = "off" /\ HaltComputer("worker")

\* A process starts again; a turn of the worker is taken up later.
RestartProcess(p) ==
  /\ hostTroubles < MaxHostTroubles
  /\ hostTroubles' = hostTroubles + 1
  /\ boxes' = boxes \ {p}
  /\ hostRun' = IF p = "worker" /\ hostRun.at = "working" THEN NoTurn("paused") ELSE hostRun
  /\ UNCHANGED <<computerHost, named, rowRuns, container, newest, finished, gap,
                 switches, fileVars>>

HostNext ==
  \/ Switch
  \/ EnsureComputer
  \/ BootComputer
  \/ \E p \in HostProcesses : ProvisionFails(p) \/ RestartProcess(p)
  \/ Write
  \/ \E at \in {"off", "paused"} : LeaveComputer(at)
  \/ StopHost
  \/ SleepHost

HostSpec == HostInit /\ [][HostNext]_hostVars

(***************************************************************************)
(* A turn finds what the last finished turn wrote, wherever the computer   *)
(* has been chosen to be meanwhile and whatever stopped, failed or was     *)
(* started again, but for two gaps of the code: a container left running   *)
(* while the home was committed from this Mac keeps the removed one; and   *)
(* a computer booted while a turn works on it, on another machine or from  *)
(* a process that does not know it yet, is written over or not followed.   *)
(***************************************************************************)
KeptAcrossHosts ==
  hostRun.at = "working" /\ ~gap => Content(hostRun.machine) >= finished
==============================================================================
