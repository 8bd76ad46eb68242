----------------------------- MODULE DesktopShell ------------------------------
(***************************************************************************)
(* The desktop application: its windows with the session of each, which    *)
(* activates a runtime, probes it, saves the choice and navigates to it;   *)
(* the Lite runtimes that it starts in its own process; and the terminals  *)
(* that the page of a window may open.                                     *)
(*                                                                         *)
(* main.ts keeps one origin that may use terminals and one launcher page   *)
(* that may choose a runtime, whatever the window.  Calls of the launcher  *)
(* and of the menu are not queued: each runs to its end beside the others. *)
(* A page is what a window shows: 0 is nothing, then the Lite runtimes,    *)
(* then a server, then the launcher without and with an error.             *)
(***************************************************************************)
EXTENDS Naturals, FiniteSets

CONSTANTS
  Ops,           \* calls of a session under way at once
  NoOp,
  MaxRuntimes,   \* bound: Lite runtimes, numbered in the order of their start
  MaxWindows,    \* bound: windows, one after the other
  MaxTerminals,  \* bound: terminals, numbered in the order of their creation
  MaxActs        \* bound: calls of the menu and of the launcher

ASSUME DesktopConstants ==
  /\ NoOp \notin Ops
  /\ MaxRuntimes \in Nat /\ MaxWindows \in Nat /\ MaxTerminals \in Nat /\ MaxActs \in Nat

VARIABLES
  window,    \* mainWindow; 0 is none
  windows,   \* how many there have been
  loaded,      \* what each window shows
  loading,   \* the call whose loadURL the window is busy with
  active,    \* the active runtime of each session, as its origin
  lite,      \* the Lite runtimes
  saved,     \* the runtime settings on disk
  trust,     \* trustedTerminalOrigin and trustedLauncherUrl
  op,        \* calls under way
  terminals, \* terminals and, by terminalOwners, the window of each
  streams,   \* Lite runtimes whose page follows a thread
  acts

desktopVars ==
  <<window, windows, loaded, loading, active, lite, saved, trust, op, terminals, streams, acts>>

WindowIds == 1..MaxWindows
Lites == 1..MaxRuntimes
Nowhere == 0
Server == MaxRuntimes + 1
Launcher == MaxRuntimes + 2
LauncherWithError == MaxRuntimes + 3
Origins == 0..Server
Launchers == {Launcher, LauncherWithError}
NoTrust == [terminal |-> Nowhere, launcher |-> Nowhere]
Free == [at |-> "free", kind |-> "show", win |-> 0, mode |-> "lite", next |-> Nowhere,
         was |-> NoTrust, ok |-> TRUE]

(***************************************************************************)
(* Every variable has its type.                                            *)
(***************************************************************************)
DesktopTypeOK ==
  /\ windows \in 0..MaxWindows /\ window \in 0..windows
  /\ loaded \in [WindowIds -> 0..LauncherWithError]
  /\ loading \in [WindowIds -> Ops \union {NoOp}]
  /\ active \in [WindowIds -> Origins]
  /\ lite \in [Lites -> {"none", "starting", "up", "down"}]
  /\ saved \in {"none", "lite", "server"}
  /\ trust \in [terminal : Origins, launcher : {Nowhere} \union Launchers]
  /\ op \in [Ops ->
       [at : {"free", "release", "activate", "starting", "probe", "persist", "navigate", "fail",
              "launcher", "load"},
        kind : {"choose", "show", "stop"}, win : 0..MaxWindows, mode : {"lite", "server"},
        next : Origins, was : [terminal : Origins, launcher : {Nowhere} \union Launchers],
        ok : BOOLEAN]]
  /\ terminals \in [1..MaxTerminals -> 0..MaxWindows]
  /\ streams \subseteq Lites
  /\ acts \in 0..MaxActs

DesktopInit ==
  /\ window = 0 /\ windows = 0
  /\ loaded = [w \in WindowIds |-> Nowhere]
  /\ loading = [w \in WindowIds |-> NoOp]
  /\ active = [w \in WindowIds |-> Nowhere]
  /\ lite = [r \in Lites |-> "none"]
  /\ saved \in {"none", "lite", "server"}
  /\ trust = NoTrust
  /\ op = [o \in Ops |-> Free]
  /\ terminals = [t \in 1..MaxTerminals |-> 0]
  /\ streams = {}
  /\ acts = 0

-----------------------------------------------------------------------------
(* DesktopRuntimeSession *)

ReachStep(o, place) == op' = [op EXCEPT ![o].at = place]
LiteDown(r) == lite' = [x \in Lites |-> IF x = r THEN "down" ELSE lite[x]]
Others == UNCHANGED <<windows, window, terminals, acts>>
UnchangedRest == Others /\ UNCHANGED streams

\* choose, showLauncher, stop: what is active is taken first, then stopped.
BeginLoad(o, kind, w, mode) ==
  /\ op[o] = Free
  /\ op' = [op EXCEPT ![o] = [Free EXCEPT !.at = "release", !.kind = kind, !.win = w,
                                          !.mode = mode, !.next = active[w]]]
  /\ active' = [active EXCEPT ![w] = Nowhere]

\* releaseActive: the HTTP server of a Lite runtime closes when the last request
\* has been answered, that of a page which follows a thread included.
Release(o) ==
  /\ op[o].at = "release"
  /\ op[o].next \notin streams
  /\ LiteDown(op[o].next)
  /\ op' = [op EXCEPT ![o] =
              CASE @.kind = "choose" -> [@ EXCEPT !.next = Nowhere, !.at = "activate"]
                [] @.kind = "show"   -> [@ EXCEPT !.next = Nowhere, !.at = "launcher"]
                [] @.kind = "stop"   -> Free]
  /\ UNCHANGED <<loaded, loading, active, saved, trust>> /\ UnchangedRest

\* activateRuntimeProfile: a server is taken for what it is.
Activate(o) ==
  /\ op[o].at = "activate"
  /\ IF op[o].mode = "server"
     THEN op' = [op EXCEPT ![o].next = Server, ![o].at = "probe"] /\ UNCHANGED lite
     ELSE \E r \in Lites :
            /\ lite[r] = "none"
            /\ \A s \in 1..(r - 1) : lite[s] # "none"
            /\ lite' = [lite EXCEPT ![r] = "starting"]
            /\ op' = [op EXCEPT ![o].next = r, ![o].at = "starting"]
  /\ UNCHANGED <<loaded, loading, active, saved, trust>> /\ UnchangedRest

\* Mutant: a runtime is active as soon as it is up.
FinishStartActive(o) ==
  LET r == op[o].next IN
  /\ op[o].at = "starting"
  /\ \/ /\ lite' = [lite EXCEPT ![r] = "up"] /\ ReachStep(o, "probe")
        /\ active' = [active EXCEPT ![op[o].win] = r]
     \/ /\ LiteDown(r) /\ op' = [op EXCEPT ![o].next = Nowhere, ![o].at = "fail"]
        /\ UNCHANGED active
  /\ UNCHANGED <<loaded, loading, saved, trust>> /\ UnchangedRest

\* startLocalRuntime: database, socket, pool, application and server, or all of
\* them undone.
FinishStart(o) ==
  LET r == op[o].next IN
  /\ op[o].at = "starting"
  /\ \/ lite' = [lite EXCEPT ![r] = "up"] /\ ReachStep(o, "probe")
     \/ LiteDown(r) /\ op' = [op EXCEPT ![o].next = Nowhere, ![o].at = "fail"]
  /\ UNCHANGED <<loaded, loading, active, saved, trust>> /\ UnchangedRest

\* probeRuntimeOrigin
Probe(o) ==
  /\ op[o].at = "probe"
  /\ \E place \in {"persist", "fail"} : ReachStep(o, place)
  /\ UNCHANGED <<loaded, loading, active, lite, saved, trust>> /\ UnchangedRest

Persist(o) ==
  /\ op[o].at = "persist"
  /\ \/ saved' = op[o].mode /\ ReachStep(o, "navigate")
     \/ ReachStep(o, "fail") /\ UNCHANGED saved
  /\ UNCHANGED <<loaded, loading, active, lite, trust>> /\ UnchangedRest

\* loadURL takes the window over; a window that is gone refuses it.
Load(o, there, else) ==
  IF window = op[o].win
  THEN loading' = [loading EXCEPT ![op[o].win] = o] /\ op' = [op EXCEPT ![o] = there]
  ELSE op' = [op EXCEPT ![o] = else] /\ UNCHANGED loading

\* navigate: the origin is trusted before it is loaded.
Navigate(o) ==
  /\ op[o].at = "navigate"
  /\ Load(o, [op[o] EXCEPT !.at = "load", !.was = trust], [op[o] EXCEPT !.at = "fail"])
  /\ trust' = IF window = op[o].win THEN [trust EXCEPT !.terminal = op[o].next] ELSE trust
  /\ UNCHANGED <<loaded, active, lite, saved>> /\ UnchangedRest

\* The load is done: of a runtime, which is active now, or of the launcher.
LoadDone(o) ==
  LET w == op[o].win IN
  /\ op[o].at = "load"
  /\ loading[w] = o
  /\ loading' = [loading EXCEPT ![w] = NoOp]
  /\ IF op[o].next # Nowhere
     THEN /\ loaded' = [loaded EXCEPT ![w] = op[o].next]
          /\ trust' = [trust EXCEPT !.launcher = Nowhere]
          /\ active' = [active EXCEPT ![w] = op[o].next]
     ELSE /\ loaded' = [loaded EXCEPT ![w] = IF op[o].ok THEN Launcher ELSE LauncherWithError]
          /\ UNCHANGED <<trust, active>>
  /\ op' = [op EXCEPT ![o] = Free]
  /\ streams' = streams \ {loaded[w]}
  /\ UNCHANGED <<lite, saved>> /\ Others

\* It fails: another call has taken the window over, the window has closed, or a
\* server cannot be reached.  navigate takes its trust back.
LoadFails(o) ==
  LET w == op[o].win
      runtime == op[o].next # Nowhere IN
  /\ op[o].at = "load"
  /\ loading[w] # o \/ runtime
  /\ loading' = IF loading[w] = o THEN [loading EXCEPT ![w] = NoOp] ELSE loading
  /\ trust' = IF runtime THEN op[o].was ELSE trust
  /\ op' = [op EXCEPT ![o] = IF runtime THEN [@ EXCEPT !.at = "fail"] ELSE Free]
  /\ UNCHANGED <<loaded, active, lite, saved>> /\ UnchangedRest

\* The catch of choose, and a probe that failed: the new runtime is stopped.
Fail(o) ==
  /\ op[o].at = "fail"
  /\ LiteDown(op[o].next)
  /\ op' = [op EXCEPT ![o].next = Nowhere, ![o].ok = FALSE, ![o].at = "launcher"]
  /\ UNCHANGED <<loaded, loading, active, saved, trust>> /\ UnchangedRest

\* deps.showLauncher: trust is changed even if the window is gone.
ShowLauncher(o) ==
  /\ op[o].at = "launcher"
  /\ trust' = [terminal |-> Nowhere,
               launcher |-> IF op[o].ok THEN Launcher ELSE LauncherWithError]
  /\ Load(o, [op[o] EXCEPT !.at = "load"], Free)
  /\ UNCHANGED <<loaded, active, lite, saved>> /\ UnchangedRest

-----------------------------------------------------------------------------
(* main.ts *)

\* createWindow, at the start and on activate: the saved choice is taken up.
CreateWindow(o) ==
  /\ window = 0 /\ windows < MaxWindows
  /\ windows' = windows + 1
  /\ window' = windows + 1
  /\ op[o] = Free
  /\ op' = [op EXCEPT ![o] =
       IF saved = "none" THEN [Free EXCEPT !.at = "launcher", !.win = windows + 1]
       ELSE [Free EXCEPT !.at = "release", !.kind = "choose", !.win = windows + 1, !.mode = saved]]
  /\ UNCHANGED <<loaded, loading, active, lite, saved, trust, terminals, acts, streams>>

\* The launcher's buttons, if its page is the one that is trusted.
Choose(o) ==
  /\ window # 0
  /\ loaded[window] \in Launchers /\ loaded[window] = trust.launcher
  /\ acts < MaxActs /\ acts' = acts + 1
  /\ \E mode \in {"lite", "server"} : BeginLoad(o, "choose", window, mode)
  /\ UNCHANGED <<window, windows, loaded, loading, lite, saved, trust, terminals, streams>>

\* "Runtime..." in the menu.
MenuRuntime(o) ==
  /\ window # 0
  /\ acts < MaxActs /\ acts' = acts + 1
  /\ BeginLoad(o, "show", window, "lite")
  /\ UNCHANGED <<window, windows, loaded, loading, lite, saved, trust, terminals, streams>>

Live == {t \in 1..MaxTerminals : terminals[t] # 0}

\* Mutant: the terminals of a window survive it.
CloseWindowOnly(o) ==
  /\ window # 0
  /\ BeginLoad(o, "stop", window, "lite")
  /\ loaded' = [loaded EXCEPT ![window] = Nowhere]
  /\ loading' = [loading EXCEPT ![window] = NoOp]
  /\ trust' = NoTrust
  /\ streams' = streams \ {loaded[window]}
  /\ window' = 0
  /\ UNCHANGED <<windows, lite, saved, acts, terminals>>

\* The closed event.
CloseWindow(o) ==
  /\ window # 0
  /\ BeginLoad(o, "stop", window, "lite")
  /\ loaded' = [loaded EXCEPT ![window] = Nowhere]
  /\ loading' = [loading EXCEPT ![window] = NoOp]
  /\ trust' = NoTrust
  /\ streams' = streams \ {loaded[window]}
  /\ terminals' = [t \in 1..MaxTerminals |-> 0]
  /\ window' = 0
  /\ UNCHANGED <<windows, lite, saved, acts>>

\* desktop.terminal.create, from a page that is trusted.
CreateTerminal ==
  /\ window # 0
  /\ loaded[window] = trust.terminal /\ loaded[window] # Nowhere
  /\ \E t \in 1..MaxTerminals :
       /\ t \notin Live
       /\ terminals' = [terminals EXCEPT ![t] = window]
  /\ UNCHANGED <<window, windows, loaded, loading, active, lite, saved, trust, op, acts, streams>>

\* The page opens a bot, if the server of its runtime is not closing, or leaves it.
Closing(r) == \E o \in Ops : op[o].at = "release" /\ op[o].next = r
FollowThread ==
  /\ window # 0
  /\ LET r == loaded[window] IN
       \/ r \in Lites /\ lite[r] = "up" /\ ~Closing(r) /\ streams' = streams \union {r}
       \/ r \in streams /\ streams' = streams \ {r}
  /\ UNCHANGED <<window, windows, loaded, loading, active, lite, saved, trust, op, terminals, acts>>

\* desktop.terminal.close, or the shell ends: finalize, once.
EndTerminal(t) ==
  /\ t \in Live
  /\ terminals' = [terminals EXCEPT ![t] = 0]
  /\ UNCHANGED <<window, windows, loaded, loading, active, lite, saved, trust, op, acts, streams>>

SessionStep(o) ==
  \/ Release(o) \/ Activate(o) \/ FinishStart(o) \/ Probe(o) \/ Persist(o) \/ Navigate(o)
  \/ LoadDone(o) \/ LoadFails(o) \/ Fail(o) \/ ShowLauncher(o)
MainStep(o) == CreateWindow(o) \/ Choose(o) \/ MenuRuntime(o) \/ CloseWindow(o)

DesktopNext ==
  \/ \E o \in Ops : SessionStep(o) \/ MainStep(o)
  \/ CreateTerminal \/ FollowThread
  \/ \E t \in 1..MaxTerminals : EndTerminal(t)

DesktopSpec == DesktopInit /\ [][DesktopNext]_desktopVars

\* Calls go on: loads, probes and starts end.
FairDesktop == DesktopSpec /\ \A o \in Ops : WF_desktopVars(SessionStep(o))

-----------------------------------------------------------------------------
Quiet == \A o \in Ops : op[o] = Free
OfLite(w) == IF loaded[w] \in Lites THEN {loaded[w]} ELSE {}

(***************************************************************************)
(* When no call is under way, the page of the window is the launcher or a  *)
(* runtime that runs, however the calls of the launcher, of the menu and   *)
(* of the window's start were interleaved.                                 *)
(***************************************************************************)
PageIsAlive ==
  (Quiet /\ window # 0) => /\ loaded[window] # Nowhere
                           /\ \A r \in OfLite(window) : lite[r] = "up"

(***************************************************************************)
(* Terminals are for the page that is shown: when no call is under way,    *)
(* the trusted origin is that of the page, and every terminal belongs to   *)
(* the window that is open.                                                *)
(***************************************************************************)
TerminalsFollowWindow ==
  /\ (Quiet /\ window # 0 /\ trust.terminal # Nowhere) => loaded[window] = trust.terminal
  /\ \A t \in Live : terminals[t] = window
=============================================================================
