------------------------------ MODULE MobileApp ------------------------------
(***************************************************************************)
(* The phone app: the server it talks to and the session it holds, each in *)
(* the secure store and the server in memory as well, the screens that     *)
(* read them as they mount, and the screen of a bot's computer.  Every     *)
(* access to the store and every request is a step of its own, the system  *)
(* may kill the app between any two, and a screen that has gone does not   *)
(* stop what it has begun.                                                 *)
(***************************************************************************)
EXTENDS Integers, FiniteSets

CONSTANTS
  Servers,          \* origins
  DefaultServer,    \* EXPO_PUBLIC_API_URL
  Boots,            \* calls of bootComputer under way at once
  MaxSignIns,       \* bound: sessions
  MaxServerChanges, \* bound: saves of the server sheet
  MaxMobileTroubles \* bound: kills, and failures that are swallowed

ASSUME MobileConstants ==
  /\ DefaultServer \in Servers
  /\ MaxSignIns \in Nat /\ MaxServerChanges \in Nat /\ MaxMobileTroubles \in Nat

VARIABLES
  endpoint,      \* rakazo.api_base in the secure store
  apiBase,       \* cachedApiBase
  token,         \* rakazo.session_token in the secure store
  sessions,      \* sessions created so far, over all servers
  signedOut,     \* sessions the user has signed out of
  screen,        \* the screen that is on top
  signIn,        \* the sign-in under way
  sheet,         \* the save of the server sheet under way
  leaving,       \* the session that signOut or deleteAccount is ending, or Staying
  serverChanges,
  computerState, \* the computer as status last told, "unknown" before
  autoBooted,    \* the screen has booted the computer by itself
  boots,         \* calls of bootComputer: idle, or whether they cover the screen
  covered,       \* the overlay, which nothing but the end of a boot takes away
  mobileTroubles

mobileVars ==
  <<endpoint, apiBase, token, sessions, signedOut, screen, signIn, sheet, leaving,
    serverChanges, computerState, autoBooted, boots, covered, mobileTroubles>>

NoToken == [id |-> 0, server |-> DefaultServer]
Tokens == [id : 0..MaxSignIns, server : Servers]
Staying == -1
NotSigningIn == [at |-> "idle", token |-> NoToken]
NoSheet == [at |-> "idle", server |-> DefaultServer, previous |-> DefaultServer]

(***************************************************************************)
(* Every variable has its type.                                            *)
(***************************************************************************)
MobileTypeOK ==
  /\ endpoint \in Servers /\ apiBase \in Servers
  /\ token \in Tokens /\ sessions \in 0..MaxSignIns
  /\ signedOut \subseteq 1..MaxSignIns
  /\ screen \in {"loading", "mounting", "sign-in", "home", "computer"}
  /\ signIn \in [at : {"idle", "asked", "answered"}, token : Tokens]
  /\ sheet \in [at : {"idle", "probe", "clear"}, server : Servers, previous : Servers]
  /\ leaving \in Staying..MaxSignIns
  /\ serverChanges \in 0..MaxServerChanges
  /\ computerState \in {"unknown", "stopped", "booting", "running"}
  /\ autoBooted \in BOOLEAN /\ covered \in BOOLEAN
  /\ boots \in [Boots -> {"idle", "bare", "overlay"}]
  /\ mobileTroubles \in 0..MaxMobileTroubles

MobileInit ==
  /\ endpoint = DefaultServer /\ apiBase = DefaultServer
  /\ token = NoToken /\ sessions = 0 /\ signedOut = {}
  /\ screen = "loading"
  /\ signIn = NotSigningIn /\ sheet = NoSheet /\ leaving = Staying /\ serverChanges = 0
  /\ computerState = "unknown" /\ autoBooted = FALSE
  /\ boots = [b \in Boots |-> "idle"] /\ covered = FALSE
  /\ mobileTroubles = 0

ComputerScreen == UNCHANGED <<computerState, autoBooted, boots, covered>>
RestOfApp == UNCHANGED <<endpoint, apiBase, token, sessions, signedOut, signIn, sheet,
                         leaving, serverChanges>>
Fails == mobileTroubles < MaxMobileTroubles /\ mobileTroubles' = mobileTroubles + 1

-----------------------------------------------------------------------------
(* Launch, and the redirects of the two root screens *)

LoadApiBase ==
  /\ screen = "loading"
  /\ apiBase' = endpoint /\ screen' = "mounting"
  /\ ComputerScreen
  /\ UNCHANGED <<endpoint, token, sessions, signedOut, signIn, sheet, leaving,
                 serverChanges, mobileTroubles>>

\* Home without a token redirects to the sign-in, and the sign-in with one to Home.
Mount ==
  /\ screen = "mounting"
  /\ screen' = IF token = NoToken THEN "sign-in" ELSE "home"
  /\ ComputerScreen /\ RestOfApp /\ UNCHANGED mobileTroubles

\* Everything that is not in the secure store is gone.
Kill ==
  /\ Fails
  /\ screen' = "loading" /\ apiBase' = DefaultServer
  /\ signIn' = NotSigningIn /\ sheet' = NoSheet /\ leaving' = Staying
  /\ computerState' = "unknown" /\ autoBooted' = FALSE
  /\ boots' = [b \in Boots |-> "idle"] /\ covered' = FALSE
  /\ UNCHANGED <<endpoint, token, sessions, signedOut, serverChanges>>

-----------------------------------------------------------------------------
(* signIn *)

\* The request goes to the server of this moment.
Submit ==
  /\ screen = "sign-in" /\ signIn.at = "idle"
  /\ signIn' = [at |-> "asked", token |-> [id |-> 0, server |-> apiBase]]
  /\ ComputerScreen
  /\ UNCHANGED <<endpoint, apiBase, token, sessions, signedOut, screen, sheet, leaving,
                 serverChanges, mobileTroubles>>

\* A session, or no answer, or none that holds a session: nothing is saved then.
SignInAnswered ==
  /\ signIn.at = "asked"
  /\ \/ /\ sessions < MaxSignIns /\ sessions' = sessions + 1
        /\ signIn' = [at |-> "answered", token |-> [signIn.token EXCEPT !.id = sessions + 1]]
     \/ signIn' = NotSigningIn /\ UNCHANGED sessions
  /\ ComputerScreen
  /\ UNCHANGED <<endpoint, apiBase, token, signedOut, screen, sheet, leaving,
                 serverChanges, mobileTroubles>>

SaveToken ==
  /\ signIn.at = "answered"
  /\ token' = signIn.token
  /\ signIn' = NotSigningIn
  /\ screen' = "mounting"
  /\ ComputerScreen
  /\ UNCHANGED <<endpoint, apiBase, sessions, signedOut, sheet, leaving, serverChanges,
                 mobileTroubles>>

-----------------------------------------------------------------------------
(* The server sheet: probeApiBase, then saveApiBase or resetApiBase *)

\* The sheet can be opened while a sign-in is pending, and cancelled while it saves.
SaveServer ==
  /\ screen = "sign-in" /\ sheet.at = "idle" /\ serverChanges < MaxServerChanges
  /\ serverChanges' = serverChanges + 1
  /\ \E server \in Servers : sheet' = [NoSheet EXCEPT !.at = "probe", !.server = server]
  /\ ComputerScreen
  /\ UNCHANGED <<endpoint, apiBase, token, sessions, signedOut, screen, signIn, leaving,
                 mobileTroubles>>

\* The default is stored by deleting the key, and a failure to delete it is ignored.
StoreServer ==
  LET s == sheet.server IN
  /\ sheet.at = "probe"
  /\ \/ endpoint' = s /\ UNCHANGED mobileTroubles
     \/ s = DefaultServer /\ Fails /\ UNCHANGED endpoint
  /\ apiBase' = s
  /\ sheet' = IF s = apiBase THEN NoSheet ELSE [sheet EXCEPT !.at = "clear", !.previous = apiBase]
  /\ ComputerScreen
  /\ UNCHANGED <<token, sessions, signedOut, screen, signIn, leaving, serverChanges>>

ProbeFails ==
  /\ sheet.at = "probe" /\ sheet' = NoSheet
  /\ ComputerScreen
  /\ UNCHANGED <<endpoint, apiBase, token, sessions, signedOut, screen, signIn, leaving,
                 serverChanges, mobileTroubles>>

ClearForServer ==
  /\ sheet.at = "clear"
  /\ token' = NoToken /\ sheet' = NoSheet
  /\ ComputerScreen
  /\ UNCHANGED <<endpoint, apiBase, sessions, signedOut, screen, signIn, leaving,
                 serverChanges, mobileTroubles>>

-----------------------------------------------------------------------------
(* signOut and deleteAccount, of the account screen *)

SignOut ==
  /\ screen = "home" /\ leaving = Staying
  /\ leaving' = token.id
  /\ ComputerScreen
  /\ UNCHANGED <<endpoint, apiBase, token, sessions, signedOut, screen, signIn, sheet,
                 serverChanges, mobileTroubles>>

\* Mutant: a request that fails leaves the session.
ClearWhenAnswered ==
  /\ leaving # Staying
  /\ \/ token' = NoToken /\ UNCHANGED mobileTroubles
     \/ Fails /\ UNCHANGED token
  /\ signedOut' = signedOut \union ({leaving} \ {0}) /\ leaving' = Staying
  /\ screen' = "mounting"
  /\ ComputerScreen
  /\ UNCHANGED <<endpoint, apiBase, sessions, signIn, sheet, serverChanges>>
\* The request is answered or fails, and the token is deleted either way.
ClearSession ==
  /\ leaving # Staying
  /\ token' = NoToken
  /\ signedOut' = signedOut \union ({leaving} \ {0}) /\ leaving' = Staying
  /\ screen' = "mounting"
  /\ ComputerScreen
  /\ UNCHANGED <<endpoint, apiBase, sessions, signIn, sheet, serverChanges, mobileTroubles>>

\* deleteAccount that is refused: the user stays.
DeletionRefused ==
  /\ leaving # Staying /\ leaving' = Staying
  /\ ComputerScreen
  /\ UNCHANGED <<endpoint, apiBase, token, sessions, signedOut, screen, signIn, sheet,
                 serverChanges, mobileTroubles>>

-----------------------------------------------------------------------------
(* The computer screen *)

OpenScreen ==
  /\ screen = "home" /\ leaving = Staying
  /\ screen' = "computer"
  /\ RestOfApp /\ ComputerScreen /\ UNCHANGED mobileTroubles

\* What is under way goes on, and what it sets is of a screen that is gone.
LeaveScreen ==
  /\ screen = "computer" /\ ~covered
  /\ screen' = "home"
  /\ computerState' = "unknown" /\ autoBooted' = FALSE
  /\ boots' = [b \in Boots |-> "idle"] /\ covered' = FALSE
  /\ RestOfApp /\ UNCHANGED mobileTroubles

\* refresh, every two seconds and at the end of a boot; "booting" stands for
\* "suspended" too, which the screen treats alike.
ComputerRefresh ==
  /\ screen = "computer"
  /\ computerState' \in {"stopped", "booting", "running"} \ {computerState}
  /\ RestOfApp /\ UNCHANGED <<screen, autoBooted, boots, covered, mobileTroubles>>

\* bootComputer: the overlay covers the screen when it is asked for and needed.
BootComputer(b, overlay) ==
  /\ boots[b] = "idle"
  /\ boots' = [boots EXCEPT ![b] = IF overlay THEN "overlay" ELSE "bare"]
  /\ covered' = (covered \/ overlay)

BootUnasked(b) ==
  /\ screen = "computer" /\ computerState \in {"stopped", "running"} /\ ~autoBooted
  /\ autoBooted' = TRUE
  /\ BootComputer(b, computerState # "running")
  /\ RestOfApp /\ UNCHANGED <<screen, computerState, mobileTroubles>>

\* openComputer: with the control taken or not, and the screen's URL known or not.
OpenOnPhone(b) ==
  /\ screen = "computer" /\ ~covered
  /\ \E takeover, hasUrl \in BOOLEAN :
       BootComputer(b, (takeover /\ ~hasUrl) \/ computerState # "running")
  /\ RestOfApp /\ UNCHANGED <<screen, computerState, autoBooted, mobileTroubles>>

\* Mutant: a boot that fails throws past the overlay.
BootEndsWell(b) ==
  /\ boots[b] # "idle"
  /\ boots' = [boots EXCEPT ![b] = "idle"]
  /\ covered' \in {FALSE, covered}
  /\ RestOfApp /\ UNCHANGED <<screen, computerState, autoBooted, mobileTroubles>>
\* Booted or failed, its own overlay or that of another boot.
BootEnds(b) ==
  /\ boots[b] # "idle"
  /\ boots' = [boots EXCEPT ![b] = "idle"]
  /\ covered' = FALSE
  /\ RestOfApp /\ UNCHANGED <<screen, computerState, autoBooted, mobileTroubles>>

MobileNext ==
  \/ LoadApiBase \/ Mount \/ Kill
  \/ Submit \/ SignInAnswered \/ SaveToken
  \/ SaveServer \/ StoreServer \/ ProbeFails \/ ClearForServer
  \/ SignOut \/ ClearSession \/ DeletionRefused
  \/ OpenScreen \/ LeaveScreen \/ ComputerRefresh
  \/ \E b \in Boots : BootUnasked(b) \/ OpenOnPhone(b) \/ BootEnds(b)

MobileSpec == MobileInit /\ [][MobileNext]_mobileVars

-----------------------------------------------------------------------------
(***************************************************************************)
(* A session the user has signed out of is never the app's again, whether  *)
(* the request was answered or not and wherever the app was killed.        *)
(***************************************************************************)
StaysSignedOut == token.id \notin signedOut

(***************************************************************************)
(* The overlay of a boot, which cannot be dismissed, is never left over:   *)
(* while it is up a boot is under way that will take it down.              *)
(***************************************************************************)
OverlayGoes == covered => \E b \in Boots : boots[b] # "idle"
=============================================================================
