------------------------------- MODULE MCClient -------------------------------
(***************************************************************************)
(* The parts of the clients that share no state, side by side: `part` names*)
(* the one that moves in a behaviour, while the others stay in their initial*)
(* states.  One run checks them all, each on an instance of its own.       *)
(***************************************************************************)
EXTENDS ThreadView, Cron, DesktopShell, ModelSetup, LiteRuntime, ShellView, MobileApp,
        BotStudio, Connections, TLC

CONSTANTS
  Parts              \* the parts that the run checks

VARIABLE part

\* Clock times of the editor, on a clock of four hours: the noon, the midnight and
\* an afternoon.
MCTimes == {[h |-> 1, m |-> 0, pm |-> TRUE], [h |-> 2, m |-> 0, pm |-> FALSE],
            [h |-> 2, m |-> 1, pm |-> TRUE]}

\* Expressions that a user types in.
MCExpressions == {Fields(At(2), Every(3), At(2), At(0)),
                  Fields(FromTo(0, 1), FromTo(2, 3), Always, Weekdays),
                  Fields(Every(0), At(1), Always, Always)}

ClientInit ==
  /\ part \in Parts
  /\ ViewInit /\ CronInit /\ DesktopInit /\ SetupInit /\ LiteInit /\ ShellInit
  /\ MobileInit /\ StudioInit /\ ConnectionsInit
  /\ part # "cron" => cron = CronFromPreset(Base)
  /\ part # "desktop" => saved = "none"
  /\ part # "shell" => opened = NoOne

clientPartVars ==
  <<part, viewVars, cronVars, desktopVars, setupVars, liteVars, shellVars,
    mobileVars, studioVars, connectionVars>>

ClientNext ==
  \/ /\ part = "view" /\ ViewNext
     /\ UNCHANGED <<part, cronVars, desktopVars, setupVars, liteVars, shellVars,
                    mobileVars, studioVars, connectionVars>>
  \/ /\ part = "cron" /\ CronNext
     /\ UNCHANGED <<part, viewVars, desktopVars, setupVars, liteVars, shellVars,
                    mobileVars, studioVars, connectionVars>>
  \/ /\ part = "desktop" /\ DesktopNext
     /\ UNCHANGED <<part, viewVars, cronVars, setupVars, liteVars, shellVars,
                    mobileVars, studioVars, connectionVars>>
  \/ /\ part = "setup" /\ SetupNext
     /\ UNCHANGED <<part, viewVars, cronVars, desktopVars, liteVars, shellVars,
                    mobileVars, studioVars, connectionVars>>
  \/ /\ part = "lite" /\ LiteNext
     /\ UNCHANGED <<part, viewVars, cronVars, desktopVars, setupVars, shellVars,
                    mobileVars, studioVars, connectionVars>>
  \/ /\ part = "shell" /\ ShellNext
     /\ UNCHANGED <<part, viewVars, cronVars, desktopVars, setupVars, liteVars,
                    mobileVars, studioVars, connectionVars>>
  \/ /\ part = "mobile" /\ MobileNext
     /\ UNCHANGED <<part, viewVars, cronVars, desktopVars, setupVars, liteVars,
                    shellVars, studioVars, connectionVars>>
  \/ /\ part = "studio" /\ StudioNext
     /\ UNCHANGED <<part, viewVars, cronVars, desktopVars, setupVars, liteVars,
                    shellVars, mobileVars, connectionVars>>
  \/ /\ part = "connection" /\ ConnectionsNext
     /\ UNCHANGED <<part, viewVars, cronVars, desktopVars, setupVars, liteVars,
                    shellVars, mobileVars, studioVars>>

ClientSpec == ClientInit /\ [][ClientNext]_clientPartVars

(***************************************************************************)
(* Every variable of the component that moves has its type.                *)
(***************************************************************************)
ClientTypeOK ==
  /\ part \in Parts
  /\ part = "view" => ViewTypeOK
  /\ part = "cron" => CronTypeOK
  /\ part = "desktop" => DesktopTypeOK
  /\ part = "setup" => SetupTypeOK
  /\ part = "lite" => LiteTypeOK
  /\ part = "shell" => ShellTypeOK
  /\ part = "mobile" => MobileTypeOK
  /\ part = "studio" => StudioTypeOK
  /\ part = "connection" => ConnectionsTypeOK

(***************************************************************************)
(* What a user has set up stays so.  A schedule comes back from saving as  *)
(* it was picked and fires at the first minute that matches; a sign-in to  *)
(* a model is stored once, and a default stays while one can be chosen.    *)
(***************************************************************************)
SettingsAreKept ==
  /\ ScheduleSurvivesSave
  /\ FiresAtFirstMatch
  /\ SignInStoredOnce
  /\ DefaultStays

(***************************************************************************)
(* The desktop app: a window shows a page of a runtime that is up, its     *)
(* terminals end with it, and the local runtime applies each migration     *)
(* once, closes what it opened in the reverse order and refuses no page a  *)
(* session.                                                                *)
(***************************************************************************)
DesktopIsSound ==
  /\ PageIsAlive
  /\ TerminalsFollowWindow
  /\ MigratedOnce
  /\ ClosedInOrder
  /\ SessionForEvery

(***************************************************************************)
(* Screens: a panel edits what belongs to the bot it shows and waits only  *)
(* for a request of its own, a bot never gets a look older than the one it *)
(* had, and on the phone a signed-out user stays so and no overlay is left.*)
(***************************************************************************)
ScreensAreOwn ==
  /\ EditsOwn
  /\ BusyForAReason
  /\ LookNotOlder
  /\ StaysSignedOut
  /\ OverlayGoes

(***************************************************************************)
(* The credentials of an external service: the key in use has its secret,  *)
(* and a client works with a session of its own key only.                  *)
(***************************************************************************)
ConnectionsAreOwn == KeyHasSecret /\ OwnSession
==============================================================================
