------------------------------ MODULE BotStudio ------------------------------
(***************************************************************************)
(* The look and the steering of one bot, edited from several browser tabs. *)
(* A look is an appearance row of the capability table, the newest being   *)
(* the one that is shown, and a colour of the bot; saving one is up to     *)
(* four requests.  The steering profile and the role are two sections of   *)
(* the bot's instructions, and each is saved by writing back the whole     *)
(* text as the tab last read it.                                           *)
(***************************************************************************)
EXTENDS Integers, FiniteSets

CONSTANTS
  StudioTabs,             \* browser tabs
  MaxLooks,         \* bound: looks saved
  MaxEdits,         \* bound: sections saved
  MaxStudioTroubles \* bound: requests that fail

ASSUME StudioConstants ==
  MaxLooks \in Nat /\ MaxEdits \in Nat /\ MaxStudioTroubles \in Nat

VARIABLES
  appearances,  \* CapabilityInstall rows of the bot's appearance, by age
  looks,        \* appearance rows installed so far
  color,        \* Bot.color, as the look it is of
  savedLook,    \* the newest look whose save has gone through
  instructions, \* Bot.instructions: the edit each of its sections is of
  edits,        \* sections saved so far
  known,        \* CreativeRuntimeHost: the bots and the capabilities of a tab
  shown,        \* Shell: the instructions of the bot of a tab
  studio,       \* the overlay that is open in a tab
  pendingSave,       \* what the save of a tab is about to do
  studioTroubles

studioVars == <<appearances, looks, color, savedLook, instructions, edits, known, shown,
                studio, pendingSave, studioTroubles>>

Looks == 0..MaxLooks
Sections == [role : 0..MaxEdits, steering : 0..MaxEdits]
NotSaving == [at |-> "idle", row |-> 0, existing |-> 0,
              text |-> [role |-> 0, steering |-> 0]]

(***************************************************************************)
(* Every variable has its type.                                            *)
(***************************************************************************)
StudioTypeOK ==
  /\ appearances \subseteq 1..MaxLooks /\ looks \in Looks
  /\ color \in Looks /\ savedLook \in Looks
  /\ instructions \in Sections /\ edits \in 0..MaxEdits
  /\ known \in [StudioTabs -> [rows : SUBSET (1..MaxLooks), bots : Sections]]
  /\ shown \in [StudioTabs -> Sections]
  /\ studio \in [StudioTabs -> {"none", "look", "steering"}]
  /\ pendingSave \in [StudioTabs -> [at : {"idle", "color", "undo", "remove", "text"},
                          row : Looks, existing : Looks, text : Sections]]
  /\ studioTroubles \in 0..MaxStudioTroubles

StudioInit ==
  /\ appearances = {} /\ looks = 0 /\ color = 0 /\ savedLook = 0
  /\ instructions = [role |-> 0, steering |-> 0] /\ edits = 0
  /\ known = [t \in StudioTabs |-> [rows |-> {}, bots |-> instructions]]
  /\ shown = [t \in StudioTabs |-> instructions]
  /\ studio = [t \in StudioTabs |-> "none"]
  /\ pendingSave = [t \in StudioTabs |-> NotSaving]
  /\ studioTroubles = 0

Stored == UNCHANGED <<appearances, looks, color, savedLook, instructions, edits>>
Overlays == UNCHANGED <<known, shown, studio>>
SaveGoes(t, at) == pendingSave' = [pendingSave EXCEPT ![t].at = at]
Trouble == studioTroubles < MaxStudioTroubles /\ studioTroubles' = studioTroubles + 1

\* appearanceCapabilityForBot: the newest, or 0.
NewestOf(rows) ==
  IF rows = {} THEN 0 ELSE CHOOSE r \in rows : \A s \in rows : s <= r

-----------------------------------------------------------------------------
(* refresh *)

\* A timer of 8 seconds, 4 with the office open; the end of a save; and both studios
\* open with one.  One that fails changes nothing: the next one comes.
Refresh(t) ==
  /\ known' = [known EXCEPT ![t] = [rows |-> appearances, bots |-> instructions]]
  /\ \/ known[t] # known'[t] /\ UNCHANGED studio
     \/ \E which \in {"look", "steering"} :
          studio[t] # which /\ studio' = [studio EXCEPT ![t] = which]
  /\ Stored /\ UNCHANGED <<shown, pendingSave, studioTroubles>>

CloseStudio(t) ==
  /\ studio[t] # "none" /\ studio' = [studio EXCEPT ![t] = "none"]
  /\ Stored /\ UNCHANGED <<known, shown, pendingSave, studioTroubles>>

\* The Shell keeps a list of its own, refreshed every 4 seconds.
ShellRefreshes(t) ==
  /\ shown[t] # instructions /\ shown' = [shown EXCEPT ![t] = instructions]
  /\ Stored /\ UNCHANGED <<known, studio, pendingSave, studioTroubles>>

-----------------------------------------------------------------------------
(* saveLook *)

\* Mutant: the row that is replaced goes as the new one comes.
InstallInstead(t) ==
  /\ studio[t] = "look" /\ pendingSave[t].at = "idle" /\ looks < MaxLooks
  /\ looks' = looks + 1
  /\ appearances' = (appearances \ {NewestOf(known[t].rows)}) \union {looks + 1}
  /\ pendingSave' = [pendingSave EXCEPT ![t] = [NotSaving EXCEPT !.at = "color", !.row = looks + 1,
                                                !.existing = NewestOf(known[t].rows)]]
  /\ Overlays /\ UNCHANGED <<color, savedLook, instructions, edits, studioTroubles>>
InstallLook(t) ==
  /\ studio[t] = "look" /\ pendingSave[t].at = "idle" /\ looks < MaxLooks
  /\ looks' = looks + 1
  /\ appearances' = appearances \union {looks + 1}
  /\ pendingSave' = [pendingSave EXCEPT ![t] = [NotSaving EXCEPT !.at = "color", !.row = looks + 1,
                                                !.existing = NewestOf(known[t].rows)]]
  /\ Overlays /\ UNCHANGED <<color, savedLook, instructions, edits, studioTroubles>>

\* The row is installed and its answer lost: nothing takes it back.
InstallFails(t) ==
  /\ studio[t] = "look" /\ pendingSave[t].at = "idle" /\ looks < MaxLooks
  /\ looks' = looks + 1 /\ appearances' = appearances \union {looks + 1}
  /\ Trouble
  /\ Overlays /\ UNCHANGED <<color, savedLook, instructions, edits, pendingSave>>

UpdateColor(t) ==
  LET s == pendingSave[t] IN
  /\ s.at = "color"
  /\ color' = s.row
  /\ savedLook' = IF s.row > savedLook THEN s.row ELSE savedLook
  /\ IF s.existing \in {0, s.row} THEN pendingSave' = [pendingSave EXCEPT ![t] = NotSaving]
     ELSE SaveGoes(t, "remove")
  /\ Overlays /\ UNCHANGED <<appearances, looks, instructions, edits, studioTroubles>>

\* bots.update is refused, or its answer is lost.
UpdateFails(t) ==
  /\ pendingSave[t].at = "color" /\ Trouble
  /\ color' \in {color, pendingSave[t].row}
  /\ SaveGoes(t, "undo")
  /\ Overlays /\ UNCHANGED <<appearances, looks, savedLook, instructions, edits>>

\* capabilities.remove, of the new row or of the old one: a failure is ignored.
RemoveLook(t) ==
  LET s == pendingSave[t] IN
  /\ s.at \in {"undo", "remove"}
  /\ \/ appearances' = appearances \ {IF s.at = "undo" THEN s.row ELSE s.existing}
        /\ UNCHANGED studioTroubles
     \/ Trouble /\ UNCHANGED appearances
  /\ pendingSave' = [pendingSave EXCEPT ![t] = NotSaving]
  /\ Overlays /\ UNCHANGED <<looks, color, savedLook, instructions, edits>>

-----------------------------------------------------------------------------
(* saveSteering, and the save of the Shell's bot settings *)

\* applyBotSteeringProfile replaces its section of the text the tab knows.
SaveSteering(t) ==
  /\ studio[t] = "steering" /\ pendingSave[t].at = "idle" /\ edits < MaxEdits
  /\ edits' = edits + 1
  /\ pendingSave' = [pendingSave EXCEPT ![t] =
       [NotSaving EXCEPT !.at = "text",
                         !.text = [known[t].bots EXCEPT !.steering = edits + 1]]]
  /\ Overlays /\ UNCHANGED <<appearances, looks, color, savedLook, instructions, studioTroubles>>

\* applyBotRoleInstructions replaces its own, of the text that the Shell shows.
SaveRole(t) ==
  /\ studio[t] = "none" /\ pendingSave[t].at = "idle" /\ edits < MaxEdits
  /\ edits' = edits + 1
  /\ pendingSave' = [pendingSave EXCEPT ![t] =
       [NotSaving EXCEPT !.at = "text", !.text = [shown[t] EXCEPT !.role = edits + 1]]]
  /\ Overlays /\ UNCHANGED <<appearances, looks, color, savedLook, instructions, studioTroubles>>

\* bots.update writes the text it is given.
WriteText(t) ==
  /\ pendingSave[t].at = "text"
  /\ instructions' = pendingSave[t].text
  /\ pendingSave' = [pendingSave EXCEPT ![t] = NotSaving]
  /\ Overlays /\ UNCHANGED <<appearances, looks, color, savedLook, edits, studioTroubles>>

WriteFails(t) ==
  /\ pendingSave[t].at = "text" /\ Trouble
  /\ pendingSave' = [pendingSave EXCEPT ![t] = NotSaving]
  /\ Stored /\ Overlays

StudioNext ==
  \E t \in StudioTabs :
    \/ Refresh(t) \/ CloseStudio(t) \/ ShellRefreshes(t)
    \/ InstallLook(t) \/ InstallFails(t) \/ UpdateColor(t) \/ UpdateFails(t) \/ RemoveLook(t)
    \/ SaveSteering(t) \/ SaveRole(t) \/ WriteText(t) \/ WriteFails(t)

StudioSpec == StudioInit /\ [][StudioNext]_studioVars

-----------------------------------------------------------------------------
(***************************************************************************)
(* Chat and office never go back to a look older than one that was saved:  *)
(* of whatever lists the tabs have worked, and whichever request of        *)
(* saveLook has failed, the newest row is not older than the newest save   *)
(* that went through.                                                      *)
(***************************************************************************)
LookNotOlder == savedLook <= NewestOf(appearances)
=============================================================================
