------------------------------- MODULE ShellView -------------------------------
(***************************************************************************)
(* The shell page of the web client: the bot that is shown, the panel at   *)
(* its side, the computer and routines that belong to it, and the requests *)
(* under way.  The user goes to another bot at any moment, and each answer *)
(* finds the page as it is by then.                                        *)
(***************************************************************************)
EXTENDS Integers, FiniteSets, FiniteSetsExt

CONSTANTS
  MaxShellBots,   \* bound: bots, numbered in the order of the list
  FlightSlots,    \* bound: requests under way at once
  MaxShellEvents  \* bound: changes by other clients, and failed requests

ASSUME ShellConstants == MaxShellBots \in Nat \ {0} /\ MaxShellEvents \in Nat

VARIABLES
  exists,      \* the bots of the server
  listed,      \* bots: the list of the page
  route,       \* botId of the address
  opened,      \* botId when the page was mounted: that of the 4-second poll
  panel,       \* what the side panel shows
  full,        \* computerOpen: the computer over the whole window
  booting,     \* the "Booting up" overlay
  saving,      \* savingRoutine
  edited,     \* editingRoutine: the bot of the routine, or NoOne
  doomed,      \* deleteRoutineTarget: the bot of the routine, or NoOne
  heldOf,      \* routinesBotId: whose snapshot, computer and routines the page holds
  flight,      \* requests under way
  events

shellVars ==
  <<exists, listed, route, opened, panel, full, booting, saving, edited, doomed, heldOf,
    flight, events>>

Bots == 1..MaxShellBots
NoOne == 0
Shown == IF route \in listed THEN route ELSE IF listed = {} THEN NoOne ELSE Min(listed)

NoFlight == [kind |-> "none", at |-> "none", bot |-> NoOne]
Kinds == {"none", "list", "act", "boot", "open", "save", "remove", "create", "delete"}

(***************************************************************************)
(* Every variable has its type.                                            *)
(***************************************************************************)
ShellTypeOK ==
  /\ exists \subseteq Bots /\ listed \subseteq Bots
  /\ {route, opened, edited, doomed, heldOf} \subseteq {NoOne} \union Bots
  /\ panel \in {"none", "computer", "settings", "routine", "create"}
  /\ {full, booting, saving} \subseteq BOOLEAN
  /\ flight \in [FlightSlots -> [kind : Kinds, at : {"none", "list", "request", "get"},
                                 bot : {NoOne} \union Bots]]
  /\ events \in 0..MaxShellEvents

\* The page is opened at a bot's address, or, after signing in, at none.
ShellInit ==
  /\ exists = 1..2 \intersect Bots /\ listed = {}
  /\ opened \in {NoOne, 1} /\ route = opened
  /\ panel = "none" /\ full = FALSE /\ booting = FALSE /\ saving = FALSE
  /\ edited = NoOne /\ doomed = NoOne
  /\ heldOf = NoOne
  /\ flight = [f \in FlightSlots |-> NoFlight]
  /\ events = 0

ServerSame == UNCHANGED <<exists, opened, events>>
Place == UNCHANGED <<listed, route>>
Side == UNCHANGED <<panel, full, edited, doomed>>
Busy == UNCHANGED <<booting, saving>>

\* The effect of [active?.id]: what belonged to the other bot goes.
Leaves(list, address) ==
  LET next == IF address \in list THEN address ELSE IF list = {} THEN NoOne ELSE Min(list) IN
  IF next = Shown THEN Side
  ELSE /\ full' = FALSE /\ edited' = NoOne /\ doomed' = NoOne
       /\ panel' = IF panel = "routine" THEN "none" ELSE panel

Starts(kind, at, bot) ==
  \E f \in FlightSlots :
    /\ flight[f] = NoFlight
    /\ flight' = [flight EXCEPT ![f] = [kind |-> kind, at |-> at, bot |-> bot]]
Lands(f) == flight' = [flight EXCEPT ![f] = NoFlight]
Goes(f, at) == flight' = [flight EXCEPT ![f].at = at]

-----------------------------------------------------------------------------
(* The list and the address *)

\* refreshBots: its botId is that of the render that made it, for the poll the first.
AskList ==
  /\ \E address \in {opened, route} : Starts("list", "list", address)
  /\ ServerSame /\ Place /\ Side /\ Busy /\ UNCHANGED heldOf
TakeList(f) ==
  /\ flight[f].at = "list" /\ exists # {}
  /\ listed' = exists
  /\ IF flight[f].kind = "create"
     THEN /\ route' = flight[f].bot /\ panel' = "none"
          /\ full' = FALSE /\ edited' = NoOne /\ doomed' = NoOne
     ELSE /\ route' = IF flight[f].bot \in exists THEN route ELSE Min(exists)
          /\ Leaves(exists, route')
  /\ Lands(f)
  /\ ServerSame /\ Busy /\ UNCHANGED heldOf
\* Mutant: going to another bot keeps the routine that is being edited.
SelectOnly ==
  /\ \E b \in listed \ {route} : route' = b
  /\ ServerSame /\ Busy /\ Side /\ UNCHANGED <<listed, heldOf, flight>>
SelectBot ==
  /\ \E b \in listed \ {route} : route' = b /\ Leaves(listed, b)
  /\ ServerSame /\ Busy /\ UNCHANGED <<listed, heldOf, flight>>

-----------------------------------------------------------------------------
(* refreshThread, alone or at the end of a handler *)

\* The effect of a newly shown bot, its loop of subscriptions, and the events that ask.
RefreshThread ==
  /\ Shown # NoOne /\ Starts("act", "get", Shown)
  /\ ServerSame /\ Place /\ Side /\ Busy /\ UNCHANGED heldOf

\* What the handler does when refreshThread has returned.
AfterRefresh(f) ==
  LET kind == flight[f].kind IN
  /\ IF kind \in {"save", "remove"}
     THEN panel' = "computer" /\ edited' = NoOne /\ doomed' = NoOne /\ UNCHANGED full
     ELSE /\ full' = IF kind = "open" THEN TRUE ELSE full
          /\ UNCHANGED <<panel, edited, doomed>>
  /\ booting' = IF kind \in {"boot", "open"} THEN FALSE ELSE booting
  /\ saving' = IF kind = "save" THEN FALSE ELSE saving
\* A snapshot of a bot that is no longer shown is dropped, but the handler goes on.
TakeThread(f) ==
  /\ flight[f].at = "get"
  /\ heldOf' = IF flight[f].bot = Shown THEN Shown ELSE heldOf
  /\ AfterRefresh(f) /\ Lands(f)
  /\ ServerSame /\ Place

-----------------------------------------------------------------------------
(* What the user does *)

\* A message, a release of the computer, a test run: a request, then refreshThread.
Ask ==
  /\ Shown # NoOne
  /\ \/ Starts("act", "request", Shown) /\ UNCHANGED full
     \/ (panel = "computer" \/ full) /\ Starts("act", "request", Shown) /\ full' = FALSE
  /\ ServerSame /\ Place /\ Busy /\ UNCHANGED <<panel, edited, doomed, heldOf>>

OpenPanel ==
  /\ \E p \in {"none", "computer", "settings", "create"} : panel' = p /\ p # panel
  /\ ServerSame /\ Place /\ Busy /\ UNCHANGED <<full, edited, doomed, heldOf, flight>>
CloseFull ==
  /\ full /\ full' = FALSE
  /\ ServerSame /\ Place /\ Busy /\ UNCHANGED <<panel, edited, doomed, heldOf, flight>>

\* bootComputer: whether it needs a boot, and the overlay, is decided before its first
\* await, by what the page holds of the computer.
Boot(kind) ==
  /\ panel = "computer" /\ Shown # NoOne
  /\ \E at \in {"request", "get"}, overlay \in BOOLEAN :
       Starts(kind, at, Shown) /\ booting' = (booting \/ overlay)
  /\ ServerSame /\ Place /\ Side /\ UNCHANGED <<saving, heldOf>>
\* The effect of the panel, and the click that opens the computer in full.
AutoBoot == Boot("boot")
OpenComputer == Boot("open")

\* The routine editor, on one of the routines of the bot that is shown, or on a new one.
EditRoutine ==
  /\ panel = "computer" /\ Shown # NoOne
  /\ panel' = "routine" /\ doomed' = NoOne
  /\ edited' \in {NoOne} \union ({heldOf} \intersect {Shown})
  /\ ServerSame /\ Place /\ Busy /\ UNCHANGED <<full, heldOf, flight>>
AskDelete ==
  /\ panel = "routine" /\ edited # NoOne /\ ~saving /\ doomed' = edited
  /\ ServerSame /\ Place /\ Busy /\ UNCHANGED <<panel, full, edited, heldOf, flight>>
SaveRoutine ==
  /\ panel = "routine" /\ ~saving /\ Shown # NoOne /\ edited \in {NoOne, Shown}
  /\ saving' = TRUE
  /\ Starts("save", "request", Shown)
  /\ ServerSame /\ Place /\ Side /\ UNCHANGED <<booting, heldOf>>
RemoveRoutine ==
  /\ panel = "routine" /\ doomed # NoOne /\ doomed = Shown
  /\ Starts("remove", "request", Shown)
  /\ ServerSame /\ Place /\ Side /\ Busy /\ UNCHANGED heldOf
CreateBot ==
  /\ panel = "create" /\ Starts("create", "request", route)
  /\ ServerSame /\ Place /\ Side /\ Busy /\ UNCHANGED heldOf
DeleteBot ==
  /\ panel = "settings" /\ Shown # NoOne /\ Starts("delete", "request", Shown)
  /\ ServerSame /\ Place /\ Side /\ Busy /\ UNCHANGED heldOf

-----------------------------------------------------------------------------
(* The answer of a handler's first request *)

Answered(f) ==
  LET b == flight[f].bot IN
  /\ flight[f].at = "request"
  /\ \/ /\ flight[f].kind \in {"act", "boot", "open"}
        /\ Goes(f, "get") /\ Side /\ Busy /\ UNCHANGED exists
     \* A bot that is no longer shown: the rest of the handler is left out.
     \/ /\ flight[f].kind \in {"save", "remove"}
        /\ IF b = Shown THEN Goes(f, "get") /\ Busy
           ELSE /\ Lands(f) /\ UNCHANGED booting
                /\ saving' = IF flight[f].kind = "save" THEN FALSE ELSE saving
        /\ Side /\ UNCHANGED exists
     \/ /\ flight[f].kind = "create"
        /\ \E new \in Bots \ exists :
             /\ exists' = exists \union {new}
             /\ flight' = [flight EXCEPT ![f].at = "list", ![f].bot = new]
        /\ Side /\ Busy
     \/ /\ flight[f].kind = "delete" /\ Cardinality(exists) > 1
        /\ exists' = exists \ {b}
        /\ panel' = "none" /\ Goes(f, "list") /\ Busy /\ UNCHANGED <<full, edited, doomed>>
  /\ Place /\ UNCHANGED <<opened, heldOf, events>>

\* finally: the overlay of a boot, whichever shows it, and the editor's button.
Broken(f) ==
  /\ flight[f] # NoFlight
  /\ events < MaxShellEvents /\ events' = events + 1
  /\ booting' = IF flight[f].kind \in {"boot", "open"} THEN FALSE ELSE booting
  /\ saving' = IF flight[f].kind = "save" THEN FALSE ELSE saving
  /\ Lands(f)
  /\ Place /\ Side /\ UNCHANGED <<exists, opened, heldOf>>
\* Another client deletes a bot.
Elsewhere ==
  /\ events < MaxShellEvents /\ events' = events + 1
  /\ Cardinality(exists) > 1 /\ \E b \in exists : exists' = exists \ {b}
  /\ Place /\ Side /\ Busy /\ UNCHANGED <<opened, heldOf, flight>>

ShellNext ==
  \/ AskList \/ SelectBot \/ RefreshThread \/ Ask \/ OpenPanel \/ CloseFull
  \/ AutoBoot \/ OpenComputer \/ EditRoutine \/ AskDelete \/ SaveRoutine \/ RemoveRoutine
  \/ CreateBot \/ DeleteBot \/ Elsewhere
  \/ \E f \in FlightSlots : TakeList(f) \/ TakeThread(f) \/ Answered(f) \/ Broken(f)

ShellSpec == ShellInit /\ [][ShellNext]_shellVars

-----------------------------------------------------------------------------
(***************************************************************************)
(* The routine in the editor, and the one that is about to be deleted, are *)
(* of the bot that is shown, whatever was in flight when the user left for *)
(* another bot and whatever its answer does to the panel afterwards.       *)
(***************************************************************************)
EditsOwn == {edited, doomed} \subseteq {NoOne, Shown}

(***************************************************************************)
(* The page is busy for a reason: the editor's button waits for a save,    *)
(* and the overlay for a boot, that is under way and ends it.              *)
(***************************************************************************)
BusyForAReason ==
  /\ saving => \E f \in FlightSlots : flight[f].kind = "save"
  /\ booting => \E f \in FlightSlots : flight[f].kind \in {"boot", "open"}
=============================================================================
