------------------------------ MODULE Supervisor ------------------------------
(***************************************************************************)
(* The sandbox supervisor, which keeps a container per bot, and the Docker *)
(* provider that calls it.  The containers here are those of one bot; they *)
(* have one name, and Docker refuses a second container of a name.         *)
(*                                                                         *)
(* Handlers run at once and await Docker at every step, so a container     *)
(* that one has found may be gone, or be another one, when it goes on.     *)
(***************************************************************************)
EXTENDS Naturals, FiniteSets

CONSTANTS
  BoxCalls,          \* requests under way at once
  MaxBoxes,       \* bound: containers, numbered in the order of their creation
  MaxImages,      \* bound: versions of the image
  MaxBoxTroubles     \* bound: failed calls of Docker and restarts

ASSUME SupervisorConstants ==
  MaxBoxes \in Nat /\ MaxImages \in Nat \ {0} /\ MaxBoxTroubles \in Nat

VARIABLES
  box,        \* the containers: whether each is there, runs, and its image
  built,      \* the version of the image that has its tag; 0 is none
  imageReady, \* the promise of ensureComputerImage
  boxCall,       \* the handler of each request
  given,      \* containers that a provision has answered with
  dropped,    \* containers that a DELETE has removed
  boxTroubles

supervisorVars == <<box, built, imageReady, boxCall, given, dropped, boxTroubles>>

Boxes == 1..MaxBoxes
NoBox == 0
Nothing == [state |-> "none", image |-> 0]
Waiting == [at |-> "free", id |-> NoBox]
Made == {b \in Boxes : box[b].state # "none"}
Existing == {b \in Boxes : box[b].state \in {"stopped", "running"}}

(***************************************************************************)
(* Every variable has its type.                                            *)
(***************************************************************************)
SupervisorTypeOK ==
  /\ box \in [Boxes -> [state : {"none", "stopped", "running", "removed"},
                        image : 0..MaxImages]]
  /\ Cardinality(Existing) <= 1
  /\ built \in 0..MaxImages
  /\ imageReady \in {"unset", "pending", "ready", "failed"}
  /\ boxCall \in [BoxCalls -> [at : {"free", "image", "list", "inspect", "start", "remove",
                               "create", "boot", "screen", "stop", "delete", "operate"},
                         id : Boxes \union {NoBox}]]
  /\ given \subseteq Boxes
  /\ dropped \subseteq Boxes
  /\ boxTroubles \in 0..MaxBoxTroubles

SupervisorInit ==
  /\ box = [b \in Boxes |-> Nothing]
  /\ built \in {0, 1}
  /\ imageReady = "unset"
  /\ boxCall = [c \in BoxCalls |-> Waiting]
  /\ given = {}
  /\ dropped = {}
  /\ boxTroubles = 0

-----------------------------------------------------------------------------

Reach(c, place) == boxCall' = [boxCall EXCEPT ![c].at = place]
Answer(c) == boxCall' = [boxCall EXCEPT ![c] = Waiting]
SetState(b, state) == box' = [box EXCEPT ![b].state = state]
Exists(b) == b \in Existing
OnlyCall == UNCHANGED <<box, built, imageReady, given, dropped, boxTroubles>>

(* POST /computers *)

Provision(c) ==
  /\ boxCall[c].at = "free"
  /\ Reach(c, "image")
  /\ OnlyCall

\* ensureComputerImage: whoever is first looks for the image or builds it, and
\* the promise is kept, whatever becomes of it.
LookForImage(c) ==
  /\ boxCall[c].at = "image"
  /\ imageReady = "unset"
  /\ imageReady' = "pending"
  /\ UNCHANGED <<box, built, boxCall, given, dropped, boxTroubles>>

ImageSettled ==
  /\ imageReady = "pending"
  /\ \/ /\ built' = IF built = 0 THEN 1 ELSE built
        /\ imageReady' = "ready"
     \/ /\ built = 0
        /\ imageReady' = "failed"
        /\ UNCHANGED built
  /\ UNCHANGED <<box, boxCall, given, dropped, boxTroubles>>

ImageReady(c) ==
  /\ boxCall[c].at = "image"
  /\ \/ imageReady = "ready" /\ Reach(c, "list")
     \/ imageReady = "failed" /\ Answer(c)
  /\ OnlyCall

\* findBotContainer
List(c) ==
  /\ boxCall[c].at = "list"
  /\ IF Existing = {} THEN Reach(c, "create")
     ELSE \E b \in Existing : boxCall' = [boxCall EXCEPT ![c] = [at |-> "inspect", id |-> b]]
  /\ OnlyCall

\* What was found is resumed, started, or of an image that is not the one.
Inspect(c) ==
  LET b == boxCall[c].id IN
  /\ boxCall[c].at = "inspect"
  /\ IF ~Exists(b) THEN Answer(c)
     ELSE Reach(c, IF box[b].image # built THEN "remove"
                   ELSE IF box[b].state = "running" THEN "screen" ELSE "start")
  /\ OnlyCall

\* Mutant: whatever has the name makes way.
RemoveWhatever(c) ==
  /\ boxCall[c].at = "remove"
  /\ box' = [b \in Boxes |-> IF Exists(b) THEN [box[b] EXCEPT !.state = "removed"] ELSE box[b]]
  /\ Reach(c, "create")
  /\ UNCHANGED <<built, imageReady, given, dropped, boxTroubles>>

\* remove({ force: true }), whose failure is not noticed.
RemoveOutdated(c) ==
  LET b == boxCall[c].id IN
  /\ boxCall[c].at = "remove"
  /\ IF Exists(b) THEN SetState(b, "removed") ELSE UNCHANGED box
  /\ Reach(c, "create")
  /\ UNCHANGED <<built, imageReady, given, dropped, boxTroubles>>

\* createContainer: the name may be taken.
CreateBox(c) ==
  /\ boxCall[c].at = "create"
  /\ IF Existing # {} THEN Answer(c) /\ UNCHANGED box
     ELSE /\ Made # Boxes
          /\ LET b == Cardinality(Made) + 1 IN
               /\ box' = [box EXCEPT ![b] = [state |-> "stopped", image |-> built]]
               /\ boxCall' = [boxCall EXCEPT ![c] = [at |-> "boot", id |-> b]]
  /\ UNCHANGED <<built, imageReady, given, dropped, boxTroubles>>

\* start, of a container that was found or that was just made; it is an error
\* if it runs by now.
StartBox(c) ==
  LET b == boxCall[c].id IN
  /\ boxCall[c].at \in {"start", "boot"}
  /\ IF box[b].state = "stopped" THEN SetState(b, "running") /\ Reach(c, "screen")
                                ELSE Answer(c) /\ UNCHANGED box
  /\ UNCHANGED <<built, imageReady, given, dropped, boxTroubles>>

\* publishedScreenUrl: the port of a container that runs, or an error after
\* some time.
ScreenUrl(c) ==
  LET b == boxCall[c].id IN
  /\ boxCall[c].at = "screen"
  /\ Answer(c)
  /\ given' = IF box[b].state = "running" THEN given \union {b} ELSE given
  /\ UNCHANGED <<box, built, imageReady, dropped, boxTroubles>>

-----------------------------------------------------------------------------
(* The requests for a container by its id: managedContainer inspects it, and *)
(* then something is done to it, or in it.                                   *)

Manage(c, place) ==
  /\ boxCall[c].at = "free"
  /\ \E b \in Existing : boxCall' = [boxCall EXCEPT ![c] = [at |-> place, id |-> b]]
  /\ OnlyCall

\* POST /computers/:id/stop; an error is not noticed.
StopBox(c) ==
  /\ boxCall[c].at = "stop"
  /\ Answer(c)
  /\ IF Exists(boxCall[c].id) THEN SetState(boxCall[c].id, "stopped") ELSE UNCHANGED box
  /\ UNCHANGED <<built, imageReady, given, dropped, boxTroubles>>

\* DELETE /computers/:id; neither is one here.
DeleteBox(c) ==
  LET b == boxCall[c].id IN
  /\ boxCall[c].at = "delete"
  /\ Answer(c)
  /\ IF Exists(b) THEN SetState(b, "removed") /\ dropped' = dropped \union {b}
                  ELSE UNCHANGED <<box, dropped>>
  /\ UNCHANGED <<built, imageReady, given, boxTroubles>>

\* exec, observe, actions, files, input: a command in the container, if it
\* runs, and an error otherwise.
Operate(c) ==
  /\ boxCall[c].at = "operate"
  /\ Answer(c)
  /\ OnlyCall

-----------------------------------------------------------------------------

\* A call of Docker fails: a handler answers with the error, except where it
\* goes on without noticing.
DockerFails(c) ==
  /\ boxCall[c].at # "free"
  /\ boxTroubles < MaxBoxTroubles
  /\ boxTroubles' = boxTroubles + 1
  /\ IF boxCall[c].at = "remove" THEN Reach(c, "create") ELSE Answer(c)
  /\ UNCHANGED <<box, built, imageReady, given, dropped>>

\* The supervisor dies with its requests and its promise.
Restart ==
  /\ boxTroubles < MaxBoxTroubles
  /\ boxTroubles' = boxTroubles + 1
  /\ imageReady' = "unset"
  /\ boxCall' = [c \in BoxCalls |-> Waiting]
  /\ UNCHANGED <<box, built, given, dropped>>

\* Somebody builds a new version of the image.
Rebuild ==
  /\ built < MaxImages
  /\ built' = built + 1
  /\ UNCHANGED <<box, imageReady, boxCall, given, dropped, boxTroubles>>

\* The first process of the container ends.
BoxExits(b) ==
  /\ box[b].state = "running"
  /\ SetState(b, "stopped")
  /\ UNCHANGED <<built, imageReady, boxCall, given, dropped, boxTroubles>>

CallNext(c) ==
  \/ Provision(c) \/ LookForImage(c) \/ ImageReady(c) \/ List(c) \/ Inspect(c)
  \/ RemoveOutdated(c) \/ CreateBox(c) \/ StartBox(c) \/ ScreenUrl(c)
  \/ \E place \in {"stop", "delete", "operate"} : Manage(c, place)
  \/ StopBox(c) \/ DeleteBox(c) \/ Operate(c) \/ DockerFails(c)

SupervisorNext ==
  \/ \E c \in BoxCalls : CallNext(c)
  \/ \E b \in Boxes : BoxExits(b)
  \/ ImageSettled \/ Restart \/ Rebuild

SupervisorSpec == SupervisorInit /\ [][SupervisorNext]_supervisorVars

-----------------------------------------------------------------------------
(***************************************************************************)
(* A container that a provision has answered with stays until somebody     *)
(* asks to delete it or a newer image replaces it: another provision under *)
(* way, or one that fails, never takes it away.                            *)
(***************************************************************************)
AnsweredLives ==
  \A b \in given : Exists(b) \/ b \in dropped \/ box[b].image # built
=============================================================================
