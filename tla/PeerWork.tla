------------------------------ MODULE PeerWork -------------------------------
(***************************************************************************)
(* Bots that put each other to work: PeerConnector (message_bot,           *)
(* delegate_to_bot, delegate_team, react_to_message), spawn_bot and        *)
(* delete_bot of child-bots.ts, and what bounds them: the effect rows a    *)
(* run has recorded, and the hop count that travels in the first line of a *)
(* task's prompt.                                                          *)
(*                                                                         *)
(* A run may have several tool calls under way.  applyTool has recorded    *)
(* the effect of a call before execute begins, so a call counts itself.    *)
(***************************************************************************)
EXTENDS Naturals, FiniteSets

CONSTANTS
  Bots,            \* bots there are or may come to be
  NoBot,           \* no parent, no target
  FirstBots,       \* sets of bots a person made
  MaxRuns,         \* bound: runs, numbered in the order of their creation
  CallSlots,       \* bound: tool calls under way at once
  MaxSends,        \* MAX_PEER_SENDS_PER_RUN
  MaxReactions,    \* MAX_PEER_REACTIONS_PER_RUN
  MaxHops,         \* MAX_PEER_HOPS
  MaxTeam,         \* MAX_TEAM_ASSIGNMENTS
  MaxCalls,        \* bound: tool calls of all runs
  MaxDestroys      \* bound: bots that are destroyed

ASSUME PeerConstants ==
  /\ NoBot \notin Bots
  /\ IsFiniteSet(CallSlots)
  /\ FirstBots \subseteq SUBSET Bots
  /\ MaxRuns \in Nat \ {0} /\ MaxSends \in Nat /\ MaxReactions \in Nat
  /\ MaxHops \in Nat /\ MaxTeam \in Nat /\ MaxCalls \in Nat /\ MaxDestroys \in Nat

VARIABLES
  bots,      \* rows of the bots table
  gone,      \* bots that were deleted
  parentOf,  \* parentBotId
  deleting,  \* how far destroyBot is with each bot
  runs,      \* rows of the runs table, with the hop in the task's prompt
  sends,     \* effect rows of kind message_bot and delegate_to_bot, by run
  reacts,    \* effect rows of kind react_to_message, by run
  woken,     \* runs that the run woke by message_bot and delegate_to_bot
  teamed,    \* runs that it woke by delegate_team
  reacted,   \* reactions that it set or removed
  made,      \* calls made so far, which MaxCalls bounds
  doomable,  \* how many bots may still be destroyed, at most MaxDestroys
  call       \* the tool call in each slot

countVars == <<sends, reacts, woken, teamed, reacted, made>>
botVars == <<bots, gone, parentOf, deleting, doomable>>
peerVars == <<botVars, runs, countVars, call>>

RunIds == 1..MaxRuns
NoRunRow == [state |-> "absent", bot |-> NoBot, hop |-> 0]
Idle == [at |-> "idle", kind |-> "send", run |-> 1, targets |-> {}, to |-> NoBot,
         hop |-> 0]

(***************************************************************************)
(* Every variable has its type; a run that exists works for a bot.         *)
(***************************************************************************)
PeerTypeOK ==
  /\ bots \subseteq Bots
  /\ doomable \in 0..MaxDestroys
  /\ gone \subseteq Bots \ bots
  /\ parentOf \in [Bots -> Bots \union {NoBot}]
  /\ deleting \in [Bots -> {"no", "machine", "row"}]
  /\ runs \in [RunIds -> [state : {"absent", "live", "over"},
                          bot : Bots \union {NoBot}, hop : Nat]]
  /\ sends \in [RunIds -> Nat]
  /\ reacts \in [RunIds -> Nat]
  /\ woken \in [RunIds -> Nat]
  /\ teamed \in [RunIds -> Nat]
  /\ reacted \in [RunIds -> Nat]
  /\ made \in 0..MaxCalls
  /\ call \in [CallSlots ->
       [at : {"idle", "count", "hop", "post", "wake", "react", "spawned", "delete"},
        kind : {"send", "team", "react", "spawn", "delete"},
        run : RunIds, targets : SUBSET Bots, to : Bots \union {NoBot}, hop : Nat]]

PeerInit ==
  /\ bots \in FirstBots
  /\ doomable \in 0..MaxDestroys
  /\ gone = {}
  /\ parentOf = [b \in Bots |-> NoBot]
  /\ deleting = [b \in Bots |-> "no"]
  /\ runs = [i \in RunIds |-> NoRunRow]
  /\ sends = [i \in RunIds |-> 0]
  /\ reacts = [i \in RunIds |-> 0]
  /\ woken = [i \in RunIds |-> 0]
  /\ teamed = [i \in RunIds |-> 0]
  /\ reacted = [i \in RunIds |-> 0]
  /\ made = 0
  /\ call = [k \in CallSlots |-> Idle]

-----------------------------------------------------------------------------

Free == {i \in RunIds : runs[i].state = "absent"}

\* task.create and run.create for a bot, with the hop in the task's prompt;
\* the foreign keys refuse a bot that is gone.
CreateRun(b, hop) ==
  /\ b \in bots
  /\ \E i \in Free :
       /\ \A j \in Free : i <= j
       /\ runs' = [runs EXCEPT ![i] = [state |-> "live", bot |-> b, hop |-> hop]]

Go(k, place) == call' = [call EXCEPT ![k].at = place]
Return(k) == call' = [call EXCEPT ![k] = Idle]

\* A person or a routine gives a bot work.
Prompt(b) ==
  /\ CreateRun(b, 0)
  /\ UNCHANGED <<botVars, countVars, call>>

\* answer writes what the person says over the prompt, and over its header.
AnswerPrompt(i) ==
  /\ runs[i].state = "live"
  /\ runs' = [runs EXCEPT ![i].hop = 0]
  /\ UNCHANGED <<botVars, countVars, call>>

EndRun(i) ==
  /\ runs[i].state = "live"
  /\ \A k \in CallSlots : call[k].at = "idle" \/ call[k].run # i
  /\ runs' = [runs EXCEPT ![i].state = "over"]
  /\ UNCHANGED <<botVars, countVars, call>>

-----------------------------------------------------------------------------
(* execute, from the effect that applyTool recorded to the answer. *)

\* targetBot: a bot of the user by its id, or by a name that no other one has.
Targets(i) == bots \ {runs[i].bot}

\* currentPeerHop
HopOf(i) == runs[i].hop

\* A call enters a slot.
Enter(k, i, kind, place, targets) ==
  call' = [call EXCEPT ![k] = [at |-> place, kind |-> kind, run |-> i,
                               targets |-> targets, to |-> NoBot, hop |-> 0]]

\* message_bot or delegate_to_bot, for another bot.
CallPeer(k, i) ==
  /\ sends' = [sends EXCEPT ![i] = @ + 1]
  /\ \E b \in Targets(i) : Enter(k, i, "send", "count", {b})
  /\ UNCHANGED reacts

\* delegate_team: normalizeTeamAssignments wants some targets, no more than it
\* allows and none twice; whether they exist is found out one by one.
CallTeam(k, i) ==
  /\ \E team \in SUBSET bots :
       /\ Cardinality(team) \in 1..MaxTeam
       /\ Enter(k, i, "team", "count", team)
  /\ UNCHANGED <<sends, reacts>>

CallReact(k, i) ==
  /\ reacts' = [reacts EXCEPT ![i] = @ + 1]
  /\ Enter(k, i, "react", "count", {})
  /\ UNCHANGED sends

\* A live run calls a tool.
Begins(k, i) ==
  /\ call[k].at = "idle"
  /\ runs[i].state = "live"
  /\ made < MaxCalls
  /\ made' = made + 1

Call(k, i) ==
  /\ Begins(k, i)
  /\ CallPeer(k, i) \/ CallTeam(k, i) \/ CallReact(k, i)
  /\ UNCHANGED <<botVars, runs, woken, teamed, reacted>>

\* Mutant: the count is taken to leave out the call itself.
WithinBudgetBut(k) ==
  LET i == call[k].run IN
  \/ call[k].kind = "send" /\ sends[i] - 1 <= MaxSends
  \/ call[k].kind = "team" /\ sends[i] + Cardinality(call[k].targets) <= MaxSends
  \/ call[k].kind = "react" /\ reacts[i] - 1 <= MaxReactions

\* externalEffect.count against the budget of the kind of call.
WithinBudget(k) ==
  LET i == call[k].run IN
  \/ call[k].kind = "send" /\ sends[i] <= MaxSends
  \/ call[k].kind = "team" /\ sends[i] + Cardinality(call[k].targets) <= MaxSends
  \/ call[k].kind = "react" /\ reacts[i] <= MaxReactions

Count(k) ==
  /\ call[k].at = "count"
  /\ IF WithinBudget(k)
     THEN Go(k, IF call[k].kind = "react" THEN "react" ELSE "hop")
     ELSE Return(k)
  /\ UNCHANGED <<botVars, runs, countVars>>

\* Mutant: the hop of the next run is not counted on.
CheckHopFlat(k) ==
  /\ call[k].at = "hop"
  /\ LET hop == HopOf(call[k].run) IN
       IF hop <= MaxHops
       THEN call' = [call EXCEPT ![k].at = "post", ![k].hop = hop]
       ELSE Return(k)
  /\ UNCHANGED <<botVars, runs, countVars>>

\* The hop of the source run, read from its prompt.
CheckHop(k) ==
  /\ call[k].at = "hop"
  /\ LET hop == HopOf(call[k].run) IN
       IF hop < MaxHops
       THEN call' = [call EXCEPT ![k].at = "post", ![k].hop = hop]
       ELSE Return(k)
  /\ UNCHANGED <<botVars, runs, countVars>>

\* The next target's message and event.  A target that is gone, or the bot
\* itself in a team, ends the call with an error; whom it woke stays awake.
Post(k) ==
  /\ call[k].at = "post"
  /\ \E b \in call[k].targets :
       IF b \in Targets(call[k].run)
       THEN call' = [call EXCEPT ![k].at = "wake", ![k].to = b,
                                 ![k].targets = @ \ {b}]
       ELSE Return(k)
  /\ UNCHANGED <<botVars, runs, countVars>>

\* The task, the run one hop further, and its job.
Wake(k) ==
  /\ call[k].at = "wake"
  /\ CreateRun(call[k].to, call[k].hop + 1)
  /\ IF call[k].kind = "send"
     THEN /\ woken' = [woken EXCEPT ![call[k].run] = @ + 1]
          /\ UNCHANGED teamed
     ELSE /\ teamed' = [teamed EXCEPT ![call[k].run] = @ + 1]
          /\ UNCHANGED woken
  /\ IF call[k].targets = {} THEN Return(k) ELSE Go(k, "post")
  /\ UNCHANGED <<botVars, sends, reacts, reacted, made>>

\* setMessageReaction
React(k) ==
  /\ call[k].at = "react"
  /\ reacted' = [reacted EXCEPT ![call[k].run] = @ + 1]
  /\ Return(k)
  /\ UNCHANGED <<botVars, runs, sends, reacts, woken, teamed, made>>

\* Any statement may throw, the process may die: the call ends where it is.
Fail(k) ==
  /\ call[k].at # "idle"
  /\ Return(k)
  /\ UNCHANGED <<botVars, runs, countVars>>

-----------------------------------------------------------------------------
(* child-bots.ts *)

\* spawnBot: createBot's transaction makes the bot ...
Spawn(k, i) ==
  /\ Begins(k, i)
  /\ runs[i].bot \in bots
  /\ \E b \in Bots \ (bots \union gone) :
       /\ bots' = bots \union {b}
       /\ parentOf' = [parentOf EXCEPT ![b] = runs[i].bot]
       /\ call' = [call EXCEPT ![k] = [Idle EXCEPT !.at = "spawned", !.kind = "spawn",
                                                   !.run = i, !.to = b]]
  /\ UNCHANGED <<gone, deleting, doomable, runs, sends, reacts, woken, teamed, reacted>>

\* ... and its prompt, if it has one, a run whose prompt has no header.
StartSpawned(k) ==
  /\ call[k].at = "spawned"
  /\ \/ CreateRun(call[k].to, 0)
     \/ UNCHANGED runs
  /\ Return(k)
  /\ UNCHANGED <<botVars, countVars>>

\* deleteSpawnedBot found the bot among those that the caller spawned.
DeleteSpawned(k, i) ==
  /\ Begins(k, i)
  /\ \E b \in bots : /\ parentOf[b] = runs[i].bot
                     /\ call' = [call EXCEPT ![k] = [Idle EXCEPT !.at = "delete",
                                     !.kind = "delete", !.run = i, !.to = b]]
  /\ UNCHANGED <<botVars, runs, sends, reacts, woken, teamed, reacted>>

\* destroyBot, called by delete_bot or by a person's bots.remove: cancel the
\* active runs, destroy the machine, delete the row and all that refers to it.
CancelRuns(b) ==
  runs' = [i \in RunIds |-> IF runs[i].bot = b /\ runs[i].state = "live"
                            THEN [runs[i] EXCEPT !.state = "over"] ELSE runs[i]]

BeginDestroy(b) ==
  /\ b \in bots
  /\ deleting[b] = "no"
  /\ doomable > 0
  /\ doomable' = doomable - 1
  /\ CancelRuns(b)
  /\ deleting' = [deleting EXCEPT ![b] = "machine"]
  /\ \/ UNCHANGED call
     \/ \E k \in CallSlots : call[k].at = "delete" /\ call[k].to = b /\ Return(k)
  /\ UNCHANGED <<bots, gone, parentOf, countVars>>

DestroyMachine(b) ==
  /\ deleting[b] = "machine"
  /\ deleting' = [deleting EXCEPT ![b] = "row"]
  /\ UNCHANGED <<bots, gone, parentOf, doomable, runs, countVars, call>>

DeleteRow(b) ==
  /\ deleting[b] = "row"
  /\ bots' = bots \ {b}
  /\ gone' = gone \union {b}
  /\ deleting' = [deleting EXCEPT ![b] = "no"]
  /\ CancelRuns(b)
  /\ parentOf' = [c \in Bots |-> IF parentOf[c] = b THEN NoBot ELSE parentOf[c]]
  /\ UNCHANGED <<doomable, countVars, call>>

\* The error of the delete is not noticed: the bot stays.
DeleteFails(b) ==
  /\ deleting[b] = "row"
  /\ deleting' = [deleting EXCEPT ![b] = "no"]
  /\ UNCHANGED <<bots, gone, parentOf, doomable, runs, countVars, call>>

CallStep(k) ==
  Count(k) \/ CheckHop(k) \/ Post(k) \/ Wake(k) \/ React(k) \/ Fail(k) \/ StartSpawned(k)
BotStep(b) == Prompt(b) \/ BeginDestroy(b) \/ DestroyMachine(b) \/ DeleteRow(b)
                \/ DeleteFails(b)

PeerNext ==
  \/ \E b \in Bots : BotStep(b)
  \/ \E i \in RunIds : AnswerPrompt(i) \/ EndRun(i)
  \/ \E k \in CallSlots : CallStep(k)
  \/ \E k \in CallSlots, i \in RunIds : Call(k, i) \/ Spawn(k, i) \/ DeleteSpawned(k, i)

PeerSpec == PeerInit /\ [][PeerNext]_peerVars

-----------------------------------------------------------------------------
(***************************************************************************)
(* The budgets that effect rows keep: however many calls a run has under   *)
(* way, and whichever of them fail, it wakes at most MaxSends runs by      *)
(* messages and sets at most MaxReactions reactions.                       *)
(***************************************************************************)
DirectBudget ==
  \A i \in RunIds : woken[i] <= MaxSends /\ reacted[i] <= MaxReactions

(***************************************************************************)
(* A run that a peer woke is at most MaxHops hops away from one that was   *)
(* not.                                                                    *)
(***************************************************************************)
HopsBounded == \A i \in RunIds : runs[i].hop <= MaxHops
=============================================================================
