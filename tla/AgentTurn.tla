------------------------------ MODULE AgentTurn ------------------------------
(***************************************************************************)
(* One turn of a bot, as PiAgentRuntime, runWithOutputContinuation and the *)
(* loop of continueRun run it together.  The agent works in the background *)
(* and pushes what happens into a queue; the executor reads the queue and  *)
(* may leave it at any event, while the agent goes on, because the signal  *)
(* it listens to is never aborted.  A round that stopped at the model's    *)
(* output limit is continued by another round with a queue of its own.     *)
(*                                                                         *)
(* Tools with effects are recorded in the database under their execution   *)
(* id before they are carried out.  Several slots can run turns of the     *)
(* same run at once or after each other (a stale slot, a retry after a     *)
(* crash), with the same execution ids.                                    *)
(*                                                                         *)
(* What the model says is a numbered delta; what a tool does to the world  *)
(* is a count.                                                             *)
(***************************************************************************)
EXTENDS Naturals, Sequences

CONSTANTS
  Slots,       \* concurrent calls of continueRun
  Calls,       \* execution ids the model may give its tool calls
  NoCall,      \* no tool call in hand
  MaxDeltas,   \* bound: text deltas of a turn in each slot
  MaxRounds    \* MAX_OUTPUT_CONTINUATION_ROUNDS

ASSUME TurnConstants ==
  /\ NoCall \notin Calls
  /\ MaxDeltas \in [Slots -> Nat]
  /\ MaxRounds \in Nat \ {0}

VARIABLES
  agent,       \* what the background work of each slot is doing
  applying,    \* the execution id it is applying
  used,        \* the ids the model gave in this turn
  said,        \* deltas of this turn so far
  spoke,       \* whether the round has streamed a delta (`streamed`)
  queue,       \* `items`: deltas, "tool" and, last, a done event
  closed,      \* the queue's `closed`
  asleep,      \* the reader awaits `wake`
  reader,      \* where the executor's loop is
  round,       \* the continuation's round
  roundText,   \* whether the round brought text to the reader
  assembled,   \* `assembled`: what the executor will publish
  ending,      \* the done event of the round, when it was read
  effect,      \* external_effects by idempotencyKey
  performed    \* how often the effect of an id was carried out

queueVars == <<queue, closed, asleep>>
readerVars == <<reader, round, roundText, assembled, ending>>
agentVars == <<agent, applying, used, said, spoke>>
effectVars == <<effect, performed>>
turnVars == <<agentVars, queueVars, readerVars, effectVars>>

Reasons == {"stop", "length", "error"}
Delta(n) == [kind |-> "text", n |-> n]
Tool == [kind |-> "tool"]
\* A done event; n is the delta it carries if nothing was streamed, else 0.
Ended(why, n) == [kind |-> "done", why |-> why, n |-> n]
NoEnding == [kind |-> "none"]
Notice == 0   \* CONTINUATION_LIMIT_NOTICE

Events ==
  [kind : {"text"}, n : Nat] \union [kind : {"tool"}]
    \union [kind : {"done"}, why : Reasons, n : Nat]

(***************************************************************************)
(* Every variable has its type.                                            *)
(***************************************************************************)
TurnTypeOK ==
  /\ agent \in [Slots -> {"off", "working", "lookup", "create", "perform",
                          "complete"}]
  /\ applying \in [Slots -> Calls \union {NoCall}]
  /\ \A s \in Slots :
       agent[s] \in {"lookup", "create", "perform", "complete"} => applying[s] \in Calls
  /\ used \in [Slots -> SUBSET Calls]
  /\ said \in [Slots -> Nat]
  /\ spoke \in [Slots -> BOOLEAN]
  /\ queue \in [Slots -> Seq(Events)]
  /\ closed \in [Slots -> BOOLEAN]
  /\ asleep \in [Slots -> BOOLEAN]
  /\ reader \in [Slots -> {"off", "reading", "left", "finished"}]
  /\ round \in [Slots -> 0..(MaxRounds - 1)]
  /\ roundText \in [Slots -> BOOLEAN]
  /\ assembled \in [Slots -> Seq(Nat)]
  /\ ending \in [Slots -> Events \union {NoEnding}]
  /\ effect \in [Calls -> {"none", "intended", "completed"}]
  /\ performed \in [Calls -> Nat]

TurnInit ==
  /\ agent = [s \in Slots |-> "off"]
  /\ applying = [s \in Slots |-> NoCall]
  /\ used = [s \in Slots |-> {}]
  /\ said = [s \in Slots |-> 0]
  /\ spoke = [s \in Slots |-> FALSE]
  /\ queue = [s \in Slots |-> <<>>]
  /\ closed = [s \in Slots |-> FALSE]
  /\ asleep = [s \in Slots |-> FALSE]
  /\ reader = [s \in Slots |-> "off"]
  /\ round = [s \in Slots |-> 0]
  /\ roundText = [s \in Slots |-> FALSE]
  /\ assembled = [s \in Slots |-> <<>>]
  /\ ending = [s \in Slots |-> NoEnding]
  /\ effect = [c \in Calls |-> "none"]
  /\ performed = [c \in Calls |-> 0]

-----------------------------------------------------------------------------
(* The queue between the agent and the executor. *)

\* createQueue().push: the reader, if it waits, is woken.  What is pushed for a
\* reader that left is never read, and left out.
Push(s, e) ==
  /\ queue' = [queue EXCEPT ![s] = IF reader[s] = "left" THEN @ ELSE Append(@, e)]
  /\ asleep' = [asleep EXCEPT ![s] = FALSE]
  /\ UNCHANGED closed

\* Mutant: close forgets to wake the reader.
PushAndCloseQuietly(s, e) ==
  /\ queue' = [queue EXCEPT ![s] = IF reader[s] = "left" THEN @ ELSE Append(@, e)]
  /\ closed' = [closed EXCEPT ![s] = TRUE]
  /\ UNCHANGED asleep

\* The last event, then close, in one go.
PushAndClose(s, e) ==
  /\ queue' = [queue EXCEPT ![s] = IF reader[s] = "left" THEN @ ELSE Append(@, e)]
  /\ closed' = [closed EXCEPT ![s] = TRUE]
  /\ asleep' = [asleep EXCEPT ![s] = FALSE]

\* runtime.run: a new queue and a new agent.
StartRound(s) ==
  /\ agent' = [agent EXCEPT ![s] = "working"]
  /\ spoke' = [spoke EXCEPT ![s] = FALSE]
  /\ queue' = [queue EXCEPT ![s] = <<>>]
  /\ closed' = [closed EXCEPT ![s] = FALSE]
  /\ asleep' = [asleep EXCEPT ![s] = FALSE]
  /\ roundText' = [roundText EXCEPT ![s] = FALSE]
  /\ ending' = [ending EXCEPT ![s] = NoEnding]

-----------------------------------------------------------------------------
(* The agent. *)

\* continueRun reaches its loop.
BeginTurn(s) ==
  /\ reader[s] = "off"
  /\ reader' = [reader EXCEPT ![s] = "reading"]
  /\ StartRound(s)
  /\ UNCHANGED <<applying, used, said, round, assembled, effectVars>>

\* A text_delta.
Speak(s) ==
  /\ agent[s] = "working"
  /\ said[s] < MaxDeltas[s]
  /\ said' = [said EXCEPT ![s] = @ + 1]
  /\ spoke' = [spoke EXCEPT ![s] = TRUE]
  /\ Push(s, Delta(said[s] + 1))
  /\ UNCHANGED <<agent, applying, used, readerVars, effectVars>>

\* The model calls a tool: execute announces it and enters applyTool, or, for
\* a tool without effects, goes on.
CallTool(s) ==
  /\ agent[s] = "working"
  /\ \E c \in Calls \ used[s] :
       /\ used' = [used EXCEPT ![s] = @ \union {c}]
       /\ \/ /\ agent' = [agent EXCEPT ![s] = "lookup"]
             /\ applying' = [applying EXCEPT ![s] = c]
          \/ UNCHANGED <<agent, applying>>
  /\ Push(s, Tool)
  /\ UNCHANGED <<said, spoke, readerVars, effectVars>>

\* The agent is idle: the answer's last event, and the queue is closed.  What
\* a round that streamed nothing has to say comes in a text event (the
\* fallback, an error) or, from a runtime that does not stream, in the done
\* event itself.
EndRound(s) ==
  /\ agent[s] = "working"
  /\ agent' = [agent EXCEPT ![s] = "off"]
  /\ \E why \in Reasons :
       \/ /\ PushAndClose(s, Ended(why, 0))
          /\ UNCHANGED said
       \/ /\ ~spoke[s]
          /\ said[s] < MaxDeltas[s]
          /\ said' = [said EXCEPT ![s] = @ + 1]
          /\ PushAndClose(s, Ended(why, said[s] + 1))
  /\ UNCHANGED <<applying, used, spoke, readerVars, effectVars>>

-----------------------------------------------------------------------------
(* applyTool: recordEffect, the tool, completeEffect. *)

ToAgent(s, place) == agent' = [agent EXCEPT ![s] = place]
OnlyAgent == UNCHANGED <<applying, used, said, spoke, queueVars, readerVars>>

\* findUnique by idempotencyKey.  A completed effect answers with its stored
\* result; one that is only intended has an uncertain outcome and throws.
Lookup(s) ==
  /\ agent[s] = "lookup"
  /\ ToAgent(s, IF effect[applying[s]] = "none" THEN "create" ELSE "working")
  /\ UNCHANGED effectVars
  /\ OnlyAgent

\* Mutant: an upsert in place of create.
RecordEffectAgain(s) ==
  /\ agent[s] = "create"
  /\ effect' = [effect EXCEPT ![applying[s]] = "intended"]
  /\ ToAgent(s, "perform")
  /\ UNCHANGED performed
  /\ OnlyAgent

\* create: the unique key makes the second of two creators throw.
RecordEffect(s) ==
  /\ agent[s] = "create"
  /\ IF effect[applying[s]] = "none"
     THEN /\ effect' = [effect EXCEPT ![applying[s]] = "intended"]
          /\ ToAgent(s, "perform")
     ELSE /\ ToAgent(s, "working")
          /\ UNCHANGED effect
  /\ UNCHANGED performed
  /\ OnlyAgent

\* The tool does its work and may throw before or after it, or it refuses and
\* returns an error, which is a result too.
Perform(s) ==
  /\ agent[s] = "perform"
  /\ \E place \in {"complete", "working"} : ToAgent(s, place)
  /\ \/ performed' = [performed EXCEPT ![applying[s]] = @ + 1]
     \/ UNCHANGED performed
  /\ UNCHANGED effect
  /\ OnlyAgent

\* finish -> completeEffect
CompleteEffect(s) ==
  /\ agent[s] = "complete"
  /\ effect' = [effect EXCEPT ![applying[s]] = "completed"]
  /\ ToAgent(s, "working")
  /\ UNCHANGED performed
  /\ OnlyAgent

-----------------------------------------------------------------------------
(* The executor's side: iterate, the continuation and the loop. *)

Reads(s) == reader[s] = "reading" /\ ~asleep[s]

TextOf(e) == IF e.kind = "text" THEN <<e.n>> ELSE <<>>

\* The next event.  The done event of a round is held back.
Take(s) ==
  /\ Reads(s)
  /\ queue[s] # <<>>
  /\ LET e == Head(queue[s]) IN
       /\ queue' = [queue EXCEPT ![s] = Tail(@)]
       /\ assembled' = [assembled EXCEPT ![s] = @ \o TextOf(e)]
       /\ roundText' = [roundText EXCEPT ![s] = @ \/ e.kind = "text"]
       /\ ending' = [ending EXCEPT ![s] = IF e.kind = "done" THEN e ELSE @]
  /\ UNCHANGED <<closed, asleep, reader, round, agentVars, effectVars>>

\* Nothing there and not closed: wait for wake.
Sleep(s) ==
  /\ Reads(s)
  /\ queue[s] = <<>>
  /\ ~closed[s]
  /\ asleep' = [asleep EXCEPT ![s] = TRUE]
  /\ UNCHANGED <<queue, closed, readerVars, agentVars, effectVars>>

\* Mutant: only text events are heard.
UnheardLost(s) == <<>>

\* The text of a round that brought none is that of its done event.
Unheard(s) == IF ~roundText[s] /\ ending[s].n # 0 THEN <<ending[s].n>> ELSE <<>>

\* Mutant: one round more than the limit.
ContinuesOnce(s) == ending[s].why = "length" /\ round[s] < MaxRounds

\* continuationDecision
Continues(s) == ending[s].why = "length" /\ round[s] < MaxRounds - 1
Exhausted(s) == ending[s].why = "length" /\ ~Continues(s)

\* The queue ended: another round, or the one done event of the turn.
Decide(s) ==
  /\ Reads(s)
  /\ queue[s] = <<>>
  /\ closed[s]
  /\ \/ /\ Continues(s)
        /\ round' = [round EXCEPT ![s] = @ + 1]
        /\ assembled' = [assembled EXCEPT ![s] = @ \o Unheard(s)]
        /\ StartRound(s)
        /\ UNCHANGED reader
     \/ /\ ~Continues(s)
        /\ assembled' = [assembled EXCEPT ![s] =
             @ \o Unheard(s) \o (IF Exhausted(s) THEN <<Notice>> ELSE <<>>)]
        /\ reader' = [reader EXCEPT ![s] = "finished"]
        /\ UNCHANGED <<round, agent, spoke, queueVars, roundText, ending>>
  /\ UNCHANGED <<applying, used, said, effectVars>>

\* The loop returns at an event: the lease is gone, the run was cancelled,
\* the user is asked or takes over.  The agent is not told.
LeaveLoop(s) ==
  /\ Reads(s)
  /\ queue[s] # <<>>
  /\ reader' = [reader EXCEPT ![s] = "left"]
  /\ queue' = [queue EXCEPT ![s] = <<>>]
  /\ assembled' = [assembled EXCEPT ![s] = <<>>]
  /\ UNCHANGED <<closed, asleep, round, roundText, ending, agentVars, effectVars>>

\* The locals of the turn are gone.
Forget(s) ==
  /\ agent' = [agent EXCEPT ![s] = "off"]
  /\ reader' = [reader EXCEPT ![s] = "off"]
  /\ applying' = [applying EXCEPT ![s] = NoCall]
  /\ used' = [used EXCEPT ![s] = {}]
  /\ said' = [said EXCEPT ![s] = 0]
  /\ spoke' = [spoke EXCEPT ![s] = FALSE]
  /\ queue' = [queue EXCEPT ![s] = <<>>]
  /\ closed' = [closed EXCEPT ![s] = FALSE]
  /\ asleep' = [asleep EXCEPT ![s] = FALSE]
  /\ round' = [round EXCEPT ![s] = 0]
  /\ roundText' = [roundText EXCEPT ![s] = FALSE]
  /\ assembled' = [assembled EXCEPT ![s] = <<>>]
  /\ ending' = [ending EXCEPT ![s] = NoEnding]
  /\ UNCHANGED effectVars

\* The turn is over and its agent too: the slot takes another job.
EndTurn(s) ==
  /\ reader[s] \in {"left", "finished"}
  /\ agent[s] = "off"
  /\ Forget(s)

\* The process dies, with the agent, the queue and all that was heard.
Die(s) ==
  /\ reader[s] # "off"
  /\ Forget(s)

AgentStep(s) ==
  Speak(s) \/ CallTool(s) \/ EndRound(s) \/ Lookup(s) \/ RecordEffect(s) \/ Perform(s)
    \/ CompleteEffect(s)
ReaderStep(s) == Take(s) \/ Sleep(s) \/ Decide(s) \/ LeaveLoop(s)

TurnNext ==
  \E s \in Slots : BeginTurn(s) \/ AgentStep(s) \/ ReaderStep(s) \/ EndTurn(s) \/ Die(s)

TurnSpec == TurnInit /\ [][TurnNext]_turnVars

\* The model answers and the process goes on: every step of an agent and of the
\* loop that stays possible is taken.
TurnFairness == \A s \in Slots : WF_turnVars(AgentStep(s)) /\ WF_turnVars(ReaderStep(s))
FairTurn == TurnSpec /\ TurnFairness

-----------------------------------------------------------------------------
(***************************************************************************)
(* The effect of an execution id happens at most once, whichever slots     *)
(* apply it, crash while they do or come back to it, and never before the  *)
(* database has a record of the intention.                                 *)
(***************************************************************************)
EffectOnce ==
  \A c \in Calls :
    /\ performed[c] <= 1
    /\ effect[c] = "none" => performed[c] = 0

(***************************************************************************)
(* What the executor publishes is what the model said: every delta of      *)
(* every round, once and in order, with the notice at the end exactly if   *)
(* the output is known to be incomplete.                                   *)
(***************************************************************************)
AnswerLossless ==
  \A s \in Slots :
    reader[s] = "finished" =>
      assembled[s] = [i \in 1..said[s] |-> i]
                   \o (IF ending[s].why = "length" THEN <<Notice>> ELSE <<>>)

(***************************************************************************)
(* A turn comes to its end: no wake-up of the queue is lost, and the       *)
(* rounds are bounded.                                                     *)
(***************************************************************************)
TurnEnds == \A s \in Slots : reader[s] = "reading" ~> reader[s] # "reading"
=============================================================================
