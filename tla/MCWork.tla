-------------------------------- MODULE MCWork --------------------------------
(***************************************************************************)
(* Components of the API and the worker that share no state, side by side: *)
(* `part` names the one that moves in a behaviour, while the others stay in*)
(* their initial states.  One run checks them all, each on an instance of  *)
(* its own; a property of one holds in the behaviours of the others as it  *)
(* does in its initial state.                                              *)
(***************************************************************************)
EXTENDS AgentTurn, Subagents, ToolNames, Redaction, PeerWork, ModelCredentials,
        McpTools, HarnessProcess, Supervisor, ServiceSchedule, MemoryIndex, HostChoice,
        TLC

CONSTANTS
  Parts,             \* the components that the run checks
  k1, k2             \* tool calls under way

VARIABLE part

\* One of two turns of a run speaks.
MCMaxDeltas == [s \in Slots |-> IF s = "s1" THEN 2 ELSE 0]

\* All runs are executed by one worker process.
MCProcessOf == [r \in Runs |-> "worker"]

\* A builtin tool, two names that are cleaned to its own, a name that looks like
\* one of these with its hash, and one that is only cleaned.
ToolDef(safe, base, hash) == [safe |-> safe, base |-> base, hash |-> hash]
MCToolDefs ==
  {ToolDef(TRUE, <<"a">>, "g"), ToolDef(FALSE, <<"a">>, "h"), ToolDef(FALSE, <<"a">>, "i"),
   ToolDef(TRUE, <<"a", "h">>, "h"), ToolDef(FALSE, <<"b">>, "h")}

\* No secret, one, and sets in which one begins or overlaps another.
MCSecretSets ==
  {{}, {<<"x", "y", "x">>}, {<<"x">>, <<"x", "y">>}, {<<"x", "y">>, <<"y", "x", "x">>}}

\* One id is the beginning of the other.
MCIds == {<<"a">>, <<"a", "_", "b">>}

\* A day of four minutes, a week of three days: a window over midnight, one of the
\* day, one of no length and one that is switched off.
Window(days, start, end) == [days |-> days, start |-> start, end |-> end, enabled |-> TRUE]
Night == Window({2}, 3, 1)
Noon == Window({0, 1}, 1, 4)
MCPolicies ==
  [enabled : BOOLEAN, close : {"drain", "leave-active", "terminate-active"},
   windows : {{}, {Night}, {Noon, Night}, {[Noon EXCEPT !.enabled = FALSE]},
              {Window({1}, 2, 2)}}]

WorkInit ==
  /\ part \in Parts
  /\ TurnInit /\ SubagentInit /\ NamesInit /\ RedactInit
  /\ PeerInit /\ CredentialInit
  /\ McpInit /\ HarnessInit /\ SupervisorInit /\ ServiceInit /\ MemoryInit /\ HostInit
  /\ part # "service" => policy = [enabled |-> TRUE, close |-> "drain", windows |-> {}]
  /\ part # "supervisor" => built = 1
  /\ bots = {"b1", "b2"} => doomable = 0
  /\ part # "peer" => bots = {"b1", "b2"}
  /\ part # "redaction" => secrets = {}
  /\ part # "host" => computerHost = "docker"

workVars ==
  <<part, turnVars, subagentVars, nameVars, redactVars, peerVars, credentialVars,
    mcpVars, harnessVars, supervisorVars, serviceVars, memoryVars, hostVars>>

WorkNext ==
  \/ /\ part = "turn" /\ TurnNext
     /\ UNCHANGED <<part, subagentVars, nameVars, redactVars, peerVars,
                    credentialVars, mcpVars, harnessVars, supervisorVars,
                    serviceVars, memoryVars, hostVars>>
  \/ /\ part = "helpers" /\ SubagentNext
     /\ UNCHANGED <<part, turnVars, nameVars, redactVars, peerVars,
                    credentialVars, mcpVars, harnessVars, supervisorVars,
                    serviceVars, memoryVars, hostVars>>
  \/ /\ part = "names" /\ NamesNext
     /\ UNCHANGED <<part, turnVars, subagentVars, redactVars, peerVars,
                    credentialVars, mcpVars, harnessVars, supervisorVars,
                    serviceVars, memoryVars, hostVars>>
  \/ /\ part = "redaction" /\ RedactNext
     /\ UNCHANGED <<part, turnVars, subagentVars, nameVars, peerVars,
                    credentialVars, mcpVars, harnessVars, supervisorVars,
                    serviceVars, memoryVars, hostVars>>
  \/ /\ part = "peer" /\ PeerNext
     /\ UNCHANGED <<part, turnVars, subagentVars, nameVars, redactVars,
                    credentialVars, mcpVars, harnessVars, supervisorVars,
                    serviceVars, memoryVars, hostVars>>
  \/ /\ part = "credential" /\ CredentialNext
     /\ UNCHANGED <<part, turnVars, subagentVars, nameVars, redactVars, peerVars,
                    mcpVars, harnessVars, supervisorVars, serviceVars,
                    memoryVars, hostVars>>
  \/ /\ part = "mcp" /\ McpNext
     /\ UNCHANGED <<part, turnVars, subagentVars, nameVars, redactVars, peerVars,
                    credentialVars, harnessVars, supervisorVars, serviceVars,
                    memoryVars, hostVars>>
  \/ /\ part = "harness" /\ HarnessNext
     /\ UNCHANGED <<part, turnVars, subagentVars, nameVars, redactVars, peerVars,
                    credentialVars, mcpVars, supervisorVars, serviceVars,
                    memoryVars, hostVars>>
  \/ /\ part = "supervisor" /\ SupervisorNext
     /\ UNCHANGED <<part, turnVars, subagentVars, nameVars, redactVars, peerVars,
                    credentialVars, mcpVars, harnessVars, serviceVars,
                    memoryVars, hostVars>>
  \/ /\ part = "service" /\ ServiceNext
     /\ UNCHANGED <<part, turnVars, subagentVars, nameVars, redactVars, peerVars,
                    credentialVars, mcpVars, harnessVars, supervisorVars,
                    memoryVars, hostVars>>
  \/ /\ part = "memory" /\ MemoryNext
     /\ UNCHANGED <<part, turnVars, subagentVars, nameVars, redactVars, peerVars,
                    credentialVars, mcpVars, harnessVars, supervisorVars,
                    serviceVars, hostVars>>
  \/ /\ part = "host" /\ HostNext
     /\ UNCHANGED <<part, turnVars, subagentVars, nameVars, redactVars, peerVars,
                    credentialVars, mcpVars, harnessVars, supervisorVars,
                    serviceVars, memoryVars>>

WorkSpec == WorkInit /\ [][WorkNext]_workVars

(***************************************************************************)
(* Every variable of the component that moves has its type.                *)
(***************************************************************************)
WorkTypeOK ==
  /\ part \in Parts
  /\ part = "turn" => TurnTypeOK
  /\ part = "helpers" => SubagentTypeOK
  /\ part = "names" => NamesTypeOK
  /\ part = "redaction" => RedactTypeOK
  /\ part = "peer" => PeerTypeOK
  /\ part = "credential" => CredentialTypeOK
  /\ part = "mcp" => McpTypeOK
  /\ part = "harness" => HarnessTypeOK
  /\ part = "supervisor" => SupervisorTypeOK
  /\ part = "service" => ServiceTypeOK
  /\ part = "memory" => MemoryTypeOK
  /\ part = "host" => HostTypeOK

(***************************************************************************)
(* What a bot says comes whole to the one who reads it: no delta of an     *)
(* answer is lost or doubled, and secrets are replaced however it is cut.  *)
(***************************************************************************)
AnswersAreWhole == AnswerLossless /\ CutAnyhow

(***************************************************************************)
(* What a run may ask of its peers with one tool is bounded, however its   *)
(* calls overlap, and so are the hops of a chain of runs; the helpers that *)
(* it calls get their turn, and what became of them is told once.          *)
(***************************************************************************)
PeersAndHelpers == DirectBudget /\ HopsBounded /\ NoIdlePlace /\ HelpersAreTold

(***************************************************************************)
(* A tool call reaches the tool, and the server, that it is named for, and *)
(* gets the answer to its own request.                                     *)
(***************************************************************************)
CallsAreOwn == NamesTellApart /\ RoutedToOwner /\ OwnAnswers

(***************************************************************************)
(* Processes and containers: lost output is told, a request settles once,  *)
(* a closed session has no child, a container that was answered is there   *)
(* until it is dropped, sessions outlive their window unless the           *)
(* policy ends them, and a bot's files follow it from machine to machine.  *)
(***************************************************************************)
WhatRunsIsKept ==
  /\ LossIsTold
  /\ RpcSettlesOnce
  /\ CloseStopsChild
  /\ AnsweredLives
  /\ SessionsSurviveWindow
  /\ KeptAcrossHosts

(***************************************************************************)
(* Memory: an index that a search leaves alone holds the documents of its  *)
(* manifest or nothing, and a document's revisions are told apart and kept.*)
(***************************************************************************)
MemoryIsSound == SkipsOnlyWhenBuilt /\ RevisionsAreKept
==============================================================================
