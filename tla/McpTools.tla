------------------------------- MODULE McpTools -------------------------------
(***************************************************************************)
(* The MCP servers of a user.  Rows are installed and removed while a turn *)
(* of a bot asks every server for its tools, offers them to the model      *)
(* under names that carry the server's id, and runs the one that the model *)
(* chooses on the server that the name leads to.  A stdio server is a      *)
(* child process of its own for each call.                                 *)
(***************************************************************************)
EXTENDS Integers, Sequences, FiniteSets

CONSTANTS
  Ids,        \* ids of servers, as sequences of characters
  MaxServers  \* bound: rows that are installed

ASSUME McpConstants == MaxServers \in Nat

VARIABLES
  server,  \* capabilityInstall rows of kind mcp, in the order of createdAt
  turn,    \* what the turn is about to do
  listed,  \* the tools the model was offered, each with the row it came from
  chosen,  \* the tool the model has called
  mcpCall     \* the call of each row: a discovery, or the one that executes the tool

mcpVars == <<server, turn, listed, chosen, mcpCall>>

ServerRows == 1..MaxServers
NoServer == [id |-> <<>>, transport |-> "none", gone |-> FALSE]
NoTool == [name |-> <<>>, row |-> 0]
NoMcpCall == [at |-> 0, got |-> 0, tool |-> FALSE, child |-> "none", outcome |-> "none"]

\* namespacedTool and parseNamespacedTool, without the prefix mcp__ that all share.
ToolName == <<"t">>
Named(id) == id \o <<"_", "_">> \o ToolName
Separators(name) == {i \in 1..(Len(name) - 1) : name[i] = "_" /\ name[i + 1] = "_"}
\* Mutant: the id ends at the first underscore.
ServerIdShort(name) ==
  SubSeq(name, 1, (CHOOSE i \in 1..Len(name) :
                     name[i] = "_" /\ \A j \in 1..(i - 1) : name[j] # "_") - 1)
ServerId(name) ==
  SubSeq(name, 1, (CHOOSE i \in Separators(name) : \A j \in Separators(name) : i <= j) - 1)

(***************************************************************************)
(* Every variable has its type.                                            *)
(***************************************************************************)
McpTypeOK ==
  /\ server \in [ServerRows -> {NoServer} \union
                            [id : Ids, transport : {"stdio", "http"}, gone : BOOLEAN]]
  /\ turn \in {"rest", "discover", "choose", "execute", "call"}
  /\ listed \subseteq [name : {Named(i) : i \in Ids}, row : ServerRows]
  /\ chosen \in {NoTool} \union [name : {Named(i) : i \in Ids}, row : ServerRows]
  /\ mcpCall \in [ServerRows -> [at : 0..4, got : 0..3, tool : BOOLEAN,
                        child : {"none", "running", "signalled", "closed"},
                        outcome : {"none", "tools", "result", "failed"}]]

McpInit ==
  /\ server = [r \in ServerRows |-> NoServer]
  /\ turn = "rest" /\ listed = {} /\ chosen = NoTool
  /\ mcpCall = [r \in ServerRows |-> NoMcpCall]

Configured == {r \in ServerRows : server[r] # NoServer /\ ~server[r].gone}
Over(r) == mcpCall[r].at \in {0, 4}
TurnAlone == UNCHANGED <<turn, listed, chosen>>

-----------------------------------------------------------------------------
\* capabilities.install: always a row more, whatever is there under the id.
InstallServer ==
  /\ \E r \in ServerRows, i \in Ids, transport \in {"stdio", "http"} :
       /\ server[r] = NoServer /\ \A p \in ServerRows : p < r => server[p] # NoServer
       /\ server' = [server EXCEPT ![r] = [id |-> i, transport |-> transport,
                                                gone |-> FALSE]]
  /\ TurnAlone /\ UNCHANGED mcpCall
RemoveServer ==
  /\ \E r \in Configured : server' = [server EXCEPT ![r].gone = TRUE]
  /\ TurnAlone /\ UNCHANGED mcpCall

\* A call begins with the request that initializes; a stdio server is spawned for it.
Called(r, tool) ==
  [at |-> 1, got |-> 0, tool |-> tool,
   child |-> IF server[r].transport = "stdio" THEN "running" ELSE "none", outcome |-> "none"]

\* McpConnector.discoverTools asks all servers of now at once.
Discover ==
  /\ turn = "rest" /\ Configured # {}
  /\ turn' = "discover"
  /\ mcpCall' = [r \in ServerRows |-> IF r \in Configured THEN Called(r, FALSE) ELSE NoMcpCall]
  /\ listed' = {} /\ chosen' = NoTool /\ UNCHANGED server

\* CompositeConnector.discoverTools: the first server that offers a name keeps it, and
\* a server that has failed offers none.  The row of a call may be gone by now.
Offering(id) == {r \in ServerRows : mcpCall[r].outcome = "tools" /\ server[r].id = id}
Discovered ==
  /\ turn = "discover" /\ \A r \in ServerRows : Over(r)
  /\ turn' = "choose"
  /\ listed' = {[name |-> Named(i), row |-> CHOOSE r \in Offering(i) :
                                              \A p \in Offering(i) : r <= p]
                  : i \in {j \in Ids : Offering(j) # {}}}
  /\ mcpCall' = [r \in ServerRows |-> NoMcpCall] /\ UNCHANGED <<server, chosen>>

ChooseTool ==
  /\ turn = "choose"
  /\ \/ \E tool \in listed : chosen' = tool /\ turn' = "execute"
     \/ chosen' = NoTool /\ turn' = "rest"
  /\ UNCHANGED <<server, listed, mcpCall>>

\* McpConnector.execute reads the rows again: the first with the id of the name.
Target(id) == {r \in Configured : server[r].id = id /\ \A p \in Configured : p < r => server[p].id # id}
ExecuteTool ==
  /\ turn = "execute"
  /\ LET target == Target(ServerId(chosen.name)) IN
       IF target = {} THEN turn' = "rest" /\ UNCHANGED mcpCall
       ELSE /\ turn' = "call"
            /\ mcpCall' = [r \in ServerRows |-> IF r \in target THEN Called(r, TRUE) ELSE NoMcpCall]
  /\ UNCHANGED <<server, listed, chosen>>
ToolReturns ==
  /\ turn = "call" /\ \A r \in ServerRows : Over(r)
  /\ turn' = "choose" /\ chosen' = NoTool
  /\ mcpCall' = [r \in ServerRows |-> NoMcpCall] /\ UNCHANGED <<server, listed>>

-----------------------------------------------------------------------------
(* runStdioMcpCall and runHttpMcpRequest: initialize, tools/list, tools/call *)

Alive(r) == mcpCall[r].at \in 1..3
\* finally: the child is told to end, however the call has ended.
EndedAs(c, outcome) ==
  [at |-> 4, got |-> c.got, tool |-> c.tool,
   child |-> IF c.child = "running" THEN "signalled" ELSE c.child, outcome |-> outcome]
\* Over HTTP a tool is called without the list.
NextRequest(r, id) ==
  LET c == [mcpCall[r] EXCEPT !.got = id] IN
  CASE c.at = 1 -> {[c EXCEPT !.at = IF c.tool /\ c.child = "none" THEN 3 ELSE 2]}
    [] c.at = 2 /\ ~c.tool -> {EndedAs(c, "tools"), EndedAs(c, "failed")}
    [] c.at = 2 /\ c.tool -> {[c EXCEPT !.at = 3], EndedAs(c, "failed")}
    [] c.at = 3 -> {EndedAs(c, "result")}

\* Mutant: an answer settles the request that waits, whichever it belongs to.
AnswerAny(r) ==
  /\ Alive(r) /\ mcpCall[r].child \in {"none", "running"}
  /\ \E id \in 1..3 : \E c \in NextRequest(r, id) : mcpCall' = [mcpCall EXCEPT ![r] = c]
  /\ TurnAlone /\ UNCHANGED server
\* A line with the number of the request that waits; one with another number, and one
\* that is no message, changes nothing.
AnswerRequest(r) ==
  /\ Alive(r) /\ mcpCall[r].child \in {"none", "running"}
  /\ \E id \in 1..3 : /\ id = mcpCall[r].at
                       /\ \E c \in NextRequest(r, id) : mcpCall' = [mcpCall EXCEPT ![r] = c]
  /\ TurnAlone /\ UNCHANGED server
\* Mutant: only a call that succeeds tells its child to end.
CallFailsOnly(r) ==
  /\ Alive(r)
  /\ mcpCall' = [mcpCall EXCEPT ![r].at = 4, ![r].outcome = "failed"]
  /\ TurnAlone /\ UNCHANGED server
\* An error in the answer, the timeout, a server that cannot be run, a failed request.
CallFails(r) ==
  /\ Alive(r)
  /\ mcpCall' = [mcpCall EXCEPT ![r] = EndedAs(@, "failed")]
  /\ TurnAlone /\ UNCHANGED server
\* 'close': a request that waits fails.
ChildCloses(r) ==
  /\ mcpCall[r].child \in {"running", "signalled"}
  /\ mcpCall' = [mcpCall EXCEPT ![r] = [IF Alive(r) THEN EndedAs(@, "failed") ELSE @
                                    EXCEPT !.child = "closed"]]
  /\ TurnAlone /\ UNCHANGED server

McpNext ==
  \/ InstallServer \/ RemoveServer
  \/ Discover \/ Discovered \/ ChooseTool \/ ExecuteTool \/ ToolReturns
  \/ \E r \in ServerRows : AnswerRequest(r) \/ CallFails(r) \/ ChildCloses(r)

McpSpec == McpInit /\ [][McpNext]_mcpVars

-----------------------------------------------------------------------------
(***************************************************************************)
(* A tool runs on a server with the id of the one that offered it, whatever*)
(* has been installed and removed since.                                   *)
(***************************************************************************)
RoutedToOwner ==
  turn = "call" => \A r \in ServerRows : mcpCall[r].at # 0 =>
                     Named(server[r].id) = chosen.name

(***************************************************************************)
(* A call uses the answer of each of its own requests, in their order, and *)
(* leaves no child process that it has not told to end.                    *)
(***************************************************************************)
OwnAnswers ==
  \A r \in ServerRows :
    /\ Alive(r) => mcpCall[r].got < mcpCall[r].at
    /\ mcpCall[r].outcome = "tools" => mcpCall[r].got = 2
    /\ mcpCall[r].outcome = "result" => mcpCall[r].got = 3
    /\ mcpCall[r].at = 4 => mcpCall[r].child # "running"
=============================================================================
