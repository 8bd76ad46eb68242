--------------------------- MODULE HarnessProcess ----------------------------
(***************************************************************************)
(* Command-line agents as child processes.  runCliProcess runs one to its  *)
(* end, under a timeout, an abort signal and a limit of its output; the    *)
(* probes of the harnesses call it.  PrimeAgentRpcClient keeps one open    *)
(* and speaks lines of JSON with it, over PrimeAgentProcessTransport.      *)
(*                                                                         *)
(* A child may ignore SIGTERM, and may leave a process of its own behind   *)
(* that holds the pipes; Node's close event waits for both.                *)
(***************************************************************************)
EXTENDS Naturals, FiniteSets

CONSTANTS
  MaxOutput,     \* maxOutputBytes
  RpcIds            \* ids of RPC requests

ASSUME HarnessConstants == MaxOutput \in Nat \ {0}

VARIABLES
  cli,       \* one call of runCliProcess and its child
  rpc        \* one session of Prime Agent and its child

harnessVars == <<cli, rpc>>

CliRecords ==
  [phase : {"new", "running", "settled"}, child : {"none", "alive", "dead"},
   heir : BOOLEAN, bytes : 0..MaxOutput, lost : BOOLEAN, truncated : BOOLEAN,
   timedOut : BOOLEAN, aborted : BOOLEAN, timer : BOOLEAN, force : BOOLEAN,
   signals : SUBSET {"TERM", "KILL"}]

RpcRecords ==
  [closed : BOOLEAN, pending : SUBSET RpcIds, asked : SUBSET RpcIds,
   settled : [RpcIds -> 0..2], child : {"alive", "dead"}, broken : BOOLEAN,
   listening : BOOLEAN, stopped : BOOLEAN, ended : BOOLEAN]

(***************************************************************************)
(* Every variable has its type.                                            *)
(***************************************************************************)
HarnessTypeOK == cli \in CliRecords /\ rpc \in RpcRecords

HarnessInit ==
  /\ cli = [phase |-> "new", child |-> "none", heir |-> FALSE, bytes |-> 0, lost |-> FALSE,
            truncated |-> FALSE, timedOut |-> FALSE, aborted |-> FALSE, timer |-> FALSE,
            force |-> FALSE, signals |-> {}]
  /\ rpc = [closed |-> FALSE, pending |-> {}, asked |-> {}, settled |-> [i \in RpcIds |-> 0],
            child |-> "alive", broken |-> FALSE, listening |-> TRUE, stopped |-> FALSE,
            ended |-> FALSE]

-----------------------------------------------------------------------------
(* runCliProcess *)

OnlyCli == UNCHANGED rpc
Running == cli.phase = "running"

\* The child, its timer, and the signal, which may be aborted already.
SpawnCli ==
  /\ cli.phase = "new"
  /\ \E late \in BOOLEAN :
       cli' = [cli EXCEPT !.phase = "running", !.child = "alive", !.timer = TRUE,
                          !.aborted = late, !.signals = IF late THEN {"TERM"} ELSE {}]
  /\ OnlyCli

\* finish: the first caller has its way, and the timer is cleared.
Settled(c) == [c EXCEPT !.phase = "settled", !.timer = FALSE]

\* The error event: there is no such program.
SpawnFails ==
  /\ cli.phase = "new"
  /\ cli' = Settled(cli)
  /\ OnlyCli

\* Mutant: only what fills the buffer exactly counts as its end.
TakeOutputUntold(n) ==
  LET room == MaxOutput - cli.bytes
      full == n = room IN
  /\ Running
  /\ cli.child = "alive" \/ cli.heir
  /\ cli' = [cli EXCEPT !.bytes = IF n >= room THEN MaxOutput ELSE @ + n,
                        !.lost = @ \/ n > room,
                        !.truncated = @ \/ full,
                        !.signals = IF full THEN @ \union {"TERM"} ELSE @]
  /\ OnlyCli

\* append: what fits is kept, and at the limit the child is told to stop.
TakeOutput(n) ==
  LET room == MaxOutput - cli.bytes
      full == n >= room IN
  /\ Running
  /\ cli.child = "alive" \/ cli.heir
  /\ cli' = [cli EXCEPT !.bytes = IF full THEN MaxOutput ELSE @ + n,
                        !.lost = @ \/ n > room,
                        !.truncated = @ \/ full,
                        !.signals = IF full THEN @ \union {"TERM"} ELSE @]
  /\ OnlyCli

\* Mutant: the timeout asks and does not insist.
TimeOutGently ==
  /\ cli.timer
  /\ cli' = [cli EXCEPT !.timer = FALSE, !.timedOut = TRUE, !.signals = @ \union {"TERM"}]
  /\ OnlyCli

TimeOut ==
  /\ cli.timer
  /\ cli' = [cli EXCEPT !.timer = FALSE, !.timedOut = TRUE, !.force = TRUE,
                        !.signals = @ \union {"TERM"}]
  /\ OnlyCli

\* The timer within the timer, which finish does not clear.
ForceKill ==
  /\ cli.force
  /\ cli' = [cli EXCEPT !.force = FALSE, !.signals = @ \union {"KILL"}]
  /\ OnlyCli

OnAbort ==
  /\ Running /\ ~cli.aborted
  /\ cli' = [cli EXCEPT !.aborted = TRUE, !.signals = @ \union {"TERM"}]
  /\ OnlyCli

\* The child starts a process that inherits its pipes.
Fork ==
  /\ cli.child = "alive" /\ ~cli.heir
  /\ cli' = [cli EXCEPT !.heir = TRUE]
  /\ OnlyCli

ChildExits ==
  /\ cli.child = "alive"
  /\ cli' = [cli EXCEPT !.child = "dead"]
  /\ OnlyCli

HeirExits ==
  /\ cli.heir
  /\ cli' = [cli EXCEPT !.heir = FALSE]
  /\ OnlyCli

\* The close event: the child is gone and its pipes are.
OnClose ==
  /\ Running
  /\ cli.child = "dead" /\ ~cli.heir
  /\ cli' = Settled(cli)
  /\ OnlyCli

CliNext ==
  \/ SpawnCli \/ SpawnFails \/ TimeOut \/ ForceKill \/ OnAbort \/ Fork \/ ChildExits \/ HeirExits
  \/ OnClose
  \/ \E n \in 1..(MaxOutput + 1) : TakeOutput(n)

-----------------------------------------------------------------------------
(* PrimeAgentRpcClient and its transport *)

OnlyRpc == UNCHANGED cli

Settle(r, ids) ==
  [r EXCEPT !.settled = [i \in RpcIds |-> IF i \in ids THEN @[i] + 1 ELSE @[i]],
            !.pending = @ \ ids]

\* request: rejected when the session is closed, or when stdin is.
Request(i) ==
  /\ i \notin rpc.asked /\ rpc.settled[i] = 0
  /\ \/ /\ rpc.closed \/ rpc.stopped \/ rpc.child = "dead"
        /\ rpc' = Settle(rpc, {i})
     \/ /\ ~rpc.closed /\ ~rpc.stopped
        /\ rpc' = [rpc EXCEPT !.pending = @ \union {i}, !.asked = @ \union {i}]
  /\ OnlyRpc

\* Mutant: a response settles its promise and stays among the pending.
RespondTwice(i) ==
  /\ rpc.child = "alive" /\ rpc.listening
  /\ i \in rpc.pending
  /\ rpc' = [rpc EXCEPT !.settled[i] = 2]
  /\ OnlyRpc

\* A line with a response: handleMessage.  It may come twice, and one that is
\* not expected any more is an event to the listeners.
Respond(i) ==
  /\ rpc.child = "alive" /\ rpc.listening
  /\ i \in rpc.asked
  /\ rpc' = Settle(rpc, {i} \intersect rpc.pending)
  /\ OnlyRpc

\* handleClose
Closed(r) == IF r.closed THEN r ELSE [Settle(r, r.pending) EXCEPT !.closed = TRUE]

\* A line that is not JSON: the transport says it is closed, and the child
\* goes on.
BreakLine ==
  /\ rpc.child = "alive"
  /\ rpc' = [(IF rpc.listening THEN Closed(rpc) ELSE rpc) EXCEPT !.broken = TRUE]
  /\ OnlyRpc

RpcChildExits ==
  /\ rpc.child = "alive"
  /\ rpc' = [(IF rpc.listening THEN Closed(rpc) ELSE rpc) EXCEPT !.child = "dead"]
  /\ OnlyRpc

\* Mutant: the transport is left as it is.
CloseSessionOnly ==
  /\ ~rpc.ended
  /\ rpc' = [Closed(rpc) EXCEPT !.ended = TRUE, !.listening = FALSE]
  /\ OnlyRpc

\* close: a client that is closed already returns at once, and does not ask
\* its transport to end the child.
CloseSession ==
  /\ ~rpc.ended
  /\ rpc' = IF rpc.closed THEN [rpc EXCEPT !.ended = TRUE]
            ELSE [Closed(rpc) EXCEPT !.ended = TRUE, !.listening = FALSE, !.stopped = TRUE]
  /\ OnlyRpc

RpcNext ==
  \/ \E i \in RpcIds : Request(i) \/ Respond(i)
  \/ BreakLine \/ RpcChildExits \/ CloseSession

HarnessNext == CliNext \/ RpcNext

HarnessSpec == HarnessInit /\ [][HarnessNext]_harnessVars

\* Timers fire, SIGKILL ends a child, and what a child left behind ends too.
HarnessFairness ==
  /\ WF_harnessVars(TimeOut)
  /\ WF_harnessVars(ForceKill)
  /\ WF_harnessVars("KILL" \in cli.signals /\ ChildExits)
  /\ WF_harnessVars(cli.child = "dead" /\ HeirExits)
  /\ WF_harnessVars(OnClose)

FairHarness == HarnessSpec /\ HarnessFairness

-----------------------------------------------------------------------------
(***************************************************************************)
(* A result that lost some of the child's output says so, and a child that *)
(* had to be killed is reported as timed out.                              *)
(***************************************************************************)
LossIsTold ==
  /\ cli.lost => cli.truncated
  /\ "KILL" \in cli.signals => cli.timedOut

(***************************************************************************)
(* Every request of a session is answered once, by its response or by the  *)
(* end of the session, and none waits on a session that is over.           *)
(***************************************************************************)
RpcSettlesOnce ==
  /\ rpc.closed => rpc.pending = {}
  /\ \A i \in RpcIds : rpc.settled[i] + (IF i \in rpc.pending THEN 1 ELSE 0)
                      = IF i \in rpc.asked \/ rpc.settled[i] > 0 THEN 1 ELSE 0

(***************************************************************************)
(* Closing a session stops its child, unless the child has broken the      *)
(* protocol before: then the session counts as closed, and stays behind.   *)
(***************************************************************************)
CloseStopsChild ==
  rpc.ended => rpc.stopped \/ rpc.child = "dead" \/ rpc.broken

(***************************************************************************)
(* A call of runCliProcess comes to its end although the child ignores     *)
(* SIGTERM: the timeout is what carries an abort and the output limit too. *)
(***************************************************************************)
CliSettles == cli.phase = "running" ~> cli.phase = "settled"
=============================================================================
