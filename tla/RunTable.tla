------------------------------ MODULE RunTable ------------------------------
(***************************************************************************)
(* What a run promises, whoever works on it: the transition table of       *)
(* core/run-state.ts, with the bookkeeping that the table leaves out.  The *)
(* database does not enforce the table and continueRun consults it at one  *)
(* place only; that the statements scattered over the API and the executor *)
(* stay within this specification is a theorem about RunLifecycle.         *)
(*                                                                         *)
(* Two moves are not in the table, and the code makes both: a run given    *)
(* back to the queue when its setup fails, and an answer.  One move of the *)
(* table, the retry of a failed run, is made by no code but answer.        *)
(***************************************************************************)
EXTENDS Naturals

CONSTANT Runs

VARIABLES
  status,    \* run.status
  settled,   \* outcomes committed for the run: final message or error
  answers    \* times the user answered the run

\* The `allowed` record.
Allowed ==
  [absent |-> {},
   queued |-> {"leased", "cancelled"},
   leased |-> {"running", "queued", "cancelled"},
   running |-> {"waiting_input", "waiting_takeover", "completed", "failed",
                "cancelled", "leased"},
   waiting_input |-> {"queued", "leased", "cancelled"},
   waiting_takeover |-> {"queued", "leased", "cancelled"},
   completed |-> {},
   failed |-> {"queued"},
   cancelled |-> {}]

\* canTransition
CanTransition(from, to) == to \in Allowed[from]

TableInit ==
  /\ status = [r \in Runs |-> "absent"]
  /\ settled = [r \in Runs |-> 0]
  /\ answers = [r \in Runs |-> 0]

Create(r) ==
  /\ status[r] = "absent"
  /\ status' = [status EXCEPT ![r] = "queued"]
  /\ UNCHANGED <<settled, answers>>

\* A move of the table that publishes nothing.
Move(r, to) ==
  /\ CanTransition(status[r], to)
  /\ status[r] # "failed"
  /\ to \notin {"completed", "failed"}
  /\ status' = [status EXCEPT ![r] = to]
  /\ UNCHANGED <<settled, answers>>

\* A run ends, and its one outcome becomes durable in the same step.
Settle(r, to) ==
  /\ CanTransition(status[r], to)
  /\ to \in {"completed", "failed"}
  /\ status' = [status EXCEPT ![r] = to]
  /\ settled' = [settled EXCEPT ![r] = @ + 1]
  /\ UNCHANGED answers

\* Several runs of a bot are cancelled at once.
CancelAll(S) ==
  /\ \A r \in S : CanTransition(status[r], "cancelled")
  /\ status' = [r \in Runs |-> IF r \in S THEN "cancelled" ELSE status[r]]
  /\ UNCHANGED <<settled, answers>>

GiveBack(r) ==
  /\ status[r] = "running"
  /\ status' = [status EXCEPT ![r] = "queued"]
  /\ UNCHANGED <<settled, answers>>

Reopen(r) ==
  /\ status[r] # "absent"
  /\ status' = [status EXCEPT ![r] = "queued"]
  /\ answers' = [answers EXCEPT ![r] = @ + 1]
  /\ UNCHANGED settled

TableNext ==
  \/ \E r \in Runs : Create(r) \/ GiveBack(r) \/ Reopen(r)
  \/ \E r \in Runs : \E to \in DOMAIN Allowed : Move(r, to) \/ Settle(r, to)
  \/ \E S \in SUBSET Runs : CancelAll(S)

TableSpec == TableInit /\ [][TableNext]_<<status, settled, answers>>
=============================================================================
