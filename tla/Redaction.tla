------------------------------ MODULE Redaction ------------------------------
(***************************************************************************)
(* createStreamingRedactor: the text of an answer comes in pieces cut      *)
(* anywhere, and is shown as it comes with the run's secrets replaced.     *)
(***************************************************************************)
EXTENDS Naturals, Sequences, FiniteSets

CONSTANTS
  Letters,
  SecretSets,   \* sets of secrets that a run may have
  MaxText,      \* bound: letters of an answer
  MaxChunk      \* bound: letters of a piece

\* A secret that is empty is dropped by createStreamingRedactor.
ASSUME RedactConstants ==
  /\ MaxText \in Nat /\ MaxChunk \in Nat
  /\ \A set \in SecretSets :
       IsFiniteSet(set) /\ \A s \in set : s \in Seq(Letters) /\ s # <<>>

VARIABLES
  secrets,
  heard,        \* the answer so far
  buffer,       \* what the redactor holds back
  shown,        \* what it has given out
  over          \* the answer has ended

redactVars == <<secrets, heard, buffer, shown, over>>

Redacted == "[redacted]"

(***************************************************************************)
(* Every variable has its type.                                            *)
(***************************************************************************)
RedactTypeOK ==
  /\ secrets \in SecretSets
  /\ heard \in Seq(Letters)
  /\ buffer \in Seq(Letters)
  /\ shown \in Seq(Letters \union {Redacted})
  /\ over \in BOOLEAN

RedactInit ==
  /\ secrets \in SecretSets
  /\ heard = <<>> /\ buffer = <<>> /\ shown = <<>> /\ over = FALSE

-----------------------------------------------------------------------------
StartsWith(text, s) == Len(s) <= Len(text) /\ SubSeq(text, 1, Len(s)) = s
Longest(set) == CHOOSE s \in set : \A t \in set : Len(t) <= Len(s)
MaxLength == IF secrets = {} THEN 0 ELSE Len(Longest(secrets))

\* The loop of drain: letters are given out, and secrets replaced, the longest
\* that begins there first, while they begin among the first `safe` letters.
Scan(text, safe) ==
  LET after(n) == SubSeq(text, n + 1, Len(text))
      scanned[n \in 0..Len(text)] ==      \* after n letters
        IF n >= safe THEN [out |-> <<>>, rest |-> after(n)]
        ELSE LET found == {s \in secrets : StartsWith(after(n), s)}
                 next == scanned[IF found = {} THEN n + 1 ELSE n + Len(Longest(found))]
             IN [next EXCEPT !.out =
                   <<IF found = {} THEN text[n + 1] ELSE Redacted>> \o @]
  IN scanned[0]

\* Mutant: a letter more is held for safe.
SafeStartLate(text) == IF Len(text) + 2 > MaxLength THEN Len(text) + 2 - MaxLength ELSE 0
\* safeStartLimit of a push: where a whole secret would have been seen.
SafeStart(text) == IF Len(text) + 1 > MaxLength THEN Len(text) + 1 - MaxLength ELSE 0

Drain(text, final) ==
  IF secrets = {} THEN [out |-> text, rest |-> <<>>]
  ELSE Scan(text, IF final THEN Len(text) ELSE SafeStart(text))

\* A text event of the agent.
PushText ==
  \E n \in 1..MaxChunk : \E chunk \in [1..n -> Letters] :
    LET drained == Drain(buffer \o chunk, FALSE) IN
    /\ ~over
    /\ Len(heard) + n <= MaxText
    /\ heard' = heard \o chunk
    /\ shown' = shown \o drained.out
    /\ buffer' = drained.rest
    /\ UNCHANGED <<secrets, over>>

\* finish, at the end of the answer.
Finish ==
  LET drained == Drain(buffer, TRUE) IN
  /\ ~over
  /\ over' = TRUE
  /\ shown' = shown \o drained.out
  /\ buffer' = drained.rest
  /\ UNCHANGED <<secrets, heard>>

RedactNext == PushText \/ Finish
RedactSpec == RedactInit /\ [][RedactNext]_redactVars

-----------------------------------------------------------------------------
(***************************************************************************)
(* However the answer is cut, what is shown and what is held back come to  *)
(* what the whole answer, redacted at once, would be; letters are held     *)
(* back only while a secret may begin there.                               *)
(***************************************************************************)
CutAnyhow ==
  /\ shown \o Drain(buffer, TRUE).out = Drain(heard, TRUE).out
  /\ Len(buffer) < MaxLength \/ buffer = <<>>
=============================================================================
