---------------------------- MODULE WorkProofs ----------------------------
(***************************************************************************)
(* Proofs about the components of MCWork, for any values of their          *)
(* constants: effects of a turn, its answer and the secrets cut out of it, *)
(* helpers, calls to peers, the index and the history of memory, names of  *)
(* tools, calls to MCP servers, harness processes, containers, windows of  *)
(* services, and the choice of a machine.                                  *)
(* Each has its inductive invariant in a section of its own; the theorems  *)
(* at the end are about the composition.                                   *)
(***************************************************************************)
EXTENDS MCWork, ModelCredentialsProofs, FiniteSetTheorems, WellFoundedInduction, TLAPS

Applying == {"lookup", "create", "perform", "complete"}

(***************************************************************************)
(* The types of what effects are made of; the queue is left aside.         *)
(***************************************************************************)
EffectTypes ==
  /\ agent \in [Slots -> {"off", "working"} \union Applying]
  /\ applying \in [Slots -> Calls \union {NoCall}]
  /\ \A s \in Slots : agent[s] \in Applying => applying[s] \in Calls
  /\ effect \in [Calls -> {"none", "intended", "completed"}]
  /\ performed \in [Calls -> Nat]

(***************************************************************************)
(* A slot that carries a call out has recorded the intention, and nobody   *)
(* has carried it out yet.                                                 *)
(***************************************************************************)
Recorded ==
  \A s \in Slots :
    /\ agent[s] = "perform" => /\ effect[applying[s]] = "intended"
                               /\ performed[applying[s]] = 0
    /\ agent[s] = "complete" => effect[applying[s]] # "none"

(***************************************************************************)
(* It is the only one that does: of two creators one throws.               *)
(***************************************************************************)
OneApplies ==
  \A s, t \in Slots :
    /\ {agent[s], agent[t]} \subseteq {"perform", "complete"}
    /\ applying[s] = applying[t]
    => s = t

EffectInv == EffectTypes /\ EffectOnce /\ Recorded /\ OneApplies

LEMMA InitEffects == TurnInit => EffectInv
BY DEF TurnInit, EffectInv, EffectTypes, EffectOnce, Recorded, OneApplies, Applying

(***************************************************************************)
(* Steps that touch no effect and begin to carry out none.                 *)
(***************************************************************************)
LEMMA QuietSteps ==
  ASSUME EffectInv, UNCHANGED effectVars, EffectTypes',
         \A s \in Slots : agent'[s] \in {"perform", "complete"} =>
                            agent'[s] = agent[s] /\ applying'[s] = applying[s]
  PROVE  EffectInv'
<1>1. EffectOnce'
  BY DEF EffectInv, EffectOnce, effectVars
<1>2. Recorded'
  BY DEF EffectInv, Recorded, effectVars
<1>3. OneApplies'
  BY DEF EffectInv, OneApplies
<1> QED BY <1>1, <1>2, <1>3 DEF EffectInv

LEMMA AgentsKeep ==
  ASSUME EffectInv, NEW s \in Slots, AgentStep(s)
  PROVE  EffectInv'
<1> USE DEF ToAgent, OnlyAgent
<1>1. CASE Speak(s) \/ CallTool(s) \/ EndRound(s) \/ Lookup(s)
  <2>1. UNCHANGED effectVars
    BY <1>1 DEF Speak, CallTool, EndRound, Lookup
  <2>2. \/ UNCHANGED <<agent, applying>>
        \/ \E c \in Calls : /\ agent' = [agent EXCEPT ![s] = "lookup"]
                            /\ applying' = [applying EXCEPT ![s] = c]
        \/ \E spot \in {"off", "working", "create"} :
             /\ agent' = [agent EXCEPT ![s] = spot]
             /\ spot = "create" => agent[s] = "lookup"
             /\ UNCHANGED applying
    BY <1>1 DEF Speak, CallTool, EndRound, Lookup
  <2>3. EffectTypes'
    BY <2>1, <2>2 DEF EffectInv, EffectTypes, Applying, effectVars
  <2>4. ASSUME NEW t \in Slots, agent'[t] \in {"perform", "complete"}
        PROVE  agent'[t] = agent[t] /\ applying'[t] = applying[t]
    BY <2>2, <2>4 DEF EffectInv, EffectTypes
  <2> QED BY <2>1, <2>3, <2>4, QuietSteps
<1>2. CASE RecordEffect(s)
  <2>1. CASE effect[applying[s]] # "none"
    <3>1. UNCHANGED <<effectVars, applying>> /\ agent' = [agent EXCEPT ![s] = "working"]
      BY <1>2, <2>1 DEF RecordEffect, effectVars
    <3>2. EffectTypes'
      BY <3>1 DEF EffectInv, EffectTypes, effectVars, Applying
    <3> QED BY <3>1, <3>2, QuietSteps DEF EffectInv, EffectTypes
  <2>2. CASE effect[applying[s]] = "none"
    <3> DEFINE c == applying[s]
    <3>1. c \in Calls
      BY <1>2 DEF RecordEffect, EffectInv, EffectTypes, Applying
    <3>2. /\ effect' = [effect EXCEPT ![c] = "intended"]
          /\ agent' = [agent EXCEPT ![s] = "perform"]
          /\ UNCHANGED <<performed, applying>>
      BY <1>2, <2>2 DEF RecordEffect
    <3>3. EffectTypes'
      BY <3>1, <3>2 DEF EffectInv, EffectTypes, Applying
    <3>4. performed[c] = 0
      BY <2>2, <3>1 DEF EffectInv, EffectOnce
    <3>5. EffectOnce'
      BY <3>2 DEF EffectInv, EffectTypes, EffectOnce
    <3>6. \A t \in Slots : agent[t] \in {"perform", "complete"} => applying[t] # c
      BY <2>2 DEF EffectInv, Recorded
    <3>7. Recorded'
      BY <3>1, <3>2, <3>4, <3>6 DEF EffectInv, EffectTypes, Recorded, Applying
    <3>8. OneApplies'
      BY <3>2, <3>6 DEF EffectInv, EffectTypes, OneApplies
    <3> QED BY <3>3, <3>5, <3>7, <3>8 DEF EffectInv
  <2> QED BY <2>1, <2>2
<1>3. CASE Perform(s)
  <2> DEFINE c == applying[s]
  <2>1. c \in Calls /\ effect[c] = "intended" /\ performed[c] = 0
    BY <1>3 DEF Perform, EffectInv, EffectTypes, Recorded, Applying
  <2>2. /\ agent' \in {[agent EXCEPT ![s] = "complete"], [agent EXCEPT ![s] = "working"]}
        /\ performed' \in {performed, [performed EXCEPT ![c] = 1]}
        /\ UNCHANGED <<effect, applying>>
    <3>1. \/ performed' = [performed EXCEPT ![c] = performed[c] + 1]
          \/ UNCHANGED performed
      BY <1>3 DEF Perform
    <3>2. performed[c] + 1 = 1
      BY <2>1
    <3>3. performed' \in {performed, [performed EXCEPT ![c] = 1]}
      BY <3>1, <3>2
    <3>4. /\ agent' \in {[agent EXCEPT ![s] = "complete"], [agent EXCEPT ![s] = "working"]}
          /\ UNCHANGED <<effect, applying>>
      BY <1>3 DEF Perform
    <3> QED BY <3>3, <3>4
  <2>3. EffectTypes'
    BY <2>1, <2>2 DEF EffectInv, EffectTypes, Applying
  <2>4. EffectOnce'
    BY <2>1, <2>2 DEF EffectInv, EffectTypes, EffectOnce
  <2>5. \A t \in Slots : t # s /\ agent[t] = "perform" => applying[t] # c
    BY <1>3 DEF Perform, EffectInv, OneApplies
  <2>6. Recorded'
    BY <2>1, <2>2, <2>5 DEF EffectInv, EffectTypes, Recorded, Applying
  <2>7. OneApplies'
    BY <1>3, <2>2 DEF Perform, EffectInv, EffectTypes, OneApplies
  <2> QED BY <2>3, <2>4, <2>6, <2>7 DEF EffectInv
<1>4. CASE CompleteEffect(s)
  <2> DEFINE c == applying[s]
  <2>1. c \in Calls /\ effect[c] # "none"
    BY <1>4 DEF CompleteEffect, EffectInv, EffectTypes, Recorded, Applying
  <2>2. /\ agent' = [agent EXCEPT ![s] = "working"]
        /\ effect' = [effect EXCEPT ![c] = "completed"]
        /\ UNCHANGED <<performed, applying>>
    BY <1>4 DEF CompleteEffect
  <2>3. EffectTypes'
    BY <2>1, <2>2 DEF EffectInv, EffectTypes, Applying
  <2>4. EffectOnce'
    BY <2>1, <2>2 DEF EffectInv, EffectTypes, EffectOnce
  <2>5. \A t \in Slots : t # s /\ agent[t] = "perform" => applying[t] # c
    BY <1>4 DEF CompleteEffect, EffectInv, OneApplies
  <2>6. Recorded'
    BY <2>1, <2>2, <2>5 DEF EffectInv, EffectTypes, Recorded, Applying
  <2>7. OneApplies'
    BY <2>2 DEF EffectInv, EffectTypes, OneApplies
  <2> QED BY <2>3, <2>4, <2>6, <2>7 DEF EffectInv
<1> QED BY <1>1, <1>2, <1>3, <1>4 DEF AgentStep

(***************************************************************************)
(* What the executor's loop does to its agent: start a round, or forget it.*)
(***************************************************************************)
LEMMA ReadersKeep ==
  ASSUME EffectInv, NEW s \in Slots,
         BeginTurn(s) \/ ReaderStep(s) \/ EndTurn(s) \/ Die(s)
  PROVE  EffectInv'
<1>1. UNCHANGED effectVars
  BY DEF BeginTurn, ReaderStep, Take, Sleep, Decide, LeaveLoop, EndTurn, Die, Forget
<1>2. \/ UNCHANGED <<agent, applying>>
      \/ \E spot \in {"off", "working"} :
           /\ agent' = [agent EXCEPT ![s] = spot]
           /\ applying' \in {applying, [applying EXCEPT ![s] = NoCall]}
  BY DEF BeginTurn, ReaderStep, Take, Sleep, Decide, LeaveLoop, EndTurn, Die, Forget,
         StartRound, agentVars
<1>3. EffectTypes'
  BY <1>1, <1>2 DEF EffectInv, EffectTypes, Applying, effectVars
<1>4. ASSUME NEW t \in Slots, agent'[t] \in {"perform", "complete"}
      PROVE  agent'[t] = agent[t] /\ applying'[t] = applying[t]
  BY <1>2, <1>4 DEF EffectInv, EffectTypes
<1> QED BY <1>1, <1>3, <1>4, QuietSteps

LEMMA EffectsKept == EffectInv /\ [TurnNext]_turnVars => EffectInv'
<1> SUFFICES ASSUME EffectInv, [TurnNext]_turnVars PROVE EffectInv'
  OBVIOUS
<1>1. CASE TurnNext
  BY <1>1, AgentsKeep, ReadersKeep DEF TurnNext
<1>2. CASE UNCHANGED turnVars
  <2>1. UNCHANGED effectVars /\ UNCHANGED <<agent, applying>>
    BY <1>2 DEF turnVars, agentVars
  <2>2. EffectTypes'
    BY <2>1 DEF EffectInv, EffectTypes, effectVars
  <2> QED BY <2>1, <2>2, QuietSteps
<1> QED BY <1>1, <1>2

(***************************************************************************)
(* EffectOnce for every number of slots and execution ids: whatever slots  *)
(* of one run repeat, crash at or come back to, the effect of an execution *)
(* id happens at most once, and not before its record.                     *)
(***************************************************************************)
THEOREM EffectsOnce ==
  TurnSpec => []EffectOnce
<1>1. EffectInv => EffectOnce
  BY DEF EffectInv
<1> QED BY <1>1, InitEffects, EffectsKept, PTL DEF TurnSpec

-----------------------------------------------------------------------------
(* Helpers: the gate, and what becomes of their reports. *)

(***************************************************************************)
(* Counting one element more, or less.                                     *)
(***************************************************************************)
LEMMA OneMore ==
  ASSUME NEW S, NEW x, IsFiniteSet(S), x \notin S
  PROVE  /\ IsFiniteSet(S \union {x})
         /\ Cardinality(S \union {x}) = Cardinality(S) + 1
         /\ Cardinality(S) \in Nat
BY FS_AddElement, FS_CardinalityType

LEMMA OneLess ==
  ASSUME NEW S, NEW x, IsFiniteSet(S), x \in S
  PROVE  /\ IsFiniteSet(S \ {x})
         /\ Cardinality(S \ {x}) = Cardinality(S) - 1
         /\ Cardinality(S) \in Nat \ {0}
<1>1. Cardinality(S \ {x}) = Cardinality(S) - 1 /\ IsFiniteSet(S \ {x})
  BY FS_RemoveElement
<1>2. Cardinality(S) \in Nat /\ Cardinality(S \ {x}) \in Nat
  BY <1>1, FS_CardinalityType
<1> QED BY <1>1, <1>2

Entered == {h \in Helpers : helper[h] \in {"entered", "working"}}
Admitted == {h \in Helpers : helper[h] \in {"called", "entered", "working"}}

(***************************************************************************)
(* The gate counts those who entered, and those who wait in line are       *)
(* waiting, each once.                                                     *)
(***************************************************************************)
GateInv ==
  /\ helper \in [Helpers -> {"none", "waiting", "called", "entered", "working", "over"}]
  /\ waiters \in Seq(Helpers)
  /\ active = Cardinality(Entered)
  /\ \A i \in 1..Len(waiters) : helper[waiters[i]] = "waiting"
  /\ \A i, j \in 1..Len(waiters) : waiters[i] = waiters[j] => i = j
  /\ NoIdlePlace

LEMMA HelpersFinite ==
  /\ IsFiniteSet(Entered) /\ IsFiniteSet(Admitted)
  /\ Cardinality(Entered) \in Nat /\ Cardinality(Admitted) \in Nat
  /\ Cardinality(Entered) <= Cardinality(Admitted)
<1>1. Entered \in SUBSET Helpers /\ Admitted \in SUBSET Helpers /\ Entered \in SUBSET Admitted
  BY DEF Entered, Admitted
<1>2. IsFiniteSet(Entered) /\ IsFiniteSet(Admitted)
  BY <1>1, FS_Subset, SubagentConstants
<1>3. Cardinality(Entered) <= Cardinality(Admitted)
  BY <1>1, <1>2, FS_Subset
<1> QED BY <1>2, <1>3, FS_CardinalityType

(***************************************************************************)
(* A helper leaves: its place is free, or the first in line is called.     *)
(***************************************************************************)
LEMMA LettingGo ==
  ASSUME GateInv, NEW h \in Helpers, helper[h] \in {"entered", "working"}, LetGo(h)
  PROVE  GateInv'
<1>1. h \in Entered /\ h \in Admitted
  BY DEF Entered, Admitted
<1>2. active - 1 = Cardinality(Entered \ {h}) /\ active > 0
  <2>1. IsFiniteSet(Entered)
    BY HelpersFinite
  <2>2. /\ Cardinality(Entered \ {h}) = Cardinality(Entered) - 1
        /\ Cardinality(Entered) \in Nat \ {0}
    BY <1>1, <2>1, OneLess
  <2>3. active = Cardinality(Entered)
    BY DEF GateInv
  <2> QED BY <2>2, <2>3
<1>3. active' = active - 1
  BY <1>2 DEF LetGo
<1>4. CASE waiters = <<>>
  <2>1. helper' = [helper EXCEPT ![h] = "over"] /\ waiters' = <<>>
    BY <1>4 DEF LetGo, ToHelper
  <2>2. Entered' = Entered \ {h}
    BY <2>1 DEF GateInv, Entered
  <2> QED BY <1>2, <1>3, <2>1, <2>2 DEF GateInv, NoIdlePlace
<1>5. CASE waiters # <<>>
  <2> DEFINE f == Head(waiters)
  <2>1. /\ helper' = [helper EXCEPT ![h] = "over", ![f] = "called"]
        /\ waiters' = Tail(waiters)
    BY <1>5 DEF LetGo
  <2>2. Len(waiters) \in Nat \ {0} /\ f = waiters[1] /\ f \in Helpers /\ helper[f] = "waiting"
    BY <1>5 DEF GateInv
  <2>3. /\ waiters' \in Seq(Helpers)
        /\ Len(waiters') = Len(waiters) - 1
        /\ \A i \in 1..Len(waiters') : waiters'[i] = waiters[i + 1] /\ i + 1 \in 1..Len(waiters)
    BY <1>5, <2>1, <2>2 DEF GateInv
  <2>4. f # h /\ f \notin Admitted
    BY <2>2 DEF Admitted
  <2>5. Entered' = Entered \ {h}
    BY <2>1, <2>2, <2>4 DEF GateInv, Entered
  <2>6. Admitted' = (Admitted \ {h}) \union {f}
    BY <2>1, <2>2, <2>4 DEF GateInv, Admitted
  <2>7. Cardinality(Admitted') = Cardinality(Admitted)
    <3>1. /\ IsFiniteSet(Admitted \ {h})
          /\ Cardinality(Admitted \ {h}) = Cardinality(Admitted) - 1
      BY <1>1, HelpersFinite, OneLess
    <3>2. f \notin Admitted \ {h}
      BY <2>4
    <3>3. Cardinality((Admitted \ {h}) \union {f}) = Cardinality(Admitted \ {h}) + 1
      BY <3>1, <3>2, OneMore
    <3> QED BY <2>6, <3>1, <3>3, HelpersFinite
  <2>8. \A i \in 1..Len(waiters') : helper'[waiters'[i]] = "waiting"
    <3> TAKE i \in 1..Len(waiters')
    <3>1. waiters'[i] # f
      BY <2>2, <2>3 DEF GateInv
    <3>2. helper[waiters'[i]] = "waiting" /\ waiters'[i] \in Helpers
      BY <2>3 DEF GateInv
    <3> QED BY <2>1, <3>1, <3>2 DEF GateInv
  <2>9. \A i, j \in 1..Len(waiters') : waiters'[i] = waiters'[j] => i = j
    BY <2>3 DEF GateInv
  <2>10. NoIdlePlace'
    BY <1>5, <2>7 DEF GateInv, NoIdlePlace, Admitted
  <2>11. helper' \in [Helpers -> {"none", "waiting", "called", "entered", "working", "over"}]
    BY <2>1 DEF GateInv
  <2> QED BY <1>2, <1>3, <2>3, <2>5, <2>8, <2>9, <2>10, <2>11 DEF GateInv
<1> QED BY <1>4, <1>5

(***************************************************************************)
(* Every other step of a helper.                                           *)
(***************************************************************************)
LEMMA GateKept == GateInv /\ [SubagentNext]_subagentVars => GateInv'
<1> SUFFICES ASSUME GateInv, [SubagentNext]_subagentVars PROVE GateInv'
  OBVIOUS
<1>1. ASSUME UNCHANGED <<helper, gateVars>> PROVE GateInv'
  BY <1>1 DEF GateInv, gateVars, Entered, NoIdlePlace
<1>2. ASSUME NEW h \in Helpers, CallHelper(h) PROVE GateInv'
  <2>1. helper[h] = "none" /\ h \notin Entered /\ h \notin Admitted
    BY <1>2 DEF CallHelper, Entered, Admitted
  <2>2. \A i \in 1..Len(waiters) : waiters[i] # h /\ waiters[i] \in Helpers
    BY <2>1 DEF GateInv
  <2>3. CASE active >= MaxParallel
    <3>1. waiters' = Append(waiters, h) /\ helper' = [helper EXCEPT ![h] = "waiting"]
          /\ active' = active
      BY <1>2, <2>3 DEF CallHelper, ToHelper
    <3>2. Entered' = Entered /\ Admitted' = Admitted
      BY <2>1, <3>1 DEF GateInv, Entered, Admitted
    <3>3. /\ waiters' \in Seq(Helpers) /\ Len(waiters') = Len(waiters) + 1
          /\ \A i \in 1..Len(waiters) : waiters'[i] = waiters[i]
          /\ waiters'[Len(waiters) + 1] = h
      BY <3>1 DEF GateInv
    <3>4. \A i \in 1..Len(waiters') : helper'[waiters'[i]] = "waiting"
      BY <2>2, <3>1, <3>3 DEF GateInv
    <3>5. \A i, j \in 1..Len(waiters') : waiters'[i] = waiters'[j] => i = j
      BY <2>2, <3>3 DEF GateInv
    <3>6. NoIdlePlace'
      <4>1. Cardinality(Admitted') >= MaxParallel
        BY <2>3, <3>2, HelpersFinite, SubagentConstants DEF GateInv
      <4> QED BY <4>1 DEF NoIdlePlace, Admitted
    <3>7. helper' \in [Helpers -> {"none", "waiting", "called", "entered", "working", "over"}]
      BY <3>1 DEF GateInv
    <3> QED BY <3>1, <3>2, <3>3, <3>4, <3>5, <3>6, <3>7 DEF GateInv
  <2>4. CASE ~(active >= MaxParallel)
    <3>1. waiters' = waiters /\ helper' = [helper EXCEPT ![h] = "entered"]
          /\ active' = active + 1
      BY <1>2, <2>4 DEF CallHelper, ToHelper
    <3>2. Entered' = Entered \union {h} /\ Admitted' = Admitted \union {h}
      BY <2>1, <3>1 DEF GateInv, Entered, Admitted
    <3>3. active' = Cardinality(Entered')
      <4>1. Cardinality(Entered \union {h}) = Cardinality(Entered) + 1
        BY <2>1, HelpersFinite, OneMore
      <4>2. active = Cardinality(Entered)
        BY DEF GateInv
      <4> QED BY <3>1, <3>2, <4>1, <4>2
    <3>4. NoIdlePlace'
      <4>1. /\ Cardinality(Admitted \union {h}) = Cardinality(Admitted) + 1
            /\ Cardinality(Admitted) \in Nat
        BY <2>1, HelpersFinite, OneMore
      <4>2. ASSUME waiters # <<>> PROVE Cardinality(Admitted) >= MaxParallel
        BY <4>2 DEF GateInv, NoIdlePlace, Admitted
      <4>3. ASSUME waiters' # <<>> PROVE Cardinality(Admitted') >= MaxParallel
        BY <3>1, <3>2, <4>1, <4>2, <4>3, SubagentConstants
      <4> QED BY <4>3 DEF NoIdlePlace, Admitted
    <3> QED BY <2>2, <3>1, <3>3, <3>4 DEF GateInv
  <2> QED BY <2>3, <2>4
<1>3. ASSUME NEW h \in Helpers, Resume(h) PROVE GateInv'
  <2>1. /\ helper[h] = "called" /\ h \notin Entered /\ h \in Admitted
        /\ waiters' = waiters /\ helper' = [helper EXCEPT ![h] = "entered"]
        /\ active' = active + 1
    BY <1>3 DEF Resume, ToHelper, Entered, Admitted
  <2>2. Entered' = Entered \union {h} /\ Admitted' = Admitted
    BY <2>1 DEF GateInv, Entered, Admitted
  <2>3. active' = Cardinality(Entered')
    BY <2>1, <2>2, HelpersFinite, OneMore DEF GateInv
  <2>4. NoIdlePlace'
    BY <2>1, <2>2 DEF GateInv, NoIdlePlace, Admitted
  <2> QED BY <2>1, <2>3, <2>4 DEF GateInv
<1>4. ASSUME NEW h \in Helpers, StartHelper(h) PROVE GateInv'
  <2>1. CASE stopped
    BY <1>4, <2>1, LettingGo DEF StartHelper
  <2>2. CASE ~stopped
    <3>1. /\ helper[h] = "entered" /\ waiters' = waiters /\ active' = active
          /\ helper' = [helper EXCEPT ![h] = "working"]
      BY <1>4, <2>2 DEF StartHelper, ToHelper, gateVars
    <3>2. Entered' = Entered /\ Admitted' = Admitted
      BY <3>1 DEF GateInv, Entered, Admitted
    <3>3. NoIdlePlace'
      BY <3>1, <3>2 DEF GateInv, NoIdlePlace, Admitted
    <3> QED BY <3>1, <3>2, <3>3 DEF GateInv
  <2> QED BY <2>1, <2>2
<1>5. ASSUME NEW h \in Helpers, EndHelper(h) PROVE GateInv'
  BY <1>5, LettingGo DEF EndHelper
<1>6. ASSUME NEW h \in Helpers, Progress(h) PROVE GateInv'
  BY <1>1, <1>6 DEF Progress
<1>7. CASE Abort \/ CloseTurn \/ HandleReport \/ WriteHelper
  BY <1>1, <1>7 DEF Abort, CloseTurn, HandleReport, WriteHelper
<1>8. CASE UNCHANGED subagentVars
  BY <1>1, <1>8 DEF subagentVars
<1> QED BY <1>2, <1>3, <1>4, <1>5, <1>6, <1>7, <1>8 DEF SubagentNext, HelperStep
(***************************************************************************)
(* Where the report of a helper is: nothing of it was said; it was said    *)
(* that it works; its end is the last the queue has of it; its message is  *)
(* being written; its message is in the thread.                            *)
(***************************************************************************)
Silent(h) == \A n \in 1..Len(events) : events[n].of # h
Handled(h) == handling # NoReport /\ handling.of = h

NotHeard(h) == Silent(h) /\ ~Handled(h) /\ written[h] = 0 /\ card[h] = "none"
Working(h) ==
  /\ \A n \in 1..Len(events) : events[n].of = h => events[n].status = "running"
  /\ ~Handled(h) /\ written[h] = 0
LastIs(h, n) ==
  /\ events[n].of = h /\ events[n].status \in Final
  /\ \A m \in 1..Len(events) :
       events[m].of = h /\ m # n => m < n /\ events[m].status = "running"
Ending(h) == (\E n \in 1..Len(events) : LastIs(h, n)) /\ ~Handled(h) /\ written[h] = 0
Writing(h) == Silent(h) /\ Handled(h) /\ written[h] = 0
Told(h) == Silent(h) /\ ~Handled(h) /\ written[h] = 1 /\ card[h] = "none"

Early == {"none", "waiting", "called", "entered"}
Place(h) ==
  /\ helper[h] \in Early => NotHeard(h)
  /\ helper[h] = "working" => Working(h)
  /\ helper[h] = "over" => Ending(h) \/ Writing(h) \/ Told(h)

ReportTypes ==
  /\ events \in Seq([of : Helpers, status : Final \union {"running"}])
  /\ handling \in {NoReport} \union [of : Helpers, status : Final]
  /\ card \in [Helpers -> Final \union {"none", "running"}]
  /\ written \in [Helpers -> Nat]

TellInv ==
  /\ GateInv
  /\ ReportTypes
  /\ agentTurn \in {"on", "closed"}
  /\ agentTurn = "closed" => \A h \in Helpers : helper[h] \in {"none", "over"}
  /\ \A h \in Helpers : Place(h)

(***************************************************************************)
(* A helper whose reports stay where they were keeps its place; so does one*)
(* after whose reports those of another come.                              *)
(***************************************************************************)
LEMMA OthersKeep ==
  ASSUME ReportTypes, NEW h \in Helpers, Place(h),
         NEW k \in Nat, Len(events') = Len(events) + k,
         \A n \in 1..Len(events) : events'[n] = events[n],
         \A n \in (Len(events) + 1)..(Len(events) + k) : events'[n].of # h,
         UNCHANGED threadVars,
         helper'[h] = helper[h] \/ (helper[h] \in Early /\ helper'[h] \in Early)
  PROVE  Place(h)'
<1>1. Len(events) \in Nat /\ handling' = handling /\ card' = card /\ written' = written
  BY DEF ReportTypes, threadVars
<1>2. (Handled(h))' = Handled(h)
  BY <1>1 DEF Handled
<1>3. \A n \in 1..Len(events') :
        events'[n].of = h => n \in 1..Len(events) /\ events'[n] = events[n]
  BY <1>1
<1>4. Silent(h) => Silent(h)'
  BY <1>3 DEF Silent
<1>5. Working(h) => Working(h)'
  BY <1>1, <1>2, <1>3 DEF Working
<1>6. ASSUME Ending(h) PROVE Ending(h)'
  <2>1. PICK n \in 1..Len(events) : LastIs(h, n)
    BY <1>6 DEF Ending
  <2>2. n \in 1..Len(events') /\ LastIs(h, n)'
    BY <1>1, <1>3, <2>1 DEF LastIs
  <2> QED BY <1>1, <1>2, <1>6, <2>2 DEF Ending
<1>7. (Writing(h) => Writing(h)') /\ (Told(h) => Told(h)') /\ (NotHeard(h) => NotHeard(h)')
  BY <1>1, <1>2, <1>4 DEF Writing, Told, NotHeard
<1> QED BY <1>5, <1>6, <1>7 DEF Place, Early

LEMMA SameReports ==
  ASSUME ReportTypes, NEW h \in Helpers, Place(h), UNCHANGED <<events, threadVars>>,
         helper'[h] = helper[h] \/ (helper[h] \in Early /\ helper'[h] \in Early)
  PROVE  Place(h)'
<1>1. Len(events) \in Nat /\ events' = events
  BY DEF ReportTypes
<1> QED BY <1>1, OthersKeep

(***************************************************************************)
(* Whom LetGo moves, besides the helper that leaves: one that waits.       *)
(***************************************************************************)
LEMMA LetGoMoves ==
  ASSUME GateInv, NEW h \in Helpers, helper[h] \in {"entered", "working"}, LetGo(h)
  PROVE  /\ helper'[h] = "over"
         /\ \A g \in Helpers \ {h} :
              helper'[g] = helper[g] \/ (helper[g] \in Early /\ helper'[g] \in Early)
<1>1. CASE waiters = <<>>
  BY <1>1 DEF GateInv, LetGo, ToHelper
<1>2. CASE waiters # <<>>
  <2>1. Head(waiters) \in Helpers /\ helper[Head(waiters)] = "waiting"
    BY <1>2 DEF GateInv
  <2> QED BY <1>2, <2>1 DEF GateInv, LetGo, Early
<1> QED BY <1>1, <1>2

(***************************************************************************)
(* The steps of the helpers and of their turn.                             *)
(***************************************************************************)
LEMMA TellHelpers ==
  ASSUME TellInv, NEW g \in Helpers, HelperStep(g)
  PROVE  TellInv'
<1> USE DEF TellInv
<1>0. GateInv'
  BY GateKept DEF SubagentNext
<1>1. agentTurn' = agentTurn /\ UNCHANGED threadVars
  BY DEF HelperStep, CallHelper, Resume, StartHelper, Progress, EndHelper
<1>2. helper[g] # "over"
  BY DEF HelperStep, CallHelper, Resume, StartHelper, Progress, EndHelper
<1>3. agentTurn = "on"
  <2>1. CASE helper[g] = "none"
    BY <2>1 DEF HelperStep, CallHelper, Resume, StartHelper, Progress, EndHelper
  <2> QED BY <1>2, <2>1
<1>4. ASSUME \A h \in Helpers : Place(h)',
             events' \in Seq([of : Helpers, status : Final \union {"running"}])
      PROVE  TellInv'
  BY <1>0, <1>1, <1>3, <1>4 DEF ReportTypes, threadVars
<1>5. Len(events) \in Nat /\ events \in Seq([of : Helpers, status : Final \union {"running"}])
  BY DEF ReportTypes
<1>6. CASE CallHelper(g) \/ Resume(g)
  <2>1. events' = events
    BY <1>6 DEF CallHelper, Resume
  <2>2. \A h \in Helpers :
          helper'[h] = helper[h] \/ (helper[h] \in Early /\ helper'[h] \in Early)
    BY <1>6 DEF CallHelper, Resume, ToHelper, Early, GateInv
  <2>3. \A h \in Helpers : Place(h)'
    BY <1>1, <2>1, <2>2, SameReports
  <2> QED BY <1>4, <1>5, <2>1, <2>3
<1>7. ASSUME StartHelper(g), ~stopped PROVE TellInv'
  <2>1. /\ helper[g] = "entered" /\ helper' = [helper EXCEPT ![g] = "working"]
        /\ events' = Append(events, Report(g, "running"))
    BY <1>7 DEF StartHelper, ToHelper
  <2>2. /\ events' \in Seq([of : Helpers, status : Final \union {"running"}])
        /\ Len(events') = Len(events) + 1
        /\ \A n \in 1..Len(events) : events'[n] = events[n]
        /\ events'[Len(events) + 1] = Report(g, "running")
    BY <1>5, <2>1 DEF Report
  <2>3. ASSUME NEW h \in Helpers \ {g} PROVE Place(h)'
    BY <1>1, <1>5, <2>1, <2>2, OthersKeep DEF Report, GateInv
  <2>4. Place(g)'
    <3>1. NotHeard(g) /\ helper'[g] = "working"
      BY <2>1 DEF Place, Early, GateInv
    <3>2. Working(g)'
      BY <1>1, <1>5, <2>2, <3>1
      DEF Working, NotHeard, Silent, Handled, Report, threadVars
    <3> QED BY <3>1, <3>2 DEF Place, Early
  <2> QED BY <1>4, <2>2, <2>3, <2>4
<1>8. ASSUME StartHelper(g), stopped PROVE TellInv'
  <2>1. /\ helper[g] = "entered" /\ LetGo(g)
        /\ events' = events \o <<Report(g, "running"), Report(g, "failed")>>
    BY <1>8 DEF StartHelper
  <2>2. /\ events' \in Seq([of : Helpers, status : Final \union {"running"}])
        /\ Len(events') = Len(events) + 2
        /\ \A n \in 1..Len(events) : events'[n] = events[n]
        /\ events'[Len(events) + 1] = Report(g, "running")
        /\ events'[Len(events) + 2] = Report(g, "failed")
    BY <1>5, <2>1 DEF Report, Final
  <2>3. ASSUME NEW h \in Helpers \ {g} PROVE Place(h)'
    <3>1. \A n \in (Len(events) + 1)..(Len(events) + 2) : events'[n].of # h
      BY <1>5, <2>2 DEF Report
    <3>2. helper'[h] = helper[h] \/ (helper[h] \in Early /\ helper'[h] \in Early)
      BY <2>1, LetGoMoves
    <3> QED BY <1>1, <2>2, <3>1, <3>2, OthersKeep
  <2>4. Place(g)'
    <3>1. NotHeard(g) /\ helper'[g] = "over"
      BY <2>1, LetGoMoves DEF Place, Early
    <3>2. PICK n \in 1..Len(events') : n = Len(events) + 2
      BY <1>5, <2>2
    <3>3. LastIs(g, n)'
      <4>1. events'[n].of = g /\ events'[n].status \in Final
        BY <2>2, <3>2 DEF Report, Final
      <4>2. ASSUME NEW m \in 1..Len(events'), events'[m].of = g, m # n
            PROVE  m < n /\ events'[m].status = "running"
        <5>1. m \in 1..Len(events) => events'[m].of # g
          BY <2>2, <3>1 DEF NotHeard, Silent
        <5>2. m = Len(events) + 1
          BY <1>5, <2>2, <3>2, <4>2, <5>1
        <5> QED BY <1>5, <2>2, <3>2, <5>2 DEF Report
      <4> QED BY <4>1, <4>2 DEF LastIs
    <3>4. Ending(g)'
      BY <1>1, <3>1, <3>3 DEF Ending, NotHeard, Handled, threadVars
    <3> QED BY <3>1, <3>4 DEF Place, Early
  <2> QED BY <1>4, <2>2, <2>3, <2>4
<1>9. CASE Progress(g)
  <2>1. /\ helper[g] = "working" /\ helper' = helper
        /\ events' = Append(events, Report(g, "running"))
    BY <1>9 DEF Progress
  <2>2. /\ events' \in Seq([of : Helpers, status : Final \union {"running"}])
        /\ Len(events') = Len(events) + 1
        /\ \A n \in 1..Len(events) : events'[n] = events[n]
        /\ events'[Len(events) + 1] = Report(g, "running")
    BY <1>5, <2>1 DEF Report
  <2>3. ASSUME NEW h \in Helpers \ {g} PROVE Place(h)'
    BY <1>1, <1>5, <2>1, <2>2, OthersKeep DEF Report
  <2>4. Place(g)'
    <3>1. Working(g)
      BY <2>1 DEF Place
    <3>2. Working(g)'
      BY <1>1, <1>5, <2>2, <3>1 DEF Working, Handled, Report, threadVars
    <3> QED BY <2>1, <3>2 DEF Place, Early
  <2> QED BY <1>4, <2>2, <2>3, <2>4
<1>10. CASE EndHelper(g)
  <2>1. PICK status \in Final : events' = Append(events, Report(g, status))
    BY <1>10 DEF EndHelper
  <2>2. /\ events' \in Seq([of : Helpers, status : Final \union {"running"}])
        /\ Len(events') = Len(events) + 1
        /\ \A n \in 1..Len(events) : events'[n] = events[n]
        /\ events'[Len(events) + 1] = Report(g, status)
    BY <1>5, <2>1 DEF Report
  <2>3. helper[g] = "working" /\ LetGo(g)
    BY <1>10 DEF EndHelper
  <2>4. ASSUME NEW h \in Helpers \ {g} PROVE Place(h)'
    BY <1>1, <1>5, <2>2, <2>3, LetGoMoves, OthersKeep DEF Report
  <2>5. Place(g)'
    <3>1. Working(g) /\ helper'[g] = "over"
      BY <2>3, LetGoMoves DEF Place
    <3>2. PICK n \in 1..Len(events') : n = Len(events) + 1
      BY <1>5, <2>2
    <3>3. LastIs(g, n)'
      BY <1>5, <2>2, <3>1, <3>2 DEF LastIs, Working, Report, Final
    <3>4. Ending(g)'
      BY <1>1, <3>1, <3>3 DEF Ending, Working, Handled, threadVars
    <3> QED BY <3>1, <3>4 DEF Place, Early
  <2> QED BY <1>4, <2>2, <2>4, <2>5
<1> QED BY <1>6, <1>7, <1>8, <1>9, <1>10 DEF HelperStep

(***************************************************************************)
(* The executor takes a report from the queue, or writes the message of the*)
(* last one.                                                               *)
(***************************************************************************)
LEMMA TellReports ==
  ASSUME TellInv, HandleReport
  PROVE  TellInv'
<1> USE DEF TellInv
<1>a. PICK first : first = Head(events)
  OBVIOUS
<1>0. GateInv'
  BY GateKept DEF SubagentNext
<1>1. /\ handling = NoReport /\ events # <<>>
      /\ events' = Tail(events) /\ card' = [card EXCEPT ![first.of] = first.status]
      /\ handling' = IF first.status \in Final THEN first ELSE NoReport
      /\ helper' = helper /\ agentTurn' = agentTurn /\ written' = written
  BY <1>a DEF HandleReport, PutCard
<1>2. /\ Len(events) \in Nat /\ 1 \in 1..Len(events) /\ first = events[1]
      /\ Tail(events) \in Seq([of : Helpers, status : Final \union {"running"}])
      /\ Len(events') = Len(events) - 1
      /\ \A n \in 1..Len(events') :
           n + 1 \in 1..Len(events) /\ events'[n] = events[n + 1]
  <2>1. events \in Seq([of : Helpers, status : Final \union {"running"}]) /\ events # <<>>
    BY <1>1 DEF ReportTypes
  <2>2. Len(events) \in Nat \ {0} /\ first = events[1]
    BY <1>a, <2>1
  <2>3. /\ Tail(events) \in Seq([of : Helpers, status : Final \union {"running"}])
        /\ Len(Tail(events)) = Len(events) - 1
        /\ \A n \in 1..Len(Tail(events)) : Tail(events)[n] = events[n + 1]
    BY <2>1
  <2> QED BY <1>1, <2>2, <2>3
<1>b. first \in [of : Helpers, status : Final \union {"running"}]
  <2> DEFINE S == [of : Helpers, status : Final \union {"running"}]
  <2>1. events \in Seq(S)
    BY DEF ReportTypes
  <2> HIDE DEF S
  <2>2. events[1] \in S
    BY <1>2, <2>1
  <2> QED BY <1>2, <2>2 DEF S
<1>3. ReportTypes'
  BY <1>1, <1>b, <1>2 DEF ReportTypes
<1>4. \A h \in Helpers : ~Handled(h)
  BY <1>1 DEF Handled
<1>5. ASSUME NEW h \in Helpers \ {first.of} PROVE Place(h)'
  <2>1. card'[h] = card[h] /\ ~Handled(h)'
    BY <1>1, <1>b, <1>2 DEF ReportTypes, Handled
  <2>2. Silent(h) => Silent(h)'
    BY <1>1, <1>b, <1>2 DEF Silent
  <2>3. Working(h) => Working(h)'
    BY <1>1, <1>b, <1>2, <2>1 DEF Working
  <2>4. ASSUME Ending(h) PROVE Ending(h)'
    <3>1. PICK n \in 1..Len(events) : LastIs(h, n)
      BY <2>4 DEF Ending
    <3>2. n # 1
      BY <1>2, <3>1 DEF LastIs
    <3>3. n - 1 \in 1..Len(events') /\ events'[n - 1] = events[n]
      BY <1>1, <1>b, <1>2, <3>2
    <3>4. ASSUME NEW m \in 1..Len(events'), events'[m].of = h, m # n - 1
          PROVE  m < n - 1 /\ events'[m].status = "running"
      <4>1. m + 1 \in 1..Len(events) /\ events'[m] = events[m + 1] /\ m + 1 # n
        BY <1>1, <1>b, <1>2, <3>4
      <4>2. m + 1 < n /\ events[m + 1].status = "running"
        BY <3>1, <3>4, <4>1 DEF LastIs
      <4> QED BY <4>1, <4>2
    <3>5. LastIs(h, n - 1)'
      BY <3>1, <3>3, <3>4 DEF LastIs
    <3> QED BY <1>1, <2>1, <2>4, <3>3, <3>5 DEF Ending
  <2> QED BY <1>1, <1>4, <2>1, <2>2, <2>3, <2>4 DEF Place, NotHeard, Writing, Told, Early
<1>6. Place(first.of)'
  <2>0. PICK h : h = first.of
    OBVIOUS
  <2>1. h \in Helpers /\ events[1].of = h /\ ~Silent(h)
    BY <2>0, <1>b, <1>2 DEF Silent
  <2>2. helper[h] \in {"working", "over"}
    BY <2>1 DEF GateInv, Place, NotHeard, Early
  <2>3. ASSUME helper[h] = "working" PROVE Place(h)'
    <3>1. Working(h) /\ first.status = "running"
      BY <1>2, <2>1, <2>3 DEF Place, Working
    <3>2. handling' = NoReport
      BY <1>1, <3>1 DEF Final
    <3>3. Working(h)'
      BY <1>1, <1>b, <1>2, <3>1, <3>2 DEF Working, Handled
    <3> QED BY <1>1, <2>3, <3>3 DEF Place, Early
  <2>4. ASSUME helper[h] = "over" PROVE Place(h)'
    <3>1. Ending(h)
      BY <2>1, <2>4 DEF Place, Writing, Told
    <3>2. PICK n \in 1..Len(events) : LastIs(h, n)
      BY <3>1 DEF Ending
    <3>3. CASE n = 1
      <4>1. handling' = first /\ first # NoReport
        BY <1>1, <1>b, <1>2, <3>2, <3>3 DEF LastIs, NoReport, Final
      <4>2. Silent(h)'
        <5> SUFFICES ASSUME NEW m \in 1..Len(events'), events'[m].of = h PROVE FALSE
          BY DEF Silent
        <5>1. m + 1 \in 1..Len(events) /\ events[m + 1].of = h /\ m + 1 # 1 /\ m \in Nat
          BY <1>1, <1>b, <1>2
        <5> QED BY <3>2, <3>3, <5>1 DEF LastIs
      <4>3. Handled(h)' /\ written'[h] = 0
        BY <2>0, <1>1, <3>1, <4>1 DEF Handled, Ending
      <4> QED BY <1>1, <2>4, <4>2, <4>3 DEF Place, Writing, Early
    <3>4. CASE n # 1
      <4>1. first.status = "running"
        BY <1>2, <2>1, <3>2, <3>4 DEF LastIs
      <4>2. handling' = NoReport
        BY <1>1, <4>1 DEF Final
      <4>3. n - 1 \in 1..Len(events') /\ events'[n - 1] = events[n]
        BY <1>1, <1>b, <1>2, <3>4
      <4>4. ASSUME NEW m \in 1..Len(events'), events'[m].of = h, m # n - 1
            PROVE  m < n - 1 /\ events'[m].status = "running"
        <5>1. m + 1 \in 1..Len(events) /\ events'[m] = events[m + 1] /\ m + 1 # n
          BY <1>1, <1>b, <1>2, <4>4
        <5>2. m + 1 < n /\ events[m + 1].status = "running"
          BY <3>2, <4>4, <5>1 DEF LastIs
        <5> QED BY <5>1, <5>2
      <4>5. LastIs(h, n - 1)'
        BY <3>2, <4>3, <4>4 DEF LastIs
      <4>6. Ending(h)'
        BY <1>1, <3>1, <4>2, <4>3, <4>5 DEF Ending, Handled
      <4> QED BY <1>1, <2>4, <4>6 DEF Place, Early
    <3> QED BY <3>3, <3>4
  <2>5. Place(h)'
    BY <2>2, <2>3, <2>4
  <2> QED BY <2>0, <2>5
<1>7. \A h \in Helpers : Place(h)'
  BY <1>5, <1>6
<1> QED BY <1>0, <1>1, <1>3, <1>7

LEMMA TellWrites ==
  ASSUME TellInv, WriteHelper
  PROVE  TellInv'
<1> USE DEF TellInv
<1>a. PICK h : h = handling.of
  OBVIOUS
<1>0. GateInv'
  BY GateKept DEF SubagentNext
<1>1. /\ handling # NoReport /\ handling' = NoReport
      /\ written' = [written EXCEPT ![h] = written[h] + 1]
      /\ card' = [card EXCEPT ![h] = "none"]
      /\ events' = events /\ helper' = helper /\ agentTurn' = agentTurn
  BY <1>a DEF WriteHelper, ReplaceCard
<1>2. h \in Helpers /\ Handled(h)
  BY <1>a, <1>1 DEF ReportTypes, Handled
<1>3. ReportTypes'
  BY <1>1, <1>2 DEF ReportTypes
<1>4. \A g \in Helpers : ~Handled(g)'
  BY <1>1 DEF Handled
<1>5. Writing(h)
  BY <1>2 DEF Place, GateInv, NotHeard, Working, Ending, Told, Early
<1>6. Told(h)'
  BY <1>1, <1>2, <1>4, <1>5 DEF Told, Writing, Silent, ReportTypes
<1>7. helper[h] = "over"
  BY <1>2 DEF Place, GateInv, NotHeard, Working, Early
<1>8. Place(h)'
  BY <1>1, <1>6, <1>7 DEF Place, Early
<1>9. ASSUME NEW g \in Helpers \ {h} PROVE Place(g)'
  <2>1. card'[g] = card[g] /\ written'[g] = written[g] /\ ~Handled(g)
    BY <1>1, <1>2 DEF ReportTypes, Handled
  <2>2. /\ Silent(g)' = Silent(g)
        /\ \A n \in 1..Len(events) : LastIs(g, n)' = LastIs(g, n)
    BY <1>1 DEF Silent, LastIs
  <2> QED BY <1>1, <1>4, <2>1, <2>2 DEF Place, NotHeard, Working, Ending, Writing, Told, Early
<1>10. \A g \in Helpers : Place(g)'
  BY <1>8, <1>9
<1> QED BY <1>0, <1>1, <1>3, <1>10

LEMMA TellKept == TellInv /\ [SubagentNext]_subagentVars => TellInv'
<1> SUFFICES ASSUME TellInv, [SubagentNext]_subagentVars PROVE TellInv'
  OBVIOUS
<1>1. ASSUME UNCHANGED <<helper, gateVars, events, threadVars>>,
             \/ agentTurn' = agentTurn
             \/ /\ agentTurn' = "closed"
                /\ \A h \in Helpers : helper[h] \in {"none", "over"}
      PROVE  TellInv'
  <2>1. GateInv'
    BY <1>1 DEF TellInv, GateInv, gateVars, Entered, NoIdlePlace
  <2>2. \A h \in Helpers : Place(h)'
    BY <1>1, SameReports DEF TellInv
  <2> QED BY <1>1, <2>1, <2>2 DEF TellInv, ReportTypes, threadVars
<1>2. CASE Abort \/ CloseTurn \/ UNCHANGED subagentVars
  BY <1>1, <1>2 DEF Abort, CloseTurn, subagentVars
<1> QED BY <1>2, TellHelpers, TellReports, TellWrites DEF SubagentNext

LEMMA TellInit == SubagentInit => TellInv
<1> SUFFICES ASSUME SubagentInit PROVE TellInv
  OBVIOUS
<1>1. Entered = {}
  BY DEF SubagentInit, Entered
<1>2. GateInv
  BY <1>1, FS_EmptySet DEF SubagentInit, GateInv, NoIdlePlace
<1> QED BY <1>2
  DEF SubagentInit, TellInv, ReportTypes, Place, Early, NotHeard, Silent, Handled, Final

(***************************************************************************)
(* The gate and the reports, for every number of helpers and of places.    *)
(***************************************************************************)
LEMMA TellSaysAll == TellInv => NoIdlePlace /\ HelpersAreTold
<1> SUFFICES ASSUME TellInv PROVE NoIdlePlace /\ HelpersAreTold
  OBVIOUS
<1>1. ASSUME agentTurn = "closed", events = <<>>, handling = NoReport, NEW h \in Helpers
      PROVE  card[h] = "none" /\ written[h] = IF helper[h] = "over" THEN 1 ELSE 0
  <2>1. ~Handled(h) /\ ~Ending(h)
    BY <1>1 DEF Handled, Ending
  <2> QED BY <1>1, <2>1 DEF TellInv, Place, Early, NotHeard, Writing, Told
<1> QED BY <1>1 DEF HelpersAreTold, TellInv, GateInv

-----------------------------------------------------------------------------
(* Peers: what the effect rows of a run let it do. *)

CallRecords ==
  [at : {"idle", "count", "hop", "post", "wake", "react", "spawned", "delete"},
   kind : {"send", "team", "react", "spawn", "delete"},
   run : RunIds, targets : SUBSET Bots, to : Bots \union {NoBot}, hop : Nat]

PeerTypes ==
  /\ bots \subseteq Bots
  /\ runs \in [RunIds -> [state : {"absent", "live", "over"},
                          bot : Bots \union {NoBot}, hop : Nat]]
  /\ sends \in [RunIds -> Nat] /\ reacts \in [RunIds -> Nat]
  /\ woken \in [RunIds -> Nat] /\ reacted \in [RunIds -> Nat]
  /\ call \in [CallSlots -> CallRecords]

\* Calls of a run that count its rows or have counted them, and of these the ones
\* that were within the budget.
Sending(i) == {k \in CallSlots : /\ call[k].run = i /\ call[k].kind = "send"
                                 /\ call[k].at \in {"count", "hop", "post", "wake"}}
SendsDue(i) == {k \in Sending(i) : call[k].at # "count"}
Reacting(i) == {k \in CallSlots : /\ call[k].run = i /\ call[k].kind = "react"
                                  /\ call[k].at \in {"count", "react"}}
ReactsDue(i) == {k \in Reacting(i) : call[k].at # "count"}

(***************************************************************************)
(* Every call that may still wake a run, and every run that one woke, has a*)
(* row of its own; those that were within the budget fit into it.          *)
(***************************************************************************)
PeerBudget(i) ==
  /\ woken[i] + Cardinality(Sending(i)) <= sends[i]
  /\ woken[i] + Cardinality(SendsDue(i)) <= MaxSends
  /\ reacted[i] + Cardinality(Reacting(i)) <= reacts[i]
  /\ reacted[i] + Cardinality(ReactsDue(i)) <= MaxReactions

CallShape(k) ==
  /\ call[k].at = "react" => call[k].kind = "react"
  /\ call[k].at \in {"hop", "post", "wake"} => call[k].kind \in {"send", "team"}
  /\ call[k].at \in {"post", "wake"} => call[k].hop < MaxHops
  /\ call[k].kind = "send" /\ call[k].at \in {"count", "hop", "post"}
       => \E b \in Bots : call[k].targets = {b}
  /\ call[k].kind = "send" /\ call[k].at = "wake" => call[k].targets = {}

PeerInv ==
  /\ PeerTypes
  /\ \A i \in RunIds : PeerBudget(i)
  /\ \A k \in CallSlots : CallShape(k)
  /\ HopsBounded

LEMMA SlotsCounted ==
  ASSUME NEW S \in SUBSET CallSlots
  PROVE  IsFiniteSet(S) /\ Cardinality(S) \in Nat
BY FS_Subset, FS_CardinalityType, PeerConstants

LEMMA NoMoreSlots ==
  ASSUME NEW S \in SUBSET CallSlots, NEW T \in SUBSET S
  PROVE  Cardinality(T) <= Cardinality(S)
BY FS_Subset, SlotsCounted

LEMMA OneSlotLess ==
  ASSUME NEW S \in SUBSET CallSlots, NEW k \in S, NEW T \in SUBSET (S \ {k})
  PROVE  Cardinality(T) + 1 <= Cardinality(S)
<1>1. Cardinality(S \ {k}) = Cardinality(S) - 1
  BY SlotsCounted, OneLess
<1>2. Cardinality(T) <= Cardinality(S \ {k})
  BY NoMoreSlots
<1> QED BY <1>1, <1>2, SlotsCounted

LEMMA OneSlotMore ==
  ASSUME NEW S \in SUBSET CallSlots, NEW k \in CallSlots, NEW T \in SUBSET (S \union {k})
  PROVE  Cardinality(T) <= Cardinality(S) + 1
<1>1. CASE k \in S
  <2>1. Cardinality(T) <= Cardinality(S)
    BY <1>1, NoMoreSlots
  <2> QED BY <2>1, SlotsCounted
<1>2. CASE k \notin S
  <2>1. Cardinality(S \union {k}) = Cardinality(S) + 1
    BY <1>2, SlotsCounted, OneMore
  <2>2. Cardinality(T) <= Cardinality(S \union {k})
    BY NoMoreSlots
  <2> QED BY <2>1, <2>2
<1> QED BY <1>1, <1>2

LEMMA CallsCounted ==
  ASSUME NEW i
  PROVE  /\ Sending(i) \in SUBSET CallSlots /\ SendsDue(i) \in SUBSET Sending(i)
         /\ Reacting(i) \in SUBSET CallSlots /\ ReactsDue(i) \in SUBSET Reacting(i)
         /\ Cardinality(Sending(i)) \in Nat /\ Cardinality(SendsDue(i)) \in Nat
         /\ Cardinality(Reacting(i)) \in Nat /\ Cardinality(ReactsDue(i)) \in Nat
<1>1. /\ Sending(i) \in SUBSET CallSlots /\ SendsDue(i) \in SUBSET Sending(i)
      /\ Reacting(i) \in SUBSET CallSlots /\ ReactsDue(i) \in SUBSET Reacting(i)
  BY DEF Sending, SendsDue, Reacting, ReactsDue
<1> QED BY <1>1, SlotsCounted

(***************************************************************************)
(* A slot in which no call of a run begins to count, passes its count, or  *)
(* does what it was let to.                                                *)
(***************************************************************************)
QuietSlot(k, i) ==
  \/ call'[k] = call[k]
  \/ call'[k].at \in {"idle", "spawned", "delete"}
  \/ call'[k].kind = "team" \/ call'[k].run # i
  \/ /\ call'[k].run = call[k].run /\ call'[k].kind = call[k].kind
     /\ call[k].at \in {"hop", "post", "wake"} /\ call'[k].at \in {"hop", "post", "wake"}

LEMMA QuietSets ==
  ASSUME NEW i, NEW K \in SUBSET CallSlots, \A k \in CallSlots \ K : QuietSlot(k, i)
  PROVE  /\ Sending(i)' \subseteq Sending(i) \union K
         /\ SendsDue(i)' \subseteq SendsDue(i) \union K
         /\ Reacting(i)' \subseteq Reacting(i) \union K
         /\ ReactsDue(i)' \subseteq ReactsDue(i) \union K
BY DEF Sending, SendsDue, Reacting, ReactsDue, QuietSlot

LEMMA QuietBudget ==
  ASSUME PeerTypes, PeerTypes', NEW i \in RunIds, PeerBudget(i),
         \A k \in CallSlots : QuietSlot(k, i),
         woken'[i] = woken[i], reacted'[i] = reacted[i],
         sends'[i] >= sends[i], reacts'[i] >= reacts[i]
  PROVE  PeerBudget(i)'
<1>1. /\ Sending(i)' \in SUBSET Sending(i) /\ SendsDue(i)' \in SUBSET SendsDue(i)
      /\ Reacting(i)' \in SUBSET Reacting(i) /\ ReactsDue(i)' \in SUBSET ReactsDue(i)
  BY QuietSets, {} \in SUBSET CallSlots
<1>2. /\ Cardinality(Sending(i)') <= Cardinality(Sending(i))
      /\ Cardinality(SendsDue(i)') <= Cardinality(SendsDue(i))
      /\ Cardinality(Reacting(i)') <= Cardinality(Reacting(i))
      /\ Cardinality(ReactsDue(i)') <= Cardinality(ReactsDue(i))
  BY <1>1, CallsCounted, NoMoreSlots
<1>3. /\ Cardinality(Sending(i)') \in Nat /\ Cardinality(SendsDue(i)') \in Nat
      /\ Cardinality(Reacting(i)') \in Nat /\ Cardinality(ReactsDue(i)') \in Nat
      /\ Cardinality(Sending(i)) \in Nat /\ Cardinality(SendsDue(i)) \in Nat
      /\ Cardinality(Reacting(i)) \in Nat /\ Cardinality(ReactsDue(i)) \in Nat
  BY <1>1, CallsCounted, SlotsCounted
<1>4. /\ woken[i] \in Nat /\ reacted[i] \in Nat
      /\ sends[i] \in Nat /\ reacts[i] \in Nat /\ sends'[i] \in Nat /\ reacts'[i] \in Nat
  BY DEF PeerTypes
<1> QED BY <1>2, <1>3, <1>4, PeerConstants DEF PeerBudget

(***************************************************************************)
(* The tables and the slots after each step.                               *)
(***************************************************************************)
\* A step that changes slot k, and no count that the budgets are about.
LEMMA SlotStep ==
  ASSUME PeerInv, PeerTypes', NEW k \in CallSlots,
         \A j \in CallSlots \ {k} : call'[j] = call[j],
         \A i \in RunIds : QuietSlot(k, i),
         UNCHANGED <<woken, reacted, sends, reacts>>, HopsBounded', CallShape(k)'
  PROVE  PeerInv'
<1>1. \A i \in RunIds : \A j \in CallSlots : QuietSlot(j, i)
  BY DEF QuietSlot
<1>2. \A i \in RunIds : PeerBudget(i)'
  <2> SUFFICES ASSUME NEW i \in RunIds PROVE PeerBudget(i)'
    OBVIOUS
  <2>1. sends'[i] >= sends[i] /\ reacts'[i] >= reacts[i]
    BY DEF PeerInv, PeerTypes
  <2> QED BY <1>1, <2>1, QuietBudget DEF PeerInv
<1>3. \A j \in CallSlots : CallShape(j)'
  BY DEF PeerInv, CallShape
<1> QED BY <1>2, <1>3 DEF PeerInv

\* A step of the bots or the runs, which may give a run more rows.
LEMMA NoSlotStep ==
  ASSUME PeerInv, PeerTypes', UNCHANGED <<call, woken, reacted, sends, reacts>>, HopsBounded'
  PROVE  PeerInv'
<1>1. \A i \in RunIds : \A j \in CallSlots : QuietSlot(j, i)
  BY DEF QuietSlot
<1>2. \A i \in RunIds : PeerBudget(i)'
  <2> SUFFICES ASSUME NEW i \in RunIds PROVE PeerBudget(i)'
    OBVIOUS
  <2>1. sends'[i] >= sends[i] /\ reacts'[i] >= reacts[i]
    BY DEF PeerInv, PeerTypes
  <2> QED BY <1>1, <2>1, QuietBudget DEF PeerInv
<1>3. \A j \in CallSlots : CallShape(j)'
  BY DEF PeerInv, CallShape
<1> QED BY <1>2, <1>3 DEF PeerInv

LEMMA CreatesRun ==
  ASSUME PeerInv, NEW b, NEW hop \in Nat, hop <= MaxHops, CreateRun(b, hop)
  PROVE  /\ runs' \in [RunIds -> [state : {"absent", "live", "over"},
                                  bot : Bots \union {NoBot}, hop : Nat]]
         /\ HopsBounded'
BY DEF PeerInv, PeerTypes, CreateRun, HopsBounded, Free

LEMMA IdleCall == Idle \in CallRecords
BY PeerConstants DEF Idle, CallRecords, RunIds

\* A call that ends leaves its slot idle.
LEMMA SlotReturns ==
  ASSUME PeerInv, PeerTypes', NEW k \in CallSlots, Return(k),
         UNCHANGED <<woken, reacted, sends, reacts>>, HopsBounded'
  PROVE  PeerInv'
<1>1. call'[k] = Idle /\ \A j \in CallSlots \ {k} : call'[j] = call[j]
  BY DEF Return, PeerInv, PeerTypes
<1>2. (\A i \in RunIds : QuietSlot(k, i)) /\ CallShape(k)'
  BY <1>1 DEF Idle, QuietSlot, CallShape
<1> QED BY <1>1, <1>2, SlotStep

LEMMA ReturnTypes ==
  ASSUME PeerTypes, NEW k \in CallSlots, Return(k)
  PROVE  call' \in [CallSlots -> CallRecords]
BY IdleCall DEF PeerTypes, Return

LEMMA RowsOnly ==
  ASSUME PeerInv, NEW A \in SUBSET Bots,
         bots' \in {bots, bots \union A, bots \ A}
  PROVE  bots' \subseteq Bots
BY DEF PeerInv, PeerTypes

(***************************************************************************)
(* The steps of bots and runs.                                             *)
(***************************************************************************)
LEMMA PeerBots ==
  ASSUME PeerInv, NEW b \in Bots, BotStep(b)
  PROVE  PeerInv'
<1>1. UNCHANGED countVars /\ bots' \subseteq Bots
  BY DEF BotStep, Prompt, BeginDestroy, DestroyMachine, DeleteRow, DeleteFails, botVars,
         PeerInv, PeerTypes
<1>2. /\ runs' \in [RunIds -> [state : {"absent", "live", "over"},
                               bot : Bots \union {NoBot}, hop : Nat]]
      /\ HopsBounded'
  <2>1. CASE Prompt(b)
    BY <2>1, CreatesRun, PeerConstants DEF Prompt
  <2>2. CASE CancelRuns(b)
    BY <2>2 DEF PeerInv, PeerTypes, CancelRuns, HopsBounded
  <2>3. CASE runs' = runs
    BY <2>3 DEF PeerInv, PeerTypes, HopsBounded
  <2> QED BY <2>1, <2>2, <2>3
    DEF BotStep, BeginDestroy, DestroyMachine, DeleteRow, DeleteFails
<1>3. CASE call' = call
  <2>1. PeerTypes'
    BY <1>1, <1>2, <1>3 DEF PeerInv, PeerTypes, countVars
  <2> QED BY <1>1, <1>2, <1>3, <2>1, NoSlotStep DEF countVars
<1>4. ASSUME NEW k \in CallSlots, Return(k) PROVE PeerInv'
  <2>1. PeerTypes'
    BY <1>1, <1>2, <1>4, ReturnTypes DEF PeerInv, PeerTypes, countVars
  <2> QED BY <1>1, <1>2, <1>4, <2>1, SlotReturns DEF countVars
<1> QED BY <1>3, <1>4
  DEF BotStep, Prompt, BeginDestroy, DestroyMachine, DeleteRow, DeleteFails

LEMMA PeerRuns ==
  ASSUME PeerInv, NEW i \in RunIds, AnswerPrompt(i) \/ EndRun(i)
  PROVE  PeerInv'
<1>1. UNCHANGED <<bots, countVars, call>>
  BY DEF AnswerPrompt, EndRun, botVars
<1>2. /\ runs' \in [RunIds -> [state : {"absent", "live", "over"},
                               bot : Bots \union {NoBot}, hop : Nat]]
      /\ HopsBounded'
  <2>1. CASE AnswerPrompt(i)
    <3>1. \A j \in RunIds : runs'[j] = IF j = i THEN [runs[i] EXCEPT !.hop = 0] ELSE runs[j]
      BY <2>1 DEF AnswerPrompt, PeerInv, PeerTypes
    <3> QED BY <2>1, <3>1, PeerConstants DEF AnswerPrompt, PeerInv, PeerTypes, HopsBounded
  <2>2. CASE EndRun(i)
    BY <2>2 DEF EndRun, PeerInv, PeerTypes, HopsBounded
  <2> QED BY <2>1, <2>2
<1>3. PeerTypes'
  BY <1>1, <1>2 DEF PeerInv, PeerTypes, countVars
<1> QED BY <1>1, <1>2, <1>3, NoSlotStep DEF countVars

(***************************************************************************)
(* The calls that need no budget, or are not let through.                  *)
(***************************************************************************)
LEMMA CallRest ==
  ASSUME PeerInv, NEW k \in CallSlots, CheckHop(k) \/ Post(k) \/ Fail(k) \/ StartSpawned(k)
  PROVE  PeerInv'
<1>1. UNCHANGED <<bots, countVars>>
  BY DEF CheckHop, Post, Fail, StartSpawned, botVars
<1>2. /\ runs' \in [RunIds -> [state : {"absent", "live", "over"},
                               bot : Bots \union {NoBot}, hop : Nat]]
      /\ HopsBounded'
  <2>1. CASE runs' = runs
    BY <2>1 DEF PeerInv, PeerTypes, HopsBounded
  <2>2. CASE StartSpawned(k)
    BY <2>1, <2>2, CreatesRun, PeerConstants DEF StartSpawned
  <2> QED BY <2>1, <2>2 DEF CheckHop, Post, Fail
<1>3. ASSUME Return(k) PROVE PeerInv'
  <2>1. PeerTypes'
    BY <1>1, <1>2, <1>3, ReturnTypes DEF PeerInv, PeerTypes, countVars
  <2> QED BY <1>1, <1>2, <1>3, <2>1, SlotReturns DEF countVars
<1>4. call[k] \in CallRecords /\ CallShape(k)
  BY DEF PeerInv, PeerTypes
<1>5. ASSUME NEW c \in CallRecords, call' = [call EXCEPT ![k] = c],
             c.run = call[k].run, c.kind = call[k].kind,
             call[k].at \in {"hop", "post", "wake"}, c.at \in {"hop", "post", "wake"},
             CallShape(k)'
      PROVE  PeerInv'
  <2>1. /\ call' \in [CallSlots -> CallRecords] /\ call'[k] = c
        /\ \A j \in CallSlots \ {k} : call'[j] = call[j]
    BY <1>5 DEF PeerInv, PeerTypes
  <2>2. PeerTypes'
    BY <1>1, <1>2, <2>1 DEF PeerInv, PeerTypes, countVars
  <2>3. \A i \in RunIds : QuietSlot(k, i)
    BY <1>5, <2>1 DEF QuietSlot
  <2> QED BY <1>1, <1>2, <1>5, <2>1, <2>2, <2>3, SlotStep DEF countVars
<1>6. CASE CheckHop(k)
  <2>1. CASE HopOf(call[k].run) < MaxHops
    <3> DEFINE c == [call[k] EXCEPT !.at = "post", !.hop = HopOf(call[k].run)]
    <3>1. call[k].at = "hop" /\ call' = [call EXCEPT ![k] = c]
      BY <1>6, <2>1 DEF CheckHop
    <3>2. HopOf(call[k].run) \in Nat
      BY <1>4 DEF HopOf, PeerInv, PeerTypes, CallRecords
    <3>3. /\ c \in CallRecords /\ c.run = call[k].run /\ c.kind = call[k].kind
          /\ c.at = "post" /\ c.hop = HopOf(call[k].run) /\ c.targets = call[k].targets
      BY <1>4, <3>2 DEF CallRecords
    <3>4. call'[k] = c
      BY <3>1 DEF PeerInv, PeerTypes
    <3>5. CallShape(k)'
      BY <1>4, <2>1, <3>1, <3>3, <3>4 DEF CallShape
    <3> HIDE DEF c
    <3> QED BY <1>5, <3>1, <3>3, <3>5
  <2>2. CASE ~(HopOf(call[k].run) < MaxHops)
    BY <1>3, <1>6, <2>2 DEF CheckHop
  <2> QED BY <2>1, <2>2
<1>7. CASE Post(k)
  <2>1. PICK b \in call[k].targets :
          IF b \in Targets(call[k].run)
          THEN call' = [call EXCEPT ![k].at = "wake", ![k].to = b, ![k].targets = @ \ {b}]
          ELSE Return(k)
    BY <1>7 DEF Post
  <2>2. CASE b \in Targets(call[k].run)
    <3> DEFINE c == [call[k] EXCEPT !.at = "wake", !.to = b, !.targets = @ \ {b}]
    <3>1. call[k].at = "post" /\ call' = [call EXCEPT ![k] = c]
      BY <1>7, <2>1, <2>2 DEF Post
    <3>2. /\ c \in CallRecords /\ c.run = call[k].run /\ c.kind = call[k].kind
          /\ c.at = "wake" /\ c.hop = call[k].hop /\ c.targets = call[k].targets \ {b}
      BY <1>4 DEF CallRecords
    <3>3. call'[k] = c
      BY <3>1 DEF PeerInv, PeerTypes
    <3>4. CallShape(k)'
      BY <1>4, <3>1, <3>2, <3>3 DEF CallShape
    <3> HIDE DEF c
    <3> QED BY <1>5, <3>1, <3>2, <3>4
  <2>3. CASE b \notin Targets(call[k].run)
    BY <1>3, <2>1, <2>3
  <2> QED BY <2>2, <2>3
<1>8. CASE Fail(k) \/ StartSpawned(k)
  BY <1>3, <1>8 DEF Fail, StartSpawned
<1> QED BY <1>6, <1>7, <1>8

(***************************************************************************)
(* The calls that a budget is about.                                       *)
(***************************************************************************)
\* Of the runs, only the one whose call slot k holds may notice.
LEMMA BudgetStep ==
  ASSUME PeerInv, PeerTypes', NEW k \in CallSlots, NEW i \in RunIds,
         \A j \in CallSlots \ {k} : call'[j] = call[j],
         \A r \in RunIds \ {i} :
           /\ QuietSlot(k, r)
           /\ woken'[r] = woken[r] /\ reacted'[r] = reacted[r]
           /\ sends'[r] = sends[r] /\ reacts'[r] = reacts[r],
         PeerBudget(i)', HopsBounded', CallShape(k)'
  PROVE  PeerInv'
<1>1. \A r \in RunIds \ {i} : \A j \in CallSlots : QuietSlot(j, r)
  BY DEF QuietSlot
<1>2. ASSUME NEW r \in RunIds \ {i} PROVE PeerBudget(r)'
  <2>1. /\ sends'[r] >= sends[r] /\ reacts'[r] >= reacts[r]
        /\ woken'[r] = woken[r] /\ reacted'[r] = reacted[r]
    BY DEF PeerInv, PeerTypes
  <2> QED BY <1>1, <2>1, QuietBudget DEF PeerInv
<1>3. \A j \in CallSlots : CallShape(j)'
  BY DEF PeerInv, CallShape
<1> QED BY <1>2, <1>3 DEF PeerInv

\* The counts of one run, and how the calls of its slots may have changed.
LEMMA CallsNow ==
  ASSUME PeerInv, PeerTypes', NEW i \in RunIds
  PROVE  /\ woken[i] \in Nat /\ reacted[i] \in Nat /\ sends[i] \in Nat /\ reacts[i] \in Nat
         /\ MaxSends \in Nat /\ MaxReactions \in Nat
         /\ Cardinality(Sending(i)) \in Nat /\ Cardinality(SendsDue(i)) \in Nat
         /\ Cardinality(Reacting(i)) \in Nat /\ Cardinality(ReactsDue(i)) \in Nat
         /\ Cardinality(Sending(i)') \in Nat /\ Cardinality(SendsDue(i)') \in Nat
         /\ Cardinality(Reacting(i)') \in Nat /\ Cardinality(ReactsDue(i)') \in Nat
         /\ PeerBudget(i)
<1>1. /\ Sending(i)' \in SUBSET CallSlots /\ SendsDue(i)' \in SUBSET CallSlots
      /\ Reacting(i)' \in SUBSET CallSlots /\ ReactsDue(i)' \in SUBSET CallSlots
  BY DEF Sending, SendsDue, Reacting, ReactsDue
<1> QED BY <1>1, SlotsCounted, CallsCounted, PeerConstants DEF PeerInv, PeerTypes

\* Of the slots that are counted only k comes or goes.
OneSlot(k, S, T) ==
  /\ Cardinality(T) <= Cardinality(S) + 1
  /\ k \notin T => Cardinality(T) <= Cardinality(S)
  /\ k \in S => Cardinality(T) <= Cardinality(S)
  /\ k \in S /\ k \notin T => Cardinality(T) + 1 <= Cardinality(S)

LEMMA SlotIn ==
  ASSUME NEW k \in CallSlots, NEW i \in RunIds,
         \A j \in CallSlots \ {k} : call'[j] = call[j]
  PROVE  /\ OneSlot(k, Sending(i), Sending(i)')
         /\ OneSlot(k, SendsDue(i), SendsDue(i)')
         /\ OneSlot(k, Reacting(i), Reacting(i)')
         /\ OneSlot(k, ReactsDue(i), ReactsDue(i)')
<1>0. /\ Sending(i) \in SUBSET CallSlots /\ SendsDue(i) \in SUBSET CallSlots
      /\ Reacting(i) \in SUBSET CallSlots /\ ReactsDue(i) \in SUBSET CallSlots
  BY DEF Sending, SendsDue, Reacting, ReactsDue
<1>1. /\ Sending(i)' \in SUBSET (Sending(i) \union {k})
      /\ SendsDue(i)' \in SUBSET (SendsDue(i) \union {k})
      /\ Reacting(i)' \in SUBSET (Reacting(i) \union {k})
      /\ ReactsDue(i)' \in SUBSET (ReactsDue(i) \union {k})
  BY DEF Sending, SendsDue, Reacting, ReactsDue
<1>2. ASSUME NEW S \in SUBSET CallSlots, NEW T \in SUBSET (S \union {k})
      PROVE  OneSlot(k, S, T)
  <2>1. Cardinality(T) <= Cardinality(S) + 1
    BY OneSlotMore
  <2>2. ASSUME T \subseteq S PROVE Cardinality(T) <= Cardinality(S)
    BY <2>2, NoMoreSlots
  <2>3. ASSUME k \in S, k \notin T PROVE Cardinality(T) + 1 <= Cardinality(S)
    <3>1. T \in SUBSET (S \ {k})
      BY <2>3
    <3> QED BY <2>3, <3>1, OneSlotLess
  <2>4. (k \notin T => T \subseteq S) /\ (k \in S => T \subseteq S)
    OBVIOUS
  <2> QED BY <2>1, <2>2, <2>3, <2>4 DEF OneSlot
<1> QED BY <1>0, <1>1, <1>2

\* A call enters the slot k of run i.
LEMMA CallEnters ==
  ASSUME PeerInv, NEW k \in CallSlots, NEW i \in RunIds,
         Call(k, i) \/ Spawn(k, i) \/ DeleteSpawned(k, i)
  PROVE  PeerInv'
<1>1. /\ UNCHANGED <<runs, woken, reacted>> /\ bots' \subseteq Bots /\ call[k].at = "idle"
      /\ HopsBounded'
  BY DEF Call, Spawn, DeleteSpawned, Begins, botVars, PeerInv, PeerTypes, HopsBounded
<1>2. ASSUME NEW c \in CallRecords, c.run = i, call' = [call EXCEPT ![k] = c],
             \/ c.at = "count"
             \/ c.at \in {"spawned", "delete"} /\ c.kind \in {"spawn", "delete"},
             c.kind = "send" => \E b \in Bots : c.targets = {b},
             sends' = IF c.kind = "send" THEN [sends EXCEPT ![i] = sends[i] + 1] ELSE sends,
             reacts' = IF c.kind = "react" THEN [reacts EXCEPT ![i] = reacts[i] + 1] ELSE reacts
      PROVE  PeerInv'
  <2>1. /\ call' \in [CallSlots -> CallRecords] /\ call'[k] = c
        /\ \A j \in CallSlots \ {k} : call'[j] = call[j]
    BY <1>2 DEF PeerInv, PeerTypes
  <2>2. PeerTypes'
    BY <1>1, <1>2, <2>1 DEF PeerInv, PeerTypes
  <2>3. CallShape(k)'
    BY <1>2, <2>1 DEF CallShape
  <2>4. ASSUME NEW r \in RunIds \ {i}
        PROVE  /\ QuietSlot(k, r)
               /\ woken'[r] = woken[r] /\ reacted'[r] = reacted[r]
               /\ sends'[r] = sends[r] /\ reacts'[r] = reacts[r]
    BY <1>1, <1>2, <2>1 DEF QuietSlot, PeerInv, PeerTypes
  <2>5. PeerBudget(i)'
    <3>1. k \notin SendsDue(i)' /\ k \notin ReactsDue(i)'
      BY <1>2, <2>1 DEF SendsDue, Sending, ReactsDue, Reacting
    <3>2. /\ c.kind # "send" => k \notin Sending(i)'
          /\ c.kind # "react" => k \notin Reacting(i)'
      BY <2>1 DEF Sending, Reacting
    <3>3. /\ sends'[i] = IF c.kind = "send" THEN sends[i] + 1 ELSE sends[i]
          /\ reacts'[i] = IF c.kind = "react" THEN reacts[i] + 1 ELSE reacts[i]
          /\ woken'[i] = woken[i] /\ reacted'[i] = reacted[i]
      BY <1>1, <1>2 DEF PeerInv, PeerTypes
    <3>4. /\ Cardinality(SendsDue(i)') <= Cardinality(SendsDue(i))
          /\ Cardinality(ReactsDue(i)') <= Cardinality(ReactsDue(i))
          /\ Cardinality(Sending(i)') <= Cardinality(Sending(i)) + 1
          /\ Cardinality(Reacting(i)') <= Cardinality(Reacting(i)) + 1
          /\ c.kind # "send" => Cardinality(Sending(i)') <= Cardinality(Sending(i))
          /\ c.kind # "react" => Cardinality(Reacting(i)') <= Cardinality(Reacting(i))
      BY <2>1, <3>1, <3>2, SlotIn DEF OneSlot
    <3>5. /\ woken'[i] + Cardinality(Sending(i)') <= sends'[i]
          /\ woken'[i] + Cardinality(SendsDue(i)') <= MaxSends
      BY <2>2, <3>3, <3>4, CallsNow DEF PeerBudget
    <3>6. /\ reacted'[i] + Cardinality(Reacting(i)') <= reacts'[i]
          /\ reacted'[i] + Cardinality(ReactsDue(i)') <= MaxReactions
      BY <2>2, <3>3, <3>4, CallsNow DEF PeerBudget
    <3> QED BY <3>5, <3>6 DEF PeerBudget
  <2> QED BY <1>1, <2>1, <2>2, <2>3, <2>4, <2>5, BudgetStep
<1>3. CASE Call(k, i) /\ CallPeer(k, i)
  <2>1. PICK b \in Targets(i) : Enter(k, i, "send", "count", {b})
    BY <1>3 DEF CallPeer
  <2> DEFINE c == [at |-> "count", kind |-> "send", run |-> i, targets |-> {b},
                   to |-> NoBot, hop |-> 0]
  <2>2. b \in Bots
    BY DEF Targets, PeerInv, PeerTypes
  <2>3. c \in CallRecords /\ c.run = i /\ c.at = "count" /\ c.kind = "send" /\ c.targets = {b}
    BY <2>2 DEF CallRecords
  <2>4. /\ call' = [call EXCEPT ![k] = c] /\ reacts' = reacts
        /\ sends' = [sends EXCEPT ![i] = sends[i] + 1]
    BY <1>3, <2>1 DEF CallPeer, Enter
  <2> HIDE DEF c
  <2> QED BY <1>2, <2>2, <2>3, <2>4
<1>4. CASE Call(k, i) /\ CallTeam(k, i)
  <2>1. PICK team \in SUBSET bots : Enter(k, i, "team", "count", team)
    BY <1>4 DEF CallTeam
  <2> DEFINE c == [at |-> "count", kind |-> "team", run |-> i, targets |-> team,
                   to |-> NoBot, hop |-> 0]
  <2>2. c \in CallRecords /\ c.run = i /\ c.at = "count" /\ c.kind = "team"
    BY DEF CallRecords, PeerInv, PeerTypes
  <2>3. call' = [call EXCEPT ![k] = c] /\ reacts' = reacts /\ sends' = sends
    BY <1>4, <2>1 DEF CallTeam, Enter
  <2> HIDE DEF c
  <2> QED BY <1>2, <2>2, <2>3
<1>5. CASE Call(k, i) /\ CallReact(k, i)
  <2> DEFINE c == [at |-> "count", kind |-> "react", run |-> i, targets |-> {},
                   to |-> NoBot, hop |-> 0]
  <2>1. c \in CallRecords /\ c.run = i /\ c.at = "count" /\ c.kind = "react"
    BY DEF CallRecords
  <2>2. /\ call' = [call EXCEPT ![k] = c] /\ sends' = sends
        /\ reacts' = [reacts EXCEPT ![i] = reacts[i] + 1]
    BY <1>5 DEF CallReact, Enter
  <2> HIDE DEF c
  <2> QED BY <1>2, <2>1, <2>2
<1>6. CASE Spawn(k, i) \/ DeleteSpawned(k, i)
  <2>1. PICK b \in Bots, spot \in {"spawned", "delete"}, kind \in {"spawn", "delete"} :
          call' = [call EXCEPT ![k] = [Idle EXCEPT !.at = spot, !.kind = kind,
                                                   !.run = i, !.to = b]]
    BY <1>6 DEF Spawn, DeleteSpawned, PeerInv, PeerTypes
  <2> DEFINE c == [Idle EXCEPT !.at = spot, !.kind = kind, !.run = i, !.to = b]
  <2>2. c \in CallRecords /\ c.run = i /\ c.at = spot /\ c.kind = kind
    BY IdleCall DEF CallRecords, Idle
  <2>3. sends' = sends /\ reacts' = reacts
    BY <1>6 DEF Spawn, DeleteSpawned
  <2> HIDE DEF c
  <2>4. call' = [call EXCEPT ![k] = c]
    BY <2>1 DEF c
  <2> QED BY <1>2, <2>2, <2>3, <2>4
<1> QED BY <1>3, <1>4, <1>5, <1>6 DEF Call

\* A call that is within the budget of its kind passes.
LEMMA CallCounts ==
  ASSUME PeerInv, NEW k \in CallSlots, Count(k)
  PROVE  PeerInv'
<1>1. UNCHANGED <<bots, runs, countVars>> /\ HopsBounded' /\ call[k].at = "count"
  BY DEF Count, botVars, PeerInv, HopsBounded
<1>2. ASSUME Return(k) PROVE PeerInv'
  <2>1. PeerTypes'
    BY <1>1, <1>2, ReturnTypes DEF PeerInv, PeerTypes, countVars
  <2> QED BY <1>1, <1>2, <2>1, SlotReturns DEF countVars
<1>3. CASE WithinBudget(k)
  <2> DEFINE c == [call[k] EXCEPT !.at = IF call[k].kind = "react" THEN "react" ELSE "hop"]
  <2>0. PICK i \in RunIds : i = call[k].run
    BY DEF PeerInv, PeerTypes, CallRecords
  <2>1. call' = [call EXCEPT ![k] = c]
    BY <1>3 DEF Count, Go
  <2>2. call[k] \in CallRecords /\ CallShape(k)
    BY DEF PeerInv, PeerTypes
  <2>3. /\ c \in CallRecords /\ c.run = i /\ c.kind = call[k].kind
        /\ c.at = (IF c.kind = "react" THEN "react" ELSE "hop")
        /\ c.targets = call[k].targets
    BY <2>0, <2>2 DEF CallRecords
  <2> HIDE DEF c
  <2>4. /\ call' \in [CallSlots -> CallRecords] /\ call'[k] = c
        /\ \A j \in CallSlots \ {k} : call'[j] = call[j]
    BY <2>1, <2>3 DEF PeerInv, PeerTypes
  <2>5. PeerTypes'
    BY <1>1, <2>4 DEF PeerInv, PeerTypes, countVars
  <2>6. \/ c.kind = "send" /\ sends[i] <= MaxSends
        \/ c.kind = "team"
        \/ c.kind = "react" /\ reacts[i] <= MaxReactions
    BY <1>3, <2>0, <2>3 DEF WithinBudget
  <2>7. CallShape(k)'
    BY <1>1, <2>2, <2>3, <2>4, <2>6 DEF CallShape
  <2>8. ASSUME NEW r \in RunIds \ {i}
        PROVE  /\ QuietSlot(k, r)
               /\ woken'[r] = woken[r] /\ reacted'[r] = reacted[r]
               /\ sends'[r] = sends[r] /\ reacts'[r] = reacts[r]
    BY <1>1, <2>3, <2>4 DEF QuietSlot, PeerInv, PeerTypes, countVars
  <2>9. PeerBudget(i)'
    <3>1. /\ Cardinality(Sending(i)') <= Cardinality(Sending(i))
          /\ Cardinality(Reacting(i)') <= Cardinality(Reacting(i))
      <4>1. (k \in Sending(i) \/ k \notin Sending(i)') /\ (k \in Reacting(i) \/ k \notin Reacting(i)')
        BY <1>1, <2>0, <2>3, <2>4 DEF Sending, Reacting
      <4> QED BY <2>4, <4>1, SlotIn DEF OneSlot
    <3>2. /\ Cardinality(SendsDue(i)') <= Cardinality(Sending(i)')
          /\ Cardinality(ReactsDue(i)') <= Cardinality(Reacting(i)')
      <4>1. /\ SendsDue(i)' \in SUBSET Sending(i)' /\ Sending(i)' \in SUBSET CallSlots
            /\ ReactsDue(i)' \in SUBSET Reacting(i)' /\ Reacting(i)' \in SUBSET CallSlots
        BY DEF SendsDue, Sending, ReactsDue, Reacting
      <4> QED BY <4>1, NoMoreSlots
    <3>3. /\ c.kind # "send" => Cardinality(SendsDue(i)') <= Cardinality(SendsDue(i))
          /\ c.kind # "react" => Cardinality(ReactsDue(i)') <= Cardinality(ReactsDue(i))
      <4>1. /\ c.kind # "send" => k \notin SendsDue(i)'
            /\ c.kind # "react" => k \notin ReactsDue(i)'
        BY <2>4 DEF SendsDue, Sending, ReactsDue, Reacting
      <4> QED BY <2>4, <4>1, SlotIn DEF OneSlot
    <3>4. /\ woken'[i] = woken[i] /\ reacted'[i] = reacted[i]
          /\ sends'[i] = sends[i] /\ reacts'[i] = reacts[i]
      BY <1>1 DEF countVars
    <3>5. /\ woken'[i] + Cardinality(Sending(i)') <= sends'[i]
          /\ woken'[i] + Cardinality(SendsDue(i)') <= MaxSends
      BY <2>5, <2>6, <3>1, <3>2, <3>3, <3>4, CallsNow DEF PeerBudget
    <3>6. /\ reacted'[i] + Cardinality(Reacting(i)') <= reacts'[i]
          /\ reacted'[i] + Cardinality(ReactsDue(i)') <= MaxReactions
      BY <2>5, <2>6, <3>1, <3>2, <3>3, <3>4, CallsNow DEF PeerBudget
    <3> QED BY <3>5, <3>6 DEF PeerBudget
  <2> QED BY <1>1, <2>4, <2>5, <2>7, <2>8, <2>9, BudgetStep
<1>4. CASE ~WithinBudget(k)
  BY <1>2, <1>4 DEF Count
<1> QED BY <1>3, <1>4

\* A run that is woken, or a reaction that is set, was due.
LEMMA CallActs ==
  ASSUME PeerInv, NEW k \in CallSlots, Wake(k) \/ React(k)
  PROVE  PeerInv'
<1>0. PICK i \in RunIds : i = call[k].run
  BY DEF PeerInv, PeerTypes, CallRecords
<1>1. call[k] \in CallRecords /\ CallShape(k)
  BY DEF PeerInv, PeerTypes
<1>2. UNCHANGED <<bots, sends, reacts>>
  BY DEF Wake, React, botVars
<1>3. /\ runs' \in [RunIds -> [state : {"absent", "live", "over"},
                               bot : Bots \union {NoBot}, hop : Nat]]
      /\ HopsBounded'
  <2>1. CASE Wake(k)
    <3>1. call[k].hop + 1 \in Nat /\ call[k].hop + 1 <= MaxHops
      BY <1>1, <2>1, PeerConstants DEF Wake, CallShape, CallRecords
    <3> QED BY <2>1, <3>1, CreatesRun DEF Wake
  <2>2. CASE React(k)
    BY <2>2 DEF React, PeerInv, PeerTypes, HopsBounded
  <2> QED BY <2>1, <2>2
<1>4. ASSUME NEW c \in CallRecords, call' = [call EXCEPT ![k] = c], CallShape(k)',
             \/ c.at = "idle"
             \/ c.at = "post" /\ c.kind = "team" /\ c.run = i,
             woken' = IF call[k].kind = "send" THEN [woken EXCEPT ![i] = woken[i] + 1] ELSE woken,
             reacted' = IF call[k].kind = "react" THEN [reacted EXCEPT ![i] = reacted[i] + 1]
                                                 ELSE reacted,
             call[k].kind = "send" => call[k].at = "wake",
             call[k].kind = "react" => call[k].at = "react"
      PROVE  PeerInv'
  <2>1. /\ call' \in [CallSlots -> CallRecords] /\ call'[k] = c
        /\ \A j \in CallSlots \ {k} : call'[j] = call[j]
    BY <1>4 DEF PeerInv, PeerTypes
  <2>2. PeerTypes'
    BY <1>2, <1>3, <1>4, <2>1 DEF PeerInv, PeerTypes
  <2>3. ASSUME NEW r \in RunIds \ {i}
        PROVE  /\ QuietSlot(k, r)
               /\ woken'[r] = woken[r] /\ reacted'[r] = reacted[r]
               /\ sends'[r] = sends[r] /\ reacts'[r] = reacts[r]
    BY <1>2, <1>4, <2>1 DEF QuietSlot, PeerInv, PeerTypes
  <2>4. PeerBudget(i)'
    <3>1. /\ k \notin Sending(i)' /\ k \notin SendsDue(i)'
          /\ k \notin Reacting(i)' /\ k \notin ReactsDue(i)'
      BY <1>4, <2>1 DEF Sending, SendsDue, Reacting, ReactsDue
    <3>2. /\ call[k].kind = "send" => k \in Sending(i) /\ k \in SendsDue(i)
          /\ call[k].kind = "react" => k \in Reacting(i) /\ k \in ReactsDue(i)
      BY <1>0, <1>4 DEF Sending, SendsDue, Reacting, ReactsDue
    <3>3. /\ Cardinality(Sending(i)') <= Cardinality(Sending(i))
          /\ Cardinality(SendsDue(i)') <= Cardinality(SendsDue(i))
          /\ Cardinality(Reacting(i)') <= Cardinality(Reacting(i))
          /\ Cardinality(ReactsDue(i)') <= Cardinality(ReactsDue(i))
      BY <2>1, <3>1, SlotIn DEF OneSlot
    <3>4. /\ call[k].kind = "send" => /\ Cardinality(Sending(i)') + 1 <= Cardinality(Sending(i))
                                     /\ Cardinality(SendsDue(i)') + 1 <= Cardinality(SendsDue(i))
          /\ call[k].kind = "react" => /\ Cardinality(Reacting(i)') + 1 <= Cardinality(Reacting(i))
                                      /\ Cardinality(ReactsDue(i)') + 1 <= Cardinality(ReactsDue(i))
      BY <2>1, <3>1, <3>2, SlotIn DEF OneSlot
    <3>5. /\ woken'[i] = IF call[k].kind = "send" THEN woken[i] + 1 ELSE woken[i]
          /\ reacted'[i] = IF call[k].kind = "react" THEN reacted[i] + 1 ELSE reacted[i]
          /\ sends'[i] = sends[i] /\ reacts'[i] = reacts[i]
      BY <1>2, <1>4 DEF PeerInv, PeerTypes
    <3>6. /\ woken'[i] + Cardinality(Sending(i)') <= sends'[i]
          /\ woken'[i] + Cardinality(SendsDue(i)') <= MaxSends
      BY <2>2, <3>3, <3>4, <3>5, CallsNow DEF PeerBudget
    <3>7. /\ reacted'[i] + Cardinality(Reacting(i)') <= reacts'[i]
          /\ reacted'[i] + Cardinality(ReactsDue(i)') <= MaxReactions
      BY <2>2, <3>3, <3>4, <3>5, CallsNow DEF PeerBudget
    <3> QED BY <3>6, <3>7 DEF PeerBudget
  <2> QED BY <1>3, <1>4, <2>1, <2>2, <2>3, <2>4, BudgetStep
<1>5. ASSUME Return(k) PROVE Idle \in CallRecords /\ Idle.at = "idle" /\ CallShape(k)'
                             /\ call' = [call EXCEPT ![k] = Idle]
  BY <1>5, IdleCall DEF Return, Idle, CallShape, PeerInv, PeerTypes
<1>6. CASE Wake(k) /\ call[k].kind = "send"
  <2>1. Return(k)
    BY <1>1, <1>6 DEF Wake, CallShape
  <2>2. /\ woken' = [woken EXCEPT ![i] = woken[i] + 1] /\ reacted' = reacted
        /\ call[k].at = "wake"
    BY <1>0, <1>6 DEF Wake
  <2> QED BY <1>4, <1>5, <1>6, <2>1, <2>2
<1>7. CASE Wake(k) /\ call[k].kind # "send"
  <2>1. call[k].kind = "team" /\ call[k].at = "wake" /\ woken' = woken /\ reacted' = reacted
    BY <1>1, <1>7 DEF Wake, CallShape
  <2>2. CASE call[k].targets = {}
    BY <1>4, <1>5, <1>7, <2>1, <2>2 DEF Wake
  <2>3. CASE call[k].targets # {}
    <3> DEFINE c == [call[k] EXCEPT !.at = "post"]
    <3>1. call' = [call EXCEPT ![k] = c]
      BY <1>7, <2>3 DEF Wake, Go
    <3>2. /\ c \in CallRecords /\ c.at = "post" /\ c.kind = "team" /\ c.run = i
          /\ c.hop = call[k].hop
      BY <1>0, <1>1, <2>1 DEF CallRecords
    <3> HIDE DEF c
    <3>3. CallShape(k)'
      <4>1. call'[k] = c
        BY <3>1 DEF PeerInv, PeerTypes
      <4> QED BY <1>1, <2>1, <3>2, <4>1 DEF CallShape
    <3> QED BY <1>4, <2>1, <3>1, <3>2, <3>3
  <2> QED BY <2>2, <2>3
<1>8. CASE React(k)
  <2>1. call[k].kind = "react" /\ call[k].at = "react" /\ woken' = woken
        /\ reacted' = [reacted EXCEPT ![i] = reacted[i] + 1] /\ Return(k)
    BY <1>0, <1>1, <1>8 DEF React, CallShape
  <2> QED BY <1>4, <1>5, <2>1
<1> QED BY <1>6, <1>7, <1>8

LEMMA PeerKept == PeerInv /\ [PeerNext]_peerVars => PeerInv'
<1> SUFFICES ASSUME PeerInv, [PeerNext]_peerVars PROVE PeerInv'
  OBVIOUS
<1>1. CASE UNCHANGED peerVars
  <2>1. PeerTypes' /\ HopsBounded'
    BY <1>1 DEF peerVars, botVars, countVars, PeerInv, PeerTypes, HopsBounded
  <2> QED BY <1>1, <2>1, NoSlotStep DEF peerVars, countVars
<1> QED BY <1>1, PeerBots, PeerRuns, CallRest, CallEnters, CallCounts, CallActs
  DEF PeerNext, CallStep

LEMMA PeerStart == PeerInit => PeerInv
<1> SUFFICES ASSUME PeerInit PROVE PeerInv
  OBVIOUS
<1>1. PeerTypes
  BY IdleCall, PeerConstants DEF PeerInit, PeerTypes, NoRunRow
<1>2. ASSUME NEW i \in RunIds PROVE PeerBudget(i)
  <2>1. Sending(i) = {} /\ SendsDue(i) = {} /\ Reacting(i) = {} /\ ReactsDue(i) = {}
    BY DEF PeerInit, Sending, SendsDue, Reacting, ReactsDue, Idle
  <2> QED BY <2>1, FS_EmptySet, PeerConstants DEF PeerInit, PeerBudget
<1>3. \A k \in CallSlots : CallShape(k)
  BY DEF PeerInit, CallShape, Idle
<1> QED BY <1>1, <1>2, <1>3, PeerConstants DEF PeerInv, PeerInit, HopsBounded, NoRunRow

(***************************************************************************)
(* The budgets and the hops, for every number of runs and of slots.        *)
(***************************************************************************)
LEMMA PeerSaysAll == PeerInv => DirectBudget /\ HopsBounded
<1> SUFFICES ASSUME PeerInv, NEW i \in RunIds
    PROVE  woken[i] <= MaxSends /\ reacted[i] <= MaxReactions
  BY DEF DirectBudget, PeerInv
<1> QED BY CallsCounted, PeerConstants DEF PeerInv, PeerTypes, PeerBudget

-----------------------------------------------------------------------------
(* Memory: what the directory of the index holds, and the history. *)

Docs == [Documents -> [rev : Nat, content : Nat]]
CommitRecords ==
  [at : {"idle", "write", "record"}, path : Documents, rev : Nat, content : Nat]
SearchRecords ==
  [at : {"idle", "ensure", "wait", "recall"} \union Rebuilding,
   docs : Docs, left : SUBSET Documents]

MemoryTypes ==
  /\ document \in Docs
  /\ commit \in [Writers -> CommitRecords]
  /\ commits \in Nat
  /\ search \in [Searches -> SearchRecords]
  /\ memoryTroubles \in Nat

(***************************************************************************)
(* An index is complete or empty, or has no manifest; while a search stores*)
(* documents there is none, and the database has what is not left.         *)
(***************************************************************************)
Whole == manifest = NoManifest \/ database = StoredOf(manifest) \/ database = {}
Stored(docs, left) ==
  {<<d, docs[d].content>> : d \in {e \in Documents : docs[e] # Absent /\ e \notin left}}

RebuildInv(s) ==
  /\ search[s].at # "idle" => search[s].docs # NoManifest
  /\ search[s].at \in Rebuilding => pending = s
  /\ search[s].at \in {"store", "record"} =>
       /\ manifest = NoManifest
       /\ database = Stored(search[s].docs, search[s].left)
       /\ \A d \in search[s].left : search[s].docs[d] # Absent
  /\ search[s].at = "record" => search[s].left = {}

\* The revision of a document is in the history, or on its way there.
RevisionDue(d) ==
  document[d] # Absent /\ memoryTroubles = 0 =>
    \/ \E row \in history : row.path = d /\ row.rev = document[d].rev
    \/ \E w \in Writers : /\ commit[w].at = "record" /\ commit[w].path = d
                          /\ commit[w].rev = document[d].rev

RowsApart == \A p, q \in history : p.path = q.path /\ p.rev = q.rev => p = q

IndexInv == Whole /\ \A s \in Searches : RebuildInv(s)
HistoryInv == RowsApart /\ \A d \in Documents : RevisionDue(d)
MemoryInv == MemoryTypes /\ IndexInv /\ HistoryInv

LEMMA MemoryBlank ==
  /\ NoManifest \in Docs
  /\ NoSearching \in SearchRecords /\ NoSearching.at = "idle"
  /\ NoCommit \in CommitRecords /\ NoCommit.at = "idle"
<1>1. NoManifest \in Docs
  BY DEF NoManifest, Absent, Docs
<1> QED BY <1>1, MemoryConstants
  DEF NoSearching, NoCommit, SearchRecords, CommitRecords, Documents

(***************************************************************************)
(* The commits.                                                            *)
(***************************************************************************)
\* The writer w goes on to c; the row of another path, or of another writer, is as due.
LEMMA DueElsewhere ==
  ASSUME MemoryInv, NEW w \in Writers, NEW c \in CommitRecords,
         commit' = [commit EXCEPT ![w] = c], memoryTroubles' = memoryTroubles,
         history \subseteq history', NEW d \in Documents, document'[d] = document[d],
         commit[w].at = "record" /\ commit[w].path = d
           => \E row \in history' : row.path = d /\ row.rev = commit[w].rev
  PROVE  RevisionDue(d)'
<1> SUFFICES ASSUME document[d] # Absent, memoryTroubles = 0
    PROVE  \/ \E row \in history' : row.path = d /\ row.rev = document[d].rev
           \/ \E v \in Writers : /\ commit'[v].at = "record" /\ commit'[v].path = d
                                 /\ commit'[v].rev = document[d].rev
  BY DEF RevisionDue
<1>1. CASE \E row \in history : row.path = d /\ row.rev = document[d].rev
  BY <1>1
<1>2. ASSUME NEW v \in Writers, commit[v].at = "record", commit[v].path = d,
             commit[v].rev = document[d].rev
      PROVE  \/ \E row \in history' : row.path = d /\ row.rev = document[d].rev
             \/ \E u \in Writers : /\ commit'[u].at = "record" /\ commit'[u].path = d
                                   /\ commit'[u].rev = document[d].rev
  <2>1. CASE v = w
    BY <1>2, <2>1
  <2>2. CASE v # w
    <3>1. commit'[v] = commit[v]
      BY <2>2 DEF MemoryInv, MemoryTypes
    <3> QED BY <1>2, <3>1
  <2> QED BY <2>1, <2>2
<1> QED BY <1>1, <1>2 DEF MemoryInv, HistoryInv, RevisionDue

LEMMA CommitsKeep ==
  ASSUME MemoryInv, NEW w \in Writers,
         FindDocument(w) \/ WriteDocument(w) \/ RecordRevision(w)
  PROVE  MemoryInv'
<1>1. search' = search /\ memoryTroubles' = memoryTroubles /\ IndexInv'
  BY DEF FindDocument, WriteDocument, RecordRevision, Index, Directory, MemoryInv, IndexInv,
         Whole, RebuildInv
<1>2. commit[w] \in CommitRecords
  BY DEF MemoryInv, MemoryTypes
<1>3. CASE FindDocument(w)
  <2>1. PICK d \in Documents :
          commit' = [commit EXCEPT ![w] = [at |-> "write", path |-> d,
                                           rev |-> document[d].rev, content |-> commits + 1]]
    BY <1>3 DEF FindDocument
  <2> DEFINE c == [at |-> "write", path |-> d, rev |-> document[d].rev, content |-> commits + 1]
  <2>2. c \in CommitRecords
    BY DEF MemoryInv, MemoryTypes, CommitRecords, Docs
  <2>3. UNCHANGED <<document, history>> /\ commits' \in Nat /\ commit[w].at # "record"
    BY <1>3 DEF FindDocument, MemoryInv, MemoryTypes
  <2> HIDE DEF c
  <2>4. commit' = [commit EXCEPT ![w] = c]
    BY <2>1 DEF c
  <2>5. MemoryTypes'
    BY <1>1, <2>2, <2>3, <2>4 DEF MemoryInv, MemoryTypes
  <2>6. \A e \in Documents : RevisionDue(e)'
    BY <1>1, <2>2, <2>3, <2>4, DueElsewhere
  <2> QED BY <1>1, <2>3, <2>5, <2>6 DEF MemoryInv, HistoryInv, RowsApart
<1>4. ASSUME WriteDocument(w), commit[w].rev = 0 /\ document[commit[w].path] # Absent
      PROVE  MemoryInv'
  <2>1. /\ UNCHANGED <<document, history, commits>> /\ commit[w].at # "record"
        /\ commit' = [commit EXCEPT ![w] = NoCommit]
    BY <1>4 DEF WriteDocument
  <2>2. MemoryTypes'
    BY <1>1, <2>1, MemoryBlank DEF MemoryInv, MemoryTypes
  <2>3. \A e \in Documents : RevisionDue(e)'
    BY <1>1, <2>1, MemoryBlank, DueElsewhere
  <2> QED BY <1>1, <2>1, <2>2, <2>3 DEF MemoryInv, HistoryInv, RowsApart
<1>5. ASSUME WriteDocument(w), ~(commit[w].rev = 0 /\ document[commit[w].path] # Absent)
      PROVE  MemoryInv'
  <2> DEFINE c == [commit[w] EXCEPT !.at = "record", !.rev = commit[w].rev + 1]
  <2>0. PICK d \in Documents : d = commit[w].path
    BY <1>2 DEF CommitRecords
  <2>1. /\ UNCHANGED <<history, commits>> /\ commit[w].at # "record"
        /\ commit' = [commit EXCEPT ![w] = c]
        /\ document' = [document EXCEPT ![d] = [rev |-> commit[w].rev + 1,
                                                content |-> commit[w].content]]
    BY <1>5, <2>0 DEF WriteDocument
  <2>2. c \in CommitRecords /\ c.at = "record" /\ c.path = d /\ c.rev = commit[w].rev + 1
    <3>1. commit[w].rev + 1 \in Nat /\ commit[w].path = d
      BY <1>2, <2>0 DEF CommitRecords
    <3> QED BY <1>2, <3>1 DEF CommitRecords
  <2> HIDE DEF c
  <2>3. commit' \in [Writers -> CommitRecords] /\ commit'[w] = c
    BY <2>1, <2>2 DEF MemoryInv, MemoryTypes
  <2>4. document' \in Docs /\ document'[d].rev = commit[w].rev + 1
    BY <1>2, <2>1 DEF MemoryInv, MemoryTypes, Docs, CommitRecords
  <2>5. MemoryTypes'
    BY <1>1, <2>1, <2>3, <2>4 DEF MemoryInv, MemoryTypes
  <2>6. RevisionDue(d)'
    BY <2>2, <2>3, <2>4 DEF RevisionDue
  <2>7. ASSUME NEW e \in Documents \ {d} PROVE RevisionDue(e)'
    <3>1. document'[e] = document[e]
      BY <2>1 DEF MemoryInv, MemoryTypes, Docs
    <3> QED BY <1>1, <2>1, <2>2, <3>1, DueElsewhere
  <2> QED BY <1>1, <2>1, <2>5, <2>6, <2>7 DEF MemoryInv, HistoryInv, RowsApart
<1>6. CASE RecordRevision(w)
  <2> DEFINE new == [path |-> commit[w].path, rev |-> commit[w].rev,
                     content |-> commit[w].content]
  <2>1. /\ UNCHANGED <<document, commits>>
        /\ commit' = [commit EXCEPT ![w] = NoCommit]
        /\ history' = IF \E row \in history : row.path = commit[w].path /\ row.rev = commit[w].rev
                      THEN history ELSE history \union {new}
    BY <1>6 DEF RecordRevision
  <2>2. new.path = commit[w].path /\ new.rev = commit[w].rev
    OBVIOUS
  <2> HIDE DEF new
  <2>3. /\ history \subseteq history'
        /\ \E row \in history' : row.path = commit[w].path /\ row.rev = commit[w].rev
        /\ RowsApart'
    BY <2>1, <2>2 DEF MemoryInv, HistoryInv, RowsApart
  <2>4. MemoryTypes'
    BY <1>1, <2>1, MemoryBlank DEF MemoryInv, MemoryTypes
  <2>5. \A e \in Documents : RevisionDue(e)'
    BY <1>1, <2>1, <2>3, MemoryBlank, DueElsewhere
  <2> QED BY <1>1, <2>3, <2>4, <2>5 DEF MemoryInv, HistoryInv
<1> QED BY <1>3, <1>4, <1>5, <1>6

(***************************************************************************)
(* The searches.                                                           *)
(***************************************************************************)
LEMMA MarkdownKeeps ==
  ASSUME MemoryInv, Markdown, memoryTroubles' = memoryTroubles \/ memoryTroubles' # 0
  PROVE  HistoryInv'
BY DEF Markdown, MemoryInv, HistoryInv, RowsApart, RevisionDue

\* A search whose rebuild is over, and those that have joined it, do no rebuild.
LEMMA Settling ==
  ASSUME MemoryInv, NEW s \in Searches, NEW next \in {"recall", "idle"}, Settles(s, next),
         Whole', search[s].at # "idle"
  PROVE  /\ search' \in [Searches -> SearchRecords]
         /\ pending = s \/ search[s].at \notin Rebuilding
         /\ (\A t \in Searches : search[t].at \in {"store", "record"} /\ t # s
                 => manifest' = manifest /\ database' = database)
            => IndexInv'
<1>1. ASSUME NEW t \in Searches
      PROVE  /\ search[t] \in SearchRecords /\ RebuildInv(t)
             /\ search'[t] =
                  IF t = s \/ (pending = s /\ search[t].at = "wait")
                  THEN IF next = "recall" THEN [search[t] EXCEPT !.at = "recall", !.left = {}]
                       ELSE NoSearching
                  ELSE search[t]
  BY DEF MemoryInv, MemoryTypes, IndexInv, Settles
<1>2. search' \in [Searches -> SearchRecords]
  <2>1. ASSUME NEW t \in Searches PROVE search'[t] \in SearchRecords
    BY <1>1, MemoryBlank DEF SearchRecords
  <2>2. search' = [t \in Searches |-> search'[t]]
    BY DEF Settles
  <2> QED BY <2>1, <2>2
<1>3. pending = s \/ search[s].at \notin Rebuilding
  BY <1>1 DEF RebuildInv
<1>4. ASSUME \A t \in Searches : search[t].at \in {"store", "record"} /\ t # s
                => manifest' = manifest /\ database' = database,
             NEW t \in Searches
      PROVE  RebuildInv(t)'
  <2>1. CASE t = s \/ (pending = s /\ search[t].at = "wait")
    <3>1. CASE next = "recall"
      <4>1. search'[t].at = "recall" /\ search'[t].docs = search[t].docs
        BY <1>1, <2>1, <3>1 DEF SearchRecords
      <4>2. search[t].at # "idle"
        BY <2>1
      <4> QED BY <1>1, <4>1, <4>2 DEF RebuildInv, Rebuilding, NoManifest
    <3>2. CASE next # "recall"
      BY <1>1, <2>1, <3>2, MemoryBlank DEF RebuildInv, Rebuilding
    <3> QED BY <3>1, <3>2
  <2>2. CASE ~(t = s \/ (pending = s /\ search[t].at = "wait"))
    <3>1. search'[t] = search[t]
      BY <1>1, <2>2
    <3>2. search[t].at \in Rebuilding => pending' = pending
      BY <1>1, <2>2 DEF RebuildInv, Settles
    <3>3. search[t].at \in {"store", "record"} => manifest' = manifest /\ database' = database
      BY <1>4, <2>2
    <3> QED BY <1>1, <3>1, <3>2, <3>3 DEF RebuildInv, Rebuilding
  <2> QED BY <2>1, <2>2
<1> QED BY <1>2, <1>3, <1>4 DEF IndexInv

LEMMA SearchesKeep ==
  ASSUME MemoryInv, NEW s \in Searches,
         \/ ReadDocuments(s) \/ EnsureIndex(s) \/ ReadManifest(s)
         \/ RemoveSome(s) \/ RemoveRest(s) \/ StoreNext(s) \/ WriteManifest(s)
         \/ Recall(s) \/ CommandFails(s)
  PROVE  MemoryInv'
<1>1. Markdown /\ memoryTroubles' \in Nat /\ HistoryInv'
  <2>1. Markdown /\ memoryTroubles' \in Nat /\ memoryTroubles' \in {memoryTroubles, memoryTroubles + 1}
    BY DEF ReadDocuments, EnsureIndex, ReadManifest, RemoveSome, RemoveRest, StoreNext,
           WriteManifest, Recall, CommandFails, MemoryInv, MemoryTypes
  <2> QED BY <2>1, MarkdownKeeps DEF MemoryInv, MemoryTypes
<1>2. ASSUME search' \in [Searches -> SearchRecords], IndexInv'
      PROVE  MemoryInv'
  BY <1>1, <1>2 DEF MemoryInv, MemoryTypes, Markdown
<1>3. search[s] \in SearchRecords /\ RebuildInv(s) /\ Whole
  BY DEF MemoryInv, MemoryTypes, IndexInv
\* A search goes on by itself.
<1>4. ASSUME NEW c \in SearchRecords, search' = [search EXCEPT ![s] = c],
             Whole', RebuildInv(s)',
             pending' = pending \/ pending = NoSearch,
             \/ manifest' = manifest /\ database' = database
             \/ search[s].at \in Rebuilding
      PROVE  MemoryInv'
  <2>1. /\ search' \in [Searches -> SearchRecords]
        /\ \A t \in Searches \ {s} : search'[t] = search[t]
    BY <1>4 DEF MemoryInv, MemoryTypes
  <2>2. ASSUME NEW t \in Searches \ {s} PROVE RebuildInv(t)'
    <3>1. RebuildInv(t) /\ search'[t] = search[t]
      BY <2>1 DEF MemoryInv, IndexInv
    <3>2. search[t].at \in Rebuilding => pending = t /\ pending # NoSearch
      BY <3>1, MemoryConstants DEF RebuildInv
    <3>3. search[t].at \in Rebuilding => search[s].at \notin Rebuilding /\ pending' = pending
      BY <1>3, <1>4, <3>2 DEF RebuildInv
    <3> QED BY <1>4, <3>1, <3>3 DEF RebuildInv, Rebuilding
  <2> QED BY <1>2, <1>4, <2>1, <2>2 DEF IndexInv
<1>5. CASE ReadDocuments(s)
  <2> DEFINE c == [NoSearching EXCEPT !.at = "ensure", !.docs = document]
  <2>1. search' = [search EXCEPT ![s] = c] /\ document # NoManifest
        /\ UNCHANGED <<pending, manifest, database>>
    BY <1>5 DEF ReadDocuments, Directory
  <2>2. c \in SearchRecords /\ c.at = "ensure" /\ c.docs = document
    BY MemoryBlank DEF SearchRecords, NoSearching, MemoryInv, MemoryTypes
  <2> HIDE DEF c
  <2>3. search'[s] = c
    BY <2>1 DEF MemoryInv, MemoryTypes
  <2>4. RebuildInv(s)' /\ Whole'
    BY <1>3, <2>1, <2>2, <2>3 DEF RebuildInv, Whole, Rebuilding, NoManifest, StoredOf
  <2> QED BY <1>4, <2>1, <2>2, <2>4
\* Another place, with the documents that were read.
<1>6. ASSUME NEW at \in {"wait", "manifest", "remove", "removing", "record"},
             SearchGoes(s, at), search[s].at # "idle",
             at \in Rebuilding => pending' = s,
             at = "record" => /\ manifest' = NoManifest /\ search[s].left = {}
                              /\ database' = Stored(search[s].docs, search[s].left),
             Whole', pending' = pending \/ pending = NoSearch,
             \/ manifest' = manifest /\ database' = database
             \/ search[s].at \in Rebuilding
      PROVE  MemoryInv'
  <2> DEFINE c == [search[s] EXCEPT !.at = at]
  <2>1. search' = [search EXCEPT ![s] = c]
    BY <1>6 DEF SearchGoes
  <2>2. /\ c \in SearchRecords /\ c.at = at
        /\ c.docs = search[s].docs /\ c.left = search[s].left
    BY <1>3 DEF SearchRecords, Rebuilding
  <2> HIDE DEF c
  <2>3. search'[s] = c
    BY <2>1 DEF MemoryInv, MemoryTypes
  <2>4. RebuildInv(s)'
    BY <1>3, <1>6, <2>2, <2>3 DEF RebuildInv, Stored, NoManifest
  <2> QED BY <1>4, <1>6, <2>1, <2>2, <2>4
<1>7. CASE EnsureIndex(s)
  <2>1. UNCHANGED <<manifest, database>> /\ Whole' /\ search[s].at = "ensure"
    BY <1>3, <1>7 DEF EnsureIndex, Directory, Whole, StoredOf, NoManifest
  <2>2. CASE pending = NoSearch
    BY <1>6, <1>7, <2>1, <2>2 DEF EnsureIndex, Rebuilding
  <2>3. CASE pending # NoSearch
    BY <1>6, <1>7, <2>1, <2>3 DEF EnsureIndex, Rebuilding
  <2> QED BY <2>2, <2>3
<1>8. CASE ReadManifest(s)
  <2>1. UNCHANGED <<manifest, database>> /\ Whole' /\ search[s].at = "manifest"
    BY <1>3, <1>8 DEF ReadManifest, Directory, Whole, StoredOf, NoManifest
  <2>2. CASE manifest = search[s].docs
    BY <1>2, <1>8, <2>1, <2>2, Settling DEF ReadManifest
  <2>3. CASE manifest # search[s].docs
    BY <1>3, <1>6, <1>8, <2>1, <2>3 DEF ReadManifest, Rebuilding, RebuildInv
  <2> QED BY <2>2, <2>3
<1>9. CASE RemoveSome(s)
  <2>1. search[s].at = "remove" /\ pending' = pending /\ pending = s
    BY <1>3, <1>9 DEF RemoveSome, RebuildInv, Rebuilding
  <2>2. Whole' /\ SearchGoes(s, "removing")
    BY <1>3, <1>9 DEF RemoveSome, Whole, NoManifest
  <2> QED BY <1>6, <2>1, <2>2 DEF Rebuilding
<1>10. CASE RemoveRest(s)
  <2> DEFINE c == [search[s] EXCEPT !.at = "store",
                             !.left = {d \in Documents : search[s].docs[d] # Absent}]
  <2>1. /\ search' = [search EXCEPT ![s] = c]
        /\ manifest' = NoManifest /\ database' = {} /\ pending' = pending
        /\ search[s].at = "removing"
    BY <1>10 DEF RemoveRest
  <2>2. /\ c \in SearchRecords /\ c.at = "store" /\ c.docs = search[s].docs
        /\ c.left = {d \in Documents : search[s].docs[d] # Absent}
    BY <1>3 DEF SearchRecords, Rebuilding
  <2> HIDE DEF c
  <2>3. search'[s] = c
    BY <2>1 DEF MemoryInv, MemoryTypes
  <2>4. Stored(c.docs, c.left) = {}
    BY <2>2 DEF Stored
  <2>5. RebuildInv(s)' /\ Whole'
    BY <1>3, <2>1, <2>2, <2>3, <2>4 DEF RebuildInv, Whole, Rebuilding, NoManifest, Stored
  <2> QED BY <1>4, <2>1, <2>2, <2>5 DEF Rebuilding
<1>11. CASE StoreNext(s)
  <2>1. /\ search[s].at = "store" /\ manifest' = manifest /\ pending' = pending
        /\ manifest = NoManifest /\ pending = s
        /\ database = Stored(search[s].docs, search[s].left) /\ Whole'
    BY <1>3, <1>11 DEF StoreNext, RebuildInv, Rebuilding, Whole, NoManifest
  <2>2. CASE search[s].left = {}
    BY <1>6, <1>11, <2>1, <2>2 DEF StoreNext, Rebuilding
  <2>3. CASE search[s].left # {}
    <3>1. PICK d \in search[s].left :
            /\ database' = database \union {<<d, search[s].docs[d].content>>}
            /\ search' = [search EXCEPT ![s].left = @ \ {d}]
      BY <1>11, <2>3 DEF StoreNext
    <3> DEFINE c == [search[s] EXCEPT !.left = @ \ {d}]
    <3>2. search' = [search EXCEPT ![s] = c]
      BY <3>1
    <3>3. /\ c \in SearchRecords /\ c.at = "store" /\ c.docs = search[s].docs
          /\ c.left = search[s].left \ {d}
      BY <1>3, <2>1 DEF SearchRecords
    <3> HIDE DEF c
    <3>4. search'[s] = c
      BY <3>2 DEF MemoryInv, MemoryTypes
    <3>5. d \in Documents
      BY <1>3 DEF SearchRecords
    <3>6. database' = Stored(c.docs, c.left)
      <4>1. c.docs[d] # Absent
        BY <1>3, <2>1, <3>3 DEF RebuildInv
      <4> QED BY <2>1, <3>1, <3>3, <3>5, <4>1 DEF Stored
    <3>7. RebuildInv(s)'
      BY <1>3, <2>1, <3>3, <3>4, <3>6 DEF RebuildInv, Rebuilding, Stored, NoManifest
    <3> QED BY <1>4, <2>1, <3>2, <3>3, <3>7 DEF Rebuilding
  <2> QED BY <2>2, <2>3
<1>12. CASE WriteManifest(s)
  <2>1. /\ search[s].at = "record" /\ manifest' = search[s].docs /\ database' = database
        /\ Settles(s, "recall") /\ pending = s
        /\ database = Stored(search[s].docs, {})
    BY <1>3, <1>12 DEF WriteManifest, RebuildInv, Rebuilding
  <2>2. Whole'
    BY <2>1 DEF Whole, Stored, StoredOf
  <2>3. \A t \in Searches : search[t].at \in {"store", "record"} => t = s
    BY <2>1 DEF MemoryInv, IndexInv, RebuildInv, Rebuilding
  <2> QED BY <1>2, <2>1, <2>2, <2>3, Settling
<1>13. CASE Recall(s)
  <2>1. search' = [search EXCEPT ![s] = NoSearching] /\ UNCHANGED <<pending, manifest, database>>
    BY <1>13 DEF Recall, Directory
  <2>2. search'[s] = NoSearching
    BY <2>1 DEF MemoryInv, MemoryTypes
  <2>3. RebuildInv(s)' /\ Whole'
    BY <1>3, <2>1, <2>2, MemoryBlank DEF RebuildInv, Rebuilding, Whole, StoredOf, NoManifest
  <2> QED BY <1>4, <2>1, <2>3, MemoryBlank
<1>14. CASE CommandFails(s)
  <2>1. UNCHANGED <<manifest, database>> /\ Whole' /\ search[s].at # "idle" /\ Settles(s, "idle")
    BY <1>3, <1>14 DEF CommandFails, Directory, Whole, StoredOf, NoManifest
  <2> QED BY <1>2, <2>1, Settling
<1> QED BY <1>5, <1>7, <1>8, <1>9, <1>10, <1>11, <1>12, <1>13, <1>14

LEMMA MemoryKept == MemoryInv /\ [MemoryNext]_memoryVars => MemoryInv'
<1> SUFFICES ASSUME MemoryInv, [MemoryNext]_memoryVars PROVE MemoryInv'
  OBVIOUS
<1>1. CASE CrashMemory
  <2>1. /\ UNCHANGED <<document, history, commits, manifest, database>>
        /\ memoryTroubles' \in Nat /\ memoryTroubles' # 0
        /\ \A w \in Writers : commit'[w] = NoCommit
        /\ \A t \in Searches : search'[t] = NoSearching
    BY <1>1 DEF CrashMemory, Directory, MemoryInv, MemoryTypes
  <2>2. MemoryTypes'
    BY <1>1, <2>1, MemoryBlank DEF CrashMemory, MemoryInv, MemoryTypes
  <2>3. HistoryInv'
    BY <2>1 DEF MemoryInv, HistoryInv, RowsApart, RevisionDue
  <2>4. IndexInv'
    BY <2>1, MemoryBlank
    DEF MemoryInv, IndexInv, Whole, RebuildInv, Rebuilding, StoredOf, NoManifest
  <2> QED BY <2>2, <2>3, <2>4 DEF MemoryInv
<1>2. CASE UNCHANGED memoryVars
  BY <1>2 DEF memoryVars, MemoryInv, MemoryTypes, HistoryInv, RowsApart, RevisionDue, IndexInv,
              Whole, RebuildInv, Stored, StoredOf
<1> QED BY <1>1, <1>2, CommitsKeep, SearchesKeep DEF MemoryNext

LEMMA MemoryStart == MemoryInit => MemoryInv
<1> SUFFICES ASSUME MemoryInit PROVE MemoryInv
  OBVIOUS
<1>1. MemoryTypes
  BY MemoryBlank DEF MemoryInit, MemoryTypes, Docs, Absent
<1>2. IndexInv
  BY MemoryBlank DEF MemoryInit, IndexInv, Whole, RebuildInv, Rebuilding
<1>3. HistoryInv
  BY DEF MemoryInit, HistoryInv, RowsApart, RevisionDue
<1> QED BY <1>1, <1>2, <1>3 DEF MemoryInv

LEMMA MemorySaysAll == MemoryInv => SkipsOnlyWhenBuilt /\ RevisionsAreKept
<1> SUFFICES ASSUME MemoryInv PROVE SkipsOnlyWhenBuilt /\ RevisionsAreKept
  OBVIOUS
<1>1. SkipsOnlyWhenBuilt
  <2>1. ASSUME NEW s \in Searches, search[s].at = "manifest", manifest = search[s].docs
        PROVE  database \in {StoredOf(manifest), {}}
    <3>1. manifest # NoManifest
      BY <2>1 DEF MemoryInv, IndexInv, RebuildInv
    <3> QED BY <3>1 DEF MemoryInv, IndexInv, Whole
  <2> QED BY <2>1 DEF SkipsOnlyWhenBuilt
<1>2. RevisionsAreKept
  <2>1. ASSUME NEW d \in Documents, document[d] # Absent, memoryTroubles = 0,
               \A w \in Writers : commit[w].at # "idle" => commit[w].path # d
        PROVE  \E row \in history : row.path = d /\ row.rev = document[d].rev
    BY <2>1 DEF MemoryInv, HistoryInv, RevisionDue
  <2> QED BY <2>1 DEF MemoryInv, HistoryInv, RowsApart, RevisionsAreKept
<1> QED BY <1>1, <1>2

-----------------------------------------------------------------------------
(* Names of tools: what the recursion gives, for any list of tools. *)

LEMMA LeastNat ==
  ASSUME NEW T \in SUBSET Nat, T # {}
  PROVE  \E x \in T : \A y \in T : x <= y
<1>1. PICK R : R = OpToRel(<, Nat)
  OBVIOUS
<1>2. \E x \in T : \A y \in T : ~(<<y, x>> \in R)
  <2>1. IsWellFoundedOn(R, Nat)
    BY <1>1, NatLessThanWellFounded
  <2>2. T \subseteq Nat
    OBVIOUS
  <2> QED BY <2>1, <2>2, WFMin
<1>3. OpToRel(<, Nat) = {ss \in Nat \X Nat : ss[1] < ss[2]}
  BY DEF OpToRel
<1>4. R = {ss \in Nat \X Nat : ss[1] < ss[2]}
  BY <1>1, <1>3, Zenon
<1>5. ASSUME NEW x \in Nat, NEW y \in Nat, ~(<<y, x>> \in R) PROVE x <= y
  BY <1>4, <1>5
<1> QED BY <1>2, <1>5

(***************************************************************************)
(* The names of the first n tools, one after the other.                    *)
(***************************************************************************)
NextName(tools, before, n) ==
  Append(before, Candidate(tools[n], {before[i] : i \in 1..(n - 1)}, Reserved(tools)))
NamesFor(tools, n, f) ==
  f = [k \in 0..n |-> IF k = 0 THEN <<>> ELSE NextName(tools, f[k - 1], k)]

LEMMA NamesExist ==
  ASSUME NEW tools, NEW n \in Nat
  PROVE  \E f : NamesFor(tools, n, f)
<1> DEFINE T == {k \in Nat : ~\E f : NamesFor(tools, k, f)}
<1>1. SUFFICES ASSUME T # {} PROVE FALSE
  OBVIOUS
<1>2. PICK k \in T : \A j \in T : k <= j
  BY <1>1, LeastNat
<1>3. CASE k = 0
  <2>1. NamesFor(tools, 0, [j \in 0..0 |-> <<>>])
    BY DEF NamesFor
  <2> QED BY <1>3, <2>1
<1>4. CASE k # 0
  <2>1. k - 1 \in Nat /\ k - 1 \notin T
    BY <1>2, <1>4
  <2>2. PICK f : NamesFor(tools, k - 1, f)
    BY <2>1
  <2> DEFINE g == [j \in 0..k |-> IF j = k THEN NextName(tools, f[k - 1], k) ELSE f[j]]
  <2>3. \A j \in 0..(k - 1) : f[j] = IF j = 0 THEN <<>> ELSE NextName(tools, f[j - 1], j)
    BY <2>2 DEF NamesFor
  <2>4. \A j \in 0..k : g[j] = IF j = 0 THEN <<>> ELSE NextName(tools, g[j - 1], j)
    <3> TAKE j \in 0..k
    <3>1. CASE j = k
      BY <1>4, <2>1, <3>1
    <3>2. CASE j # k
      <4>1. j \in 0..(k - 1) /\ g[j] = f[j]
        BY <2>1, <3>2
      <4>2. j # 0 => j - 1 \in 0..k /\ g[j - 1] = f[j - 1]
        BY <2>1, <3>2
      <4> QED BY <2>3, <4>1, <4>2
    <3> QED BY <3>1, <3>2
  <2>5. g = [j \in 0..k |-> IF j = 0 THEN <<>> ELSE NextName(tools, g[j - 1], j)]
    BY <2>4
  <2>6. NamesFor(tools, k, g)
    BY <2>5 DEF NamesFor
  <2> QED BY <2>6
<1> QED BY <1>3, <1>4

LEMMA NamesUnfold ==
  ASSUME NEW tools, Len(tools) \in Nat
  PROVE  \E f : NamesFor(tools, Len(tools), f) /\ ExposedNames(tools) = f[Len(tools)]
<1> DEFINE names[n \in 0..Len(tools)] ==
             IF n = 0 THEN <<>>
             ELSE Append(names[n - 1],
                         Candidate(tools[n], {names[n - 1][i] : i \in 1..(n - 1)},
                                   Reserved(tools)))
<1>1. ExposedNames(tools) = names[Len(tools)]
  BY DEF ExposedNames
<1>2. \E f : f = [n \in 0..Len(tools) |->
             IF n = 0 THEN <<>>
             ELSE Append(f[n - 1],
                         Candidate(tools[n], {f[n - 1][i] : i \in 1..(n - 1)},
                                   Reserved(tools)))]
  BY NamesExist DEF NamesFor, NextName
<1>3. names = CHOOSE f : f = [n \in 0..Len(tools) |->
             IF n = 0 THEN <<>>
             ELSE Append(f[n - 1],
                         Candidate(tools[n], {f[n - 1][i] : i \in 1..(n - 1)},
                                   Reserved(tools)))]
  OBVIOUS
<1>4. NamesFor(tools, Len(tools), names)
  BY <1>2, <1>3 DEF NamesFor, NextName
<1> QED BY <1>1, <1>4

NameSeqs == Seq(STRING \union Nat)

LEMMA NamesAreSeqs ==
  ASSUME NEW tool \in ToolDefs, NEW n \in Nat
  PROVE  /\ tool.base \in NameSeqs /\ Suffixed(tool) \in NameSeqs
         /\ Append(Suffixed(tool), n) \in NameSeqs
<1>1. tool.base \in Seq(STRING) /\ tool.hash \in STRING
  BY NameConstants
<1>2. tool.base \in Seq(STRING \union Nat)
  BY <1>1
<1> QED BY <1>1, <1>2 DEF NameSeqs, Suffixed

LEMMA NumbersApart ==
  ASSUME NEW tool \in ToolDefs, NEW a \in Nat, NEW b \in Nat,
         Append(Suffixed(tool), a) = Append(Suffixed(tool), b)
  PROVE  a = b
<1>1. PICK s \in NameSeqs : s = Suffixed(tool)
  BY NamesAreSeqs
<1>2. Append(s, a)[Len(s) + 1] = a /\ Append(s, b)[Len(s) + 1] = b
  BY <1>1 DEF NameSeqs
<1> QED BY <1>1, <1>2

(***************************************************************************)
(* Among as many numbers as the code may have to try, one is free: fewer   *)
(* names are taken than there are numbers.                                 *)
(***************************************************************************)
LEMMA NumberFree ==
  ASSUME NEW tool \in ToolDefs, NEW n \in 0..MaxTools, NEW name, NEW B,
         \A x \in B : \E j \in 1..n : name[j] = x
  PROVE  \E m \in 2..(MaxTools + 2) : Append(Suffixed(tool), m) \notin B
<1>1. SUFFICES ASSUME \A m \in 2..(MaxTools + 2) : Append(Suffixed(tool), m) \in B
      PROVE FALSE
  OBVIOUS
<1> DEFINE F == [m \in 2..(MaxTools + 2) |->
                   CHOOSE j \in 1..n : name[j] = Append(Suffixed(tool), m)]
<1>2. \A m \in 2..(MaxTools + 2) : F[m] \in 1..n /\ name[F[m]] = Append(Suffixed(tool), m)
  BY <1>1
<1>3. F \in Injection(2..(MaxTools + 2), 1..n)
  <2>1. F \in [2..(MaxTools + 2) -> 1..n]
    BY <1>2
  <2>2. ASSUME NEW a \in 2..(MaxTools + 2), NEW b \in 2..(MaxTools + 2), F[a] = F[b]
        PROVE  a = b
    <3>1. a \in Nat /\ b \in Nat
      BY NameConstants
    <3>2. Append(Suffixed(tool), a) = Append(Suffixed(tool), b)
      BY <1>2, <2>2
    <3> QED BY <3>1, <3>2, NumbersApart
  <2> HIDE DEF F
  <2> QED BY <2>1, <2>2 DEF Injection, IsInjective
<1> HIDE DEF F
<1>4. IsFiniteSet(1..n) /\ Cardinality(1..n) = n
  BY FS_Interval, NameConstants
<1>5. Cardinality(2..(MaxTools + 2)) = MaxTools + 1
  BY FS_Interval, NameConstants
<1>6. Cardinality(2..(MaxTools + 2)) <= Cardinality(1..n)
  BY <1>3, <1>4, FS_Injection
<1> QED BY <1>4, <1>5, <1>6, NameConstants

LEMMA CandidateIsFree ==
  ASSUME NEW tool \in ToolDefs, NEW before, NEW reserved,
         \E m \in 2..(MaxTools + 2) : ~Taken(Append(Suffixed(tool), m), tool, before, reserved)
  PROVE  /\ Candidate(tool, before, reserved) \in NameSeqs
         /\ ~Taken(Candidate(tool, before, reserved), tool, before, reserved)
         /\ ~Taken(tool.base, tool, before, reserved)
              => Candidate(tool, before, reserved) = tool.base
<1> DEFINE IsTaken(name) == Taken(name, tool, before, reserved)
           Numbered(m) == Append(Suffixed(tool), m)
           T == {m \in 2..(MaxTools + 2) : ~IsTaken(Numbered(m))}
<1>1. PICK m \in T : \A k \in T : m <= k
  <2>1. T \in SUBSET Nat /\ T # {}
    BY NameConstants
  <2> QED BY <2>1, LeastNat
<1>2. /\ m \in 2..(MaxTools + 2) /\ ~IsTaken(Numbered(m))
      /\ \A k \in 2..(m - 1) : IsTaken(Numbered(k))
  BY <1>1, NameConstants
<1>3. PICK n \in 2..(MaxTools + 2) :
        /\ n = CHOOSE x \in 2..(MaxTools + 2) :
                 ~IsTaken(Numbered(x)) /\ \A k \in 2..(x - 1) : IsTaken(Numbered(k))
        /\ ~IsTaken(Numbered(n))
  BY <1>2
<1>4. Candidate(tool, before, reserved) =
        IF ~IsTaken(tool.base) THEN tool.base
        ELSE IF ~IsTaken(Suffixed(tool)) THEN Suffixed(tool)
        ELSE Numbered(n)
  BY <1>3 DEF Candidate
<1>5. Candidate(tool, before, reserved) \in NameSeqs
  BY <1>4, NamesAreSeqs, NameConstants
<1> QED BY <1>3, <1>4, <1>5

(***************************************************************************)
(* The first k names: each is new, no cleaned one is a valid name, and     *)
(* every valid name is given by the time of its tool.                      *)
(***************************************************************************)
ValidApart(tools) ==
  \A i, j \in DOMAIN tools :
    tools[i].safe /\ tools[j].safe /\ tools[i].base = tools[j].base => i = j
GoodNames(tools, k, s) ==
  /\ s \in Seq(NameSeqs) /\ Len(s) = k
  /\ \A i, j \in 1..k : s[i] = s[j] => i = j
  /\ \A i \in 1..k : ~tools[i].safe => s[i] \notin Reserved(tools)
  /\ \A i \in 1..k : tools[i].safe => \E j \in 1..i : s[j] = tools[i].base
  /\ ValidApart(tools) => \A i \in 1..k : tools[i].safe => s[i] = tools[i].base

LEMMA NextIsGood ==
  ASSUME NEW n \in 0..MaxTools, NEW tools \in [1..n -> ToolDefs],
         NEW k \in 1..n, NEW s, GoodNames(tools, k - 1, s)
  PROVE  GoodNames(tools, k, NextName(tools, s, k))
<1> DEFINE before == {s[i] : i \in 1..(k - 1)}
           reserved == Reserved(tools)
           tool == tools[k]
           name == Candidate(tool, before, reserved)
           next == Append(s, name)
<1>1. k \in Nat \ {0} /\ k - 1 \in Nat /\ n \in Nat /\ DOMAIN tools = 1..n /\ tool \in ToolDefs
  BY NameConstants
<1>2. s \in Seq(NameSeqs) /\ Len(s) = k - 1
  BY DEF GoodNames
<1>3. \E m \in 2..(MaxTools + 2) : ~Taken(Append(Suffixed(tool), m), tool, before, reserved)
  <2> DEFINE B == IF tool.safe THEN before ELSE before \union reserved
             at == [j \in 1..n |-> IF j < k THEN s[j] ELSE tools[j].base]
  <2>1. ASSUME NEW x \in B PROVE \E j \in 1..n : at[j] = x
    <3>1. CASE x \in before
      BY <1>1, <3>1
    <3>2. CASE x \notin before
      <4>1. x \in reserved
        BY <3>2
      <4>2. PICK i \in 1..n : tools[i].safe /\ tools[i].base = x
        BY <1>1, <4>1 DEF Reserved
      <4>3. ~(i < k)
        <5>1. ASSUME i \in 1..(k - 1) PROVE x \in before
          <6>1. PICK j \in 1..i : s[j] = tools[i].base
            BY <4>2, <5>1 DEF GoodNames
          <6> QED BY <1>1, <4>2, <5>1, <6>1
        <5> QED BY <1>1, <3>2, <5>1
      <4> QED BY <4>2, <4>3
    <3> QED BY <3>1, <3>2
  <2> HIDE DEF at, B
  <2>2. PICK m \in 2..(MaxTools + 2) : Append(Suffixed(tool), m) \notin B
    <3>1. \A x \in B : \E j \in 1..n : at[j] = x
      BY <2>1
    <3>2. PICK t \in ToolDefs : t = tool
      BY <1>1
    <3>3. \E m \in 2..(MaxTools + 2) : Append(Suffixed(t), m) \notin B
      BY <3>1, NumberFree
    <3> QED BY <3>2, <3>3
  <2>3. ~Taken(Append(Suffixed(tool), m), tool, before, reserved)
    BY <2>2 DEF B, Taken
  <2> QED BY <2>2, <2>3
<1>4. /\ name \in NameSeqs /\ ~Taken(name, tool, before, reserved)
      /\ ~Taken(tool.base, tool, before, reserved) => name = tool.base
  BY <1>1, <1>3, CandidateIsFree
<1>5. NextName(tools, s, k) = next
  BY DEF NextName
<1> HIDE DEF name
<1>6. /\ next \in Seq(NameSeqs) /\ Len(next) = k /\ next[k] = name
      /\ \A i \in 1..(k - 1) : next[i] = s[i]
  BY <1>1, <1>2, <1>4
<1> HIDE DEF next
<1>7. name \notin before
  BY <1>4 DEF Taken
<1>8. \A i, j \in 1..k : next[i] = next[j] => i = j
  BY <1>1, <1>6, <1>7 DEF GoodNames
<1>9. \A i \in 1..k : ~tools[i].safe => next[i] \notin Reserved(tools)
  BY <1>1, <1>4, <1>6 DEF GoodNames, Taken
<1>10. ASSUME NEW i \in 1..k, tools[i].safe
       PROVE  \E j \in 1..i : next[j] = tools[i].base
  <2>1. CASE i < k
    <3>1. i \in 1..(k - 1)
      BY <1>1, <2>1
    <3>2. PICK j \in 1..i : s[j] = tools[i].base
      BY <1>10, <3>1 DEF GoodNames
    <3> QED BY <1>1, <1>6, <3>1, <3>2
  <2>2. CASE i = k
    <3>1. CASE tool.base \in before
      BY <1>1, <1>6, <2>2, <3>1
    <3>2. CASE tool.base \notin before
      <4>1. name = tool.base
        BY <1>4, <1>10, <2>2, <3>2 DEF Taken
      <4> QED BY <1>1, <1>6, <2>2, <4>1
    <3> QED BY <3>1, <3>2
  <2> QED BY <1>1, <2>1, <2>2
<1>11. ASSUME ValidApart(tools), NEW i \in 1..k, tools[i].safe
       PROVE  next[i] = tools[i].base
  <2>1. CASE i < k
    BY <1>1, <1>6, <1>11, <2>1 DEF GoodNames
  <2>2. CASE i = k
    <3>1. tool.base \notin before
      <4> SUFFICES ASSUME NEW j \in 1..(k - 1), s[j] = tool.base PROVE FALSE
        OBVIOUS
      <4>1. j \in 1..n /\ j # k
        BY <1>1
      <4>2. CASE tools[j].safe
        <5>1. s[j] = tools[j].base
          BY <1>11, <4>2 DEF GoodNames
        <5> QED BY <1>1, <1>11, <2>2, <4>1, <4>2, <5>1 DEF ValidApart
      <4>3. CASE ~tools[j].safe
        <5>1. tool.base \in Reserved(tools)
          BY <1>1, <1>11, <2>2 DEF Reserved
        <5> QED BY <4>3, <5>1 DEF GoodNames
      <4> QED BY <4>2, <4>3
    <3>2. name = tool.base
      BY <1>4, <1>11, <2>2, <3>1 DEF Taken
    <3> QED BY <1>6, <2>2, <3>2
  <2> QED BY <1>1, <2>1, <2>2
<1> QED BY <1>5, <1>6, <1>8, <1>9, <1>10, <1>11 DEF GoodNames

LEMMA AllNamesGood ==
  ASSUME NEW n \in 0..MaxTools, NEW tools \in [1..n -> ToolDefs]
  PROVE  GoodNames(tools, n, ExposedNames(tools))
<1>1. Len(tools) = n /\ n \in Nat
  BY NameConstants
<1>2. PICK f : NamesFor(tools, n, f) /\ ExposedNames(tools) = f[n]
  BY <1>1, NamesUnfold
<1>3. \A k \in 0..n : f[k] = IF k = 0 THEN <<>> ELSE NextName(tools, f[k - 1], k)
  BY <1>2 DEF NamesFor
<1> DEFINE T == {k \in 0..n : ~GoodNames(tools, k, f[k])}
<1>4. T = {}
  <2>1. SUFFICES ASSUME T # {} PROVE FALSE
    OBVIOUS
  <2>2. PICK k \in T : \A j \in T : k <= j
    <3>1. T \in SUBSET Nat
      BY <1>1
    <3> QED BY <2>1, <3>1, LeastNat
  <2>3. CASE k = 0
    <3>1. f[0] = <<>>
      BY <1>1, <1>3
    <3>2. GoodNames(tools, 0, <<>>)
      BY DEF GoodNames
    <3> QED BY <2>2, <2>3, <3>1, <3>2
  <2>4. CASE k # 0
    <3>1. k \in 1..n /\ k - 1 \in 0..n /\ k - 1 \notin T
      BY <1>1, <2>2, <2>4
    <3>2. GoodNames(tools, k - 1, f[k - 1])
      BY <3>1
    <3>3. GoodNames(tools, k, NextName(tools, f[k - 1], k))
      BY <3>1, <3>2, NextIsGood
    <3> QED BY <1>3, <2>2, <2>4, <3>1, <3>3
  <2> QED BY <2>3, <2>4
<1> QED BY <1>1, <1>2, <1>4

(***************************************************************************)
(* NamesTellApart, for any tools.                                          *)
(***************************************************************************)
LEMMA NamesKept == NamesTellApart /\ [NamesNext]_nameVars => NamesTellApart'
<1> SUFFICES ASSUME NamesTellApart, [NamesNext]_nameVars PROVE NamesTellApart'
  OBVIOUS
<1>1. CASE UNCHANGED nameVars
  BY <1>1 DEF nameVars, NamesTellApart
<1>2. CASE NamesNext
  <2>0. PICK n \in 0..MaxTools : \E tools \in [1..n -> ToolDefs] :
          offered' = tools /\ exposed' = ExposedNames(tools)
    BY <1>2 DEF NamesNext, OfferTools
  <2>1. PICK tools \in [1..n -> ToolDefs] :
          offered' = tools /\ exposed' = ExposedNames(tools)
    BY <2>0
  <2>a. PICK names : names = exposed'
    OBVIOUS
  <2>2. GoodNames(tools, n, names)
    <3>1. GoodNames(tools, n, ExposedNames(tools))
      BY AllNamesGood
    <3> QED BY <2>a, <2>1, <3>1
  <2>3. DOMAIN exposed' = 1..n /\ DOMAIN offered' = 1..n
    BY <2>a, <2>1, <2>2 DEF GoodNames
  <2> QED BY <2>a, <2>1, <2>2, <2>3 DEF GoodNames, ValidApart, NamesTellApart
<1> QED BY <1>1, <1>2

-----------------------------------------------------------------------------
(* Servers: what a call is named for, and the answers it uses. *)

\* Separators(name), for any mark in the place of the underscore.
Marks(name, mark) == {i \in 1..(Len(name) - 1) : name[i] = mark /\ name[i + 1] = mark}

(***************************************************************************)
(* The first pair of marks ends the id, if the id has none and does not run*)
(* into the pair that follows it.                                          *)
(***************************************************************************)
LEMMA FirstMarkEndsId ==
  ASSUME NEW Letter, NEW mark \in Letter, NEW tool \in Letter, NEW id \in Seq(Letter),
         Marks(id, mark) = {}, id # <<>> => id[Len(id)] # mark
  PROVE  LET name == id \o <<mark, mark>> \o <<tool>>
         IN SubSeq(name, 1, (CHOOSE i \in Marks(name, mark) :
                               \A j \in Marks(name, mark) : i <= j) - 1) = id
<1>1. Len(id) \in Nat
  OBVIOUS
<1>2. <<mark, mark>> \in Seq(Letter) /\ Len(<<mark, mark>>) = 2
  OBVIOUS
<1>3. <<tool>> \in Seq(Letter) /\ Len(<<tool>>) = 1
  OBVIOUS
<1>4. PICK begun : begun = id \o <<mark, mark>>
  OBVIOUS
<1>5. /\ begun \in Seq(Letter) /\ Len(begun) = Len(id) + 2
      /\ \A i \in 1..Len(id) : begun[i] = id[i]
      /\ begun[Len(id) + 1] = mark /\ begun[Len(id) + 2] = mark
  BY <1>1, <1>2, <1>4
<1>6. PICK name : name = begun \o <<tool>>
  OBVIOUS
<1>7. /\ name \in Seq(Letter) /\ Len(name) = Len(id) + 3
      /\ \A i \in 1..Len(id) : name[i] = id[i]
      /\ name[Len(id) + 1] = mark /\ name[Len(id) + 2] = mark
  BY <1>1, <1>3, <1>5, <1>6
<1>8. Len(id) + 1 \in Marks(name, mark)
  BY <1>1, <1>7 DEF Marks
<1>9. ASSUME NEW j \in Marks(name, mark) PROVE j \in Int /\ Len(id) + 1 <= j
  <2>1. j \in 1..(Len(id) + 2) /\ name[j] = mark /\ name[j + 1] = mark
    BY <1>1, <1>7 DEF Marks
  <2>2. ~(j < Len(id))
    <3> SUFFICES ASSUME j < Len(id) PROVE FALSE
      OBVIOUS
    <3>1. id[j] = mark /\ id[j + 1] = mark /\ j \in 1..(Len(id) - 1)
      BY <1>1, <1>7, <2>1
    <3> QED BY <3>1 DEF Marks
  <2>3. j # Len(id)
    <3> SUFFICES ASSUME j = Len(id) PROVE FALSE
      OBVIOUS
    <3>1. id[j] = mark /\ id # <<>>
      BY <1>1, <1>7, <2>1
    <3> QED BY <3>1
  <2> QED BY <1>1, <2>1, <2>2, <2>3
<1>10. (CHOOSE i \in Marks(name, mark) : \A j \in Marks(name, mark) : i <= j) = Len(id) + 1
  BY <1>1, <1>8, <1>9
<1>11. PICK k : k = CHOOSE i \in Marks(name, mark) : \A j \in Marks(name, mark) : i <= j
  OBVIOUS
<1>12. k - 1 = Len(id)
  <2>1. k = Len(id) + 1
    BY <1>10, <1>11, Zenon
  <2> QED BY <1>1, <2>1
<1>13. SubSeq(name, 1, Len(id)) = id
  BY <1>1, <1>7
<1> QED BY <1>4, <1>6, <1>11, <1>12, <1>13, Zenon

(***************************************************************************)
(* Ids that the name of a tool leads back to.                              *)
(***************************************************************************)
PlainIds ==
  /\ \E Letter : {"_", "t"} \subseteq Letter /\ Ids \subseteq Seq(Letter)
  /\ \A id \in Ids : Separators(id) = {} /\ (id # <<>> => id[Len(id)] # "_")

LEMMA PlainComesBack ==
  ASSUME PlainIds, NEW id \in Ids
  PROVE  ServerId(Named(id)) = id
<1>1. \A name : Separators(name) = Marks(name, "_")
  BY Zenon DEF Separators, Marks
<1>2. Named(id) = id \o <<"_", "_">> \o <<"t">>
  BY Zenon DEF Named, ToolName
<1>3. Marks(id, "_") = {} /\ (id # <<>> => id[Len(id)] # "_")
  BY <1>1, Zenon DEF PlainIds
<1>4. PICK Letter : {"_", "t"} \subseteq Letter /\ Ids \subseteq Seq(Letter)
  BY Zenon DEF PlainIds
<1>5. "_" \in Letter /\ "t" \in Letter /\ id \in Seq(Letter)
  BY <1>4, Zenon
<1> QED BY <1>1, <1>2, <1>3, <1>5, FirstMarkEndsId, Zenon DEF ServerId

LEMMA PlainStays == PlainIds => PlainIds'
BY Zenon DEF PlainIds, Separators

ServerRecords == [id : Ids, transport : {"stdio", "http"}, gone : BOOLEAN]
McpCallRecords ==
  [at : 0..4, got : 0..3, tool : BOOLEAN,
   child : {"none", "running", "signalled", "closed"},
   outcome : {"none", "tools", "result", "failed"}]

McpTypes ==
  /\ server \in [ServerRows -> {NoServer} \union ServerRecords]
  /\ mcpCall \in [ServerRows -> McpCallRecords]
  /\ listed \subseteq [name : {Named(i) : i \in Ids}, row : ServerRows]
  /\ turn \in {"execute", "call"} => chosen.name \in {Named(i) : i \in Ids}

\* A call has no outcome while it lasts, and then what its last answer gave it.
CallOk(c) ==
  /\ c.at = 0 => c.child = "none" /\ c.outcome = "none"
  /\ c.at \in 1..3 => c.outcome = "none" /\ c.got < c.at
  /\ c.outcome = "tools" => c.got = 2
  /\ c.outcome = "result" => c.got = 3
  /\ c.at = 4 => c.child # "running"

CallInv(r) == CallOk(mcpCall[r])

\* The id comes back from the name of a tool.
IdsComeBack == \A i \in Ids : ServerId(Named(i)) = i

\* A call is that of a row which exists, and has the id that the tool is named for.
RouteInv(r) ==
  mcpCall[r].at # 0 =>
    /\ server[r] \in ServerRecords
    /\ IdsComeBack /\ turn = "call" => Named(server[r].id) = chosen.name

McpInv == McpTypes /\ \A r \in ServerRows : CallInv(r) /\ RouteInv(r)

LEMMA McpKinds ==
  /\ NoServer \notin ServerRecords
  /\ NoMcpCall \in McpCallRecords /\ NoMcpCall.at = 0
  /\ CallOk(NoMcpCall)
BY DEF NoServer, ServerRecords, NoMcpCall, McpCallRecords, CallOk

LEMMA CalledIs ==
  ASSUME NEW r, NEW tool \in BOOLEAN
  PROVE  /\ Called(r, tool) \in McpCallRecords /\ CallOk(Called(r, tool))
         /\ Called(r, tool).at = 1 /\ Called(r, tool).got = 0
         /\ Called(r, tool).outcome = "none"
BY DEF Called, McpCallRecords, CallOk

\* How the steps of one call change it.
LEMMA CallGoes ==
  ASSUME McpInv, NEW r \in ServerRows, AnswerRequest(r) \/ CallFails(r) \/ ChildCloses(r)
  PROVE  /\ mcpCall' \in [ServerRows -> McpCallRecords]
         /\ \A p \in ServerRows \ {r} : mcpCall'[p] = mcpCall[p]
         /\ CallInv(r)'
         /\ mcpCall[r].at # 0
<1> DEFINE c == mcpCall[r]
<1>1. c \in McpCallRecords /\ CallInv(r)
  BY DEF McpInv, McpTypes
<1>2. ASSUME NEW outcome \in {"tools", "result", "failed"}, NEW d \in McpCallRecords
      PROVE  /\ EndedAs(d, outcome) \in McpCallRecords
             /\ EndedAs(d, outcome).at = 4 /\ EndedAs(d, outcome).outcome = outcome
             /\ EndedAs(d, outcome).got = d.got /\ EndedAs(d, outcome).child # "running"
  BY DEF EndedAs, McpCallRecords
<1>3. ASSUME NEW d \in McpCallRecords, mcpCall' = [mcpCall EXCEPT ![r] = d],
             c.at # 0, CallOk(d)
      PROVE  /\ mcpCall' \in [ServerRows -> McpCallRecords]
             /\ \A p \in ServerRows \ {r} : mcpCall'[p] = mcpCall[p]
             /\ CallInv(r)'
             /\ mcpCall[r].at # 0
  <2>1. mcpCall'[r] = d
    BY <1>3 DEF McpInv, McpTypes
  <2> QED BY <1>3, <2>1 DEF McpInv, McpTypes, CallInv
<1>4. CASE AnswerRequest(r)
  <2> DEFINE e == [c EXCEPT !.got = c.at]
  <2>1. c.at \in 1..3 /\ \E d \in NextRequest(r, c.at) : mcpCall' = [mcpCall EXCEPT ![r] = d]
    BY <1>4 DEF AnswerRequest, Alive
  <2>2. e \in McpCallRecords /\ e.at = c.at /\ e.got = c.at /\ e.outcome = "none"
    BY <1>1, <2>1 DEF McpCallRecords, CallInv, CallOk
  <2> HIDE DEF e
  <2> DEFINE Goes(at) == [e EXCEPT !.at = at]
  <2>3. ASSUME NEW at \in {2, 3}
        PROVE  /\ Goes(at) \in McpCallRecords /\ Goes(at).at = at /\ Goes(at).got = c.at
               /\ Goes(at).outcome = "none"
    BY <2>2 DEF McpCallRecords
  <2>4. PICK d \in NextRequest(r, c.at) : mcpCall' = [mcpCall EXCEPT ![r] = d]
    BY <2>1
  <2>5. \/ e.at = 1 /\ d \in {Goes(2), Goes(3)}
        \/ e.at = 2 /\ d \in {EndedAs(e, "tools"), EndedAs(e, "failed"), Goes(3)}
        \/ e.at = 3 /\ d = EndedAs(e, "result")
    <3>1. CASE e.at = 1
      BY <2>2, <2>4, <3>1 DEF NextRequest, e
    <3>2. CASE e.at = 2
      BY <2>2, <2>4, <3>2 DEF NextRequest, e, McpCallRecords
    <3>3. CASE e.at = 3
      BY <2>2, <2>4, <3>3 DEF NextRequest, e
    <3> QED BY <2>1, <2>2, <3>1, <3>2, <3>3
  <2> HIDE DEF Goes
  <2>6. d \in McpCallRecords /\ CallOk(d)
    <3>1. ASSUME e.at = 1, d \in {Goes(2), Goes(3)} PROVE d \in McpCallRecords /\ CallOk(d)
      <4>1. d \in McpCallRecords /\ d.at \in {2, 3} /\ d.got = 1 /\ d.outcome = "none"
        BY <2>2, <2>3, <3>1
      <4> QED BY <4>1 DEF CallOk
    <3>2. ASSUME e.at = 2, d = Goes(3) PROVE d \in McpCallRecords /\ CallOk(d)
      <4>1. d \in McpCallRecords /\ d.at = 3 /\ d.got = 2 /\ d.outcome = "none"
        BY <2>2, <2>3, <3>2
      <4> QED BY <4>1 DEF CallOk
    <3>3. ASSUME NEW outcome \in {"tools", "result", "failed"}, d = EndedAs(e, outcome),
                 outcome = "tools" => e.at = 2, outcome = "result" => e.at = 3
          PROVE  d \in McpCallRecords /\ CallOk(d)
      <4>1. /\ d \in McpCallRecords /\ d.at = 4 /\ d.outcome = outcome /\ d.got = e.got
            /\ d.child # "running" /\ e.got = e.at
        BY <1>2, <2>2, <3>3
      <4> QED BY <3>3, <4>1 DEF CallOk
    <3>4. CASE e.at = 1
      BY <2>5, <3>1, <3>4
    <3>5. CASE e.at = 2
      BY <2>5, <3>2, <3>3, <3>5
    <3>6. CASE e.at = 3
      BY <2>5, <3>3, <3>6
    <3> QED BY <2>5, <3>4, <3>5, <3>6
  <2>7. c.at # 0
    BY <2>1
  <2> QED BY <1>3, <2>4, <2>6, <2>7
<1>5. CASE CallFails(r)
  <2>1. c.at \in 1..3 /\ mcpCall' = [mcpCall EXCEPT ![r] = EndedAs(c, "failed")]
    BY <1>5 DEF CallFails, Alive
  <2>2. PICK d \in McpCallRecords : d = EndedAs(c, "failed")
    BY <1>1, <1>2
  <2>3. d.at = 4 /\ d.outcome = "failed" /\ d.child # "running"
    BY <1>1, <1>2, <2>2
  <2>4. CallOk(d)
    BY <2>3 DEF CallOk
  <2>5. mcpCall' = [mcpCall EXCEPT ![r] = d] /\ c.at # 0
    BY <2>1, <2>2
  <2> QED BY <1>3, <2>2, <2>4, <2>5
<1>6. CASE ChildCloses(r)
  <2> DEFINE e == IF Alive(r) THEN EndedAs(c, "failed") ELSE c
             d == [e EXCEPT !.child = "closed"]
  <2>1. c.child \in {"running", "signalled"} /\ mcpCall' = [mcpCall EXCEPT ![r] = d]
    BY <1>6 DEF ChildCloses
  <2>2. c.at # 0
    BY <1>1, <2>1 DEF CallInv, CallOk
  <2>3. /\ e \in McpCallRecords /\ e.at = 4
        /\ e.outcome = "tools" => e.got = 2
        /\ e.outcome = "result" => e.got = 3
    BY <1>1, <1>2, <2>2 DEF Alive, McpCallRecords, CallInv, CallOk
  <2> HIDE DEF e
  <2>4. d \in McpCallRecords /\ d.at = 4 /\ d.child = "closed" /\ d.outcome = e.outcome
        /\ d.got = e.got
    BY <2>3 DEF McpCallRecords
  <2> HIDE DEF d
  <2>5. CallOk(d)
    BY <2>3, <2>4 DEF CallOk
  <2> QED BY <1>3, <2>1, <2>2, <2>4, <2>5
<1> QED BY <1>4, <1>5, <1>6

LEMMA McpKept == McpInv /\ [McpNext]_mcpVars => McpInv'
<1> SUFFICES ASSUME McpInv, [McpNext]_mcpVars PROVE McpInv'
  OBVIOUS
<1>1. CASE InstallServer
  <2>1. PICK r \in ServerRows, i \in Ids, transport \in {"stdio", "http"} :
          /\ server[r] = NoServer
          /\ server' = [server EXCEPT ![r] = [id |-> i, transport |-> transport, gone |-> FALSE]]
    BY <1>1 DEF InstallServer
  <2>2. mcpCall' = mcpCall /\ turn' = turn /\ listed' = listed /\ chosen' = chosen
    BY <1>1 DEF InstallServer, TurnAlone
  <2>3. server' \in [ServerRows -> {NoServer} \union ServerRecords]
        /\ \A p \in ServerRows \ {r} : server'[p] = server[p]
    BY <2>1 DEF McpInv, McpTypes, ServerRecords
  <2>4. mcpCall[r].at = 0
    BY <2>1, McpKinds DEF McpInv, RouteInv
  <2> QED BY <2>2, <2>3, <2>4 DEF McpInv, McpTypes, CallInv, RouteInv
<1>2. CASE RemoveServer
  <2>1. PICK r \in Configured : server' = [server EXCEPT ![r].gone = TRUE]
    BY <1>2 DEF RemoveServer
  <2>2. mcpCall' = mcpCall /\ turn' = turn /\ listed' = listed /\ chosen' = chosen
    BY <1>2 DEF RemoveServer, TurnAlone
  <2>3. r \in ServerRows /\ server[r] \in ServerRecords
    BY DEF Configured, McpInv, McpTypes
  <2>4. /\ server' \in [ServerRows -> {NoServer} \union ServerRecords]
        /\ \A p \in ServerRows \ {r} : server'[p] = server[p]
        /\ server'[r] \in ServerRecords /\ server'[r].id = server[r].id
    BY <2>1, <2>3 DEF McpInv, McpTypes, ServerRecords
  <2> QED BY <2>2, <2>3, <2>4 DEF McpInv, McpTypes, CallInv, RouteInv
<1>3. CASE Discover
  <2>1. /\ server' = server /\ turn' = "discover" /\ listed' = {}
        /\ mcpCall' = [r \in ServerRows |-> IF r \in Configured THEN Called(r, FALSE)
                                           ELSE NoMcpCall]
    BY <1>3 DEF Discover
  <2>2. McpTypes'
    BY <2>1, CalledIs, McpKinds DEF McpInv, McpTypes
  <2>3. ASSUME NEW r \in ServerRows PROVE CallInv(r)' /\ RouteInv(r)'
    <3>1. r \in Configured => server[r] \in ServerRecords
      BY DEF Configured, McpInv, McpTypes
    <3>2. mcpCall'[r] = IF r \in Configured THEN Called(r, FALSE) ELSE NoMcpCall
      BY <2>1
    <3>3. CASE r \in Configured
      BY <2>1, <3>1, <3>2, <3>3, CalledIs DEF CallInv, RouteInv
    <3>4. CASE r \notin Configured
      BY <2>1, <3>2, <3>4, McpKinds DEF CallInv, RouteInv
    <3> QED BY <3>3, <3>4
  <2> QED BY <2>2, <2>3 DEF McpInv
<1>4. ASSUME mcpCall' = [r \in ServerRows |-> NoMcpCall], server' = server, turn' # "call",
             listed' \subseteq [name : {Named(i) : i \in Ids}, row : ServerRows],
             turn' # "execute"
      PROVE  McpInv'
  <2>1. McpTypes'
    BY <1>4, McpKinds DEF McpInv, McpTypes
  <2>2. ASSUME NEW r \in ServerRows PROVE CallInv(r)' /\ RouteInv(r)'
    <3>1. mcpCall'[r] = NoMcpCall
      BY <1>4
    <3> QED BY <3>1, McpKinds DEF CallInv, RouteInv
  <2> QED BY <2>1, <2>2 DEF McpInv
<1>5. CASE Discovered
  <2>1. ASSUME NEW i \in Ids, Offering(i) # {}
        PROVE  (CHOOSE r \in Offering(i) : \A p \in Offering(i) : r <= p) \in ServerRows
    <3>1. Offering(i) \in SUBSET Nat /\ Offering(i) \subseteq ServerRows
      BY McpConstants DEF Offering, ServerRows
    <3>2. \E r \in Offering(i) : \A p \in Offering(i) : r <= p
      BY <2>1, <3>1, LeastNat
    <3> QED BY <3>1, <3>2
  <2>2. listed' \subseteq [name : {Named(i) : i \in Ids}, row : ServerRows]
    BY <1>5, <2>1 DEF Discovered
  <2> QED BY <1>4, <1>5, <2>2 DEF Discovered
<1>6. CASE ToolReturns
  BY <1>4, <1>6 DEF ToolReturns, McpInv, McpTypes
<1>7. CASE ChooseTool
  <2>1. /\ UNCHANGED <<server, listed, mcpCall>> /\ turn' # "call"
        /\ turn' = "execute" => chosen' \in listed
        /\ turn' \in {"execute", "rest"}
    BY <1>7 DEF ChooseTool
  <2> QED BY <2>1 DEF McpInv, McpTypes, CallInv, RouteInv
<1>8. CASE ExecuteTool
  <2> DEFINE target == Target(ServerId(chosen.name))
  <2>1. /\ turn = "execute" /\ UNCHANGED <<server, listed, chosen>>
        /\ IF target = {} THEN turn' = "rest" /\ UNCHANGED mcpCall
           ELSE /\ turn' = "call"
                /\ mcpCall' = [r \in ServerRows |-> IF r \in target THEN Called(r, TRUE)
                                                   ELSE NoMcpCall]
    BY <1>8 DEF ExecuteTool
  <2>2. PICK i \in Ids : chosen.name = Named(i)
    BY <2>1 DEF McpInv, McpTypes
  <2>3. ASSUME NEW r \in target
        PROVE  /\ r \in ServerRows /\ server[r] \in ServerRecords
               /\ IdsComeBack => Named(server[r].id) = chosen.name
    <3>1. r \in Configured /\ (IdsComeBack => server[r].id = i)
      BY <2>2 DEF Target, IdsComeBack
    <3> QED BY <2>2, <3>1 DEF Configured, McpInv, McpTypes
  <2> HIDE DEF target
  <2>4. CASE target = {}
    BY <2>1, <2>4 DEF McpInv, McpTypes, CallInv, RouteInv
  <2>5. CASE target # {}
    <3>1. McpTypes'
      <4>1. mcpCall' \in [ServerRows -> McpCallRecords]
        BY <2>1, <2>5, CalledIs, McpKinds
      <4> QED BY <2>1, <2>2, <4>1 DEF McpInv, McpTypes
    <3>2. ASSUME NEW r \in ServerRows PROVE CallInv(r)' /\ RouteInv(r)'
      <4>1. mcpCall'[r] = IF r \in target THEN Called(r, TRUE) ELSE NoMcpCall
        BY <2>1, <2>5
      <4>2. CASE r \in target
        BY <2>1, <2>3, <4>1, <4>2, CalledIs DEF CallInv, RouteInv
      <4>3. CASE r \notin target
        BY <2>1, <4>1, <4>3, McpKinds DEF CallInv, RouteInv
      <4> QED BY <4>2, <4>3
    <3> QED BY <3>1, <3>2 DEF McpInv
  <2> QED BY <2>4, <2>5
<1>9. ASSUME NEW r \in ServerRows, AnswerRequest(r) \/ CallFails(r) \/ ChildCloses(r)
      PROVE  McpInv'
  <2>1. UNCHANGED <<server, turn, listed, chosen>>
    BY <1>9 DEF AnswerRequest, CallFails, ChildCloses, TurnAlone
  <2> QED BY <1>9, <2>1, CallGoes DEF McpInv, McpTypes, CallInv, RouteInv
<1>10. CASE UNCHANGED mcpVars
  BY <1>10 DEF mcpVars, McpInv, McpTypes, CallInv, RouteInv
<1> QED BY <1>1, <1>2, <1>3, <1>5, <1>6, <1>7, <1>8, <1>9, <1>10 DEF McpNext

LEMMA McpStart == McpInit => McpInv
BY McpKinds DEF McpInit, McpInv, McpTypes, CallInv, RouteInv

LEMMA McpSaysAll == McpInv => (IdsComeBack => RoutedToOwner) /\ OwnAnswers
BY DEF McpInv, CallOk, RoutedToOwner, OwnAnswers, CallInv, RouteInv, Alive

-----------------------------------------------------------------------------
(* Harness processes: a command, and a session that speaks by lines. *)

(***************************************************************************)
(* What holds of a command: output that was lost is told, and only the     *)
(* time limit kills by force.                                              *)
(***************************************************************************)
CliInv ==
  /\ cli \in CliRecords
  /\ LossIsTold
  /\ cli.force => cli.timedOut

(***************************************************************************)
(* What holds of a session that speaks by lines: a request waits or was    *)
(* settled once, a closed session has nothing that waits, and it closes    *)
(* with its child stopped or gone, or on a line that broke.                *)
(***************************************************************************)
RpcInv ==
  /\ rpc \in RpcRecords
  /\ RpcSettlesOnce
  /\ rpc.closed => rpc.stopped \/ rpc.child = "dead" \/ rpc.broken
  /\ CloseStopsChild

HarnessInv == CliInv /\ RpcInv

LEMMA HarnessStart == HarnessInit => HarnessInv
<1> SUFFICES ASSUME HarnessInit PROVE HarnessInv
  OBVIOUS
<1> USE HarnessConstants DEF HarnessInit
<1>1. cli \in CliRecords
  BY DEF CliRecords
<1>2. rpc \in RpcRecords
  BY DEF RpcRecords
<1>3. LossIsTold /\ ~cli.force
  BY DEF LossIsTold
<1>4. RpcSettlesOnce /\ ~rpc.closed /\ CloseStopsChild
  BY DEF RpcSettlesOnce, CloseStopsChild
<1> QED BY <1>1, <1>2, <1>3, <1>4 DEF HarnessInv, CliInv, RpcInv

(***************************************************************************)
(* A step of either keeps what holds of the command.                       *)
(***************************************************************************)
LEMMA CliKept == CliInv /\ [HarnessNext]_harnessVars => CliInv'
<1> SUFFICES ASSUME CliInv, [HarnessNext]_harnessVars PROVE CliInv'
  OBVIOUS
<1> USE HarnessConstants DEF CliInv, LossIsTold
<1>1. CASE UNCHANGED cli
  BY <1>1
<1>2. CASE CliNext
  <2> USE DEF CliRecords
  <2>1. CASE SpawnCli
    <3>1. PICK late \in BOOLEAN :
            cli' = [cli EXCEPT !.phase = "running", !.child = "alive", !.timer = TRUE,
                               !.aborted = late, !.signals = IF late THEN {"TERM"} ELSE {}]
      BY <2>1 DEF SpawnCli
    <3>2. PICK s \in SUBSET {"TERM"} : s = IF late THEN {"TERM"} ELSE {}
      OBVIOUS
    <3>3. cli' = [cli EXCEPT !.phase = "running", !.child = "alive", !.timer = TRUE,
                             !.aborted = late, !.signals = s]
      BY <3>1, <3>2
    <3> QED BY <3>2, <3>3
  <2>2. CASE SpawnFails \/ OnClose
    BY <2>2 DEF SpawnFails, OnClose, Settled
  <2>3. CASE TimeOut
    BY <2>3 DEF TimeOut
  <2>4. CASE ForceKill
    BY <2>4 DEF ForceKill
  <2>5. CASE OnAbort
    BY <2>5 DEF OnAbort
  <2>6. CASE Fork \/ ChildExits \/ HeirExits
    BY <2>6 DEF Fork, ChildExits, HeirExits
  <2>7. ASSUME NEW n \in 1..(MaxOutput + 1), TakeOutput(n) PROVE CliInv'
    <3> DEFINE room == MaxOutput - cli.bytes
               bytes == IF n >= room THEN MaxOutput ELSE cli.bytes + n
               lost == cli.lost \/ n > room
               cut == cli.truncated \/ n >= room
               signals == IF n >= room THEN cli.signals \union {"TERM"} ELSE cli.signals
    <3>1. cli' = [cli EXCEPT !.bytes = bytes, !.lost = lost, !.truncated = cut,
                             !.signals = signals]
      BY <2>7 DEF TakeOutput
    <3>2. /\ bytes \in 0..MaxOutput
          /\ lost \in BOOLEAN /\ cut \in BOOLEAN /\ (lost => cut)
          /\ signals \in SUBSET {"TERM", "KILL"}
          /\ "KILL" \in signals => "KILL" \in cli.signals
      OBVIOUS
    <3> HIDE DEF bytes, lost, cut, signals
    <3> QED BY <3>1, <3>2
  <2> QED BY <1>2, <2>1, <2>2, <2>3, <2>4, <2>5, <2>6, <2>7 DEF CliNext
<1> QED
  BY <1>1, <1>2 DEF HarnessNext, harnessVars, RpcNext, Request, Respond, BreakLine,
                    RpcChildExits, CloseSession, OnlyRpc

(***************************************************************************)
(* Requests that are settled together keep their counts.                   *)
(***************************************************************************)
LEMMA SettleKeeps ==
  ASSUME rpc \in RpcRecords, RpcSettlesOnce, NEW ids \in SUBSET RpcIds,
         \A i \in ids : i \in rpc.pending \/ (rpc.settled[i] = 0 /\ i \notin rpc.asked)
  PROVE  /\ Settle(rpc, ids) \in RpcRecords
         /\ Settle(rpc, ids).pending = rpc.pending \ ids
         /\ Settle(rpc, ids).closed = rpc.closed
         /\ Settle(rpc, ids).stopped = rpc.stopped
         /\ Settle(rpc, ids).broken = rpc.broken
         /\ Settle(rpc, ids).child = rpc.child
         /\ Settle(rpc, ids).ended = rpc.ended
         /\ Settle(rpc, ids).asked = rpc.asked
         /\ \A i \in RpcIds :
              Settle(rpc, ids).settled[i]
                + (IF i \in Settle(rpc, ids).pending THEN 1 ELSE 0)
              = IF i \in Settle(rpc, ids).asked \/ Settle(rpc, ids).settled[i] > 0
                THEN 1 ELSE 0
<1> DEFINE set == [i \in RpcIds |-> IF i \in ids THEN rpc.settled[i] + 1 ELSE rpc.settled[i]]
<1>1. \A i \in RpcIds : i \in ids => rpc.settled[i] = 0
  BY DEF RpcSettlesOnce, RpcRecords
<1>2. set \in [RpcIds -> 0..2]
  BY <1>1 DEF RpcRecords
<1>3. Settle(rpc, ids) = [rpc EXCEPT !.settled = set, !.pending = rpc.pending \ ids]
  BY DEF Settle, RpcRecords
<1>4. \A i \in RpcIds :
        set[i] + (IF i \in rpc.pending \ ids THEN 1 ELSE 0)
        = IF i \in rpc.asked \/ set[i] > 0 THEN 1 ELSE 0
  BY <1>1 DEF RpcSettlesOnce, RpcRecords
<1> HIDE DEF set
<1>5. /\ Settle(rpc, ids) \in RpcRecords
      /\ Settle(rpc, ids).settled = set
      /\ Settle(rpc, ids).pending = rpc.pending \ ids
      /\ Settle(rpc, ids).closed = rpc.closed
      /\ Settle(rpc, ids).stopped = rpc.stopped
      /\ Settle(rpc, ids).broken = rpc.broken
      /\ Settle(rpc, ids).child = rpc.child
      /\ Settle(rpc, ids).ended = rpc.ended
      /\ Settle(rpc, ids).asked = rpc.asked
  BY <1>2, <1>3 DEF RpcRecords
<1> QED BY <1>4, <1>5

(***************************************************************************)
(* Closing settles what waits.                                             *)
(***************************************************************************)
LEMMA ClosedKeeps ==
  ASSUME RpcInv
  PROVE  /\ Closed(rpc) \in RpcRecords
         /\ Closed(rpc).pending = {} /\ Closed(rpc).closed
         /\ Closed(rpc).stopped = rpc.stopped
         /\ Closed(rpc).broken = rpc.broken
         /\ Closed(rpc).child = rpc.child
         /\ Closed(rpc).ended = rpc.ended
         /\ \A i \in RpcIds :
              Closed(rpc).settled[i] + (IF i \in Closed(rpc).pending THEN 1 ELSE 0)
              = IF i \in Closed(rpc).asked \/ Closed(rpc).settled[i] > 0 THEN 1 ELSE 0
<1>1. CASE rpc.closed
  BY <1>1 DEF Closed, RpcInv, RpcSettlesOnce
<1>2. CASE ~rpc.closed
  <2> DEFINE s == Settle(rpc, rpc.pending)
  <2>1. rpc.pending \in SUBSET RpcIds
    BY DEF RpcInv, RpcRecords
  <2>2. /\ s \in RpcRecords
        /\ s.pending = {}
        /\ s.stopped = rpc.stopped /\ s.broken = rpc.broken
        /\ s.child = rpc.child /\ s.ended = rpc.ended
        /\ \A i \in RpcIds : s.settled[i] + (IF i \in s.pending THEN 1 ELSE 0)
                             = IF i \in s.asked \/ s.settled[i] > 0 THEN 1 ELSE 0
    <3>1. rpc \in RpcRecords /\ RpcSettlesOnce /\ rpc.pending \ rpc.pending = {}
      BY DEF RpcInv
    <3>2. \A i \in rpc.pending : i \in rpc.pending \/ (rpc.settled[i] = 0 /\ i \notin rpc.asked)
      BY Zenon
    <3> QED BY <2>1, <3>1, <3>2, SettleKeeps, Zenon
  <2>3. Closed(rpc) = [s EXCEPT !.closed = TRUE]
    BY <1>2 DEF Closed
  <2> HIDE DEF s
  <2> QED BY <2>2, <2>3 DEF RpcRecords
<1> QED BY <1>1, <1>2

(***************************************************************************)
(* A step of either keeps what holds of the session.                       *)
(***************************************************************************)
LEMMA RpcKept == RpcInv /\ [HarnessNext]_harnessVars => RpcInv'
<1> SUFFICES ASSUME RpcInv, [HarnessNext]_harnessVars PROVE RpcInv'
  OBVIOUS
<1>1. CASE UNCHANGED rpc
  BY <1>1 DEF RpcInv, RpcSettlesOnce, CloseStopsChild
<1>2. ASSUME NEW i \in RpcIds, Request(i) \/ Respond(i) PROVE RpcInv'
  <2>1. CASE /\ i \notin rpc.asked /\ rpc.settled[i] = 0 /\ ~rpc.closed
             /\ rpc' = [rpc EXCEPT !.pending = @ \union {i}, !.asked = @ \union {i}]
    <3>1. /\ rpc' \in RpcRecords
          /\ rpc'.settled = rpc.settled /\ rpc'.closed = rpc.closed
          /\ rpc'.pending = rpc.pending \union {i} /\ rpc'.asked = rpc.asked \union {i}
          /\ rpc'.stopped = rpc.stopped /\ rpc'.child = rpc.child
          /\ rpc'.broken = rpc.broken /\ rpc'.ended = rpc.ended
      BY <2>1 DEF RpcInv, RpcRecords
    <3>2. i \notin rpc.pending
      BY <2>1 DEF RpcInv, RpcSettlesOnce, RpcRecords
    <3>3. rpc'.closed => rpc'.pending = {}
      BY <2>1, <3>1
    <3>4. ASSUME NEW j \in RpcIds
          PROVE  rpc'.settled[j] + (IF j \in rpc'.pending THEN 1 ELSE 0)
                 = IF j \in rpc'.asked \/ rpc'.settled[j] > 0 THEN 1 ELSE 0
      BY <2>1, <3>1, <3>2 DEF RpcInv, RpcSettlesOnce, RpcRecords
    <3> QED BY <3>1, <3>3, <3>4 DEF RpcInv, RpcSettlesOnce, CloseStopsChild
  <2>2. ASSUME NEW ids \in SUBSET RpcIds, rpc' = Settle(rpc, ids),
               \A j \in ids : j \in rpc.pending \/ (rpc.settled[j] = 0 /\ j \notin rpc.asked)
        PROVE  RpcInv'
    BY <2>2, SettleKeeps DEF RpcInv, RpcSettlesOnce, CloseStopsChild
  <2>3. CASE Respond(i)
    <3>1. {i} \intersect rpc.pending \in SUBSET RpcIds
      OBVIOUS
    <3>2. rpc' = Settle(rpc, {i} \intersect rpc.pending)
      BY <2>3 DEF Respond
    <3>3. \A j \in {i} \intersect rpc.pending :
             j \in rpc.pending \/ (rpc.settled[j] = 0 /\ j \notin rpc.asked)
      BY Zenon
    <3> QED BY <2>2, <3>1, <3>2, <3>3, Zenon
  <2>4. CASE Request(i)
    <3>1. {i} \in SUBSET RpcIds /\ i \notin rpc.asked /\ rpc.settled[i] = 0
      BY <2>4 DEF Request
    <3>2. CASE rpc' = Settle(rpc, {i})
      BY <2>2, <3>1, <3>2
    <3> QED BY <2>1, <2>4, <3>1, <3>2 DEF Request
  <2> QED BY <1>2, <2>3, <2>4
<1>3. CASE BreakLine
  <2> DEFINE r == IF rpc.listening THEN Closed(rpc) ELSE rpc
  <2>1. /\ r \in RpcRecords
        /\ r.closed => r.pending = {}
        /\ r.ended = rpc.ended
        /\ \A i \in RpcIds : r.settled[i] + (IF i \in r.pending THEN 1 ELSE 0)
                             = IF i \in r.asked \/ r.settled[i] > 0 THEN 1 ELSE 0
    BY ClosedKeeps DEF RpcInv, RpcSettlesOnce
  <2>2. rpc' = [r EXCEPT !.broken = TRUE]
    BY <1>3 DEF BreakLine
  <2> HIDE DEF r
  <2> QED BY <2>1, <2>2 DEF RpcInv, RpcRecords, RpcSettlesOnce, CloseStopsChild
<1>4. CASE RpcChildExits
  <2> DEFINE r == IF rpc.listening THEN Closed(rpc) ELSE rpc
  <2>1. /\ r \in RpcRecords
        /\ r.closed => r.pending = {}
        /\ r.ended = rpc.ended
        /\ \A i \in RpcIds : r.settled[i] + (IF i \in r.pending THEN 1 ELSE 0)
                             = IF i \in r.asked \/ r.settled[i] > 0 THEN 1 ELSE 0
    BY ClosedKeeps DEF RpcInv, RpcSettlesOnce
  <2>2. rpc' = [r EXCEPT !.child = "dead"]
    BY <1>4 DEF RpcChildExits
  <2> HIDE DEF r
  <2> QED BY <2>1, <2>2 DEF RpcInv, RpcRecords, RpcSettlesOnce, CloseStopsChild
<1>5. CASE CloseSession
  <2>1. CASE rpc.closed
    BY <1>5, <2>1 DEF CloseSession, RpcInv, RpcRecords, RpcSettlesOnce, CloseStopsChild
  <2>2. CASE ~rpc.closed
    <3> DEFINE r == Closed(rpc)
    <3>1. /\ r \in RpcRecords
          /\ r.pending = {}
          /\ \A i \in RpcIds : r.settled[i] + (IF i \in r.pending THEN 1 ELSE 0)
                               = IF i \in r.asked \/ r.settled[i] > 0 THEN 1 ELSE 0
      BY ClosedKeeps
    <3>2. rpc' = [r EXCEPT !.ended = TRUE, !.listening = FALSE, !.stopped = TRUE]
      BY <1>5, <2>2 DEF CloseSession
    <3> HIDE DEF r
    <3> QED BY <3>1, <3>2 DEF RpcInv, RpcRecords, RpcSettlesOnce, CloseStopsChild
  <2> QED BY <2>1, <2>2
<1>6. CASE CliNext
  BY <1>1, <1>6 DEF CliNext, SpawnCli, SpawnFails, TimeOut, ForceKill, OnAbort, Fork,
                    ChildExits, HeirExits, OnClose, TakeOutput, OnlyCli
<1> QED
  BY <1>1, <1>2, <1>3, <1>4, <1>5, <1>6 DEF HarnessNext, RpcNext, harnessVars

-----------------------------------------------------------------------------
(* The supervisor and its containers. *)

\* What a handler holds: a container that was made, and, to be removed as outdated,
\* one whose image is not the one that has the tag.
Holding(k) ==
  /\ DOMAIN k = {"at", "id"}
  /\ k.at \in {"inspect", "remove", "start", "boot", "screen", "stop", "delete"} => k.id \in Made
  /\ k.at = "remove" => box[k.id].image # built

BoxTypes ==
  box \in [Boxes -> [state : {"none", "stopped", "running", "removed"}, image : Nat]]

\* Containers are numbered in the order of their creation, by an image that was there.
BoxesInv ==
  /\ BoxTypes
  /\ built \in Nat
  /\ \E n \in 0..MaxBoxes : Made = 1..n
  /\ \A b \in Made : box[b].image <= built
  /\ DOMAIN boxCall = BoxCalls
  /\ \A c \in BoxCalls : Holding(boxCall[c])
  /\ given \subseteq Made
  /\ AnsweredLives

LEMMA BoxesStart == SupervisorInit => BoxesInv
<1> SUFFICES ASSUME SupervisorInit PROVE BoxesInv
  OBVIOUS
<1> USE SupervisorConstants DEF SupervisorInit
<1>1. Made = 1..0
  BY DEF Made, Nothing
<1>2. BoxTypes
  BY DEF Nothing, BoxTypes
<1>3. \A c \in BoxCalls : boxCall[c] = [at |-> "free", id |-> NoBox]
  BY DEF Waiting
<1> QED BY <1>1, <1>2, <1>3 DEF BoxesInv, AnsweredLives, Holding

(***************************************************************************)
(* Handlers that go on while the containers stay as they are.              *)
(***************************************************************************)
LEMMA CallGoesOn ==
  ASSUME BoxesInv, UNCHANGED <<box, built, given, dropped>>, DOMAIN boxCall' = BoxCalls,
         \A c \in BoxCalls : Holding(boxCall'[c])
  PROVE  BoxesInv'
<1>1. Made' = Made /\ AnsweredLives' /\ BoxTypes'
  BY DEF BoxesInv, BoxTypes, Made, AnsweredLives, Exists, Existing
<1> QED BY <1>1 DEF BoxesInv, Holding

(***************************************************************************)
(* A container that is there starts, stops or is removed: then somebody    *)
(* has asked to delete it or it was outdated.                              *)
(***************************************************************************)
LEMMA BoxMoves ==
  ASSUME BoxesInv, NEW b \in Existing, NEW to \in {"stopped", "running", "removed"},
         box' = [box EXCEPT ![b].state = to], UNCHANGED <<built, given>>,
         dropped \subseteq dropped',
         to = "removed" => b \in dropped' \/ box[b].image # built,
         DOMAIN boxCall' = BoxCalls, \A c \in BoxCalls : Holding(boxCall'[c])
  PROVE  BoxesInv'
<1>1. /\ BoxTypes'
      /\ \A e \in Boxes : /\ box'[e].image = box[e].image
                          /\ box'[e].state = IF e = b THEN to ELSE box[e].state
  BY DEF BoxesInv, BoxTypes, Existing
<1>2. Made' = Made
  BY <1>1 DEF Made, Existing
<1>3. AnsweredLives'
  BY <1>1 DEF BoxesInv, AnsweredLives, Exists, Existing, Made
<1>4. \A c \in BoxCalls : Holding(boxCall[c])'
  BY <1>1, <1>2 DEF Holding, Made
<1> QED BY <1>1, <1>2, <1>3, <1>4 DEF BoxesInv, Made

(***************************************************************************)
(* A step of one handler, between the others.                              *)
(***************************************************************************)
LEMMA HandlerKept == ASSUME BoxesInv, NEW c \in BoxCalls, CallNext(c) PROVE BoxesInv'
<1> DEFINE b == boxCall[c].id
           Goes(new) == boxCall' = [boxCall EXCEPT ![c] = new]
<1>0. ASSUME NEW new, Goes(new), Holding(new)
      PROVE  DOMAIN boxCall' = BoxCalls /\ \A e \in BoxCalls : Holding(boxCall'[e])
  BY <1>0 DEF BoxesInv
<1>A. \A at : Reach(c, at) => Goes([boxCall[c] EXCEPT !.at = at])
  BY DEF Reach, BoxesInv
<1>B. Answer(c) => Goes([at |-> "free", id |-> NoBox])
  BY DEF Answer, Waiting
<1>C. Holding([at |-> "free", id |-> NoBox])
  BY DEF Holding
<1>D. Holding(boxCall[c])
  BY DEF BoxesInv
<1>E. ASSUME NEW at, at \notin {"inspect", "remove", "start", "boot", "screen", "stop", "delete"}
      PROVE  Holding([boxCall[c] EXCEPT !.at = at])
  BY <1>D, <1>E DEF Holding
<1>F. ASSUME NEW at \in {"inspect", "start", "boot", "screen", "stop", "delete"}, b \in Made
      PROVE  Holding([boxCall[c] EXCEPT !.at = at])
  BY <1>D, <1>F DEF Holding
<1> HIDE DEF Goes
<1>1. CASE Provision(c)
  BY <1>1, <1>0, <1>A, <1>E, CallGoesOn DEF Provision, OnlyCall
<1>2. CASE LookForImage(c)
  BY <1>2, CallGoesOn DEF LookForImage, BoxesInv
<1>3. CASE ImageReady(c)
  BY <1>3, <1>0, <1>A, <1>B, <1>C, <1>E, CallGoesOn DEF ImageReady, OnlyCall
<1>4. ASSUME NEW goal \in {"stop", "delete", "operate"}, Manage(c, goal) PROVE BoxesInv'
  <2>1. PICK e \in Existing : Goes([at |-> goal, id |-> e])
    BY <1>4 DEF Manage, Goes
  <2>2. Holding([at |-> goal, id |-> e])
    BY <2>1 DEF Holding, Made, Existing
  <2> QED BY <1>4, <2>1, <2>2, <1>0, CallGoesOn DEF Manage, OnlyCall
<1>5. CASE List(c)
  <2>1. CASE Existing = {}
    BY <1>5, <2>1, <1>0, <1>A, <1>E, CallGoesOn DEF List, OnlyCall
  <2>2. CASE Existing # {}
    <3>1. PICK e \in Existing : Goes([at |-> "inspect", id |-> e])
      BY <1>5, <2>2 DEF List, Goes
    <3>2. Holding([at |-> "inspect", id |-> e])
      BY <3>1 DEF Holding, Made, Existing
    <3> QED BY <1>5, <3>1, <3>2, <1>0, CallGoesOn DEF List, OnlyCall
  <2> QED BY <2>1, <2>2
<1>6. CASE Inspect(c)
  <2>1. b \in Made
    BY <1>6, <1>D DEF Inspect, Holding
  <2>2. CASE ~Exists(b)
    BY <1>6, <2>2, <1>0, <1>B, <1>C, CallGoesOn DEF Inspect, OnlyCall
  <2>3. CASE Exists(b) /\ box[b].image # built
    <3>1. Holding([boxCall[c] EXCEPT !.at = "remove"])
      BY <2>1, <2>3, <1>D DEF Holding
    <3> QED BY <1>6, <2>3, <3>1, <1>0, <1>A, CallGoesOn DEF Inspect, OnlyCall
  <2>4. CASE Exists(b) /\ box[b].image = built
    <3>1. PICK at \in {"screen", "start"} : Reach(c, at)
      BY <1>6, <2>4 DEF Inspect
    <3> QED BY <1>6, <2>1, <3>1, <1>0, <1>A, <1>F, CallGoesOn DEF Inspect, OnlyCall
  <2> QED BY <2>2, <2>3, <2>4
<1>7. CASE Operate(c)
  BY <1>7, <1>0, <1>B, <1>C, CallGoesOn DEF Operate, OnlyCall
<1>8. CASE DockerFails(c)
  BY <1>8, <1>0, <1>A, <1>B, <1>C, <1>E, CallGoesOn DEF DockerFails
<1>9. CASE RemoveOutdated(c)
  <2>1. DOMAIN boxCall' = BoxCalls /\ \A e \in BoxCalls : Holding(boxCall'[e])
    BY <1>9, <1>0, <1>A, <1>E DEF RemoveOutdated
  <2>2. b \in Made /\ box[b].image # built
    BY <1>9, <1>D DEF RemoveOutdated, Holding
  <2>3. CASE Exists(b)
    BY <1>9, <2>1, <2>2, <2>3, BoxMoves DEF RemoveOutdated, SetState, Exists
  <2>4. CASE ~Exists(b)
    BY <1>9, <2>1, <2>4, CallGoesOn DEF RemoveOutdated
  <2> QED BY <2>3, <2>4
<1>10. CASE CreateBox(c)
  <2>1. CASE Existing # {}
    BY <1>10, <2>1, <1>0, <1>B, <1>C, CallGoesOn DEF CreateBox
  <2>2. CASE Existing = {}
    <3>1. PICK n \in 0..MaxBoxes : Made = 1..n
      BY DEF BoxesInv
    <3>2. Cardinality(Made) = n
      BY <3>1, FS_Interval, SupervisorConstants
    <3> DEFINE new == n + 1
    <3>3. /\ Made # Boxes
          /\ box' = [box EXCEPT ![new] = [state |-> "stopped", image |-> built]]
          /\ Goes([at |-> "boot", id |-> new])
          /\ UNCHANGED <<built, given, dropped>>
      BY <1>10, <2>2, <3>2 DEF CreateBox, Goes
    <3>4. new \in Boxes /\ new \notin Made
      BY <3>1, <3>3, SupervisorConstants DEF Boxes
    <3>5. /\ BoxTypes'
          /\ box'[new] = [state |-> "stopped", image |-> built]
          /\ \A e \in Boxes \ {new} : box'[e] = box[e]
      BY <3>3, <3>4 DEF BoxesInv, BoxTypes
    <3>6. Made' = Made \union {new}
      BY <3>4, <3>5 DEF Made
    <3>7. Made' = 1..(n + 1) /\ n + 1 \in 0..MaxBoxes
      BY <3>1, <3>4, <3>6, SupervisorConstants DEF Boxes
    <3>8. \A e \in Made : e \in Boxes \ {new}
      BY <3>4 DEF Made
    <3>9. AnsweredLives'
      BY <3>3, <3>5, <3>8 DEF BoxesInv, AnsweredLives, Exists, Existing
    <3>10. ASSUME NEW e \in BoxCalls PROVE Holding(boxCall[e])'
      <4>1. CASE e = c
        <5>1. boxCall'[c] = [at |-> "boot", id |-> new]
          BY <3>3 DEF Goes, BoxesInv
        <5> QED BY <4>1, <5>1, <3>6 DEF Holding
      <4>2. CASE e # c
        <5>1. boxCall'[e] = boxCall[e] /\ Holding(boxCall[e])
          BY <3>3, <4>2 DEF Goes, BoxesInv
        <5> QED BY <5>1, <3>3, <3>5, <3>6, <3>8 DEF Holding
      <4> QED BY <4>1, <4>2
    <3>11. \A e \in Made' : box'[e].image <= built'
      BY <3>3, <3>5, <3>6, <3>8 DEF BoxesInv
    <3>12. DOMAIN boxCall' = BoxCalls
      BY <3>3 DEF Goes, BoxesInv
    <3> QED BY <3>3, <3>5, <3>6, <3>7, <3>9, <3>10, <3>11, <3>12 DEF BoxesInv
  <2> QED BY <2>1, <2>2
<1>11. CASE StartBox(c)
  <2>1. b \in Made
    BY <1>11, <1>D DEF StartBox, Holding
  <2>2. CASE box[b].state = "stopped"
    <3>1. b \in Existing
      BY <2>1, <2>2 DEF Made, Existing
    <3>2. DOMAIN boxCall' = BoxCalls /\ \A e \in BoxCalls : Holding(boxCall'[e])
      BY <1>11, <2>1, <2>2, <1>0, <1>A, <1>F DEF StartBox
    <3> QED BY <1>11, <2>2, <3>1, <3>2, BoxMoves DEF StartBox, SetState
  <2>3. CASE box[b].state # "stopped"
    BY <1>11, <2>3, <1>0, <1>B, <1>C, CallGoesOn DEF StartBox
  <2> QED BY <2>2, <2>3
<1>12. CASE ScreenUrl(c)
  <2>1. b \in Made
    BY <1>12, <1>D DEF ScreenUrl, Holding
  <2>2. DOMAIN boxCall' = BoxCalls /\ \A e \in BoxCalls : Holding(boxCall'[e])
    BY <1>12, <1>0, <1>B, <1>C DEF ScreenUrl
  <2>3. UNCHANGED <<box, built, dropped>> /\ given' \subseteq given \union {b}
        /\ (b \in given' => b \in given \/ box[b].state = "running")
    BY <1>12 DEF ScreenUrl
  <2>4. AnsweredLives' /\ Made' = Made /\ given' \subseteq Made
    BY <2>1, <2>3 DEF BoxesInv, AnsweredLives, Exists, Existing, Made
  <2> QED BY <2>2, <2>3, <2>4 DEF BoxesInv, Holding, BoxTypes
<1>13. CASE StopBox(c)
  <2>1. DOMAIN boxCall' = BoxCalls /\ \A e \in BoxCalls : Holding(boxCall'[e])
    BY <1>13, <1>0, <1>B, <1>C DEF StopBox
  <2>2. CASE Exists(b)
    BY <1>13, <2>1, <2>2, BoxMoves DEF StopBox, SetState, Exists
  <2>3. CASE ~Exists(b)
    BY <1>13, <2>1, <2>3, CallGoesOn DEF StopBox
  <2> QED BY <2>2, <2>3
<1>14. CASE DeleteBox(c)
  <2>1. DOMAIN boxCall' = BoxCalls /\ \A e \in BoxCalls : Holding(boxCall'[e])
    BY <1>14, <1>0, <1>B, <1>C DEF DeleteBox
  <2>2. CASE Exists(b)
    BY <1>14, <2>1, <2>2, BoxMoves DEF DeleteBox, SetState, Exists
  <2>3. CASE ~Exists(b)
    BY <1>14, <2>1, <2>3, CallGoesOn DEF DeleteBox
  <2> QED BY <2>2, <2>3
<1> QED
  BY <1>1, <1>2, <1>3, <1>4, <1>5, <1>6, <1>7, <1>8, <1>9, <1>10, <1>11, <1>12, <1>13,
     <1>14 DEF CallNext

(***************************************************************************)
(* A step of a handler, of Docker or of the supervisor process.            *)
(***************************************************************************)
LEMMA BoxesKept == BoxesInv /\ [SupervisorNext]_supervisorVars => BoxesInv'
<1> SUFFICES ASSUME BoxesInv, [SupervisorNext]_supervisorVars PROVE BoxesInv'
  OBVIOUS
<1> USE SupervisorConstants
<1>1. CASE UNCHANGED supervisorVars
  BY <1>1, CallGoesOn DEF supervisorVars, BoxesInv
<1>2. CASE ImageSettled \/ Rebuild
  <2>1. /\ UNCHANGED <<box, boxCall, given, dropped>>
        /\ built' \in Nat /\ built' >= built
    BY <1>2 DEF ImageSettled, Rebuild, BoxesInv
  <2>2. Made' = Made /\ BoxTypes'
    BY <2>1 DEF Made, BoxesInv, BoxTypes
  <2>3. \A e \in Made : box[e].image \in Nat /\ box[e].image <= built
    BY DEF BoxesInv, BoxTypes, Made
  <2>4. AnsweredLives'
    BY <2>1, <2>3 DEF AnsweredLives, BoxesInv, Exists, Existing
  <2>5. \A c \in BoxCalls : Holding(boxCall[c])'
    BY <2>1, <2>2, <2>3 DEF BoxesInv, Holding
  <2> QED BY <2>1, <2>2, <2>3, <2>4, <2>5 DEF BoxesInv
<1>3. CASE Restart
  <2>1. /\ UNCHANGED <<box, built, given, dropped>>
        /\ boxCall' = [c \in BoxCalls |-> [at |-> "free", id |-> NoBox]]
    BY <1>3 DEF Restart, Waiting
  <2> QED BY <2>1, CallGoesOn DEF Holding
<1>4. ASSUME NEW b \in Boxes, BoxExits(b) PROVE BoxesInv'
  <2>1. /\ UNCHANGED <<built, boxCall, given, dropped>>
        /\ box' = [box EXCEPT ![b].state = "stopped"] /\ b \in Existing
    BY <1>4 DEF BoxExits, SetState, Existing
  <2> QED BY <2>1, BoxMoves DEF BoxesInv
<1> QED
  BY <1>1, <1>2, <1>3, <1>4, HandlerKept DEF SupervisorNext

-----------------------------------------------------------------------------
(* Windows of the week. *)

(***************************************************************************)
(* Arithmetic of days and minutes.                                         *)
(***************************************************************************)
LEMMA SmallRest == \A n \in Nat \ {0}, x \in Nat : x < n => x % n = x
OBVIOUS

LEMMA NextRest == \A n \in Nat \ {0}, x \in Nat : x < n => (n + x) % n = x
OBVIOUS

LEMMA DivParts ==
  \A n \in Nat \ {0}, x \in Nat :
    /\ x \div n \in Nat /\ x % n \in 0..(n - 1)
    /\ x = (x \div n) * n + (x % n)
<1> SUFFICES ASSUME NEW n \in Nat \ {0}, NEW x \in Nat
             PROVE  /\ x \div n \in Nat /\ x % n \in 0..(n - 1)
                    /\ x = (x \div n) * n + (x % n)
  OBVIOUS
<1>1. x \div n \in Nat
  OBVIOUS
<1>2. x % n \in 0..(n - 1)
  OBVIOUS
<1>3. x = n * (x \div n) + (x % n)
  OBVIOUS
<1>4. n * (x \div n) = (x \div n) * n
  BY <1>1
<1> QED BY <1>1, <1>2, <1>3, <1>4

LEMMA TimesGrow == \A a, b, n \in Nat : a < b => a * n + n <= b * n
<1> SUFFICES ASSUME NEW a \in Nat, NEW b \in Nat, NEW n \in Nat, a < b
             PROVE  a * n + n <= b * n
  OBVIOUS
<1>1. PICK c \in Nat : b = a + 1 + c
  <2>1. b - a - 1 \in Nat /\ b = a + 1 + (b - a - 1)
    OBVIOUS
  <2> QED BY <2>1
<1>2. b * n = a * n + n + c * n /\ c * n >= 0
  BY <1>1
<1> QED BY <1>2

LEMMA DivOnly ==
  \A n \in Nat \ {0}, a \in Nat, j \in Nat :
    j < n => (a * n + j) \div n = a /\ (a * n + j) % n = j
OBVIOUS

(***************************************************************************)
(* The last answer is the one for the policy, the minute and the sessions  *)
(* of now.                                                                 *)
(***************************************************************************)
ServiceInv ==
  /\ policy \in Policies
  /\ weekTime \in 0..(WeekDays * DayMinutes - 1)
  /\ sessions \in 0..MaxSessions
  /\ service = Desired(policy, weekTime, sessions)

(***************************************************************************)
(* A minute of the week is one of a day of the week.                       *)
(***************************************************************************)
LEMMA MinuteOfDay ==
  ASSUME NEW t \in 0..(WeekDays * DayMinutes - 1)
  PROVE  /\ WeekdayAt(t) \in 0..(WeekDays - 1) /\ MinuteAt(t) \in 0..(DayMinutes - 1)
         /\ t = WeekdayAt(t) * DayMinutes + MinuteAt(t)
<1> USE ServiceConstants DEF WeekdayAt, MinuteAt
<1>1. WeekDays * DayMinutes \in Nat /\ t \in Nat /\ t < WeekDays * DayMinutes
  OBVIOUS
<1>2. /\ WeekdayAt(t) \in Nat /\ MinuteAt(t) \in 0..(DayMinutes - 1)
      /\ t = WeekdayAt(t) * DayMinutes + MinuteAt(t)
  BY <1>1, DivParts
<1>3. ASSUME WeekDays <= WeekdayAt(t) PROVE FALSE
  <2> HIDE DEF WeekdayAt, MinuteAt
  <2>1. CASE WeekDays = WeekdayAt(t)
    BY <1>1, <1>2, <2>1
  <2>2. CASE WeekDays < WeekdayAt(t)
    <3>1. WeekDays * DayMinutes + DayMinutes <= WeekdayAt(t) * DayMinutes
      BY <1>2, <2>2, TimesGrow
    <3>2. WeekdayAt(t) * DayMinutes \in Nat
      BY <1>2
    <3> QED BY <1>1, <1>2, <3>1, <3>2
  <2> QED BY <1>2, <1>3, <2>1, <2>2
<1> QED BY <1>2, <1>3

(***************************************************************************)
(* A minute of a day has its place in the week.                            *)
(***************************************************************************)
LEMMA DayAndMinute ==
  ASSUME NEW d \in 0..(WeekDays - 1), NEW j \in 0..(DayMinutes - 1)
  PROVE  /\ d * DayMinutes + j \in 0..(WeekDays * DayMinutes - 1)
         /\ WeekdayAt(d * DayMinutes + j) = d
         /\ MinuteAt(d * DayMinutes + j) = j
         /\ (d * DayMinutes + j) % (WeekDays * DayMinutes) = d * DayMinutes + j
<1> USE ServiceConstants
<1>1. WeekDays * DayMinutes \in Nat \ {0} /\ d * DayMinutes \in Nat
  OBVIOUS
<1>2. d * DayMinutes + DayMinutes <= WeekDays * DayMinutes
  BY TimesGrow
<1>3. d * DayMinutes + j \in Nat /\ d * DayMinutes + j < WeekDays * DayMinutes
  BY <1>1, <1>2
<1>4. (d * DayMinutes + j) % (WeekDays * DayMinutes) = d * DayMinutes + j
  BY <1>1, <1>3, SmallRest
<1>5. WeekdayAt(d * DayMinutes + j) = d /\ MinuteAt(d * DayMinutes + j) = j
  BY DivOnly DEF WeekdayAt, MinuteAt
<1> QED BY <1>1, <1>3, <1>4, <1>5

\* Whether the minute m of a day is in the window that the day starts, and in the
\* one that the day before started.
SameDay(start, end, m) ==
  start = end \/ (start < end /\ m \in start..(end - 1)) \/ (start > end /\ m >= start)
NextDay(start, end, m) == start > end /\ m < end

(***************************************************************************)
(* What a window covers by minutes counted from the start of its days.     *)
(***************************************************************************)
LEMMA CoveredMinutes ==
  ASSUME NEW w \in Windows, NEW t \in 0..(WeekDays * DayMinutes - 1)
  PROVE  t \in Covered(w) <=>
           \/ WeekdayAt(t) \in w.days /\ SameDay(Bound(w.start), Bound(w.end), MinuteAt(t))
           \/ /\ (WeekdayAt(t) + WeekDays - 1) % WeekDays \in w.days
              /\ NextDay(Bound(w.start), Bound(w.end), MinuteAt(t))
<1> USE ServiceConstants
<1> DEFINE D == DayMinutes
           s == Bound(w.start)
           e == Bound(w.end)
           length == (e - s) % D
           Steps == IF length = 0 THEN 0..(D - 1) ELSE s..(s + length - 1)
           day == WeekdayAt(t)
           m == MinuteAt(t)
<1>1. s \in 0..(D - 1) /\ e \in 0..(D - 1) /\ w.days \subseteq 0..(WeekDays - 1)
  BY DEF Bound, Windows
<1>2. /\ day \in 0..(WeekDays - 1) /\ m \in 0..(D - 1)
      /\ t = day * D + m
  BY MinuteOfDay
<1>3. t \in Covered(w) <=>
        \E d \in w.days, k \in Steps : t = (d * D + k) % (WeekDays * D)
  BY DEF Covered
<1>4. CASE s <= e
  <2>1. s = e => length = 0
    BY <1>1, SmallRest
  <2>2. s < e => length = e - s
    BY <1>1, SmallRest
  <2>3. \A k : k \in Steps <=> k \in 0..(D - 1) /\ SameDay(s, e, k)
    BY <1>1, <1>4, <2>1, <2>2 DEF SameDay
  <2>4. \A d \in w.days, k \in 0..(D - 1) :
          t = (d * D + k) % (WeekDays * D) <=> d = day /\ k = m
    BY <1>1, <1>2, DayAndMinute
  <2>5. ~NextDay(s, e, m)
    BY <1>1, <1>4 DEF NextDay
  <2>6. (\E d \in w.days, k \in Steps : t = (d * D + k) % (WeekDays * D))
        <=> day \in w.days /\ m \in Steps
    <3>1. \A d \in w.days, k \in Steps :
            t = (d * D + k) % (WeekDays * D) <=> d = day /\ k = m
      BY <2>3, <2>4
    <3> HIDE DEF Steps, day, m, D
    <3> QED BY <3>1, Zenon
  <2>7. m \in Steps <=> SameDay(s, e, m)
    BY <1>2, <2>3
  <2> HIDE DEF Steps, length, s, e, day, m, D
  <2>8. t \in Covered(w) <=> day \in w.days /\ SameDay(s, e, m)
    BY <1>3, <2>6, <2>7, Zenon
  <2> USE DEF s, e, day, m
  <2> QED BY <2>5, <2>8, Zenon
<1>5. CASE s > e
  <2>1. length = D + e - s
    <3>1. \A x \in -D..-1 : x % D = D + x \/ x = -D
      OBVIOUS
    <3> QED BY <1>1, <1>5, <3>1
  <2>2. Steps = s..(D + e - 1)
    BY <1>1, <1>5, <2>1
  <2>3. \A d \in w.days, k \in s..(D - 1) :
          t = (d * D + k) % (WeekDays * D) <=> d = day /\ k = m
    BY <1>1, <1>2, DayAndMinute
  <2>4. ASSUME NEW d \in w.days, NEW j \in 0..(e - 1)
        PROVE  t = (d * D + (D + j)) % (WeekDays * D)
                 <=> d = (day + WeekDays - 1) % WeekDays /\ j = m
    <3>1. d \in 0..(WeekDays - 1) /\ j \in 0..(D - 1) /\ d * D \in Nat
      BY <1>1
    <3>2. CASE d = WeekDays - 1
      <4>1. d * D + (D + j) = WeekDays * D + j
        BY <3>1, <3>2
      <4>2. WeekDays * D \in Nat \ {0} /\ j < WeekDays * D
        BY <3>1, DayAndMinute
      <4>3. (d * D + (D + j)) % (WeekDays * D) = j
        BY <4>1, <4>2, <3>1, NextRest
      <4>4. WeekdayAt(0 * D + j) = 0 /\ MinuteAt(0 * D + j) = j /\ 0 * D + j = j
        BY <3>1, DayAndMinute
      <4>5. t = j <=> day = 0 /\ m = j
        BY <4>4, <1>2, <3>1
      <4>6. day = 0 <=> d = (day + WeekDays - 1) % WeekDays
        <5>1. day = 0 => (day + WeekDays - 1) % WeekDays = WeekDays - 1
          BY SmallRest
        <5>2. day # 0 => (day + WeekDays - 1) % WeekDays = day - 1
          <6>1. day # 0 => day - 1 \in Nat /\ day - 1 < WeekDays
                           /\ day + WeekDays - 1 = WeekDays + (day - 1)
            BY <1>2
          <6> QED BY <6>1, NextRest
        <5> QED BY <1>2, <3>2, <5>1, <5>2
      <4> QED BY <4>3, <4>5, <4>6
    <3>3. CASE d # WeekDays - 1
      <4>1. d + 1 \in 0..(WeekDays - 1) /\ d * D + (D + j) = (d + 1) * D + j
        BY <3>1, <3>3
      <4>2. t = (d * D + (D + j)) % (WeekDays * D) <=> day = d + 1 /\ m = j
        <5>1. /\ WeekdayAt((d + 1) * D + j) = d + 1
              /\ MinuteAt((d + 1) * D + j) = j
              /\ ((d + 1) * D + j) % (WeekDays * D) = (d + 1) * D + j
          BY <4>1, <3>1, DayAndMinute, Zenon
        <5>2. (day = d + 1 /\ m = j) => t = (d + 1) * D + j
          BY <1>2
        <5> QED BY <4>1, <5>1, <5>2
      <4>3. day = d + 1 <=> d = (day + WeekDays - 1) % WeekDays
        <5>1. day = 0 => (day + WeekDays - 1) % WeekDays = WeekDays - 1
          BY SmallRest
        <5>2. day # 0 => (day + WeekDays - 1) % WeekDays = day - 1
          <6>1. day # 0 => day - 1 \in Nat /\ day - 1 < WeekDays
                           /\ day + WeekDays - 1 = WeekDays + (day - 1)
            BY <1>2
          <6> QED BY <6>1, NextRest
        <5>3. CASE day = 0
          BY <3>1, <3>3, <5>1, <5>3
        <5>4. CASE day # 0
          BY <1>2, <3>1, <5>2, <5>4
        <5> QED BY <5>3, <5>4
      <4> QED BY <4>2, <4>3
    <3> QED BY <3>2, <3>3
  <2>5. \A k : k \in Steps <=> k \in s..(D - 1) \/ (k - D \in 0..(e - 1) /\ k \in Int)
    BY <1>1, <1>5, <2>2
  <2>6. (\E d \in w.days, k \in s..(D - 1) : t = (d * D + k) % (WeekDays * D))
        <=> day \in w.days /\ SameDay(s, e, m)
    BY <1>1, <1>2, <1>5, <2>3 DEF SameDay
  <2>7. (\E d \in w.days, j \in 0..(e - 1) : t = (d * D + (D + j)) % (WeekDays * D))
        <=> (day + WeekDays - 1) % WeekDays \in w.days /\ NextDay(s, e, m)
    BY <1>1, <1>2, <1>5, <2>4 DEF NextDay
  <2>8. (\E d \in w.days, k \in Steps : t = (d * D + k) % (WeekDays * D))
        <=> \/ \E d \in w.days, k \in s..(D - 1) : t = (d * D + k) % (WeekDays * D)
            \/ \E d \in w.days, j \in 0..(e - 1) : t = (d * D + (D + j)) % (WeekDays * D)
    <3>1. ASSUME NEW d \in w.days, NEW k \in Steps, t = (d * D + k) % (WeekDays * D),
                 k \notin s..(D - 1)
          PROVE  \E j \in 0..(e - 1) : t = (d * D + (D + j)) % (WeekDays * D)
      <4>1. k - D \in 0..(e - 1) /\ D + (k - D) = k
        BY <1>1, <2>5, <3>1
      <4>2. t = (d * D + (D + (k - D))) % (WeekDays * D)
        BY <3>1, <4>1
      <4> QED BY <4>1, <4>2
    <3>2. \A k \in s..(D - 1) : k \in Steps
      BY <2>5
    <3>3. \A j \in 0..(e - 1) : D + j \in Steps
      BY <1>1, <1>5, <2>2
    <3> HIDE DEF Steps, s, e, D
    <3> QED BY <3>1, <3>2, <3>3, Zenon
  <2> HIDE DEF Steps, length, D
  <2> QED BY <1>3, <2>6, <2>7, <2>8, Zenon
<1> QED BY <1>1, <1>4, <1>5

(***************************************************************************)
(* isScheduleWindowActive answers for the minutes a window covers.         *)
(***************************************************************************)
LEMMA CoveredIsActive ==
  ASSUME NEW w \in Windows, NEW t \in 0..(WeekDays * DayMinutes - 1), w.enabled
  PROVE  t \in Covered(w) <=> WindowActive(w, t)
<1>1. MinuteAt(t) \in 0..(DayMinutes - 1)
  BY MinuteOfDay
<1>2. /\ Bound(w.start) \in 0..(DayMinutes - 1)
      /\ Bound(w.end) \in 0..(DayMinutes - 1)
  BY ServiceConstants DEF Bound, Windows
<1> QED BY <1>1, <1>2, CoveredMinutes, ServiceConstants DEF WindowActive, SameDay, NextDay

LEMMA ServiceStart == ServiceInit => ServiceInv
BY ServiceConstants DEF ServiceInit, ServiceInv

(***************************************************************************)
(* The clock, the user and the sessions each ask again.                    *)
(***************************************************************************)
LEMMA ServiceKept == ServiceInv /\ [ServiceNext]_serviceVars => ServiceInv'
<1> SUFFICES ASSUME ServiceInv, [ServiceNext]_serviceVars PROVE ServiceInv'
  OBVIOUS
<1> USE ServiceConstants DEF ServiceInv
<1>1. CASE NextMinute
  <2>1. WeekDays * DayMinutes \in Nat \ {0} /\ weekTime \in Nat
    OBVIOUS
  <2>2. weekTime' \in 0..(WeekDays * DayMinutes - 1)
    BY <1>1, <2>1, DivParts DEF NextMinute
  <2> QED BY <1>1, <2>2 DEF NextMinute, Evaluate
<1>2. CASE SetPolicy \/ ChangeSessions
  BY <1>2 DEF SetPolicy, ChangeSessions, Evaluate
<1>3. CASE UNCHANGED serviceVars
  BY <1>3 DEF serviceVars, Desired
<1> QED BY <1>1, <1>2, <1>3 DEF ServiceNext

(***************************************************************************)
(* What an answer for now means for sessions and windows.                  *)
(***************************************************************************)
LEMMA ServiceSays == ServiceInv => SessionsSurviveWindow
<1> SUFFICES ASSUME ServiceInv PROVE SessionsSurviveWindow
  OBVIOUS
<1>1. /\ policy.close \in {"drain", "leave-active", "terminate-active"}
      /\ policy.windows \subseteq Windows
  BY ServiceConstants DEF ServiceInv
<1> DEFINE open == \E w \in policy.windows : w.enabled /\ weekTime \in Covered(w)
<1>2. open <=> \E w \in policy.windows : WindowActive(w, weekTime)
  <2>1. \A w \in policy.windows : WindowActive(w, weekTime) => w.enabled
    BY DEF WindowActive
  <2> QED BY <1>1, <2>1, CoveredIsActive DEF ServiceInv
<1>3. service = Desired(policy, weekTime, sessions) /\ sessions \in Nat
  BY ServiceConstants DEF ServiceInv
<1>4. (service = "stopped" /\ policy.enabled /\ sessions > 0)
        => policy.close = "terminate-active"
  BY <1>1, <1>3 DEF Desired
<1>5. (policy.enabled /\ policy.windows # {}) =>
        /\ open => service = "running"
        /\ (~open /\ sessions = 0) => service = "stopped"
  <2> DEFINE now == \E w \in policy.windows : WindowActive(w, weekTime)
  <2>1. ASSUME policy.enabled, policy.windows # {}
        PROVE  /\ now => service = "running"
               /\ (~now /\ sessions = 0) => service = "stopped"
    BY <1>3, <2>1 DEF Desired
  <2> HIDE DEF open, now
  <2>2. open <=> now
    BY <1>2 DEF now
  <2> QED BY <2>1, <2>2
<1> QED BY <1>4, <1>5 DEF SessionsSurviveWindow

-----------------------------------------------------------------------------
(* A bot's files between the container and this Mac. *)

\* Numbers where numbers are, and a run is a record.
HostNumbers ==
  /\ {home, desk, removedHome, newest, finished} \subseteq Nat
  /\ finished <= newest
  /\ hostRun \in [at : {"off", "paused", "working"},
                  machine : Computers \union {"none"}, wrote : Nat]
  /\ hostRun.wrote <= newest
  /\ gap \in BOOLEAN

\* As long as no gap was met the stored home has what was finished, and so has the
\* directory on this Mac while the row names it; a turn works on the computer that
\* the row names, with the home mounted if it is a container, and has its writes.
HostKeeps ==
  /\ home >= finished
  /\ named = "desktop" => desk >= finished
  /\ hostRun.at = "working" =>
       /\ hostRun.machine \in Computers /\ named = hostRun.machine
       /\ hostRun.machine = "docker" => mounted /\ hostRun.wrote <= home
       /\ hostRun.machine = "desktop" => hostRun.wrote <= desk

HostInv == HostNumbers /\ (~gap => HostKeeps)

LEMMA HostStart == HostInit => HostInv
<1> SUFFICES ASSUME HostInit PROVE HostInv
  OBVIOUS
<1>1. HostNumbers
  <2>1. gap \in BOOLEAN
    BY DEF HostInit
  <2>2. {home, desk, removedHome, newest, finished} = {0} /\ hostRun = NoTurn("off")
    BY DEF HostInit
  <2> QED BY <2>1, <2>2 DEF HostNumbers, NoTurn, Computers
<1>2. HostKeeps
  BY DEF HostInit, HostKeeps, NoTurn
<1> QED BY <1>1, <1>2 DEF HostInv

(***************************************************************************)
(* Each handler keeps it, by machine that is chosen or named.              *)
(***************************************************************************)
LEMMA HostKept == HostInv /\ [HostNext]_hostVars => HostInv'
<1> SUFFICES ASSUME HostInv, [HostNext]_hostVars PROVE HostInv'
  OBVIOUS
<1> USE DEF HostInv, Computers, fileVars, NoTurn
<1>1. CASE Switch
  BY <1>1 DEF Switch, HostNumbers, HostKeeps
<1>2. CASE EnsureComputer
  <2>1. HostNumbers'
    BY <1>2 DEF EnsureComputer, HostNumbers, Restored, Chosen, StaleMount
  <2>2. ~gap' => HostKeeps'
    <3>1. CASE Chosen = "docker"
      <4>1. ~gap' => ~gap /\ mounted'
        BY <1>2, <3>1, Zenon DEF EnsureComputer, StaleMount, ProvisionComputer
      <4>2. /\ UNCHANGED <<home, newest, finished>>
            /\ named' = "docker"
            /\ hostRun' = [at |-> "working", machine |-> "docker", wrote |-> 0]
        BY <1>2, <3>1 DEF EnsureComputer
      <4> QED BY <4>1, <4>2 DEF HostNumbers, HostKeeps
    <3>2. CASE Chosen = "desktop"
      <4>1. desk' = home \/ (desk' = desk /\ named = "desktop")
        BY <1>2, <3>2 DEF EnsureComputer, Restored, Replaced
      <4> QED BY <1>2, <3>2, <4>1 DEF EnsureComputer, HostNumbers, HostKeeps
    <3> QED BY <3>1, <3>2 DEF Chosen
  <2> QED BY <2>1, <2>2
<1>3. CASE BootComputer
  <2>1. HostNumbers'
    BY <1>3 DEF BootComputer, HostNumbers, Restored, Chosen, StaleMount
  <2>2. ~gap' => HostKeeps'
    BY <1>3 DEF BootComputer, HostNumbers, HostKeeps, Restored, Chosen, StaleMount,
                ProvisionComputer, Replaced
  <2> QED BY <2>1, <2>2
<1>4. ASSUME NEW p \in HostProcesses, ProvisionFails(p) PROVE HostInv'
  <2>1. HostNumbers'
    BY <1>4 DEF ProvisionFails, HostNumbers, Restored, Chosen
  <2>2. /\ gap' = FALSE => gap = FALSE
        /\ hostRun'.at = "working" => hostRun' = hostRun /\ (~gap' => desk' = desk)
        /\ mounted => mounted'
        /\ desk' \in {desk, home}
        /\ UNCHANGED <<home, finished, named>>
    BY <1>4 DEF ProvisionFails, HostNumbers, Restored, ProvisionComputer
  <2> QED BY <2>1, <2>2 DEF HostNumbers, HostKeeps
<1>5. CASE Write
  BY <1>5 DEF Write, HostNumbers, HostKeeps
<1>6. ASSUME NEW at \in {"off", "paused"}, LeaveComputer(at) PROVE HostInv'
  BY <1>6 DEF LeaveComputer, CheckpointHome, HostNumbers, HostKeeps
<1>7. ASSUME NEW p \in HostProcesses, HaltComputer(p) PROVE HostInv'
  BY <1>7 DEF HaltComputer, CheckpointHome, HostNumbers, HostKeeps
<1>8. ASSUME NEW p \in HostProcesses, RestartProcess(p) PROVE HostInv'
  BY <1>8 DEF RestartProcess, HostNumbers, HostKeeps
<1>9. CASE UNCHANGED hostVars
  BY <1>9 DEF hostVars, HostNumbers, HostKeeps
<1> QED BY <1>1, <1>2, <1>3, <1>4, <1>5, <1>6, <1>7, <1>8, <1>9
        DEF HostNext, StopHost, SleepHost, HostProcesses

LEMMA HostSays == HostInv => KeptAcrossHosts
BY DEF HostInv, HostNumbers, HostKeeps, KeptAcrossHosts, Content, Computers

-----------------------------------------------------------------------------
(***************************************************************************)
(* A queue has the deltas from a + 1 to b, in order, among other events.   *)
(***************************************************************************)
Texts(q) == {j \in 1..Len(q) : q[j].kind = "text"}

InOrder(q, a, b) ==
  /\ a \in 0..b
  /\ \A j \in Texts(q) : q[j].n \in (a + 1)..b
  /\ \A j, k \in Texts(q) : j < k => q[j].n < q[k].n
  /\ \A x \in (a + 1)..b : \E j \in Texts(q) : q[j].n = x

LEMMA OrderEmpty ==
  ASSUME NEW a \in Nat, NEW b \in Nat
  PROVE  InOrder(<<>>, a, b) <=> a = b
BY DEF InOrder, Texts

LEMMA OrderPush ==
  ASSUME NEW q \in Seq(Events), NEW e \in Events, NEW a \in Nat, NEW b \in Nat, InOrder(q, a, b)
  PROVE  /\ e.kind # "text" => InOrder(Append(q, e), a, b)
         /\ e = Delta(b + 1) => InOrder(Append(q, e), a, b + 1)
<1> DEFINE p == Append(q, e)
           l == Len(q)
<1>1. l \in Nat /\ Len(p) = l + 1 /\ p[l + 1] = e /\ \A j \in 1..l : p[j] = q[j]
  OBVIOUS
<1>2. \A j \in Texts(q) : j \in 1..l /\ p[j] = q[j] /\ p[j].kind = "text"
  BY <1>1 DEF Texts
<1> HIDE DEF p, l
<1>3. ASSUME e.kind # "text" PROVE InOrder(p, a, b)
  <2>1. Texts(p) = Texts(q)
    BY <1>1, <1>3 DEF Texts, l
  <2> QED BY <1>2, <2>1 DEF InOrder
<1>4. ASSUME e = Delta(b + 1) PROVE InOrder(p, a, b + 1)
  <2>1. e.kind = "text" /\ e.n = b + 1
    BY <1>4 DEF Delta
  <2>2. Texts(p) = Texts(q) \union {l + 1}
    BY <1>1, <2>1 DEF Texts, l
  <2>3. \A j \in Texts(p) : p[j].n \in (a + 1)..(b + 1)
    BY <1>1, <1>2, <2>1, <2>2 DEF InOrder
  <2>4. ASSUME NEW j \in Texts(p), NEW k \in Texts(p), j < k PROVE p[j].n < p[k].n
    <3>1. j \in Texts(q)
      BY <1>1, <1>2, <2>2, <2>4
    <3>2. CASE k \in Texts(q)
      BY <1>2, <2>4, <3>1, <3>2 DEF InOrder
    <3>3. CASE k = l + 1
      BY <1>1, <1>2, <2>1, <3>1, <3>3 DEF InOrder
    <3> QED BY <2>2, <3>2, <3>3
  <2>5. ASSUME NEW x \in (a + 1)..(b + 1) PROVE \E j \in Texts(p) : p[j].n = x
    <3>1. CASE x = b + 1
      BY <1>1, <2>1, <2>2, <3>1
    <3>2. CASE x # b + 1
      <4>1. x \in (a + 1)..b
        BY <3>2
      <4> QED BY <1>2, <2>2, <4>1 DEF InOrder
    <3> QED BY <3>1, <3>2
  <2> QED BY <2>3, <2>4, <2>5 DEF InOrder
<1> QED BY <1>3, <1>4 DEF p

LEMMA OrderTake ==
  ASSUME NEW q \in Seq(Events), q # <<>>, NEW a \in Nat, NEW b \in Nat, InOrder(q, a, b)
  PROVE  /\ Head(q).kind # "text" => InOrder(Tail(q), a, b)
         /\ Head(q).kind = "text" => Head(q).n = a + 1 /\ InOrder(Tail(q), a + 1, b)
<1> DEFINE p == Tail(q)
           l == Len(q)
<1>1. /\ l \in Nat \ {0} /\ Len(p) = l - 1 /\ Head(q) = q[1]
      /\ \A j \in 1..(l - 1) : p[j] = q[j + 1]
  OBVIOUS
<1> HIDE DEF p, l
<1>2. \A j : j \in Texts(p) <=> j \in Nat \ {0} /\ j + 1 \in Texts(q)
  BY <1>1 DEF Texts, l
<1>3. \A j \in Texts(p) : p[j] = q[j + 1]
  BY <1>1 DEF Texts
<1>4. \A k \in Texts(q) : k \in 1..l /\ (k = 1 \/ (k - 1 \in Texts(p) /\ p[k - 1] = q[k]))
  BY <1>1, <1>2, <1>3 DEF Texts, l
<1>5. /\ \A j \in Texts(p) : p[j].n \in (a + 1)..b
      /\ \A j, k \in Texts(p) : j < k => p[j].n < p[k].n
  BY <1>2, <1>3 DEF InOrder
<1>6. ASSUME Head(q).kind # "text" PROVE InOrder(p, a, b)
  <2>1. 1 \notin Texts(q)
    BY <1>1, <1>6 DEF Texts
  <2>2. \A x \in (a + 1)..b : \E j \in Texts(p) : p[j].n = x
    BY <1>4, <2>1 DEF InOrder
  <2> QED BY <1>5, <2>2 DEF InOrder
<1>7. ASSUME Head(q).kind = "text" PROVE Head(q).n = a + 1 /\ InOrder(p, a + 1, b)
  <2>1. 1 \in Texts(q)
    BY <1>1, <1>7 DEF Texts, l
  <2>2. q[1].n \in (a + 1)..b
    BY <2>1 DEF InOrder
  <2>3. q[1].n = a + 1
    <3>1. PICK j \in Texts(q) : q[j].n = a + 1
      BY <2>2 DEF InOrder
    <3>2. j # 1 => 1 < j
      BY <1>4
    <3> QED BY <2>1, <2>2, <3>1, <3>2 DEF InOrder
  <2>4. \A j \in Texts(p) : p[j].n \in (a + 2)..b
    <3>1. ASSUME NEW j \in Texts(p) PROVE p[j].n \in (a + 2)..b
      <4>1. j + 1 \in Texts(q) /\ 1 < j + 1 /\ p[j] = q[j + 1]
        BY <1>2, <1>3
      <4>2. q[1].n < q[j + 1].n
        BY <2>1, <4>1 DEF InOrder
      <4> QED BY <1>5, <2>3, <4>1, <4>2
    <3> QED BY <3>1
  <2>5. ASSUME NEW x \in (a + 2)..b PROVE \E j \in Texts(p) : p[j].n = x
    <3>1. PICK k \in Texts(q) : q[k].n = x
      BY DEF InOrder
    <3>2. k # 1
      BY <2>3, <3>1
    <3> QED BY <1>4, <3>1, <3>2
  <2>6. a + 1 \in 0..b
    BY <2>2
  <2> QED BY <1>1, <1>5, <2>3, <2>4, <2>5, <2>6 DEF InOrder
<1> QED BY <1>6, <1>7 DEF p

(***************************************************************************)
(* Types of what an answer is made of.                                     *)
(***************************************************************************)
AnswerTypes ==
  /\ agent \in [Slots -> {"off", "working"} \union Applying]
  /\ said \in [Slots -> Nat]
  /\ spoke \in [Slots -> BOOLEAN] /\ closed \in [Slots -> BOOLEAN]
  /\ roundText \in [Slots -> BOOLEAN]
  /\ queue \in [Slots -> Seq(Events)]
  /\ reader \in [Slots -> {"off", "reading", "left", "finished"}]
  /\ assembled \in [Slots -> Seq(Nat)]
  /\ ending \in [Slots -> Events \union {NoEnding}]

\* The done event of a round that is over.
LastOf(s) == IF queue[s] = <<>> THEN ending[s] ELSE queue[s][Len(queue[s])]

Counts(a) == \A i \in 1..Len(a) : a[i] = i

(***************************************************************************)
(* What was heard and what is in the queue are the deltas from 1 on; the   *)
(* last may be in the done event of a round that has streamed nothing.     *)
(***************************************************************************)
ReadingInv(s) ==
  /\ Counts(assembled[s])
  /\ \A j \in 1..(Len(queue[s]) - 1) : queue[s][j].kind # "done"
  /\ ~spoke[s] => ~roundText[s] /\ Texts(queue[s]) = {}
  /\ ~closed[s] =>
       /\ \A j \in 1..Len(queue[s]) : queue[s][j].kind # "done"
       /\ InOrder(queue[s], Len(assembled[s]), said[s])
  /\ closed[s] =>
       /\ agent[s] = "off"
       /\ LastOf(s) \in Events /\ LastOf(s).kind = "done"
       /\ LastOf(s).n = 0 => InOrder(queue[s], Len(assembled[s]), said[s])
       /\ LastOf(s).n # 0 => /\ LastOf(s).n = said[s] /\ ~spoke[s]
                            /\ InOrder(queue[s], Len(assembled[s]), said[s] - 1)

Published(s) ==
  assembled[s] = [i \in 1..said[s] |-> i]
               \o (IF ending[s].why = "length" THEN <<Notice>> ELSE <<>>)

SlotInv(s) ==
  /\ reader[s] = "off" => agent[s] = "off" /\ said[s] = 0 /\ assembled[s] = <<>>
  /\ reader[s] = "reading" => ReadingInv(s)
  /\ reader[s] = "finished" => agent[s] = "off" /\ Published(s)

AnswerInv == AnswerTypes /\ \A s \in Slots : SlotInv(s)

LEMMA AnswerStart == TurnInit => AnswerInv
<1> SUFFICES ASSUME TurnInit PROVE AnswerInv
  OBVIOUS
<1>1. AnswerTypes
  BY DEF TurnInit, AnswerTypes
<1>2. \A s \in Slots : SlotInv(s)
  BY DEF TurnInit, SlotInv
<1> QED BY <1>1, <1>2 DEF AnswerInv

(***************************************************************************)
(* What a step does to one slot says all.                                  *)
(***************************************************************************)
SameAnswer(t) ==
  /\ agent'[t] = agent[t] /\ said'[t] = said[t] /\ spoke'[t] = spoke[t]
  /\ closed'[t] = closed[t] /\ roundText'[t] = roundText[t] /\ queue'[t] = queue[t]
  /\ reader'[t] = reader[t] /\ assembled'[t] = assembled[t] /\ ending'[t] = ending[t]

LEMMA OneAnswer ==
  ASSUME AnswerInv, NEW s \in Slots, AnswerTypes', SlotInv(s)',
         \A t \in Slots \ {s} : SameAnswer(t)
  PROVE  AnswerInv'
<1>1. ASSUME NEW t \in Slots \ {s} PROVE SlotInv(t)'
  <2>1. SlotInv(t) /\ SameAnswer(t)
    BY DEF AnswerInv
  <2>2. LastOf(t)' = LastOf(t)
    BY <2>1 DEF SameAnswer, LastOf
  <2>3. ReadingInv(t) => ReadingInv(t)'
    BY <2>1, <2>2, Zenon DEF SameAnswer, ReadingInv
  <2>4. Published(t) => Published(t)'
    BY <2>1, Zenon DEF SameAnswer, Published
  <2> QED BY <2>1, <2>3, <2>4, Zenon DEF SameAnswer, SlotInv
<1> QED BY <1>1 DEF AnswerInv

\* Steps that no answer is touched by.
LEMMA AnswerQuiet ==
  ASSUME AnswerInv, NEW s \in Slots,
         UNCHANGED <<said, spoke, queue, closed, reader, assembled, roundText, ending>>,
         \/ agent' = agent
         \/ agent[s] # "off" /\ \E spot \in {"working"} \union Applying :
              agent' = [agent EXCEPT ![s] = spot]
  PROVE  AnswerInv'
<1>1. AnswerTypes'
  BY DEF AnswerInv, AnswerTypes
<1>2. SlotInv(s)'
  BY DEF AnswerInv, AnswerTypes, SlotInv, ReadingInv, LastOf, Published
<1>3. \A t \in Slots \ {s} : SameAnswer(t)
  BY DEF AnswerInv, AnswerTypes, SameAnswer
<1> QED BY <1>1, <1>2, <1>3, OneAnswer

(***************************************************************************)
(* Sequences that count.                                                   *)
(***************************************************************************)
LEMMA CountsIs ==
  ASSUME NEW a \in Seq(Nat), Counts(a)
  PROVE  /\ a = [i \in 1..Len(a) |-> i]
         /\ Counts(a \o <<Len(a) + 1>>)
         /\ Counts(a \o <<>>) /\ a \o <<>> = a
         /\ a \o <<Len(a) + 1>> \in Seq(Nat) /\ Len(a \o <<Len(a) + 1>>) = Len(a) + 1
BY DEF Counts

(***************************************************************************)
(* The agent pushes an event.                                              *)
(***************************************************************************)
LEMMA PushKeeps ==
  ASSUME AnswerInv, NEW s \in Slots, NEW e \in Events, Push(s, e), agent[s] = "working",
         e.kind # "done", e.kind = "text" => e = Delta(said[s] + 1),
         UNCHANGED readerVars,
         said' = [said EXCEPT ![s] = IF e.kind = "text" THEN @ + 1 ELSE @],
         spoke' = [spoke EXCEPT ![s] = IF e.kind = "text" THEN TRUE ELSE @],
         \E spot \in {"working"} \union Applying : agent' = [agent EXCEPT ![s] = spot]
  PROVE  AnswerInv'
<1>1. PICK spot \in {"working"} \union Applying : agent' = [agent EXCEPT ![s] = spot]
  OBVIOUS
<1> DEFINE q == queue[s]
           p == Append(q, e)
<1>2. /\ q \in Seq(Events) /\ p \in Seq(Events) /\ Len(p) = Len(q) + 1 /\ p[Len(q) + 1] = e
      /\ \A j \in 1..Len(q) : p[j] = q[j]
  BY DEF AnswerInv, AnswerTypes
<1>3. /\ queue' = [queue EXCEPT ![s] = IF reader[s] = "left" THEN q ELSE p]
      /\ closed' = closed /\ UNCHANGED <<reader, assembled, roundText, ending>>
  BY DEF Push, readerVars
<1> HIDE DEF p, q
<1>4. AnswerTypes'
  <2>1. queue' \in [Slots -> Seq(Events)]
    BY <1>2, <1>3 DEF AnswerInv, AnswerTypes
  <2>2. said' \in [Slots -> Nat] /\ spoke' \in [Slots -> BOOLEAN]
    <3>1. said[s] + 1 \in Nat /\ said[s] \in Nat /\ spoke[s] \in BOOLEAN
      BY DEF AnswerInv, AnswerTypes
    <3>2. CASE e.kind = "text"
      BY <3>1, <3>2 DEF AnswerInv, AnswerTypes
    <3>3. CASE e.kind # "text"
      BY <3>1, <3>3 DEF AnswerInv, AnswerTypes
    <3> QED BY <3>2, <3>3
  <2> QED BY <1>1, <1>3, <2>1, <2>2 DEF AnswerInv, AnswerTypes
<1>5. /\ said'[s] = (IF e.kind = "text" THEN said[s] + 1 ELSE said[s])
      /\ e.kind = "text" => spoke'[s]
      /\ e.kind # "text" => spoke'[s] = spoke[s]
      /\ agent'[s] # "off" /\ said[s] \in Nat
  BY <1>1 DEF AnswerInv, AnswerTypes, Applying
<1>6. SlotInv(s)'
  <2>1. reader[s] \notin {"off", "finished"}
    BY DEF AnswerInv, SlotInv
  <2> SUFFICES ASSUME reader[s] = "reading" PROVE ReadingInv(s)'
    BY <1>3, <2>1 DEF SlotInv
  <2>2. queue'[s] = p
    BY <1>3 DEF AnswerInv, AnswerTypes
  <2>3. /\ Counts(assembled[s]) /\ ~closed[s]
        /\ ~spoke[s] => ~roundText[s] /\ Texts(q) = {}
        /\ \A j \in 1..Len(q) : q[j].kind # "done"
        /\ InOrder(q, Len(assembled[s]), said[s])
    BY DEF AnswerInv, SlotInv, ReadingInv, q
  <2>4. \A j \in 1..Len(p) : p[j].kind # "done"
    BY <1>2, <2>3
  <2>5. ~spoke'[s] => ~roundText[s] /\ Texts(p) = {}
    <3> SUFFICES ASSUME ~spoke'[s] PROVE ~roundText[s] /\ Texts(p) = {}
      OBVIOUS
    <3>1. e.kind # "text" /\ ~spoke[s]
      BY <1>5
    <3>2. ~roundText[s] /\ Texts(q) = {}
      BY <2>3, <3>1
    <3>3. \A j \in 1..Len(q) : q[j].kind # "text"
      BY <3>2 DEF Texts
    <3>4. \A j \in 1..Len(p) : p[j].kind # "text"
      BY <1>2, <3>1, <3>3
    <3> QED BY <3>2, <3>4 DEF Texts
  <2>6. Len(assembled[s]) \in Nat
    BY DEF AnswerInv, AnswerTypes
  <2>7. InOrder(p, Len(assembled[s]), said'[s])
    BY <1>2, <1>5, <2>3, <2>6, OrderPush DEF p
  <2>8. \A j \in 1..(Len(p) - 1) : p[j].kind # "done"
    BY <1>2, <2>3
  <2> QED BY <1>3, <2>2, <2>3, <2>4, <2>5, <2>7, <2>8 DEF ReadingInv
<1>7. \A t \in Slots \ {s} : SameAnswer(t)
  BY <1>1, <1>3 DEF AnswerInv, AnswerTypes, SameAnswer
<1> QED BY <1>4, <1>6, <1>7, OneAnswer

LEMMA EventKinds ==
  /\ \A n \in Nat : Delta(n) \in Events /\ Delta(n).kind = "text" /\ Delta(n).n = n
  /\ Tool \in Events /\ Tool.kind = "tool"
  /\ \A why \in Reasons, n \in Nat :
       /\ Ended(why, n) \in Events /\ Ended(why, n).kind = "done" /\ Ended(why, n).n = n
       /\ Ended(why, n).why = why
BY DEF Events, Delta, Tool, Ended

LEMMA SpeakKeeps == ASSUME AnswerInv, NEW s \in Slots, Speak(s) PROVE AnswerInv'
<1> DEFINE e == Delta(said[s] + 1)
<1>1. said[s] + 1 \in Nat
  BY DEF AnswerInv, AnswerTypes
<1>2. e \in Events /\ e.kind = "text" /\ e = Delta(said[s] + 1)
  BY <1>1, EventKinds
<1>3. /\ Push(s, e) /\ agent[s] = "working" /\ UNCHANGED readerVars
      /\ said' = [said EXCEPT ![s] = @ + 1] /\ spoke' = [spoke EXCEPT ![s] = TRUE]
      /\ agent' = agent
  BY DEF Speak
<1> HIDE DEF e
<1>4. agent' = [agent EXCEPT ![s] = "working"]
  BY <1>3 DEF AnswerInv, AnswerTypes
<1> QED BY <1>2, <1>3, <1>4, PushKeeps

LEMMA CallKeeps == ASSUME AnswerInv, NEW s \in Slots, CallTool(s) PROVE AnswerInv'
<1> DEFINE e == Tool
<1>1. e \in Events /\ e.kind = "tool"
  BY EventKinds
<1>2. /\ Push(s, e) /\ agent[s] = "working" /\ UNCHANGED <<said, spoke, readerVars>>
      /\ agent' = [agent EXCEPT ![s] = "lookup"] \/ agent' = agent
  BY DEF CallTool
<1> HIDE DEF e
<1>3. \E spot \in {"working"} \union Applying : agent' = [agent EXCEPT ![s] = spot]
  BY <1>2 DEF AnswerInv, AnswerTypes, Applying
<1>4. /\ said' = [said EXCEPT ![s] = IF e.kind = "text" THEN @ + 1 ELSE @]
      /\ spoke' = [spoke EXCEPT ![s] = IF e.kind = "text" THEN TRUE ELSE @]
  BY <1>1, <1>2 DEF AnswerInv, AnswerTypes
<1> QED BY <1>1, <1>2, <1>3, <1>4, PushKeeps

(***************************************************************************)
(* A round ends, a delta in its done event being the last.                 *)
(***************************************************************************)
LEMMA EndKeeps == ASSUME AnswerInv, NEW s \in Slots, EndRound(s) PROVE AnswerInv'
<1>1. PICK why \in Reasons, n \in Nat :
        /\ PushAndClose(s, Ended(why, n))
        /\ \/ n = 0 /\ said' = said
           \/ n = said[s] + 1 /\ ~spoke[s] /\ said' = [said EXCEPT ![s] = @ + 1]
  <2>1. said[s] + 1 \in Nat
    BY DEF AnswerInv, AnswerTypes
  <2> QED BY <2>1 DEF EndRound
<1> DEFINE e == Ended(why, n)
           q == queue[s]
           p == Append(q, e)
<1>2. e \in Events /\ e.kind = "done" /\ e.n = n
  BY EventKinds
<1>3. /\ q \in Seq(Events) /\ Len(q) \in Nat /\ said[s] \in Nat /\ Len(assembled[s]) \in Nat
      /\ agent[s] = "working"
  BY DEF AnswerInv, AnswerTypes, EndRound
<1>4. /\ queue' = [queue EXCEPT ![s] = IF reader[s] = "left" THEN q ELSE p]
      /\ closed' = [closed EXCEPT ![s] = TRUE] /\ agent' = [agent EXCEPT ![s] = "off"]
      /\ UNCHANGED <<reader, assembled, roundText, ending, spoke>>
  BY <1>1 DEF EndRound, PushAndClose, readerVars
<1> HIDE DEF e, q
<1>5. /\ p \in Seq(Events) /\ Len(p) = Len(q) + 1 /\ p[Len(q) + 1] = e
      /\ \A j \in 1..Len(q) : p[j] = q[j]
  BY <1>2, <1>3
<1> HIDE DEF p
<1>6. AnswerTypes'
  <2>1. queue' \in [Slots -> Seq(Events)]
    BY <1>3, <1>4, <1>5 DEF AnswerInv, AnswerTypes
  <2>2. said' \in [Slots -> Nat]
    BY <1>1 DEF AnswerInv, AnswerTypes
  <2> QED BY <1>4, <2>1, <2>2 DEF AnswerInv, AnswerTypes
<1>7. SlotInv(s)'
  <2>1. reader[s] \notin {"off", "finished"}
    BY <1>3 DEF AnswerInv, SlotInv
  <2> SUFFICES ASSUME reader[s] = "reading" PROVE ReadingInv(s)'
    BY <1>4, <2>1 DEF SlotInv
  <2>2. queue'[s] = p /\ agent'[s] = "off" /\ closed'[s]
    BY <1>4 DEF AnswerInv, AnswerTypes
  <2>3. /\ Counts(assembled[s])
        /\ ~spoke[s] => ~roundText[s] /\ Texts(q) = {}
        /\ \A j \in 1..Len(q) : q[j].kind # "done"
        /\ InOrder(q, Len(assembled[s]), said[s])
    BY <1>3 DEF AnswerInv, SlotInv, ReadingInv, q
  <2>4. \A j \in 1..(Len(p) - 1) : p[j].kind # "done"
    BY <1>3, <1>5, <2>3
  <2>5. Texts(p) = Texts(q)
    BY <1>2, <1>3, <1>5 DEF Texts
  <2>6. LastOf(s)' = e
    BY <1>3, <1>5, <2>2 DEF LastOf
  <2>7. InOrder(p, Len(assembled[s]), said[s])
    BY <1>2, <1>3, <2>3, OrderPush DEF p
  <2>8. \/ n = 0 /\ said'[s] = said[s]
        \/ n = said'[s] /\ n # 0 /\ ~spoke[s] /\ said'[s] - 1 = said[s]
    BY <1>1, <1>3 DEF AnswerInv, AnswerTypes
  <2> QED BY <1>2, <1>4, <2>2, <2>3, <2>4, <2>5, <2>6, <2>7, <2>8 DEF ReadingInv
<1>8. \A t \in Slots \ {s} : SameAnswer(t)
  BY <1>1, <1>4 DEF AnswerInv, AnswerTypes, SameAnswer
<1> QED BY <1>6, <1>7, <1>8, OneAnswer

(***************************************************************************)
(* The reader takes the head of the queue.                                 *)
(***************************************************************************)
LEMMA TakeKeeps == ASSUME AnswerInv, NEW s \in Slots, Take(s) PROVE AnswerInv'
<1> DEFINE q == queue[s]
           e == Head(q)
           p == Tail(q)
           a == assembled[s]
           b == a \o TextOf(e)
<1>1. /\ reader[s] = "reading" /\ q # <<>>
      /\ queue' = [queue EXCEPT ![s] = p]
      /\ assembled' = [assembled EXCEPT ![s] = b]
      /\ roundText' = [roundText EXCEPT ![s] = @ \/ e.kind = "text"]
      /\ ending' = [ending EXCEPT ![s] = IF e.kind = "done" THEN e ELSE @]
      /\ UNCHANGED <<closed, reader, agent, said, spoke>>
  BY DEF Take, Reads, agentVars
<1>2. /\ q \in Seq(Events) /\ a \in Seq(Nat) /\ Len(a) \in Nat /\ said[s] \in Nat
  BY DEF AnswerInv, AnswerTypes
<1>3. ReadingInv(s)
  BY <1>1 DEF AnswerInv, SlotInv
<1> HIDE DEF q, a
<1>4. /\ Len(q) \in Nat \ {0} /\ e = q[1] /\ e \in Events /\ p \in Seq(Events) /\ Len(p) = Len(q) - 1
      /\ \A j \in 1..Len(p) : p[j] = q[j + 1]
      /\ p # <<>> => p[Len(p)] = q[Len(q)]
  <2>1. /\ Len(q) \in Nat \ {0} /\ e = q[1] /\ e \in Events /\ p \in Seq(Events)
        /\ Len(p) = Len(q) - 1 /\ \A j \in 1..Len(p) : p[j] = q[j + 1]
    BY <1>1, <1>2
  <2> HIDE DEF e, p
  <2>2. ASSUME p # <<>> PROVE p[Len(p)] = q[Len(q)]
    <3>1. Len(p) \in 1..Len(p) /\ Len(p) + 1 = Len(q)
      BY <2>1, <2>2
    <3> QED BY <2>1, <3>1
  <2> QED BY <2>1, <2>2
<1>5. /\ e.kind = "text" => b = a \o <<e.n>>
      /\ e.kind # "text" => b = a \o <<>>
  BY DEF TextOf
<1> HIDE DEF e, p, b
<1>6. Counts(a) /\ b \in Seq(Nat) /\ Counts(b)
      /\ Len(b) = (IF e.kind = "text" THEN Len(a) + 1 ELSE Len(a))
      /\ \A m \in Nat : InOrder(q, Len(a), m) => InOrder(p, Len(b), m)
  <2>1. Counts(a)
    BY <1>3 DEF ReadingInv, a
  <2>2. \E m \in Nat : InOrder(q, Len(a), m)
    <3>1. CASE closed[s] /\ LastOf(s).n # 0
      <4>1. InOrder(q, Len(a), said[s] - 1)
        BY <1>3, <3>1 DEF ReadingInv, a, q
      <4>2. said[s] - 1 \in Nat
        BY <1>2, <4>1 DEF InOrder
      <4> QED BY <4>1, <4>2
    <3>2. CASE ~closed[s] \/ LastOf(s).n = 0
      BY <1>2, <1>3, <3>2 DEF ReadingInv, a, q
    <3> QED BY <3>1, <3>2
  <2>3. e.kind = "text" => e.n = Len(a) + 1
    BY <1>1, <1>2, <2>2, OrderTake DEF e
  <2>4. CASE e.kind = "text"
    <3>1. b = a \o <<Len(a) + 1>>
      BY <1>5, <2>3, <2>4
    <3>2. \A m \in Nat : InOrder(q, Len(a), m) => InOrder(p, Len(a) + 1, m)
      BY <1>1, <1>2, <2>4, OrderTake DEF e, p
    <3> QED BY <1>2, <2>1, <2>4, <3>1, <3>2, CountsIs
  <2>5. CASE e.kind # "text"
    <3>1. b = a
      BY <1>2, <1>5, <2>1, <2>5, CountsIs
    <3>2. \A m \in Nat : InOrder(q, Len(a), m) => InOrder(p, Len(a), m)
      BY <1>1, <1>2, <2>5, OrderTake DEF e, p
    <3> QED BY <1>2, <2>1, <2>5, <3>1, <3>2
  <2> QED BY <2>4, <2>5
<1>7. AnswerTypes'
  BY <1>1, <1>2, <1>4, <1>6 DEF AnswerInv, AnswerTypes
<1>8. /\ queue'[s] = p /\ assembled'[s] = b
      /\ roundText'[s] <=> (roundText[s] \/ e.kind = "text")
      /\ ending'[s] = (IF e.kind = "done" THEN e ELSE ending[s])
  BY <1>1 DEF AnswerInv, AnswerTypes
<1>9. ReadingInv(s)'
  <2>1. /\ \A j \in 1..(Len(p) - 1) : p[j].kind # "done"
        /\ ~spoke[s] => ~roundText'[s] /\ Texts(p) = {}
    <3>1. \A j \in 1..(Len(q) - 1) : q[j].kind # "done"
      BY <1>3 DEF ReadingInv, q
    <3>2. ASSUME ~spoke[s] PROVE ~roundText[s] /\ e.kind # "text" /\ Texts(p) = {}
      <4>1. ~roundText[s] /\ Texts(q) = {}
        BY <1>3, <3>2 DEF ReadingInv, q
      <4> QED BY <1>4, <4>1 DEF Texts
    <3>3. \A j \in 1..(Len(p) - 1) : p[j].kind # "done"
      <4>1. \A j \in 1..(Len(p) - 1) : j + 1 \in 1..(Len(q) - 1) /\ p[j] = q[j + 1]
        BY <1>4
      <4> QED BY <3>1, <4>1
    <3>4. ASSUME ~spoke[s] PROVE ~roundText'[s]
      BY <1>8, <3>2, <3>4
    <3> QED BY <3>2, <3>3, <3>4
  <2>2. ASSUME ~closed[s]
        PROVE  /\ \A j \in 1..Len(p) : p[j].kind # "done"
               /\ InOrder(p, Len(b), said[s])
    <3>1. (\A j \in 1..Len(q) : q[j].kind # "done") /\ InOrder(q, Len(a), said[s])
      BY <1>3, <2>2 DEF ReadingInv, q, a
    <3>2. ASSUME NEW j \in 1..Len(p) PROVE p[j].kind # "done"
      <4>1. p[j] = q[j + 1] /\ j + 1 \in 1..Len(q)
        BY <1>4
      <4> QED BY <3>1, <4>1
    <3> QED BY <1>2, <1>6, <3>1, <3>2
  <2>3. ASSUME closed[s]
        PROVE  /\ agent[s] = "off"
               /\ LastOf(s)' \in Events /\ LastOf(s)'.kind = "done"
               /\ LastOf(s)'.n = 0 => InOrder(p, Len(b), said[s])
               /\ LastOf(s)'.n # 0 => /\ LastOf(s)'.n = said[s] /\ ~spoke[s]
                                     /\ InOrder(p, Len(b), said[s] - 1)
    <3>1. /\ agent[s] = "off" /\ LastOf(s) \in Events /\ LastOf(s).kind = "done"
          /\ LastOf(s).n = 0 => InOrder(q, Len(a), said[s])
          /\ LastOf(s).n # 0 => /\ LastOf(s).n = said[s] /\ ~spoke[s]
                               /\ InOrder(q, Len(a), said[s] - 1)
      BY <1>3, <2>3 DEF ReadingInv, q, a
    <3>2. LastOf(s) = q[Len(q)]
      BY <1>1 DEF LastOf, q
    <3>3. LastOf(s)' = LastOf(s)
      <4>1. CASE p = <<>>
        <5>1. Len(p) = 0
        BY <4>1
      <5>2. Len(q) = 1
        BY <1>4, <5>1
      <5> QED BY <1>4, <1>8, <3>1, <3>2, <4>1, <5>2 DEF LastOf
      <4>2. CASE p # <<>>
        BY <1>4, <1>8, <3>2, <4>2 DEF LastOf
      <4> QED BY <4>1, <4>2
    <3>4. LastOf(s).n # 0 => said[s] - 1 \in Nat
      BY <1>2, <3>1 DEF InOrder
    <3> QED BY <1>2, <1>6, <3>1, <3>3, <3>4
  <2> QED BY <1>1, <1>6, <1>8, <2>1, <2>2, <2>3 DEF ReadingInv
<1>10. SlotInv(s)'
  BY <1>1, <1>9 DEF SlotInv
<1>11. \A t \in Slots \ {s} : SameAnswer(t)
  BY <1>1 DEF AnswerInv, AnswerTypes, SameAnswer
<1> QED BY <1>7, <1>10, <1>11, OneAnswer

(***************************************************************************)
(* The reader decides: another round, or the end of the answer.            *)
(***************************************************************************)
LEMMA DecideKeeps == ASSUME AnswerInv, NEW s \in Slots, Decide(s) PROVE AnswerInv'
<1> DEFINE a == assembled[s]
           b == a \o Unheard(s)
<1>1. /\ reader[s] = "reading" /\ queue[s] = <<>> /\ closed[s] /\ said' = said
      /\ \/ /\ Continues(s) /\ assembled' = [assembled EXCEPT ![s] = b] /\ StartRound(s)
            /\ reader' = reader
         \/ /\ ~Continues(s)
            /\ assembled' = [assembled EXCEPT ![s] =
                 b \o (IF Exhausted(s) THEN <<Notice>> ELSE <<>>)]
            /\ reader' = [reader EXCEPT ![s] = "finished"]
            /\ UNCHANGED <<agent, spoke, queue, closed, roundText, ending>>
  BY DEF Decide, Reads, queueVars
<1>2. a \in Seq(Nat) /\ Len(a) \in Nat /\ said[s] \in Nat
  BY DEF AnswerInv, AnswerTypes
<1>3. /\ Counts(a) /\ agent[s] = "off" /\ ending[s] \in Events
      /\ ending[s].n = 0 => Len(a) = said[s]
      /\ ending[s].n # 0 => ending[s].n = said[s] /\ ~roundText[s] /\ said[s] = Len(a) + 1
  <2>1. ReadingInv(s) /\ LastOf(s) = ending[s]
    BY <1>1 DEF AnswerInv, SlotInv, LastOf
  <2>2. /\ Counts(a) /\ agent[s] = "off" /\ ending[s] \in Events
        /\ ending[s].n = 0 => InOrder(<<>>, Len(a), said[s])
        /\ ending[s].n # 0 => /\ ending[s].n = said[s] /\ ~roundText[s]
                              /\ InOrder(<<>>, Len(a), said[s] - 1)
    BY <1>1, <2>1 DEF ReadingInv
  <2>3. ending[s].n # 0 => said[s] - 1 \in Nat
    BY <1>2, <2>2 DEF InOrder
  <2> QED BY <1>2, <2>2, <2>3, OrderEmpty
<1>4. b \in Seq(Nat) /\ Counts(b) /\ Len(b) = said[s] /\ b = [i \in 1..said[s] |-> i]
  <2>1. CASE ending[s].n = 0
    <3>1. b = a
      BY <1>2, <1>3, <2>1, CountsIs DEF Unheard
    <3> QED BY <1>2, <1>3, <2>1, <3>1, CountsIs
  <2>2. CASE ending[s].n # 0
    <3>1. b = a \o <<Len(a) + 1>>
      BY <1>3, <2>2 DEF Unheard
    <3> HIDE DEF b
    <3>2. b \in Seq(Nat) /\ Counts(b) /\ Len(b) = Len(a) + 1
      BY <1>2, <1>3, <3>1, CountsIs
    <3> QED BY <1>3, <2>2, <3>2, CountsIs
  <2> QED BY <2>1, <2>2
<1> HIDE DEF a, b
<1>5. CASE Continues(s)
  <2>1. /\ assembled' = [assembled EXCEPT ![s] = b] /\ StartRound(s) /\ reader' = reader
    BY <1>1, <1>5
  <2>2. AnswerTypes'
    BY <1>1, <1>4, <2>1 DEF AnswerInv, AnswerTypes, StartRound
  <2>3. /\ queue'[s] = <<>> /\ ~closed'[s] /\ ~roundText'[s] /\ assembled'[s] = b
        /\ said'[s] = said[s] /\ reader'[s] = "reading"
    BY <1>1, <2>1 DEF AnswerInv, AnswerTypes, StartRound
  <2>4. InOrder(<<>>, Len(b), said[s]) /\ Texts(<<>>) = {}
    BY <1>2, <1>4, OrderEmpty DEF Texts
  <2>5. SlotInv(s)'
    <3>1. Len(queue'[s]) = 0
      BY <2>3
    <3>2. ReadingInv(s)'
      <4>1. Counts(assembled'[s]) /\ InOrder(queue'[s], Len(assembled'[s]), said'[s])
        BY <1>4, <2>3, <2>4, Zenon
      <4>2. Texts(queue'[s]) = {}
        BY <2>3, <2>4
      <4>3. \A j \in 1..Len(queue'[s]) : queue'[s][j].kind # "done"
        BY <3>1
      <4>4. \A j \in 1..(Len(queue'[s]) - 1) : queue'[s][j].kind # "done"
        BY <3>1
      <4> QED BY <2>3, <4>1, <4>2, <4>3, <4>4, Zenon DEF ReadingInv
    <3> QED BY <2>3, <3>2 DEF SlotInv
  <2>6. \A t \in Slots \ {s} : SameAnswer(t)
    BY <1>1, <2>1 DEF AnswerInv, AnswerTypes, SameAnswer, StartRound
  <2> QED BY <2>2, <2>5, <2>6, OneAnswer
<1>6. CASE ~Continues(s)
  <2> DEFINE c == b \o (IF Exhausted(s) THEN <<Notice>> ELSE <<>>)
  <2>1. /\ assembled' = [assembled EXCEPT ![s] = c]
        /\ reader' = [reader EXCEPT ![s] = "finished"]
        /\ UNCHANGED <<agent, said, spoke, queue, closed, roundText, ending>>
    BY <1>1, <1>6
  <2>2. c \in Seq(Nat)
    BY <1>4 DEF Notice
  <2>3. c = [i \in 1..said[s] |-> i]
            \o (IF ending[s].why = "length" THEN <<Notice>> ELSE <<>>)
    BY <1>4, <1>6 DEF Exhausted, Continues
  <2> HIDE DEF c
  <2>4. AnswerTypes'
    BY <2>1, <2>2 DEF AnswerInv, AnswerTypes
  <2>5. assembled'[s] = c /\ reader'[s] = "finished"
    BY <2>1 DEF AnswerInv, AnswerTypes
  <2>6. SlotInv(s)'
    BY <1>3, <2>1, <2>3, <2>5 DEF SlotInv, Published
  <2>7. \A t \in Slots \ {s} : SameAnswer(t)
    BY <2>1 DEF AnswerInv, AnswerTypes, SameAnswer
  <2> QED BY <2>4, <2>6, <2>7, OneAnswer
<1> QED BY <1>5, <1>6

(***************************************************************************)
(* A turn begins, is left, ends or dies.                                   *)
(***************************************************************************)
LEMMA BeginKeepsAnswer == ASSUME AnswerInv, NEW s \in Slots, BeginTurn(s) PROVE AnswerInv'
<1>1. /\ reader[s] = "off" /\ reader' = [reader EXCEPT ![s] = "reading"] /\ StartRound(s)
      /\ UNCHANGED <<said, assembled>>
  BY DEF BeginTurn
<1>2. AnswerTypes'
  BY <1>1 DEF AnswerInv, AnswerTypes, StartRound
<1>3. /\ said[s] = 0 /\ assembled[s] = <<>> /\ queue'[s] = <<>> /\ ~closed'[s] /\ ~roundText'[s]
      /\ reader'[s] = "reading"
  BY <1>1 DEF AnswerInv, AnswerTypes, SlotInv, StartRound
<1>4. InOrder(<<>>, 0, 0) /\ Texts(<<>>) = {} /\ Counts(<<>>)
  BY OrderEmpty DEF Texts, Counts
<1>5. SlotInv(s)'
  BY <1>1, <1>3, <1>4 DEF SlotInv, ReadingInv
<1>6. \A t \in Slots \ {s} : SameAnswer(t)
  BY <1>1 DEF AnswerInv, AnswerTypes, SameAnswer, StartRound
<1> QED BY <1>2, <1>5, <1>6, OneAnswer

LEMMA LeaveKeepsAnswer == ASSUME AnswerInv, NEW s \in Slots, LeaveLoop(s) PROVE AnswerInv'
<1>1. /\ reader' = [reader EXCEPT ![s] = "left"] /\ queue' = [queue EXCEPT ![s] = <<>>]
      /\ assembled' = [assembled EXCEPT ![s] = <<>>]
      /\ UNCHANGED <<closed, roundText, ending, agent, said, spoke>>
  BY DEF LeaveLoop, agentVars
<1>2. AnswerTypes' /\ reader'[s] = "left"
  BY <1>1 DEF AnswerInv, AnswerTypes
<1>3. SlotInv(s)'
  BY <1>2 DEF SlotInv
<1>4. \A t \in Slots \ {s} : SameAnswer(t)
  BY <1>1 DEF AnswerInv, AnswerTypes, SameAnswer
<1> QED BY <1>2, <1>3, <1>4, OneAnswer

LEMMA ForgetKeepsAnswer == ASSUME AnswerInv, NEW s \in Slots, Forget(s) PROVE AnswerInv'
<1>1. AnswerTypes'
  BY DEF AnswerInv, AnswerTypes, Forget
<1>2. reader'[s] = "off" /\ agent'[s] = "off" /\ said'[s] = 0 /\ assembled'[s] = <<>>
  BY DEF AnswerInv, AnswerTypes, Forget
<1>3. SlotInv(s)'
  BY <1>2 DEF SlotInv
<1>4. \A t \in Slots \ {s} : SameAnswer(t)
  BY DEF AnswerInv, AnswerTypes, SameAnswer, Forget
<1> QED BY <1>1, <1>3, <1>4, OneAnswer

LEMMA AnswerKept == AnswerInv /\ [TurnNext]_turnVars => AnswerInv'
<1> SUFFICES ASSUME AnswerInv, [TurnNext]_turnVars PROVE AnswerInv'
  OBVIOUS
<1>1. ASSUME NEW s \in Slots, Lookup(s) \/ RecordEffect(s) \/ Perform(s) \/ CompleteEffect(s)
      PROVE  AnswerInv'
  <2>1. /\ UNCHANGED <<said, spoke, queue, closed, reader, assembled, roundText, ending>>
        /\ agent[s] # "off"
        /\ \E spot \in {"working"} \union Applying : agent' = [agent EXCEPT ![s] = spot]
    BY <1>1 DEF Lookup, RecordEffect, Perform, CompleteEffect, ToAgent, OnlyAgent, queueVars,
       readerVars, Applying
  <2> QED BY <2>1, AnswerQuiet
<1>2. ASSUME NEW s \in Slots, Sleep(s) PROVE AnswerInv'
  BY <1>2, AnswerQuiet DEF Sleep, readerVars, agentVars
<1>3. CASE UNCHANGED turnVars
  <2>1. UNCHANGED <<agent, said, spoke, queue, closed, reader, assembled, roundText, ending>>
    BY <1>3 DEF turnVars, agentVars, queueVars, readerVars
  <2> QED BY <2>1 DEF AnswerInv, AnswerTypes, SlotInv, ReadingInv, LastOf, Published
<1>4. ASSUME NEW s \in Slots,
             BeginTurn(s) \/ AgentStep(s) \/ ReaderStep(s) \/ EndTurn(s) \/ Die(s)
      PROVE  AnswerInv'
  BY <1>1, <1>2, <1>4, SpeakKeeps, CallKeeps, EndKeeps, TakeKeeps, DecideKeeps,
     BeginKeepsAnswer, LeaveKeepsAnswer, ForgetKeepsAnswer
     DEF AgentStep, ReaderStep, EndTurn, Die
<1> QED BY <1>3, <1>4 DEF TurnNext

LEMMA AnswerSays == AnswerInv => AnswerLossless
BY DEF AnswerInv, SlotInv, Published, AnswerLossless

-----------------------------------------------------------------------------
(***************************************************************************)
(* What is said of every spot of a text is proved from its end.           *)
(***************************************************************************)
LEMMA FromTheEnd ==
  ASSUME NEW l \in Nat, NEW S \in SUBSET (0..l),
         \A n \in 0..l : (\A m \in (n + 1)..l : m \in S) => n \in S
  PROVE  S = 0..l
<1> DEFINE T == {k \in 0..l : l - k \notin S}
<1>1. CASE T = {}
  <2>1. ASSUME NEW n \in 0..l PROVE n \in S
    <3>1. l - n \in 0..l /\ l - (l - n) = n
      OBVIOUS
    <3> QED BY <1>1, <3>1
  <2> QED BY <2>1
<1>2. CASE T # {}
  <2>1. T \in SUBSET Nat
    OBVIOUS
  <2>2. PICK k \in T : \A j \in T : k <= j
    <3> HIDE DEF T
    <3> QED BY <1>2, <2>1, LeastNat
  <2>3. ASSUME NEW m \in (l - k + 1)..l PROVE m \in S
    <3>1. l - m \in 0..l /\ l - m < k /\ l - (l - m) = m
      BY <2>2
    <3>2. l - m \notin T
      BY <2>2, <3>1
    <3> QED BY <3>1, <3>2
  <2>4. l - k \in 0..l /\ l - k \notin S
    BY <2>2
  <2> QED BY <2>3, <2>4
<1> QED BY <1>1, <1>2

(***************************************************************************)
(* A set of sequences that is finite and not empty has a longest one.      *)
(***************************************************************************)
LEMMA LongestIs ==
  ASSUME NEW set, IsFiniteSet(set), set # {}, \A s \in set : s \in Seq(Letters)
  PROVE  Longest(set) \in set /\ \A t \in set : Len(t) <= Len(Longest(set))
<1>1. \A s \in set : Len(s) \in Nat
  OBVIOUS
<1>2. PICK n \in Nat : ExistsBijection(1..n, set)
  BY FS_NatBijection
<1>3. PICK f \in [1..n -> set] : \A s \in set : \E i \in 1..n : f[i] = s
  BY <1>2 DEF ExistsBijection, Bijection, Surjection
<1> DEFINE Bounds(k) == \E b \in Nat : \A i \in 1..n : i > k => Len(f[i]) <= b
           S == {k \in 0..n : Bounds(k)}
<1>4. Bounds(0)
  <2>1. ASSUME NEW k \in 0..n, \A m \in (k + 1)..n : m \in S PROVE k \in S
    <3>1. CASE k = n
      <4>1. \A i \in 1..n : ~(i > k)
        BY <3>1
      <4> QED BY <4>1
    <3>2. CASE k < n
      <4>0. k + 1 \in (k + 1)..n
        BY <3>2
      <4>1. Bounds(k + 1)
        BY <2>1, <4>0
      <4>2. PICK b \in Nat : \A i \in 1..n : i > k + 1 => Len(f[i]) <= b
        BY <4>1
      <4>3. Len(f[k + 1]) \in Nat /\ \A i \in 1..n : Len(f[i]) \in Nat
        BY <1>1, <1>3, <3>2
      <4> DEFINE c == b + Len(f[k + 1])
      <4>4. ASSUME NEW i \in 1..n, i > k PROVE Len(f[i]) <= c
        <5>1. CASE i = k + 1
          BY <4>3, <5>1
        <5>2. CASE i > k + 1
          BY <4>2, <4>3, <5>2
        <5> QED BY <4>4, <5>1, <5>2
      <4>5. c \in Nat
        BY <4>3
      <4> HIDE DEF c
      <4>6. Bounds(k)
        BY <4>4, <4>5
      <4> QED BY <4>6
    <3> QED BY <3>1, <3>2
  <2>2. S \in SUBSET (0..n) /\ 0 \in 0..n
    OBVIOUS
  <2>3. 0 \in S
    <3> HIDE DEF S
    <3> QED BY <2>1, <2>2, FromTheEnd
  <2> QED BY <2>3
<1>5. PICK b \in Nat : \A s \in set : Len(s) <= b
  <2>1. PICK b \in Nat : \A i \in 1..n : Len(f[i]) <= b
    BY <1>4
  <2> QED BY <1>3, <2>1
<1> DEFINE T == {k \in 0..b : \E s \in set : Len(s) = b - k}
<1>6. PICK s0 \in set : TRUE
  OBVIOUS
<1>7. b - Len(s0) \in T
  BY <1>1, <1>5
<1>8. T \in SUBSET Nat
  OBVIOUS
<1>9. PICK k \in T : \A j \in T : k <= j
  <2> HIDE DEF T
  <2> QED BY <1>7, <1>8, LeastNat
<1>10. PICK s \in set : Len(s) = b - k
  BY <1>9
<1>11. ASSUME NEW t \in set PROVE Len(t) <= Len(s)
  <2>1. Len(t) \in Nat /\ Len(t) <= b
    BY <1>1, <1>5
  <2>2. b - Len(t) \in T
    <3>1. b - Len(t) \in 0..b /\ Len(t) = b - (b - Len(t))
      BY <2>1
    <3> QED BY <3>1
  <2>3. k <= b - Len(t)
    BY <1>9, <2>2
  <2>4. k \in 0..b
    BY <1>9
  <2> HIDE DEF T
  <2> QED BY <1>10, <2>1, <2>3, <2>4
<1> QED BY <1>10, <1>11 DEF Longest

(***************************************************************************)
(* The loop of drain, from each spot of a text.                           *)
(***************************************************************************)
After(text, n) == SubSeq(text, n + 1, Len(text))
FoundAt(text, n) == {s \in secrets : StartsWith(After(text, n), s)}
NextAt(text, n) ==
  IF FoundAt(text, n) = {} THEN n + 1 ELSE n + Len(Longest(FoundAt(text, n)))
TokenAt(text, n) == <<IF FoundAt(text, n) = {} THEN text[n + 1] ELSE Redacted>>
ScanFrom(text, safe, n, next) ==
  IF n >= safe THEN [out |-> <<>>, rest |-> After(text, n)]
  ELSE [next EXCEPT !.out = TokenAt(text, n) \o @]
Scans(text, safe, f) ==
  f = [n \in 0..Len(text) |-> ScanFrom(text, safe, n, f[NextAt(text, n)])]

\* What createStreamingRedactor is made for.
SecretsInv == IsFiniteSet(secrets) /\ \A s \in secrets : s \in Seq(Letters) /\ s # <<>>
Shown == Letters \union {Redacted}
Scanned == [out : Seq(Shown), rest : Seq(Letters)]

LEMMA AfterIs ==
  ASSUME NEW text \in Seq(Letters), NEW n \in 0..Len(text)
  PROVE  /\ After(text, n) \in Seq(Letters) /\ Len(After(text, n)) = Len(text) - n
         /\ \A i \in 1..(Len(text) - n) : After(text, n)[i] = text[n + i]
<1>1. Len(text) \in Nat
  OBVIOUS
<1>2. After(text, n) \in Seq(Letters)
  <2>1. \A i \in (n + 1)..Len(text) : text[i] \in Letters
    OBVIOUS
  <2> QED BY <1>1, <2>1, SMTT(30) DEF After
<1> QED BY <1>1, <1>2, SMTT(30) DEF After

LEMMA StepIs ==
  ASSUME SecretsInv, NEW text \in Seq(Letters), NEW n \in 0..(Len(text) - 1)
  PROVE  /\ NextAt(text, n) \in (n + 1)..Len(text)
         /\ TokenAt(text, n) \in Seq(Shown)
<1>1. Len(text) \in Nat /\ text[n + 1] \in Letters
  OBVIOUS
<1>2. TokenAt(text, n) \in Seq(Shown)
  <2>1. text[n + 1] \in Shown /\ Redacted \in Shown
    BY <1>1 DEF Shown
  <2> QED BY <2>1 DEF TokenAt
<1>3. CASE FoundAt(text, n) = {}
  BY <1>1, <1>2, <1>3 DEF NextAt
<1>4. CASE FoundAt(text, n) # {}
  <2> DEFINE s == Longest(FoundAt(text, n))
  <2>1. IsFiniteSet(FoundAt(text, n)) /\ \A t \in FoundAt(text, n) : t \in Seq(Letters)
    BY FS_Subset DEF SecretsInv, FoundAt
  <2>2. s \in FoundAt(text, n)
    BY <1>4, <2>1, LongestIs
  <2>3. s \in Seq(Letters) /\ s # <<>> /\ Len(s) <= Len(After(text, n))
    BY <2>2 DEF FoundAt, SecretsInv, StartsWith
  <2>4. Len(After(text, n)) = Len(text) - n
    <3>1. n \in 0..Len(text)
      BY <1>1
    <3> QED BY <3>1, AfterIs
  <2>5. Len(s) \in Nat \ {0}
    BY <2>3
  <2>6. NextAt(text, n) = n + Len(s)
    BY <1>4 DEF NextAt
  <2> HIDE DEF s
  <2> QED BY <1>1, <1>2, <2>3, <2>4, <2>5, <2>6
<1> QED BY <1>3, <1>4

LEMMA ScansExists ==
  ASSUME SecretsInv, NEW text \in Seq(Letters), NEW safe \in 0..Len(text)
  PROVE  \E f : Scans(text, safe, f)
<1> DEFINE l == Len(text)
           Value(g, n) == ScanFrom(text, safe, n, g[NextAt(text, n)])
           Solves(g, k) == \A n \in k..l : g[n] = Value(g, n)
           S == {k \in 0..l : \E g : Solves(g, k)}
<1>1. l \in Nat /\ S \in SUBSET (0..l)
  OBVIOUS
<1>2. \A n \in 0..l : n < safe => NextAt(text, n) \in (n + 1)..l
  <2>1. ASSUME NEW n \in 0..l, n < safe PROVE NextAt(text, n) \in (n + 1)..l
    <3>1. n \in 0..(Len(text) - 1)
      BY <1>1, <2>1
    <3> QED BY <3>1, StepIs
  <2> QED BY <2>1
<1>3. ASSUME NEW n \in 0..l, NEW g, NEW h,
             n < safe => g[NextAt(text, n)] = h[NextAt(text, n)]
      PROVE  Value(g, n) = Value(h, n)
  <2>1. CASE n < safe
    BY <1>3, <2>1, Zenon
  <2>2. CASE n >= safe
    BY <2>2, Zenon DEF ScanFrom
  <2> QED BY <1>1, <2>1, <2>2
<1> HIDE DEF Value, l
<1>4. ASSUME NEW k \in 0..l, \A m \in (k + 1)..l : m \in S PROVE k \in S
  <2>1. CASE k = l
    <3> DEFINE none == <<>>
               h == [n \in 0..l |-> Value(none, n)]
    <3>1. Value(none, l) = Value(h, l)
      <4>1. ~(l < safe) /\ l \in 0..l
        BY <1>1 DEF l
      <4> QED BY <1>3, <4>1
    <3>2. h[l] = Value(none, l)
      BY <1>1
    <3> HIDE DEF h, none
    <3>3. Solves(h, k)
      BY <1>1, <2>1, <3>1, <3>2
    <3> QED BY <3>3
  <2>2. CASE k < l
    <3>1. k + 1 \in (k + 1)..l
      BY <1>1, <2>2
    <3>2. PICK g : Solves(g, k + 1)
      BY <1>4, <3>1
    <3> DEFINE h == [n \in 0..l |-> IF n = k THEN Value(g, k) ELSE g[n]]
    <3>3. \A n \in (k + 1)..l : h[n] = g[n]
      BY <1>1
    <3>4. h[k] = Value(g, k)
      OBVIOUS
    <3> HIDE DEF h
    <3>5. ASSUME NEW n \in k..l PROVE h[n] = Value(h, n)
      <4>1. n \in 0..l /\ (n < safe => NextAt(text, n) \in (k + 1)..l)
        BY <1>1, <1>2
      <4>2. Value(g, n) = Value(h, n)
        BY <1>3, <3>3, <4>1
      <4>3. h[n] = Value(g, n)
        <5>1. CASE n = k
          BY <3>4, <5>1
        <5>2. CASE n # k
          <6>1. n \in (k + 1)..l
            BY <5>2
          <6> QED BY <3>2, <3>3, <6>1
        <5> QED BY <5>1, <5>2
      <4> QED BY <4>2, <4>3
    <3> QED BY <3>5
  <2> QED BY <1>1, <2>1, <2>2
<1>5. 0 \in S
  <2> HIDE DEF S
  <2>1. S = 0..l
    BY <1>1, <1>4, FromTheEnd
  <2> QED BY <1>1, <2>1
<1>6. PICK g : Solves(g, 0)
  BY <1>5
<1> DEFINE f == [n \in 0..l |-> g[n]]
           h == [n \in 0..l |-> Value(f, n)]
<1>7. ASSUME NEW n \in 0..l PROVE g[n] = Value(f, n)
  <2>1. n < safe => NextAt(text, n) \in 0..l
    BY <1>1, <1>2
  <2>2. Value(g, n) = Value(f, n)
    BY <1>3, <2>1
  <2> QED BY <1>6, <2>2
<1>8. f = h
  BY <1>7
<1>9. Scans(text, safe, f)
  <2> HIDE DEF f
  <2> QED BY <1>8 DEF Scans, Value, l
<1> QED BY <1>9

(***************************************************************************)
(* What the loop gives from each spot: pieces of the answer, and for the  *)
(* next time the text from a spot that is not safe on.                    *)
(***************************************************************************)
ScansTo(text, safe, f) ==
  \A n \in 0..Len(text) :
    /\ f[n] = ScanFrom(text, safe, n, f[NextAt(text, n)])
    /\ f[n] \in Scanned
    /\ \E m \in 0..Len(text) : m >= safe /\ f[n].rest = After(text, m)

LEMMA ScanIs ==
  ASSUME SecretsInv, NEW text \in Seq(Letters), NEW safe \in 0..Len(text)
  PROVE  \E f : ScansTo(text, safe, f) /\ Scan(text, safe) = f[0]
<1> DEFINE l == Len(text)
           f == CHOOSE g : Scans(text, safe, g)
<1>1. Scan(text, safe) = f[0]
  BY DEF Scan, Scans, ScanFrom, TokenAt, NextAt, FoundAt, After
<1>2. Scans(text, safe, f)
  BY ScansExists
<1> HIDE DEF f
<1>3. \A n \in 0..l : f[n] = ScanFrom(text, safe, n, f[NextAt(text, n)])
  BY <1>2 DEF Scans
<1> DEFINE Good(n) == f[n] \in Scanned /\ \E m \in 0..l : m >= safe /\ f[n].rest = After(text, m)
           S == {n \in 0..l : Good(n)}
<1>4. l \in Nat /\ S \in SUBSET (0..l)
  OBVIOUS
<1>5. ASSUME NEW n \in 0..l, \A m \in (n + 1)..l : m \in S PROVE n \in S
  <2>1. CASE n >= safe
    <3>1. f[n] = [out |-> <<>>, rest |-> After(text, n)]
      BY <1>3, <2>1 DEF ScanFrom
    <3>2. After(text, n) \in Seq(Letters) /\ <<>> \in Seq(Shown)
      BY AfterIs
    <3>3. f[n] \in Scanned /\ f[n].rest = After(text, n)
      BY <3>1, <3>2 DEF Scanned
    <3> QED BY <2>1, <3>3
  <2>2. CASE n < safe
    <3> DEFINE k == NextAt(text, n)
    <3>1. k \in (n + 1)..l /\ TokenAt(text, n) \in Seq(Shown)
      <4>1. n \in 0..(Len(text) - 1)
        BY <1>4, <2>2
      <4> QED BY <4>1, StepIs
    <3>2. Good(k)
      BY <1>5, <3>1
    <3>3. f[n] = [f[k] EXCEPT !.out = TokenAt(text, n) \o @]
      <4>1. ~(n >= safe)
        BY <1>4, <2>2
      <4> QED BY <1>3, <4>1 DEF ScanFrom
    <3> HIDE DEF k
    <3>4. TokenAt(text, n) \o f[k].out \in Seq(Shown)
      BY <3>1, <3>2 DEF Scanned
    <3>5. f[n] = [f[k] EXCEPT !.out = TokenAt(text, n) \o f[k].out]
      BY <3>3
    <3>6. f[n] \in Scanned /\ f[n].rest = f[k].rest
      BY <3>2, <3>4, <3>5 DEF Scanned
    <3> QED BY <3>2, <3>6
  <2> QED BY <1>4, <2>1, <2>2
<1>6. S = 0..l
  <2> HIDE DEF S, l
  <2> QED BY <1>4, <1>5, FromTheEnd
<1>7. ScansTo(text, safe, f)
  BY <1>3, <1>6 DEF ScansTo
<1> QED BY <1>1, <1>7

LEMMA ScanStep ==
  ASSUME NEW text \in Seq(Letters), NEW safe \in 0..Len(text), NEW f, ScansTo(text, safe, f),
         NEW n \in 0..Len(text)
  PROVE  /\ n >= safe => f[n].out = <<>> /\ f[n].rest = After(text, n)
         /\ n < safe => /\ f[n].out = TokenAt(text, n) \o f[NextAt(text, n)].out
                        /\ f[n].rest = f[NextAt(text, n)].rest
<1>1. f[n] = ScanFrom(text, safe, n, f[NextAt(text, n)]) /\ f[n] \in Scanned
  BY DEF ScansTo
<1>2. CASE n >= safe
  BY <1>1, <1>2 DEF ScanFrom
<1>3. CASE n < safe
  <2> DEFINE next == f[NextAt(text, n)]
             token == TokenAt(text, n)
  <2>1. f[n] = [next EXCEPT !.out = token \o next.out]
    <3>1. ~(n >= safe)
      BY <1>3
    <3> QED BY <1>1, <3>1 DEF ScanFrom
  <2>2. "out" \in DOMAIN next /\ "rest" \in DOMAIN next
    <3>1. DOMAIN f[n] = {"out", "rest"}
      BY <1>1 DEF Scanned
    <3>2. DOMAIN f[n] = DOMAIN next
      BY <2>1
    <3> QED BY <3>1, <3>2
  <2>3. f[n].out = token \o next.out /\ f[n].rest = next.rest
    <3> HIDE DEF next, token
    <3> QED BY <2>1, <2>2
  <2> QED BY <1>3, <2>3
<1> QED BY <1>2, <1>3

LEMMA SameTexts ==
  ASSUME NEW a \in Seq(Letters), NEW b \in Seq(Letters), Len(a) = Len(b),
         \A i \in 1..Len(a) : a[i] = b[i]
  PROVE  a = b
OBVIOUS

(***************************************************************************)
(* Scanning a text to its end gives, from a spot on, what scanning the    *)
(* text from there gives.                                                  *)
(***************************************************************************)
LEMMA ScanShift ==
  ASSUME SecretsInv, NEW text \in Seq(Letters), NEW p \in 0..Len(text),
         NEW f, ScansTo(text, Len(text), f),
         NEW g, ScansTo(After(text, p), Len(text) - p, g)
  PROVE  g[0].out = f[p].out
<1> DEFINE l == Len(text) - p
           later == After(text, p)
           S == {n \in 0..l : g[n].out = f[p + n].out}
<1>1. /\ Len(text) \in Nat /\ l \in Nat /\ later \in Seq(Letters) /\ Len(later) = l
      /\ \A i \in 1..l : later[i] = text[p + i]
  BY AfterIs
<1>2. ASSUME NEW n \in 0..l PROVE After(later, n) = After(text, p + n)
  <2>1. /\ p + n \in 0..Len(text) /\ Len(text) - (p + n) = l - n
    BY <1>1
  <2>2. /\ After(later, n) \in Seq(Letters) /\ Len(After(later, n)) = l - n
        /\ \A i \in 1..(l - n) : After(later, n)[i] = later[n + i]
    <3>1. n \in 0..Len(later)
      BY <1>1
    <3> HIDE DEF later
    <3> QED BY <1>1, <3>1, AfterIs
  <2>3. /\ After(text, p + n) \in Seq(Letters) /\ Len(After(text, p + n)) = l - n
        /\ \A i \in 1..(l - n) : After(text, p + n)[i] = text[(p + n) + i]
    BY <2>1, AfterIs
  <2>4. \A i \in 1..(l - n) : later[n + i] = text[(p + n) + i]
    <3>1. ASSUME NEW i \in 1..(l - n) PROVE later[n + i] = text[(p + n) + i]
      <4>1. n + i \in 1..l /\ p + (n + i) = (p + n) + i
        BY <1>1
      <4> QED BY <1>1, <4>1
    <3> QED BY <3>1
  <2> HIDE DEF later, l
  <2>5. \A i \in 1..Len(After(later, n)) : After(later, n)[i] = After(text, p + n)[i]
    BY <2>2, <2>3, <2>4
  <2> QED BY <2>2, <2>3, <2>5, SameTexts
<1> HIDE DEF later
<1>3. ASSUME NEW n \in 0..l, n < l
      PROVE  /\ TokenAt(later, n) = TokenAt(text, p + n)
             /\ NextAt(text, p + n) = p + NextAt(later, n)
             /\ NextAt(later, n) \in (n + 1)..l
  <2>1. FoundAt(later, n) = FoundAt(text, p + n)
    BY <1>2 DEF FoundAt
  <2>2. later[n + 1] = text[(p + n) + 1]
    <3>1. n + 1 \in 1..l /\ p + (n + 1) = (p + n) + 1
      BY <1>1, <1>3
    <3> QED BY <1>1, <3>1
  <2>3. NextAt(later, n) \in (n + 1)..l
    <3>1. n \in 0..(Len(later) - 1)
      BY <1>1, <1>3
    <3> QED BY <1>1, <3>1, StepIs
  <2>4. NextAt(text, p + n) = p + NextAt(later, n)
    <3>1. CASE FoundAt(later, n) = {}
      BY <1>1, <2>1, <3>1 DEF NextAt
    <3>2. CASE FoundAt(later, n) # {}
      <4> DEFINE d == Len(Longest(FoundAt(later, n)))
      <4>1. NextAt(later, n) = n + d /\ NextAt(text, p + n) = (p + n) + d
        BY <2>1, <3>2 DEF NextAt
      <4>2. d \in Nat
        <5>1. IsFiniteSet(FoundAt(later, n)) /\ \A t \in FoundAt(later, n) : t \in Seq(Letters)
          BY FS_Subset DEF SecretsInv, FoundAt
        <5>2. Longest(FoundAt(later, n)) \in Seq(Letters)
          BY <3>2, <5>1, LongestIs
        <5> QED BY <5>2
      <4> HIDE DEF d
      <4> QED BY <1>1, <4>1, <4>2
    <3> QED BY <3>1, <3>2
  <2> QED BY <2>1, <2>2, <2>3, <2>4 DEF TokenAt
<1>4. ASSUME NEW n \in 0..l, \A m \in (n + 1)..l : m \in S PROVE n \in S
  <2>0. n \in 0..Len(later) /\ p + n \in 0..Len(text) /\ l \in 0..Len(later)
    BY <1>1
  <2>00. ScansTo(later, l, g)
    BY DEF later
  <2>1. CASE n >= l
    <3>1. g[n].out = <<>>
      BY <1>1, <2>0, <2>00, <2>1, ScanStep
    <3>2. p + n >= Len(text)
      BY <1>1, <2>1
    <3>3. f[p + n].out = <<>>
      BY <1>1, <2>0, <3>2, ScanStep
    <3> QED BY <3>1, <3>3
  <2>2. CASE n < l
    <3> DEFINE k == NextAt(later, n)
    <3>1. g[n].out = TokenAt(later, n) \o g[k].out
      <4> HIDE DEF l, k
      <4>1. g[n].out = TokenAt(later, n) \o g[NextAt(later, n)].out
        BY <1>1, <2>0, <2>00, <2>2, ScanStep
      <4> QED BY <4>1 DEF k
    <3>2. p + n < Len(text)
      BY <1>1, <2>2
    <3>3. f[p + n].out = TokenAt(text, p + n) \o f[NextAt(text, p + n)].out
      <4> HIDE DEF l, k
      <4>1. Len(text) \in 0..Len(text)
        BY <1>1
      <4> DEFINE spot == p + n
      <4>2. spot \in 0..Len(text) /\ spot < Len(text)
        BY <2>0, <3>2
      <4> HIDE DEF spot
      <4>3. f[spot].out = TokenAt(text, spot) \o f[NextAt(text, spot)].out
        BY <4>1, <4>2, ScanStep
      <4> QED BY <4>3 DEF spot
    <3>4. k \in (n + 1)..l /\ NextAt(text, p + n) = p + k /\ TokenAt(later, n) = TokenAt(text, p + n)
      BY <1>3, <2>2
    <3>5. g[k].out = f[p + k].out
      BY <1>4, <3>4
    <3> QED BY <3>1, <3>3, <3>4, <3>5
  <2> QED BY <1>1, <2>1, <2>2
<1>5. 0 \in S
  <2>1. S \in SUBSET (0..l) /\ 0 \in 0..l
    BY <1>1
  <2> HIDE DEF S, l
  <2> QED BY <1>1, <1>4, <2>1, FromTheEnd
<1> QED BY <1>1, <1>5

LEMMA SamePrefix ==
  ASSUME NEW a \in Seq(Letters), NEW b \in Seq(Letters), NEW c \in Nat,
         c <= Len(a), c <= Len(b), \A i \in 1..c : a[i] = b[i]
  PROVE  SubSeq(a, 1, c) = SubSeq(b, 1, c)
OBVIOUS

LEMMA ConcatIs ==
  ASSUME NEW a \in Seq(Letters), NEW b \in Seq(Letters)
  PROVE  /\ a \o b \in Seq(Letters) /\ Len(a \o b) = Len(a) + Len(b)
         /\ \A i \in 1..(Len(a) + Len(b)) :
              (a \o b)[i] = IF i <= Len(a) THEN a[i] ELSE b[i - Len(a)]
OBVIOUS

LEMMA LettersConcat ==
  ASSUME NEW a \in Seq(Letters), NEW b \in Seq(Letters), NEW c \in Seq(Letters)
  PROVE  (a \o b) \o c = a \o (b \o c)
OBVIOUS

LEMMA AfterMore ==
  ASSUME NEW text \in Seq(Letters), NEW more \in Seq(Letters), NEW n \in 0..Len(text)
  PROVE  /\ text \o more \in Seq(Letters) /\ Len(text \o more) = Len(text) + Len(more)
         /\ \A i \in 1..Len(text) : (text \o more)[i] = text[i]
         /\ After(text, n) \o more = After(text \o more, n)
<1> DEFINE l == Len(text)
           whole == text \o more
           a == After(text, n)
           b == After(whole, n)
<1>1. /\ whole \in Seq(Letters) /\ Len(whole) = l + Len(more) /\ l \in Nat /\ Len(more) \in Nat
      /\ \A i \in 1..(l + Len(more)) : whole[i] = IF i <= l THEN text[i] ELSE more[i - l]
  OBVIOUS
<1>2. a \in Seq(Letters) /\ Len(a) = l - n /\ \A i \in 1..(l - n) : a[i] = text[n + i]
  BY AfterIs
<1>3. n \in 0..Len(whole)
  BY <1>1
<1> HIDE DEF whole
<1>4. /\ b \in Seq(Letters) /\ Len(b) = l + Len(more) - n
      /\ \A i \in 1..(l + Len(more) - n) : b[i] = whole[n + i]
  <2>1. /\ b \in Seq(Letters) /\ Len(b) = Len(whole) - n
        /\ \A i \in 1..(Len(whole) - n) : b[i] = whole[n + i]
    BY <1>1, <1>3, AfterIs
  <2> HIDE DEF b, l
  <2> QED BY <1>1, <2>1
<1> HIDE DEF a, b
<1>5. /\ a \o more \in Seq(Letters) /\ Len(a \o more) = l - n + Len(more)
      /\ \A i \in 1..(l - n + Len(more)) :
           (a \o more)[i] = IF i <= l - n THEN a[i] ELSE more[i - (l - n)]
  <2>1. /\ a \o more \in Seq(Letters) /\ Len(a \o more) = Len(a) + Len(more)
        /\ \A i \in 1..(Len(a) + Len(more)) :
             (a \o more)[i] = IF i <= Len(a) THEN a[i] ELSE more[i - Len(a)]
    BY <1>2, ConcatIs
  <2> HIDE DEF l
  <2> QED BY <1>2, <2>1
<1>6. ASSUME NEW i \in 1..(l - n + Len(more)) PROVE (a \o more)[i] = b[i]
  <2>1. /\ i \in 1..(l + Len(more) - n) /\ n + i \in 1..(l + Len(more))
        /\ (n + i) - l = i - (l - n) /\ (i <= l - n <=> n + i <= l)
    BY <1>1
  <2>2. b[i] = IF i <= l - n THEN text[n + i] ELSE more[i - (l - n)]
    BY <1>1, <1>4, <2>1
  <2> QED BY <1>1, <1>2, <1>5, <2>2
<1>7. a \o more = b
  <2>1. Len(a \o more) = Len(b)
    BY <1>1, <1>4, <1>5
  <2>2. \A i \in 1..Len(a \o more) : (a \o more)[i] = b[i]
    BY <1>5, <1>6
  <2> QED BY <1>4, <1>5, <2>1, <2>2, SameTexts
<1>8. \A i \in 1..l : whole[i] = text[i]
  BY <1>1
<1> QED BY <1>1, <1>7, <1>8 DEF a, b, whole

LEMMA SameConcat ==
  /\ \A a \in Seq(Shown) : <<>> \o a = a /\ a \o <<>> = a
  /\ \A a, b \in Seq(Shown) : a \o b \in Seq(Shown)
<1>1. \A a \in Seq(Shown) : <<>> \o a = a /\ a \o <<>> = a
  OBVIOUS
<1>2. \A a, b \in Seq(Shown) : a \o b \in Seq(Shown)
  OBVIOUS
<1> QED BY <1>1, <1>2

LEMMA ShownConcat ==
  ASSUME NEW a \in Seq(Shown), NEW b \in Seq(Shown), NEW c \in Seq(Shown)
  PROVE  (a \o b) \o c = a \o (b \o c)
OBVIOUS

\* The whole of a text, redacted at once.
Redone(text) == Drain(text, TRUE).out

(***************************************************************************)
(* The places before safeStart are those where a secret, if one begins     *)
(* there, has been heard to its end.                                       *)
(***************************************************************************)
LEMMA SafeIs ==
  ASSUME SecretsInv, secrets # {}, NEW text \in Seq(Letters)
  PROVE  /\ SafeStart(text) \in 0..Len(text) /\ MaxLength \in Nat \ {0}
         /\ \A s \in secrets : Len(s) \in 1..MaxLength
         /\ \A n \in 0..Len(text) : n < SafeStart(text) => n + MaxLength <= Len(text)
         /\ \A n \in 0..Len(text) : n >= SafeStart(text) => Len(text) - n < MaxLength
<1> DEFINE s == Longest(secrets)
<1>1. s \in secrets /\ \A t \in secrets : Len(t) <= Len(s)
  BY LongestIs DEF SecretsInv
<1>2. \A t \in secrets : Len(t) \in Nat \ {0}
  BY DEF SecretsInv
<1>3. MaxLength = Len(s)
  BY DEF MaxLength
<1> HIDE DEF s
<1>4. MaxLength \in Nat \ {0} /\ Len(text) \in Nat
  BY <1>1, <1>2, <1>3
<1>5. \A t \in secrets : Len(t) \in 1..MaxLength
  BY <1>1, <1>2, <1>3
<1> QED BY <1>4, <1>5 DEF SafeStart

LEMMA PrefixFinds ==
  ASSUME SecretsInv, secrets # {}, NEW text \in Seq(Letters), NEW more \in Seq(Letters),
         NEW n \in 0..Len(text), n < SafeStart(text)
  PROVE  /\ NextAt(text \o more, n) = NextAt(text, n)
         /\ TokenAt(text \o more, n) = TokenAt(text, n)
<1> DEFINE whole == text \o more
           a == After(text, n)
           b == After(whole, n)
<1>1. /\ Len(text) \in Nat /\ Len(more) \in Nat
      /\ n + MaxLength <= Len(text) /\ MaxLength \in Nat \ {0}
      /\ \A s \in secrets : Len(s) \in 1..MaxLength
  BY SafeIs
<1>2. /\ whole \in Seq(Letters) /\ Len(whole) = Len(text) + Len(more)
      /\ \A i \in 1..Len(text) : whole[i] = text[i]
  BY AfterMore
<1> HIDE DEF whole
<1>3. n \in 0..Len(whole)
  BY <1>1, <1>2
<1>4. /\ a \in Seq(Letters) /\ Len(a) = Len(text) - n
      /\ \A i \in 1..(Len(text) - n) : a[i] = text[n + i]
      /\ b \in Seq(Letters) /\ Len(b) = Len(whole) - n
      /\ \A i \in 1..(Len(whole) - n) : b[i] = whole[n + i]
  BY <1>2, <1>3, AfterIs
<1> HIDE DEF a, b
<1>5. ASSUME NEW s \in secrets PROVE StartsWith(a, s) <=> StartsWith(b, s)
  <2> DEFINE c == Len(s)
  <2>1. c \in Nat /\ c <= Len(a) /\ c <= Len(b)
    BY <1>1, <1>2, <1>4
  <2>2. ASSUME NEW i \in 1..c PROVE a[i] = b[i]
    <3>1. i \in 1..(Len(text) - n) /\ i \in 1..(Len(whole) - n) /\ n + i \in 1..Len(text)
      BY <1>1, <1>2, <1>4, <2>1
    <3> QED BY <1>2, <1>4, <3>1
  <2>3. SubSeq(a, 1, c) = SubSeq(b, 1, c)
    <3> HIDE DEF c
    <3> QED BY <1>4, <2>1, <2>2, SamePrefix
  <2> QED BY <2>1, <2>3 DEF StartsWith
<1>6. FoundAt(whole, n) = FoundAt(text, n)
  BY <1>5 DEF FoundAt, a, b
<1>7. whole[n + 1] = text[n + 1]
  <2>1. n + 1 \in 1..Len(text)
    BY <1>1
  <2> QED BY <1>2, <2>1
<1> QED BY <1>6, <1>7 DEF NextAt, TokenAt, whole

(***************************************************************************)
(* What a push gives out, and then the whole of what it holds back with    *)
(* all that may still come, is the whole of all that was heard.            *)
(***************************************************************************)
LEMMA WholeIs ==
  ASSUME SecretsInv, NEW text \in Seq(Letters)
  PROVE  /\ Redone(text) \in Seq(Shown)
         /\ secrets = {} => Redone(text) = text
         /\ secrets # {} => \E f : ScansTo(text, Len(text), f) /\ Redone(text) = f[0].out
         /\ Drain(text, TRUE).rest = <<>>
<1>1. Len(text) \in Nat /\ Len(text) \in 0..Len(text) /\ 0 \in 0..Len(text)
  OBVIOUS
<1>2. CASE secrets = {}
  <2>1. text \in Seq(Shown)
    BY DEF Shown
  <2> QED BY <1>2, <2>1 DEF Redone, Drain
<1>3. CASE secrets # {}
  <2>1. Drain(text, TRUE) = Scan(text, Len(text))
    BY <1>3 DEF Drain
  <2>2. PICK f : ScansTo(text, Len(text), f) /\ Scan(text, Len(text)) = f[0]
    BY <1>1, ScanIs
  <2>3. f[0] \in Scanned /\ \E m \in 0..Len(text) : m >= Len(text) /\ f[0].rest = After(text, m)
    BY <1>1, <2>2 DEF ScansTo
  <2>4. f[0].rest = <<>>
    <3>1. f[0].rest = After(text, Len(text))
      BY <1>1, <2>3
    <3>2. After(text, Len(text)) \in Seq(Letters) /\ Len(After(text, Len(text))) = 0
      BY <1>1, AfterIs
    <3> QED BY <3>1, <3>2
  <2>5. f[0].out \in Seq(Shown)
    BY <2>3 DEF Scanned
  <2> QED BY <1>3, <2>1, <2>2, <2>4, <2>5 DEF Redone
<1> QED BY <1>2, <1>3

LEMMA ScanEnd ==
  ASSUME NEW text \in Seq(Letters), NEW f, ScansTo(text, Len(text), f),
         NEW n \in 0..Len(text), n >= Len(text)
  PROVE  f[n].out = <<>>
<1>1. Len(text) \in 0..Len(text)
  OBVIOUS
<1> QED BY <1>1, ScanStep

LEMMA NoneWhole ==
  ASSUME SecretsInv, NEW text \in Seq(Letters), Len(text) = 0
  PROVE  Redone(text) = <<>>
<1>1. text = <<>>
  OBVIOUS
<1>2. CASE secrets = {}
  BY <1>1, <1>2, WholeIs
<1>3. CASE secrets # {}
  <2>1. PICK f : ScansTo(text, Len(text), f) /\ Redone(text) = f[0].out
    BY <1>3, WholeIs
  <2>2. 0 \in 0..Len(text) /\ 0 >= Len(text)
    OBVIOUS
  <2>3. f[0].out = <<>>
    BY <2>1, <2>2, ScanEnd, Zenon
  <2> QED BY <2>1, <2>3
<1> QED BY <1>2, <1>3

LEMMA ScanPrefix ==
  ASSUME SecretsInv, secrets # {}, NEW text \in Seq(Letters), NEW more \in Seq(Letters),
         NEW f, ScansTo(text, SafeStart(text), f)
  PROVE  f[0].out \o Redone(f[0].rest \o more) = Redone(text \o more)
<1> DEFINE l == Len(text)
           whole == text \o more
<1>1. /\ l \in Nat /\ Len(more) \in Nat /\ SafeStart(text) \in 0..l
      /\ whole \in Seq(Letters) /\ Len(whole) = l + Len(more)
  BY SafeIs, AfterMore
<1>2. PICK g : ScansTo(whole, Len(whole), g) /\ Redone(whole) = g[0].out
  BY <1>1, WholeIs
<1> DEFINE S == {n \in 0..l : f[n].out \o Redone(f[n].rest \o more) = g[n].out}
<1>3. \A n \in 0..l : /\ f[n] \in Scanned /\ f[n].out \in Seq(Shown) /\ f[n].rest \in Seq(Letters)
                      /\ n \in 0..Len(whole) /\ g[n] \in Scanned /\ g[n].out \in Seq(Shown)
  <2>1. ASSUME NEW n \in 0..l
        PROVE  f[n] \in Scanned /\ n \in 0..Len(whole) /\ g[n] \in Scanned
    <3>1. n \in 0..Len(whole)
      <4> HIDE DEF whole
      <4> QED BY <1>1
    <3> HIDE DEF whole
    <3> QED BY <1>2, <3>1 DEF ScansTo
  <2> HIDE DEF whole, l
  <2> QED BY <2>1 DEF Scanned
<1>4. ASSUME NEW n \in 0..l, \A m \in (n + 1)..l : m \in S PROVE n \in S
  <2>1. CASE n >= SafeStart(text)
    <3>1. f[n].out = <<>> /\ f[n].rest = After(text, n)
      BY <1>1, <2>1, ScanStep
    <3> DEFINE later == After(whole, n)
    <3>2. After(text, n) \o more = later
      BY AfterMore
    <3>3. later \in Seq(Letters) /\ Len(later) = Len(whole) - n
      BY <1>1, <1>3, AfterIs
    <3>4. PICK h : ScansTo(later, Len(later), h) /\ Redone(later) = h[0].out
      BY <3>3, WholeIs
    <3>5. h[0].out = g[n].out
      <4>1. ScansTo(After(whole, n), Len(whole) - n, h)
        BY <3>3, <3>4
      <4>2. n \in 0..Len(whole)
        BY <1>3
      <4> HIDE DEF whole, later
      <4>3. whole \in Seq(Letters) /\ ScansTo(whole, Len(whole), g)
        BY <1>1, <1>2
      <4>4. \A q : ScansTo(After(whole, n), q, h) /\ q = Len(whole) - n => h[0].out = g[n].out
        BY <4>2, <4>3, ScanShift
      <4> QED BY <4>1, <4>4
    <3>6. <<>> \o g[n].out = g[n].out
      BY <1>3, SameConcat
    <3> HIDE DEF later, whole
    <3> QED BY <3>1, <3>2, <3>4, <3>5, <3>6
  <2>2. CASE n < SafeStart(text)
    <3> DEFINE k == NextAt(text, n)
               token == TokenAt(text, n)
    <3>1. k \in (n + 1)..l /\ token \in Seq(Shown)
      <4>1. n \in 0..(Len(text) - 1)
        BY <1>1, <2>2
      <4> QED BY <4>1, StepIs
    <3>2. f[n].out = token \o f[k].out /\ f[n].rest = f[k].rest
      BY <1>1, <2>2, ScanStep
    <3>3. g[n].out = token \o g[k].out
      <4>1. n < Len(whole) /\ n \in 0..Len(whole) /\ Len(whole) \in 0..Len(whole)
        BY <1>1, <2>2
      <4>2. g[n].out = TokenAt(whole, n) \o g[NextAt(whole, n)].out
        <5> HIDE DEF whole
        <5> QED BY <1>1, <1>2, <4>1, ScanStep
      <4> QED BY <2>2, <4>2, PrefixFinds
    <3> HIDE DEF k, token, whole
    <3>4. f[k].out \o Redone(f[k].rest \o more) = g[k].out
      BY <1>4, <3>1
    <3>5. f[k].out \in Seq(Shown) /\ Redone(f[k].rest \o more) \in Seq(Shown)
      <4>1. k \in 0..l
        BY <1>1, <3>1
      <4>2. f[k].rest \o more \in Seq(Letters)
        BY <1>3, <4>1
      <4> QED BY <1>3, <4>1, <4>2, WholeIs
    <3>6. (token \o f[k].out) \o Redone(f[k].rest \o more)
            = token \o (f[k].out \o Redone(f[k].rest \o more))
      BY <3>1, <3>5, ShownConcat
    <3>7. f[n].out \o Redone(f[n].rest \o more) = g[n].out
      BY <3>2, <3>3, <3>4, <3>6, Zenon
    <3> QED BY <3>7, Zenon
  <2>3. n >= SafeStart(text) \/ n < SafeStart(text)
    <3>1. SafeStart(text) \in Int /\ n \in Int
      BY <1>1
    <3> QED BY <3>1
  <2> HIDE DEF S, whole
  <2> QED BY <2>1, <2>2, <2>3
<1>5. 0 \in S
  <2>0. 0 \in 0..l
    BY <1>1
  <2>1. S \in SUBSET (0..l)
    BY Zenon
  <2> HIDE DEF S, l
  <2> QED BY <1>1, <1>4, <2>0, <2>1, FromTheEnd
<1> QED BY <1>2, <1>5

LEMMA PushSplits ==
  ASSUME SecretsInv, NEW text \in Seq(Letters)
  PROVE  /\ Drain(text, FALSE).out \in Seq(Shown) /\ Drain(text, FALSE).rest \in Seq(Letters)
         /\ \A more \in Seq(Letters) :
              Drain(text, FALSE).out \o Redone(Drain(text, FALSE).rest \o more)
                = Redone(text \o more)
         /\ Len(Drain(text, FALSE).rest) < MaxLength \/ Drain(text, FALSE).rest = <<>>
<1>1. CASE secrets = {}
  <2>1. Drain(text, FALSE).out = text /\ Drain(text, FALSE).rest = <<>> /\ text \in Seq(Shown)
    BY <1>1 DEF Drain, Shown
  <2>2. ASSUME NEW more \in Seq(Letters)
        PROVE  text \o Redone(<<>> \o more) = Redone(text \o more)
    <3>1. <<>> \o more = more /\ text \o more \in Seq(Letters)
      OBVIOUS
    <3>2. Redone(more) = more /\ Redone(text \o more) = text \o more
      BY <1>1, <3>1, WholeIs, Zenon
    <3> DEFINE whole == text \o more
               same == <<>> \o more
    <3>3. Redone(same) = Redone(more)
      <4>1. same = more
        BY <3>1
      <4> HIDE DEF same
      <4> QED BY <4>1
    <3>4. text \o Redone(more) = Redone(whole)
      <4>1. Redone(more) = more /\ Redone(whole) = text \o more
        BY <3>2
      <4> HIDE DEF whole
      <4> QED BY <4>1, Zenon
    <3> QED BY <3>3, <3>4, Zenon
  <2>3. \A more \in Seq(Letters) :
          Drain(text, FALSE).out \o Redone(Drain(text, FALSE).rest \o more) = Redone(text \o more)
    BY <2>1, <2>2, Zenon
  <2>4. Drain(text, FALSE).out \in Seq(Shown) /\ Drain(text, FALSE).rest \in Seq(Letters)
    <3>1. <<>> \in Seq(Letters)
      OBVIOUS
    <3> QED BY <2>1, <3>1, Zenon
  <2> QED BY <2>1, <2>3, <2>4, Zenon
<1>2. CASE secrets # {}
  <2>0. SafeStart(text) \in 0..Len(text) /\ 0 \in 0..Len(text)
    BY <1>2, SafeIs
  <2>1. Drain(text, FALSE) = Scan(text, SafeStart(text))
    BY <1>2 DEF Drain
  <2>2. PICK f : ScansTo(text, SafeStart(text), f) /\ Scan(text, SafeStart(text)) = f[0]
    BY <2>0, ScanIs
  <2>3. /\ f[0].out \in Seq(Shown) /\ f[0].rest \in Seq(Letters)
        /\ \E m \in 0..Len(text) : m >= SafeStart(text) /\ f[0].rest = After(text, m)
    BY <2>0, <2>2 DEF ScansTo, Scanned
  <2>4. Len(f[0].rest) < MaxLength
    <3>1. PICK m \in 0..Len(text) : m >= SafeStart(text) /\ f[0].rest = After(text, m)
      BY <2>3
    <3>2. Len(f[0].rest) = Len(text) - m
      BY <3>1, AfterIs
    <3> QED BY <1>2, <3>1, <3>2, SafeIs
  <2>5. \A more \in Seq(Letters) : f[0].out \o Redone(f[0].rest \o more) = Redone(text \o more)
    BY <1>2, <2>2, ScanPrefix
  <2> QED BY <2>1, <2>2, <2>3, <2>4, <2>5
<1> QED BY <1>1, <1>2

-----------------------------------------------------------------------------
RedactInv ==
  /\ SecretsInv
  /\ heard \in Seq(Letters) /\ buffer \in Seq(Letters) /\ shown \in Seq(Shown)
  /\ ~over => \A more \in Seq(Letters) : shown \o Redone(buffer \o more) = Redone(heard \o more)
  /\ CutAnyhow

LEMMA NoneMore == \A a \in Seq(Letters) : a \o <<>> = a /\ <<>> \o a = a
OBVIOUS

LEMMA RedactStart == RedactInit => RedactInv
<1> SUFFICES ASSUME RedactInit PROVE RedactInv
  OBVIOUS
<1>1. SecretsInv
  BY RedactConstants DEF RedactInit, SecretsInv
<1>2. heard = <<>> /\ buffer = <<>> /\ shown = <<>> /\ <<>> \in Seq(Letters) /\ <<>> \in Seq(Shown)
  BY DEF RedactInit
<1>3. ASSUME NEW more \in Seq(Letters) PROVE shown \o Redone(buffer \o more) = Redone(heard \o more)
  <2>1. <<>> \o more = more
    BY NoneMore
  <2>2. <<>> \o Redone(more) = Redone(more)
    BY <1>1, WholeIs, SameConcat
  <2> QED BY <1>2, <2>1, <2>2
<1>4. CutAnyhow
  <2>1. <<>> \o Redone(<<>>) = Redone(<<>>)
    BY <1>1, <1>2, WholeIs, SameConcat
  <2> QED BY <1>2, <2>1 DEF CutAnyhow, Redone
<1> QED BY <1>1, <1>2, <1>3, <1>4 DEF RedactInv

LEMMA RedactKept == RedactInv /\ [RedactNext]_redactVars => RedactInv'
<1> SUFFICES ASSUME RedactInv, [RedactNext]_redactVars PROVE RedactInv'
  OBVIOUS
<1> USE DEF RedactInv
<1>0. secrets' = secrets
  BY DEF RedactNext, PushText, Finish, redactVars
<1>1. /\ SecretsInv'
      /\ \A t : Redone(t)' = Redone(t) /\ Drain(t, TRUE)' = Drain(t, TRUE) /\ MaxLength' = MaxLength
  <2>1. SecretsInv' /\ MaxLength' = MaxLength
    BY <1>0 DEF SecretsInv, MaxLength
  <2>2. \A t, n : Scan(t, n)' = Scan(t, n)
    BY <1>0 DEF Scan
  <2>3. \A t : Drain(t, TRUE)' = Drain(t, TRUE)
    BY <1>0, <2>2, Zenon DEF Drain
  <2> QED BY <2>1, <2>3, Zenon DEF Redone
<1>2. CASE UNCHANGED redactVars
  <2>1. heard' = heard /\ buffer' = buffer /\ shown' = shown /\ over' = over
    BY <1>2 DEF redactVars
  <2>2. CutAnyhow'
    <3>1. shown' \o Redone(buffer') = Redone(heard') /\ (Len(buffer') < MaxLength \/ buffer' = <<>>)
      BY <2>1, Zenon DEF CutAnyhow, Redone
    <3> QED BY <1>1, <3>1, Zenon DEF CutAnyhow, Redone
  <2> QED BY <1>1, <2>1, <2>2, Zenon
<1>3. CASE PushText
  <2>0. PICK n \in 1..MaxChunk : \E chunk \in [1..n -> Letters] :
          /\ ~over /\ over' = over
          /\ heard' = heard \o chunk
          /\ shown' = shown \o Drain(buffer \o chunk, FALSE).out
          /\ buffer' = Drain(buffer \o chunk, FALSE).rest
    BY <1>3 DEF PushText
  <2>1. PICK chunk \in [1..n -> Letters] :
          /\ ~over /\ over' = over
          /\ heard' = heard \o chunk
          /\ shown' = shown \o Drain(buffer \o chunk, FALSE).out
          /\ buffer' = Drain(buffer \o chunk, FALSE).rest
    BY <2>0
  <2>2. chunk \in Seq(Letters)
    BY RedactConstants
  <2> DEFINE text == buffer \o chunk
             out == Drain(text, FALSE).out
  <2>3. text \in Seq(Letters) /\ heard' \in Seq(Letters)
    BY <2>1, <2>2
  <2>4. /\ out \in Seq(Shown) /\ buffer' \in Seq(Letters)
        /\ \A more \in Seq(Letters) : out \o Redone(buffer' \o more) = Redone(text \o more)
        /\ Len(buffer') < MaxLength \/ buffer' = <<>>
    BY <2>1, <2>3, PushSplits
  <2>5. shown' = shown \o out /\ shown' \in Seq(Shown)
    BY <2>1, <2>4, SameConcat
  <2>6. ASSUME NEW more \in Seq(Letters) PROVE shown' \o Redone(buffer' \o more) = Redone(heard' \o more)
    <3>1. /\ buffer' \o more \in Seq(Letters) /\ chunk \o more \in Seq(Letters)
          /\ text \o more = buffer \o (chunk \o more)
          /\ heard' \o more = heard \o (chunk \o more)
      <4>1. /\ buffer' \in Seq(Letters) /\ heard \in Seq(Letters) /\ buffer \in Seq(Letters)
            /\ heard' = heard \o chunk
        BY <2>1, <2>4
      <4>2. buffer' \o more \in Seq(Letters) /\ chunk \o more \in Seq(Letters)
        BY <2>2, <4>1, ConcatIs
      <4>3. (buffer \o chunk) \o more = buffer \o (chunk \o more)
        BY <2>2, <4>1, LettersConcat
      <4>4. (heard \o chunk) \o more = heard \o (chunk \o more)
        BY <2>2, <4>1, LettersConcat
      <4> QED BY <4>1, <4>2, <4>3, <4>4, Zenon
    <3>2. Redone(buffer' \o more) \in Seq(Shown)
      BY <3>1, WholeIs
    <3>3. shown' \o Redone(buffer' \o more) = shown \o (out \o Redone(buffer' \o more))
      BY <2>4, <2>5, <3>2, ShownConcat
    <3>4. shown' \o Redone(buffer' \o more) = shown \o Redone(text \o more)
      BY <2>4, <3>3
    <3>5. shown \o Redone(buffer \o (chunk \o more)) = Redone(heard \o (chunk \o more))
      BY <2>1, <3>1
    <3> HIDE DEF text, out
    <3> QED BY <3>1, <3>4, <3>5
  <2>7. CutAnyhow'
    <3>1. shown' \o Redone(buffer' \o <<>>) = Redone(heard' \o <<>>)
      <4>1. <<>> \in Seq(Letters)
        OBVIOUS
      <4> QED BY <2>6, <4>1, Zenon
    <3>2. shown' \o Redone(buffer') = Redone(heard')
      BY <2>3, <2>4, <3>1, NoneMore
    <3> QED BY <1>1, <2>4, <3>2, Zenon DEF CutAnyhow, Redone
  <2> HIDE DEF text, out
  <2> QED BY <1>1, <2>1, <2>3, <2>4, <2>5, <2>6, <2>7
<1>4. CASE Finish
  <2>1. /\ over' = TRUE /\ heard' = heard /\ shown' = shown \o Redone(buffer) /\ buffer' = <<>>
    BY <1>4, WholeIs DEF Finish, Redone
  <2>2. shown' \in Seq(Shown)
    BY <2>1, WholeIs, SameConcat
  <2>3. shown \o Redone(buffer) = Redone(heard)
    BY Zenon DEF CutAnyhow, Redone
  <2>4. Redone(<<>>) = <<>>
    <3>1. <<>> \in Seq(Letters) /\ Len(<<>>) = 0
      OBVIOUS
    <3> QED BY <3>1, NoneWhole, Zenon
  <2>5. CutAnyhow'
    <3>1. shown' \o Redone(buffer') = Redone(heard')
      <4>1. shown' \o <<>> = shown'
        BY <2>2, SameConcat
      <4> QED BY <2>1, <2>3, <2>4, <4>1
    <3> QED BY <1>1, <2>1, <3>1, Zenon DEF CutAnyhow, Redone
  <2> QED BY <1>1, <2>1, <2>2, <2>5
<1> QED BY <1>2, <1>3, <1>4 DEF RedactNext

-----------------------------------------------------------------------------
(* The types of the components. *)

(***************************************************************************)
(* Types of what the invariant of a component leaves aside.                *)
(***************************************************************************)
PeerRest ==
  /\ doomable \in 0..MaxDestroys
  /\ gone \subseteq Bots \ bots
  /\ parentOf \in [Bots -> Bots \union {NoBot}]
  /\ deleting \in [Bots -> {"no", "machine", "row"}]
  /\ teamed \in [RunIds -> Nat]
  /\ made \in 0..MaxCalls

LEMMA PeerTyped == PeerTypes /\ PeerRest /\ [PeerNext]_peerVars => PeerRest'
<1> SUFFICES ASSUME PeerTypes, PeerRest, [PeerNext]_peerVars PROVE PeerRest'
  OBVIOUS
<1> USE PeerConstants DEF PeerTypes, PeerRest
<1>1. ASSUME UNCHANGED botVars, teamed' \in [RunIds -> Nat], made' \in 0..MaxCalls
      PROVE  PeerRest'
  BY <1>1 DEF botVars
<1>2. ASSUME UNCHANGED <<botVars, teamed, made>> PROVE PeerRest'
  BY <1>1, <1>2
<1>3. ASSUME NEW b \in Bots, BotStep(b) PROVE PeerRest'
  <2>1. CASE Prompt(b)
    BY <1>2, <2>1 DEF Prompt, countVars
  <2>2. CASE BeginDestroy(b)
    BY <2>2 DEF BeginDestroy, countVars
  <2>3. CASE DestroyMachine(b) \/ DeleteFails(b)
    BY <2>3 DEF DestroyMachine, DeleteFails, countVars
  <2>4. CASE DeleteRow(b)
    BY <2>4 DEF DeleteRow, countVars
  <2> QED BY <1>3, <2>1, <2>2, <2>3, <2>4 DEF BotStep
<1>4. ASSUME NEW i \in RunIds, AnswerPrompt(i) \/ EndRun(i) PROVE PeerRest'
  BY <1>2, <1>4 DEF AnswerPrompt, EndRun, countVars
<1>5. ASSUME NEW k \in CallSlots, CallStep(k) PROVE PeerRest'
  <2>1. CASE Wake(k)
    BY <1>1, <2>1 DEF Wake
  <2> QED BY <1>2, <1>5, <2>1 DEF CallStep, Count, CheckHop, Post, React, Fail, StartSpawned,
                                 countVars
<1>6. ASSUME NEW k \in CallSlots, NEW i \in RunIds, Call(k, i) \/ Spawn(k, i) \/ DeleteSpawned(k, i)
      PROVE  PeerRest'
  <2>1. made' \in 0..MaxCalls
    <3>1. made < MaxCalls /\ made' = made + 1
      BY <1>6 DEF Call, Spawn, DeleteSpawned, Begins
    <3> QED BY <3>1
  <2>2. CASE Spawn(k, i)
    BY <2>1, <2>2 DEF Spawn
  <2> QED BY <1>1, <1>6, <2>1, <2>2 DEF Call, DeleteSpawned
<1>7. CASE UNCHANGED peerVars
  BY <1>2, <1>7 DEF peerVars, countVars
<1> QED BY <1>3, <1>4, <1>5, <1>6, <1>7 DEF PeerNext

TurnRest ==
  /\ used \in [Slots -> SUBSET Calls]
  /\ asleep \in [Slots -> BOOLEAN]
  /\ round \in [Slots -> 0..(MaxRounds - 1)]

LEMMA TurnTyped == TurnRest /\ [TurnNext]_turnVars => TurnRest'
<1> SUFFICES ASSUME TurnRest, [TurnNext]_turnVars PROVE TurnRest'
  OBVIOUS
<1> USE TurnConstants DEF TurnRest, turnVars, agentVars, queueVars, readerVars
<1>1. CASE UNCHANGED turnVars
  BY <1>1
<1>2. ASSUME NEW s \in Slots, BeginTurn(s) PROVE TurnRest'
  BY <1>2 DEF BeginTurn, StartRound
<1>3. ASSUME NEW s \in Slots, AgentStep(s) PROVE TurnRest'
  <2>1. CASE Speak(s)
    BY <2>1 DEF Speak, Push
  <2>2. CASE CallTool(s)
    BY <2>2 DEF CallTool, Push
  <2>3. CASE EndRound(s)
    BY <2>3 DEF EndRound, PushAndClose
  <2> QED BY <1>3, <2>1, <2>2, <2>3 DEF AgentStep, Lookup, RecordEffect, Perform,
                                       CompleteEffect, ToAgent, OnlyAgent
<1>4. ASSUME NEW s \in Slots, ReaderStep(s) PROVE TurnRest'
  <2>1. CASE Decide(s)
    <3>1. CASE round[s] < MaxRounds - 1 /\ round' = [round EXCEPT ![s] = @ + 1] /\ StartRound(s)
      BY <2>1, <3>1 DEF Decide, StartRound
    <3>2. CASE UNCHANGED <<round, queueVars>>
      BY <2>1, <3>2 DEF Decide
    <3> QED BY <2>1, <3>1, <3>2 DEF Decide, Continues
  <2>2. CASE Take(s) \/ Sleep(s) \/ LeaveLoop(s)
    BY <2>2 DEF Take, Sleep, LeaveLoop
  <2> QED BY <1>4, <2>1, <2>2 DEF ReaderStep
<1>5. ASSUME NEW s \in Slots, Forget(s) PROVE TurnRest'
  BY <1>5 DEF Forget
<1> QED BY <1>1, <1>2, <1>3, <1>4, <1>5 DEF TurnNext, EndTurn, Die

HelperRest == stopped \in BOOLEAN /\ reports \in 0..MaxReports

LEMMA HelperRestKept == HelperRest /\ [SubagentNext]_subagentVars => HelperRest'
<1> SUFFICES ASSUME HelperRest, [SubagentNext]_subagentVars PROVE HelperRest'
  OBVIOUS
<1>1. ASSUME NEW h \in Helpers, Progress(h) PROVE HelperRest'
  <2>1. reports < MaxReports /\ reports' = reports + 1 /\ stopped' = stopped
    BY <1>1 DEF Progress
  <2> QED BY <2>1, SubagentConstants DEF HelperRest
<1>2. CASE Abort
  BY <1>2 DEF Abort, HelperRest
<1>3. CASE UNCHANGED <<stopped, reports>>
  BY <1>3 DEF HelperRest
<1>4. ASSUME NEW h \in Helpers, CallHelper(h) \/ Resume(h) \/ StartHelper(h) \/ EndHelper(h)
      PROVE  UNCHANGED <<stopped, reports>>
  BY <1>4 DEF CallHelper, Resume, StartHelper, EndHelper
<1> QED BY <1>1, <1>2, <1>3, <1>4 DEF SubagentNext, HelperStep, CloseTurn, HandleReport,
                                     WriteHelper, subagentVars

LEMMA HelpersTyped == TellInv /\ HelperRest => SubagentTypeOK
BY HelpersFinite DEF TellInv, GateInv, ReportTypes, HelperRest, SubagentTypeOK

LEMMA RedactTyped ==
  secrets \in SecretSets /\ over \in BOOLEAN /\ [RedactNext]_redactVars
  => secrets' \in SecretSets /\ over' \in BOOLEAN
BY DEF RedactNext, PushText, Finish, redactVars

LEMMA NamesTyped == NamesTypeOK /\ [NamesNext]_nameVars => NamesTypeOK'
<1> SUFFICES ASSUME NamesTypeOK, [NamesNext]_nameVars PROVE NamesTypeOK'
  OBVIOUS
<1>1. CASE UNCHANGED nameVars
  BY <1>1 DEF nameVars, NamesTypeOK
<1>2. CASE NamesNext
  <2>1. PICK n \in 0..MaxTools : \E tools \in [1..n -> ToolDefs] :
          offered' = tools /\ exposed' = ExposedNames(tools)
    BY <1>2 DEF NamesNext, OfferTools
  <2>2. PICK tools \in [1..n -> ToolDefs] : offered' = tools /\ exposed' = ExposedNames(tools)
    BY <2>1
  <2>3. PICK names : names = exposed'
    OBVIOUS
  <2>4. GoodNames(tools, n, names)
    <3>1. GoodNames(tools, n, ExposedNames(tools))
      BY AllNamesGood
    <3> QED BY <2>2, <2>3, <3>1
  <2>5. DOMAIN exposed' = 1..n /\ DOMAIN offered' = 1..n
    BY <2>2, <2>3, <2>4 DEF GoodNames
  <2>6. offered' \in Seq(ToolDefs)
    BY <2>2, NameConstants
  <2> QED BY <2>5, <2>6 DEF NamesTypeOK
<1> QED BY <1>1, <1>2

McpRest ==
  /\ turn \in {"rest", "discover", "choose", "execute", "call"}
  /\ chosen \in {NoTool} \union [name : {Named(i) : i \in Ids}, row : ServerRows]

LEMMA McpRestKept == McpInv /\ McpRest /\ [McpNext]_mcpVars => McpRest'
<1> SUFFICES ASSUME McpInv, McpRest, [McpNext]_mcpVars PROVE McpRest'
  OBVIOUS
<1>1. listed \subseteq [name : {Named(i) : i \in Ids}, row : ServerRows]
  BY DEF McpInv, McpTypes
<1>2. CASE ChooseTool
  BY <1>1, <1>2 DEF ChooseTool, McpRest
<1>3. CASE ExecuteTool
  <2>1. turn' \in {"rest", "call"} /\ chosen' = chosen
    BY <1>3 DEF ExecuteTool
  <2> QED BY <2>1 DEF McpRest
<1>4. ASSUME InstallServer \/ RemoveServer \/ UNCHANGED mcpVars PROVE McpRest'
  BY <1>4 DEF InstallServer, RemoveServer, TurnAlone, mcpVars, McpRest
<1>5. CASE Discover \/ Discovered \/ ToolReturns
  BY <1>5 DEF Discover, Discovered, ToolReturns, McpRest
<1>6. ASSUME NEW r \in ServerRows, AnswerRequest(r) \/ CallFails(r) \/ ChildCloses(r)
      PROVE  McpRest'
  BY <1>6 DEF AnswerRequest, CallFails, ChildCloses, TurnAlone, McpRest
<1> QED BY <1>2, <1>3, <1>4, <1>5, <1>6 DEF McpNext

LEMMA McpTyped == McpInv /\ McpRest => McpTypeOK
BY DEF McpInv, McpTypes, McpRest, McpTypeOK, ServerRecords, McpCallRecords

BoxCallRecords ==
  [at : {"free", "image", "list", "inspect", "start", "remove", "create", "boot", "screen",
         "stop", "delete", "operate"},
   id : Boxes \union {NoBox}]
BoxRecords == [state : {"none", "stopped", "running", "removed"}, image : 0..MaxImages]
BoxRest ==
  /\ box \in [Boxes -> BoxRecords]
  /\ \A b, d \in Existing : b = d
  /\ built \in 0..MaxImages
  /\ imageReady \in {"unset", "pending", "ready", "failed"}
  /\ boxCall \in [BoxCalls -> BoxCallRecords]
  /\ dropped \subseteq Boxes
  /\ boxTroubles \in 0..MaxBoxTroubles

LEMMA BoxRestStart == SupervisorInit => BoxRest
<1> SUFFICES ASSUME SupervisorInit PROVE BoxRest
  OBVIOUS
<1> USE SupervisorConstants DEF SupervisorInit
<1>1. Existing = {} /\ box \in [Boxes -> BoxRecords]
  BY DEF Existing, Nothing, BoxRecords
<1>2. boxCall \in [BoxCalls -> BoxCallRecords]
  BY DEF Waiting, BoxCallRecords
<1> QED BY <1>1, <1>2 DEF BoxRest

\* Docker has one container of the name at a time: one is made only when none is there.
LEMMA OneBox ==
  BoxesInv /\ BoxRest /\ [SupervisorNext]_supervisorVars
  => box' \in [Boxes -> BoxRecords] /\ \A b, d \in Existing' : b = d
<1> SUFFICES ASSUME BoxesInv, BoxRest, [SupervisorNext]_supervisorVars
             PROVE  box' \in [Boxes -> BoxRecords] /\ \A b, d \in Existing' : b = d
  OBVIOUS
<1> DEFINE Goal == box' \in [Boxes -> BoxRecords] /\ \A b, d \in Existing' : b = d
<1>1. CASE UNCHANGED box
  BY <1>1 DEF BoxRest, Existing
<1>2. ASSUME NEW b \in Existing, NEW to \in {"stopped", "running", "removed"}, SetState(b, to)
      PROVE  Goal
  <2>1. /\ b \in Boxes /\ box' \in [Boxes -> BoxRecords]
        /\ \A e \in Boxes : box'[e].state = IF e = b THEN to ELSE box[e].state
    BY <1>2 DEF SetState, Existing, BoxRest, BoxRecords
  <2>2. Existing' \subseteq Existing
    BY <1>2, <2>1 DEF Existing
  <2> QED BY <2>1, <2>2 DEF BoxRest
<1>3. ASSUME NEW c \in BoxCalls, CreateBox(c) PROVE Goal
  <2>1. CASE Existing # {}
    BY <1>1, <1>3, <2>1 DEF CreateBox
  <2>2. CASE Existing = {}
    <3> DEFINE new == Cardinality(Made) + 1
    <3>1. box' = [box EXCEPT ![new] = [state |-> "stopped", image |-> built]]
      BY <1>3, <2>2 DEF CreateBox
    <3>2. [state |-> "stopped", image |-> built] \in BoxRecords
      BY DEF BoxRest, BoxRecords
    <3> HIDE DEF new
    <3>3. box' \in [Boxes -> BoxRecords] /\ \A e \in Boxes \ {new} : box'[e] = box[e]
      BY <3>1, <3>2 DEF BoxRest
    <3>4. Existing' \subseteq {new}
      BY <2>2, <3>3 DEF Existing
    <3> QED BY <3>3, <3>4
  <2> QED BY <2>1, <2>2
<1>4. ASSUME NEW c \in BoxCalls, CallNext(c) PROVE Goal
  <2>1. CASE RemoveOutdated(c)
    BY <1>1, <1>2, <2>1 DEF RemoveOutdated, Exists
  <2>2. CASE StartBox(c)
    <3>1. CASE box[boxCall[c].id].state = "stopped"
      <4>1. boxCall[c].id \in Made
        BY <2>2 DEF BoxesInv, Holding, StartBox
      <4>2. boxCall[c].id \in Existing
        BY <3>1, <4>1 DEF Made, Existing
      <4> QED BY <1>2, <2>2, <3>1, <4>2 DEF StartBox
    <3> QED BY <1>1, <2>2, <3>1 DEF StartBox
  <2>3. CASE StopBox(c)
    BY <1>1, <1>2, <2>3 DEF StopBox, Exists
  <2>4. CASE DeleteBox(c)
    BY <1>1, <1>2, <2>4 DEF DeleteBox, Exists
  <2>5. ASSUME \/ Provision(c) \/ LookForImage(c) \/ ImageReady(c) \/ List(c) \/ Inspect(c)
               \/ ScreenUrl(c) \/ Operate(c) \/ DockerFails(c)
               \/ \E goal \in {"stop", "delete", "operate"} : Manage(c, goal)
        PROVE  UNCHANGED box
    BY <2>5 DEF Provision, LookForImage, ImageReady, List, Inspect, ScreenUrl, Operate,
                DockerFails, Manage, OnlyCall
  <2> QED BY <1>1, <1>3, <1>4, <2>1, <2>2, <2>3, <2>4, <2>5 DEF CallNext
<1>5. ASSUME NEW b \in Boxes, BoxExits(b) PROVE Goal
  <2>1. b \in Existing
    BY <1>5 DEF BoxExits, Existing
  <2> QED BY <1>2, <1>5, <2>1 DEF BoxExits
<1> QED BY <1>1, <1>4, <1>5 DEF SupervisorNext, ImageSettled, Restart, Rebuild, supervisorVars

LEMMA BoxCallsTyped ==
  BoxesInv /\ BoxRest /\ [SupervisorNext]_supervisorVars
  => boxCall' \in [BoxCalls -> BoxCallRecords]
<1> SUFFICES ASSUME BoxesInv, BoxRest, [SupervisorNext]_supervisorVars
             PROVE  boxCall' \in [BoxCalls -> BoxCallRecords]
  OBVIOUS
<1>1. CASE UNCHANGED boxCall
  BY <1>1 DEF BoxRest
<1>2. Waiting \in BoxCallRecords
  BY DEF Waiting, BoxCallRecords
<1>3. ASSUME NEW c \in BoxCalls, NEW at \in {"free", "image", "list", "inspect", "start", "remove",
               "create", "boot", "screen", "stop", "delete", "operate"}, Reach(c, at)
      PROVE  boxCall' \in [BoxCalls -> BoxCallRecords]
  BY <1>3 DEF Reach, BoxRest, BoxCallRecords
<1>4. ASSUME NEW c \in BoxCalls, Answer(c) PROVE boxCall' \in [BoxCalls -> BoxCallRecords]
  BY <1>2, <1>4 DEF Answer, BoxRest
<1>5. ASSUME NEW c \in BoxCalls, NEW b \in Boxes,
             NEW at \in {"inspect", "boot", "stop", "delete", "operate"},
             boxCall' = [boxCall EXCEPT ![c] = [at |-> at, id |-> b]]
      PROVE  boxCall' \in [BoxCalls -> BoxCallRecords]
  BY <1>5 DEF BoxRest, BoxCallRecords
<1>6. ASSUME NEW c \in BoxCalls, CallNext(c) PROVE boxCall' \in [BoxCalls -> BoxCallRecords]
  <2>1. CASE Inspect(c)
    <3>1. \/ Answer(c)
          \/ \E at \in {"remove", "screen", "start"} : Reach(c, at)
      BY <2>1 DEF Inspect
    <3> QED BY <1>3, <1>4, <3>1
  <2>2. CASE CreateBox(c)
    <3>1. CASE Existing # {}
      BY <1>4, <2>2, <3>1 DEF CreateBox
    <3>2. CASE Existing = {}
      <4>1. PICK n \in 0..MaxBoxes : Made = 1..n
        BY DEF BoxesInv
      <4>2. Cardinality(Made) = n
        BY <4>1, FS_Interval, SupervisorConstants
      <4>3. /\ Made # Boxes
            /\ boxCall' = [boxCall EXCEPT ![c] = [at |-> "boot", id |-> n + 1]]
        BY <2>2, <3>2, <4>2 DEF CreateBox
      <4>4. n + 1 \in Boxes
        BY <4>1, <4>3, SupervisorConstants DEF Boxes
      <4> QED BY <1>5, <4>3, <4>4
    <3> QED BY <3>1, <3>2
  <2>3. CASE List(c)
    BY <1>3, <1>5, <2>3 DEF List, Existing
  <2>4. ASSUME NEW goal \in {"stop", "delete", "operate"}, Manage(c, goal)
        PROVE  boxCall' \in [BoxCalls -> BoxCallRecords]
    BY <1>5, <2>4 DEF Manage, Existing
  <2>5. ASSUME Provision(c) \/ ImageReady(c) \/ RemoveOutdated(c) \/ StartBox(c)
               \/ ScreenUrl(c) \/ StopBox(c) \/ DeleteBox(c) \/ Operate(c) \/ DockerFails(c)
        PROVE  Answer(c) \/ \E at \in {"image", "list", "create", "screen"} : Reach(c, at)
    BY <2>5 DEF Provision, ImageReady, RemoveOutdated, StartBox, ScreenUrl, StopBox, DeleteBox,
                Operate, DockerFails
  <2>6. CASE LookForImage(c)
    BY <1>1, <2>6 DEF LookForImage
  <2> QED BY <1>3, <1>4, <1>6, <2>1, <2>2, <2>3, <2>4, <2>5, <2>6 DEF CallNext
<1>7. CASE Restart
  BY <1>2, <1>7 DEF Restart
<1>8. ASSUME NEW b \in Boxes, BoxExits(b) PROVE UNCHANGED boxCall
  BY <1>8 DEF BoxExits
<1> QED BY <1>1, <1>6, <1>7, <1>8 DEF SupervisorNext, ImageSettled, Rebuild, supervisorVars

LEMMA BoxRestKept == BoxesInv /\ BoxRest /\ [SupervisorNext]_supervisorVars => BoxRest'
<1> SUFFICES ASSUME BoxesInv, BoxRest, [SupervisorNext]_supervisorVars PROVE BoxRest'
  OBVIOUS
<1> DEFINE Others == /\ built' \in 0..MaxImages
                     /\ imageReady' \in {"unset", "pending", "ready", "failed"}
                     /\ dropped' \subseteq Boxes
                     /\ boxTroubles' \in 0..MaxBoxTroubles
<1>1. ASSUME UNCHANGED <<built, imageReady, dropped, boxTroubles>> PROVE Others
  BY <1>1 DEF BoxRest
<1>2. ASSUME ImageSettled PROVE Others
  <2>1. /\ imageReady' \in {"ready", "failed"} /\ UNCHANGED <<dropped, boxTroubles>>
        /\ built' \in {built, 1}
    BY <1>2 DEF ImageSettled
  <2> QED BY <2>1, SupervisorConstants DEF BoxRest
<1>3. ASSUME Rebuild PROVE Others
  <2>1. built < MaxImages /\ built' = built + 1 /\ UNCHANGED <<imageReady, dropped, boxTroubles>>
    BY <1>3 DEF Rebuild
  <2> QED BY <2>1, SupervisorConstants DEF BoxRest
<1>4. ASSUME NEW c \in BoxCalls, DockerFails(c) PROVE Others
  <2>1. /\ boxTroubles < MaxBoxTroubles /\ boxTroubles' = boxTroubles + 1
        /\ UNCHANGED <<built, imageReady, dropped>>
    BY <1>4 DEF DockerFails
  <2> QED BY <2>1, SupervisorConstants DEF BoxRest
<1>5. ASSUME Restart PROVE Others
  <2>1. /\ boxTroubles < MaxBoxTroubles /\ boxTroubles' = boxTroubles + 1
        /\ imageReady' = "unset" /\ UNCHANGED <<built, dropped>>
    BY <1>5 DEF Restart
  <2> QED BY <2>1, SupervisorConstants DEF BoxRest
<1>6. ASSUME NEW c \in BoxCalls, CallNext(c) PROVE Others
  <2>1. CASE LookForImage(c)
    BY <2>1 DEF LookForImage, BoxRest
  <2>2. CASE DeleteBox(c)
    BY <2>2 DEF DeleteBox, Exists, Existing, BoxRest
  <2>3. ASSUME \/ Provision(c) \/ ImageReady(c) \/ List(c) \/ Inspect(c) \/ RemoveOutdated(c)
               \/ CreateBox(c) \/ StartBox(c) \/ ScreenUrl(c) \/ StopBox(c) \/ Operate(c)
               \/ \E goal \in {"stop", "delete", "operate"} : Manage(c, goal)
        PROVE  UNCHANGED <<built, imageReady, dropped, boxTroubles>>
    BY <2>3 DEF Provision, ImageReady, List, Inspect, RemoveOutdated, CreateBox, StartBox,
                ScreenUrl, StopBox, Operate, Manage, OnlyCall
  <2> QED BY <1>1, <1>4, <1>6, <2>1, <2>2, <2>3 DEF CallNext
<1>7. Others
  BY <1>1, <1>2, <1>3, <1>5, <1>6 DEF SupervisorNext, BoxExits, supervisorVars
<1> QED BY <1>7, OneBox, BoxCallsTyped DEF BoxRest

LEMMA BoxesTyped == BoxesInv /\ BoxRest => SupervisorTypeOK
<1> SUFFICES ASSUME BoxesInv, BoxRest PROVE SupervisorTypeOK
  OBVIOUS
<1>1. Cardinality(Existing) <= 1
  <2>1. CASE Existing = {}
    BY <2>1, FS_EmptySet
  <2>2. CASE Existing # {}
    <3>1. PICK b \in Existing : TRUE
      BY <2>2
    <3>2. Existing = {b}
      BY <3>1 DEF BoxRest
    <3> QED BY <3>2, FS_Singleton
  <2> QED BY <2>1, <2>2
<1>2. given \subseteq Boxes
  BY DEF BoxesInv, Made
<1> QED BY <1>1, <1>2 DEF BoxRest, BoxRecords, BoxCallRecords, SupervisorTypeOK

\* What there is of a bot's files is of a version that was written.
HostFiles ==
  /\ newest \in 0..MaxVersions
  /\ home <= newest /\ desk <= newest /\ removedHome <= newest
HostFlags == rowRuns \in BOOLEAN /\ mounted \in BOOLEAN
HostPlaces ==
  /\ computerHost \in {"docker", "this-mac"}
  /\ named \in Computers \union {"none"}
  /\ container \in {"none", "running", "stopped"}
  /\ boxes \subseteq HostProcesses
  /\ switches \in 0..MaxSwitches
  /\ hostTroubles \in 0..MaxHostTroubles

LEMMA HostFilesKept == HostInv /\ HostFiles /\ [HostNext]_hostVars => HostFiles'
<1> SUFFICES ASSUME HostInv, HostFiles, [HostNext]_hostVars PROVE HostFiles'
  OBVIOUS
<1> USE HostConstants DEF HostFiles
<1>0. /\ home \in Nat /\ desk \in Nat /\ removedHome \in Nat /\ newest \in Nat
  BY DEF HostInv, HostNumbers
<1>1. ASSUME UNCHANGED <<home, removedHome, newest>>, desk' \in {desk, home} PROVE HostFiles'
  BY <1>1
<1>2. ASSUME NEW p \in HostProcesses, ProvisionFails(p) PROVE HostFiles'
  BY <1>1, <1>2 DEF ProvisionFails, Restored
<1>3. CASE EnsureComputer \/ BootComputer
  BY <1>1, <1>3 DEF EnsureComputer, BootComputer, Restored
<1>4. CASE Write
  <2>1. /\ newest < MaxVersions /\ newest' = newest + 1
        /\ home' \in {home, newest + 1} /\ desk' \in {desk, newest + 1}
        /\ removedHome' \in {removedHome, newest + 1}
    BY <1>4 DEF Write
  <2> QED BY <1>0, <2>1
<1>5. ASSUME NEW machine, CheckpointHome(machine), UNCHANGED <<desk, newest>> PROVE HostFiles'
  <2>1. home' \in {home, desk} /\ removedHome' \in {removedHome, 0}
    BY <1>5 DEF CheckpointHome
  <2> QED BY <1>0, <1>5, <2>1
<1>6. ASSUME NEW at \in {"off", "paused"}, LeaveComputer(at) PROVE HostFiles'
  BY <1>5, <1>6 DEF LeaveComputer
<1>7. ASSUME NEW p \in HostProcesses, HaltComputer(p) PROVE HostFiles'
  BY <1>5, <1>7 DEF HaltComputer
<1>8. ASSUME NEW p \in HostProcesses, RestartProcess(p) \/ Switch \/ UNCHANGED hostVars
      PROVE  HostFiles'
  BY <1>1, <1>8 DEF RestartProcess, Switch, hostVars, fileVars
<1>9. "api" \in HostProcesses /\ "worker" \in HostProcesses
  BY DEF HostProcesses
<1> QED BY <1>2, <1>3, <1>4, <1>6, <1>7, <1>8, <1>9 DEF HostNext, StopHost, SleepHost

LEMMA HostFlagsKept == HostFlags /\ [HostNext]_hostVars => HostFlags'
<1> SUFFICES ASSUME HostFlags, [HostNext]_hostVars PROVE HostFlags'
  OBVIOUS
<1> USE DEF HostFlags
<1>1. ASSUME NEW p, ProvisionComputer(p) PROVE mounted' \in BOOLEAN
  <2>1. \/ UNCHANGED mounted
        \/ mounted' = (container # "running" \/ mounted)
    BY <1>1, Zenon DEF ProvisionComputer
  <2> QED BY <2>1, Zenon
<1>2. ASSUME NEW p \in HostProcesses, ProvisionFails(p) PROVE HostFlags'
  <2>1. rowRuns' = FALSE /\ (ProvisionComputer(p) \/ UNCHANGED mounted)
    BY <1>2, Zenon DEF ProvisionFails
  <2> QED BY <1>1, <2>1, Zenon
<1>3. CASE EnsureComputer
  BY <1>1, <1>3, Zenon DEF EnsureComputer
<1>4. CASE BootComputer
  BY <1>1, <1>4, Zenon DEF BootComputer
<1>5. CASE Write
  BY <1>5, Zenon DEF Write
<1>6. ASSUME NEW machine, CheckpointHome(machine) PROVE mounted' \in BOOLEAN
  BY <1>6, Zenon DEF CheckpointHome
<1>7. ASSUME NEW at \in {"off", "paused"}, LeaveComputer(at) PROVE HostFlags'
  BY <1>6, <1>7, Zenon DEF LeaveComputer
<1>8. ASSUME NEW p, HaltComputer(p) PROVE HostFlags'
  BY <1>6, <1>8, Zenon DEF HaltComputer
<1>9. ASSUME NEW p \in HostProcesses, RestartProcess(p) PROVE HostFlags'
  BY <1>9 DEF RestartProcess, fileVars
<1>10. CASE Switch \/ UNCHANGED hostVars
  BY <1>10 DEF Switch, hostVars, fileVars
<1> QED BY <1>2, <1>3, <1>4, <1>5, <1>7, <1>8, <1>9, <1>10 DEF HostNext, StopHost, SleepHost

LEMMA HostPlacesKept == HostPlaces /\ [HostNext]_hostVars => HostPlaces'
<1> SUFFICES ASSUME HostPlaces, [HostNext]_hostVars PROVE HostPlaces'
  OBVIOUS
<1> USE HostConstants DEF HostPlaces, Computers, HostProcesses
<1>1. ASSUME NEW p \in HostProcesses, ProvisionComputer(p)
      PROVE  container' \in {"none", "running", "stopped"} /\ boxes' \subseteq HostProcesses
  BY <1>1 DEF ProvisionComputer
<1>2. Chosen \in Computers
  BY DEF Chosen
<1>3. CASE Switch
  <2>1. /\ switches < MaxSwitches /\ switches' = switches + 1
        /\ computerHost' \in {"docker", "this-mac"}
        /\ UNCHANGED <<named, container, boxes, hostTroubles>>
    BY <1>3 DEF Switch
  <2> QED BY <2>1
<1>4. CASE EnsureComputer
  BY <1>1, <1>2, <1>4 DEF EnsureComputer
<1>5. CASE BootComputer
  BY <1>1, <1>2, <1>5 DEF BootComputer
<1>6. ASSUME NEW p \in HostProcesses, ProvisionFails(p) PROVE HostPlaces'
  <2>1. /\ hostTroubles < MaxHostTroubles /\ hostTroubles' = hostTroubles + 1
        /\ UNCHANGED <<computerHost, named, switches>>
    BY <1>6 DEF ProvisionFails
  <2>2. CASE Fresh(p)
    <3>1. container' = container /\ boxes' = boxes
      BY <1>6, <2>2 DEF ProvisionFails
    <3> QED BY <2>1, <3>1
  <2>3. CASE ~Fresh(p)
    <3>1. ProvisionComputer(p)
      BY <1>6, <2>3, Zenon DEF ProvisionFails
    <3> QED BY <1>1, <2>1, <3>1
  <2> QED BY <2>2, <2>3
<1>7. ASSUME NEW p \in HostProcesses, RestartProcess(p) PROVE HostPlaces'
  <2>1. /\ hostTroubles < MaxHostTroubles /\ hostTroubles' = hostTroubles + 1
        /\ boxes' = boxes \ {p} /\ UNCHANGED <<computerHost, named, container, switches>>
    BY <1>7 DEF RestartProcess
  <2> QED BY <2>1
<1>8. ASSUME NEW p \in HostProcesses, HaltComputer(p) PROVE HostPlaces'
  BY <1>8 DEF HaltComputer
<1>9. ASSUME NEW at \in {"off", "paused"}, Write \/ LeaveComputer(at) \/ UNCHANGED hostVars
      PROVE  HostPlaces'
  BY <1>9 DEF Write, LeaveComputer, hostVars
<1> QED BY <1>3, <1>4, <1>5, <1>6, <1>7, <1>8, <1>9 DEF HostNext, StopHost, SleepHost

HostRest == HostFiles /\ HostFlags /\ HostPlaces

LEMMA HostRestStart == HostInit => HostRest
<1> SUFFICES ASSUME HostInit PROVE HostRest
  OBVIOUS
<1>1. HostFlags
  BY Zenon DEF HostInit, HostFlags
<1>2. HostFiles /\ HostPlaces
  BY HostConstants DEF HostInit, HostFiles, HostPlaces
<1> QED BY <1>1, <1>2 DEF HostRest

LEMMA HostTyped == HostInv /\ HostRest => HostTypeOK
<1> SUFFICES ASSUME HostInv, HostRest PROVE HostTypeOK
  OBVIOUS
<1>1. {rowRuns, mounted, gap} \subseteq BOOLEAN
  BY Zenon DEF HostRest, HostFlags, HostInv, HostNumbers
<1>2. /\ {removedHome, home, desk, newest, finished} \subseteq 0..MaxVersions
      /\ hostRun \in [at : {"off", "paused", "working"},
                      machine : Computers \union {"none"}, wrote : 0..MaxVersions]
  BY HostConstants DEF HostInv, HostNumbers, HostRest, HostFiles
<1> QED BY <1>1, <1>2 DEF HostRest, HostPlaces, HostTypeOK

\* A commit under way was counted when it read its document: what it writes is new.
MemoryNumbers ==
  /\ commits \in 0..MaxCommits
  /\ \A d \in Documents : document[d].rev <= commits /\ document[d].content <= commits
  /\ \A w \in Writers :
       /\ commit[w].rev <= commits /\ commit[w].content <= commits
       /\ commit[w].at = "write" => commit[w].rev < commits
  /\ history \subseteq [path : Documents, rev : Contents, content : Contents]
IndexTypes ==
  /\ database \subseteq Documents \X Contents
  /\ manifest \in Snapshots
  /\ pending \in Searches \union {NoSearch}
  /\ \A s \in Searches : search[s].docs \in Snapshots
  /\ memoryTroubles \in 0..MaxMemoryTroubles
MemoryRest == MemoryNumbers /\ IndexTypes

LEMMA BlankDocuments == NoManifest \in Snapshots /\ NoSearching.docs = NoManifest
BY MemoryConstants DEF NoManifest, NoSearching, Absent, Snapshots, Version, Contents

LEMMA MemoryRestStart == MemoryInit => MemoryRest
<1> SUFFICES ASSUME MemoryInit PROVE MemoryRest
  OBVIOUS
<1>1. MemoryNumbers
  BY MemoryConstants DEF MemoryInit, MemoryNumbers, Absent, NoCommit
<1>2. IndexTypes
  BY MemoryConstants, BlankDocuments DEF MemoryInit, IndexTypes
<1> QED BY <1>1, <1>2 DEF MemoryRest

LEMMA SnapshotTyped == MemoryInv /\ MemoryNumbers => document \in Snapshots
<1> SUFFICES ASSUME MemoryInv, MemoryNumbers PROVE document \in Snapshots
  OBVIOUS
<1>1. ASSUME NEW d \in Documents PROVE document[d] \in Version
  <2>1. document[d] \in [rev : Nat, content : Nat]
    BY DEF MemoryInv, MemoryTypes, Docs
  <2>2. document[d].rev <= commits /\ document[d].content <= commits /\ commits \in 0..MaxCommits
    BY DEF MemoryNumbers
  <2> QED BY <2>1, <2>2, MemoryConstants DEF Version, Contents
<1> QED BY <1>1 DEF MemoryInv, MemoryTypes, Docs, Snapshots

LEMMA NumbersKept == MemoryInv /\ MemoryNumbers /\ [MemoryNext]_memoryVars => MemoryNumbers'
<1> SUFFICES ASSUME MemoryInv, MemoryNumbers, [MemoryNext]_memoryVars PROVE MemoryNumbers'
  OBVIOUS
<1> USE MemoryConstants
<1>0. /\ document \in Docs /\ commit \in [Writers -> CommitRecords] /\ commits \in 0..MaxCommits
  BY DEF MemoryInv, MemoryTypes, MemoryNumbers
<1>1. CASE UNCHANGED <<document, history, commit, commits>>
  BY <1>1 DEF MemoryNumbers
<1>2. ASSUME NEW w \in Writers, FindDocument(w) PROVE MemoryNumbers'
  <2>1. PICK d \in Documents :
          commit' = [commit EXCEPT ![w] = [at |-> "write", path |-> d,
                                           rev |-> document[d].rev, content |-> commits + 1]]
    BY <1>2 DEF FindDocument
  <2>2. commits < MaxCommits /\ commits' = commits + 1 /\ UNCHANGED <<document, history>>
    BY <1>2 DEF FindDocument
  <2>3. commits' \in 0..MaxCommits
    BY <1>0, <2>2
  <2>4. ASSUME NEW e \in Documents
        PROVE  /\ document[e].rev \in Nat /\ document[e].rev <= commits
               /\ document[e].content \in Nat /\ document[e].content <= commits
    BY <1>0 DEF Docs, MemoryNumbers
  <2>5. ASSUME NEW v \in Writers
        PROVE  /\ commit'[v].rev <= commits' /\ commit'[v].content <= commits'
               /\ commit'[v].at = "write" => commit'[v].rev < commits'
    <3>1. CASE v = w
      <4>1. commit'[v].rev = document[d].rev /\ commit'[v].content = commits + 1
        BY <1>0, <2>1, <3>1
      <4> QED BY <1>0, <2>2, <2>4, <4>1
    <3>2. CASE v # w
      <4>1. commit'[v] = commit[v] /\ commit[v] \in CommitRecords
        BY <1>0, <2>1, <3>2
      <4>2. /\ commit[v].rev <= commits /\ commit[v].content <= commits
            /\ commit[v].rev \in Nat /\ commit[v].content \in Nat
        BY <4>1 DEF MemoryNumbers, CommitRecords
      <4> QED BY <1>0, <2>2, <4>1, <4>2
    <3> QED BY <3>1, <3>2
  <2>6. \A e \in Documents : document'[e].rev <= commits' /\ document'[e].content <= commits'
    BY <1>0, <2>2, <2>4
  <2> QED BY <2>2, <2>3, <2>5, <2>6 DEF MemoryNumbers
<1>3. ASSUME NEW w \in Writers, WriteDocument(w) PROVE MemoryNumbers'
  <2> DEFINE c == commit[w]
  <2>1. /\ c \in CommitRecords /\ c.at = "write" /\ c.rev < commits /\ c.content <= commits
        /\ UNCHANGED <<history, commits>>
    BY <1>0, <1>3 DEF WriteDocument, MemoryNumbers
  <2>2. CASE commit' = [commit EXCEPT ![w] = NoCommit] /\ UNCHANGED document
    BY <1>0, <2>1, <2>2 DEF MemoryNumbers, NoCommit
  <2>3. CASE /\ document' = [document EXCEPT ![c.path] = [rev |-> c.rev + 1, content |-> c.content]]
             /\ commit' = [commit EXCEPT ![w].at = "record", ![w].rev = c.rev + 1]
    <3>1. c.rev + 1 <= commits
      BY <1>0, <2>1 DEF CommitRecords
    <3>2. \A d \in Documents : document'[d].rev <= commits /\ document'[d].content <= commits
      BY <1>0, <2>1, <2>3, <3>1 DEF Docs, MemoryNumbers
    <3>3. ASSUME NEW v \in Writers
          PROVE  /\ commit'[v].rev <= commits /\ commit'[v].content <= commits
                 /\ commit'[v].at = "write" => commit'[v].rev < commits
      <4>1. CASE v = w
        <5>1. commit'[v].rev = c.rev + 1 /\ commit'[v].content = c.content
              /\ commit'[v].at = "record"
          BY <1>0, <2>1, <2>3, <4>1 DEF CommitRecords
        <5> QED BY <2>1, <3>1, <5>1
      <4>2. CASE v # w
        BY <1>0, <2>3, <4>2 DEF MemoryNumbers
      <4> QED BY <4>1, <4>2
    <3> QED BY <1>0, <2>1, <3>2, <3>3 DEF MemoryNumbers
  <2> QED BY <1>3, <2>2, <2>3 DEF WriteDocument
<1>4. ASSUME NEW w \in Writers, RecordRevision(w) PROVE MemoryNumbers'
  <2> DEFINE c == commit[w]
             row == [path |-> c.path, rev |-> c.rev, content |-> c.content]
  <2>1. /\ commit' = [commit EXCEPT ![w] = NoCommit] /\ UNCHANGED <<document, commits>>
        /\ history' \subseteq history \union {row}
    BY <1>4 DEF RecordRevision
  <2>2. row \in [path : Documents, rev : Contents, content : Contents]
    <3>1. c \in CommitRecords /\ c.rev <= commits /\ c.content <= commits
      BY <1>0 DEF MemoryNumbers
    <3> QED BY <1>0, <3>1 DEF CommitRecords, Contents
  <2> QED BY <1>0, <2>1, <2>2 DEF MemoryNumbers, NoCommit
<1>5. CASE CrashMemory
  BY <1>0, <1>5 DEF CrashMemory, MemoryNumbers, NoCommit
<1>6. ASSUME NEW s \in Searches,
             \/ ReadDocuments(s) \/ EnsureIndex(s) \/ ReadManifest(s) \/ RemoveSome(s)
             \/ RemoveRest(s) \/ StoreNext(s) \/ WriteManifest(s) \/ Recall(s)
             \/ CommandFails(s)
      PROVE  UNCHANGED <<document, history, commit, commits>>
  BY <1>6 DEF ReadDocuments, EnsureIndex, ReadManifest, RemoveSome, RemoveRest, StoreNext,
              WriteManifest, Recall, CommandFails, Markdown
<1> QED BY <1>1, <1>2, <1>3, <1>4, <1>5, <1>6 DEF MemoryNext, memoryVars

LEMMA IndexTypesKept ==
  MemoryInv /\ MemoryRest /\ [MemoryNext]_memoryVars => IndexTypes'
<1> SUFFICES ASSUME MemoryInv, MemoryRest, [MemoryNext]_memoryVars PROVE IndexTypes'
  OBVIOUS
<1>0. /\ search \in [Searches -> SearchRecords] /\ IndexTypes /\ document \in Snapshots
  BY SnapshotTyped DEF MemoryInv, MemoryTypes, MemoryRest
<1> DEFINE Docs1 == \A s \in Searches : search'[s].docs \in Snapshots
           Same == UNCHANGED <<database, manifest, pending, memoryTroubles>>
<1>1. ASSUME NEW s \in Searches, NEW at, SearchGoes(s, at) PROVE Docs1
  BY <1>0, <1>1 DEF SearchGoes, IndexTypes, SearchRecords
<1>2. ASSUME NEW s \in Searches, NEW next, Settles(s, next)
      PROVE  Docs1 /\ pending' \in Searches \union {NoSearch}
  BY <1>0, <1>2, BlankDocuments DEF Settles, IndexTypes, SearchRecords
<1>3. ASSUME UNCHANGED memoryVars PROVE IndexTypes'
  BY <1>0, <1>3 DEF memoryVars, IndexTypes
<1>4. ASSUME NEW w \in Writers, FindDocument(w) \/ WriteDocument(w) \/ RecordRevision(w)
      PROVE  IndexTypes'
  BY <1>0, <1>4 DEF FindDocument, WriteDocument, RecordRevision, Index, Directory, IndexTypes
<1>5. ASSUME NEW s \in Searches, ReadDocuments(s) PROVE IndexTypes'
  <2>1. Docs1 /\ Same
    BY <1>0, <1>5 DEF ReadDocuments, Directory, IndexTypes, NoSearching
  <2> QED BY <1>0, <2>1 DEF IndexTypes
<1>6. ASSUME NEW s \in Searches, EnsureIndex(s) PROVE IndexTypes'
  <2>1. /\ Docs1 /\ pending' \in Searches \union {NoSearch}
        /\ UNCHANGED <<database, manifest, memoryTroubles>>
    BY <1>0, <1>1, <1>6 DEF EnsureIndex, Directory, IndexTypes
  <2> QED BY <1>0, <2>1 DEF IndexTypes
<1>7. ASSUME NEW s \in Searches, ReadManifest(s) PROVE IndexTypes'
  <2>1. /\ Docs1 /\ pending' \in Searches \union {NoSearch}
        /\ UNCHANGED <<database, manifest, memoryTroubles>>
    BY <1>0, <1>1, <1>2, <1>7 DEF ReadManifest, Directory, IndexTypes
  <2> QED BY <1>0, <2>1 DEF IndexTypes
<1>8. ASSUME NEW s \in Searches, RemoveSome(s) PROVE IndexTypes'
  <2>1. /\ Docs1 /\ manifest' \in {manifest, NoManifest} /\ database' \subseteq database
        /\ UNCHANGED <<pending, memoryTroubles>>
    BY <1>1, <1>8 DEF RemoveSome
  <2> QED BY <1>0, <2>1, BlankDocuments DEF IndexTypes
<1>9. ASSUME NEW s \in Searches, RemoveRest(s) PROVE IndexTypes'
  <2>1. /\ manifest' = NoManifest /\ database' = {} /\ UNCHANGED <<pending, memoryTroubles>>
    BY <1>9 DEF RemoveRest
  <2>2. Docs1
    BY <1>0, <1>9 DEF RemoveRest, IndexTypes, SearchRecords
  <2> QED BY <1>0, <2>1, <2>2, BlankDocuments DEF IndexTypes
<1>10. ASSUME NEW s \in Searches, StoreNext(s) PROVE IndexTypes'
  <2>1. UNCHANGED <<manifest, pending, memoryTroubles>>
    BY <1>10 DEF StoreNext
  <2>2. CASE search[s].left = {}
    BY <1>0, <1>1, <1>10, <2>1, <2>2 DEF StoreNext, IndexTypes
  <2>3. CASE search[s].left # {}
    <3>1. PICK d \in search[s].left :
            /\ database' = database \union {<<d, search[s].docs[d].content>>}
            /\ search' = [search EXCEPT ![s].left = @ \ {d}]
      BY <1>10, <2>3 DEF StoreNext
    <3>2. d \in Documents /\ search[s].docs[d].content \in Contents
      BY <1>0 DEF SearchRecords, IndexTypes, Snapshots, Version
    <3>3. Docs1
      BY <1>0, <3>1 DEF IndexTypes, SearchRecords
    <3> QED BY <1>0, <2>1, <3>1, <3>2, <3>3 DEF IndexTypes
  <2> QED BY <2>2, <2>3
<1>11. ASSUME NEW s \in Searches, WriteManifest(s) PROVE IndexTypes'
  <2>1. /\ Docs1 /\ pending' \in Searches \union {NoSearch}
        /\ manifest' = search[s].docs /\ UNCHANGED <<database, memoryTroubles>>
    BY <1>2, <1>11 DEF WriteManifest
  <2> QED BY <1>0, <2>1 DEF IndexTypes
<1>12. ASSUME NEW s \in Searches, Recall(s) PROVE IndexTypes'
  <2>1. Docs1 /\ Same
    BY <1>0, <1>12, BlankDocuments DEF Recall, Directory, IndexTypes
  <2> QED BY <1>0, <2>1 DEF IndexTypes
<1>13. ASSUME NEW s \in Searches, CommandFails(s) PROVE IndexTypes'
  <2>1. /\ Docs1 /\ pending' \in Searches \union {NoSearch} /\ UNCHANGED <<database, manifest>>
    BY <1>2, <1>13 DEF CommandFails, Directory
  <2>2. memoryTroubles < MaxMemoryTroubles /\ memoryTroubles' = memoryTroubles + 1
    BY <1>13 DEF CommandFails
  <2> QED BY <1>0, <2>1, <2>2, MemoryConstants DEF IndexTypes
<1>14. CASE CrashMemory
  <2>1. memoryTroubles < MaxMemoryTroubles /\ memoryTroubles' = memoryTroubles + 1
    BY <1>14 DEF CrashMemory
  <2>2. Docs1 /\ pending' = NoSearch /\ UNCHANGED <<database, manifest>>
    BY <1>14, BlankDocuments DEF CrashMemory, Directory
  <2> QED BY <1>0, <2>1, <2>2, MemoryConstants DEF IndexTypes
<1> QED BY <1>3, <1>4, <1>5, <1>6, <1>7, <1>8, <1>9, <1>10, <1>11, <1>12, <1>13, <1>14
        DEF MemoryNext

LEMMA MemoryTyped == MemoryInv /\ MemoryRest => MemoryTypeOK
<1> SUFFICES ASSUME MemoryInv, MemoryRest PROVE MemoryTypeOK
  OBVIOUS
<1>1. document \in Snapshots /\ MemoryTypes /\ MemoryNumbers /\ IndexTypes
  BY SnapshotTyped DEF MemoryInv, MemoryRest
<1>2. commit \in [Writers -> [at : {"idle", "write", "record"}, path : Documents,
                              rev : Contents, content : Contents]]
  <2>1. ASSUME NEW w \in Writers
        PROVE  /\ commit[w] \in CommitRecords
               /\ commit[w].rev \in Contents /\ commit[w].content \in Contents
    <3>1. commit[w] \in CommitRecords /\ commits \in 0..MaxCommits
          /\ commit[w].rev <= commits /\ commit[w].content <= commits
      BY <1>1 DEF MemoryTypes, MemoryNumbers
    <3> QED BY <3>1, MemoryConstants DEF CommitRecords, Contents
  <2> QED BY <1>1, <2>1 DEF MemoryTypes, CommitRecords
<1>3. search \in [Searches -> [at : {"idle", "ensure", "wait", "recall"} \union Rebuilding,
                               docs : Snapshots, left : SUBSET Documents]]
  BY <1>1 DEF MemoryTypes, IndexTypes, SearchRecords
<1> QED BY <1>1, <1>2, <1>3 DEF MemoryNumbers, IndexTypes, Contents, MemoryTypeOK

\* What the invariants of the components leave aside, of all of them.
WorkRest ==
  /\ PeerRest /\ TurnRest /\ HelperRest /\ NamesTypeOK /\ McpRest /\ BoxRest /\ HostRest
  /\ MemoryRest
  /\ secrets \in SecretSets /\ over \in BOOLEAN

LEMMA WorkRestStart == WorkInit => WorkRest
<1> SUFFICES ASSUME WorkInit PROVE WorkRest
  OBVIOUS
<1>1. PeerRest
  BY PeerConstants DEF WorkInit, PeerInit, PeerRest
<1>2. TurnRest
  BY TurnConstants DEF WorkInit, TurnInit, TurnRest
<1>3. HelperRest
  <2>1. stopped = FALSE /\ reports = 0
    BY DEF WorkInit, SubagentInit
  <2>2. stopped \in BOOLEAN
    BY <2>1, Zenon
  <2> QED BY <2>1, <2>2, SubagentConstants DEF HelperRest
<1>4. NamesTypeOK
  BY DEF WorkInit, NamesInit, NamesTypeOK
<1>5. McpRest
  BY DEF WorkInit, McpInit, McpRest
<1>6. BoxRest /\ HostRest /\ MemoryRest
  BY BoxRestStart, HostRestStart, MemoryRestStart DEF WorkInit
<1>7. secrets \in SecretSets /\ over \in BOOLEAN
  BY DEF WorkInit, RedactInit
<1> QED BY <1>1, <1>2, <1>3, <1>4, <1>5, <1>6, <1>7 DEF WorkRest

LEMMA PeersTyped == PeerInv /\ PeerRest => PeerTypeOK
BY DEF PeerInv, PeerTypes, PeerRest, CallRecords, PeerTypeOK

LEMMA AnswersTyped == EffectInv /\ AnswerInv /\ TurnRest => TurnTypeOK
<1> SUFFICES ASSUME EffectTypes, AnswerTypes, TurnRest PROVE TurnTypeOK
  BY DEF EffectInv, AnswerInv
<1> QED BY DEF EffectTypes, AnswerTypes, TurnRest, Applying, TurnTypeOK

LEMMA HarnessTyped == HarnessInv => HarnessTypeOK
BY DEF HarnessInv, CliInv, RpcInv, HarnessTypeOK

LEMMA ServiceTyped == ServiceInv => ServiceTypeOK
BY DEF ServiceInv, ServiceTypeOK, Desired

-----------------------------------------------------------------------------
(* Side by side: each component's steps leave the others alone. *)

LEMMA PartsApart ==
  ASSUME [WorkNext]_workVars
  PROVE  /\ [SubagentNext]_subagentVars
         /\ [PeerNext]_peerVars
         /\ [MemoryNext]_memoryVars
         /\ [NamesNext]_nameVars
         /\ [McpNext]_mcpVars
         /\ [HarnessNext]_harnessVars
         /\ [SupervisorNext]_supervisorVars
         /\ [ServiceNext]_serviceVars
         /\ [HostNext]_hostVars
         /\ [TurnNext]_turnVars
         /\ [RedactNext]_redactVars
         /\ [CredentialNext]_credentialVars
BY DEF WorkNext, workVars

(***************************************************************************)
(* PeersAndHelpers for every number of runs, slots and helpers: however the*)
(* calls of a run overlap and whichever of them fail, it stays within what *)
(* its effect rows allow and within the hops; no call waits at the gate    *)
(* while a place is free; what became of a helper is told once.            *)
(***************************************************************************)
THEOREM PeersAndHelpersKept ==
  WorkSpec => []PeersAndHelpers
<1>1. WorkInit => PeerInv /\ TellInv
  BY PeerStart, TellInit DEF WorkInit
<1>2. PeerInv /\ TellInv /\ [WorkNext]_workVars => PeerInv' /\ TellInv'
  BY PartsApart, PeerKept, TellKept
<1>3. PeerInv /\ TellInv => PeersAndHelpers
  BY PeerSaysAll, TellSaysAll DEF PeersAndHelpers
<1> QED BY <1>1, <1>2, <1>3, PTL DEF WorkSpec

(***************************************************************************)
(* MemoryIsSound for every number of documents, writers and searches: a    *)
(* search leaves an index alone only when it holds what its manifest says, *)
(* wherever a rebuild before it was cut; a document's revisions stay.      *)
(***************************************************************************)
THEOREM MemoryStaysSound ==
  WorkSpec => []MemoryIsSound
<1>1. WorkInit => MemoryInv
  BY MemoryStart DEF WorkInit
<1>2. MemoryInv /\ [WorkNext]_workVars => MemoryInv'
  BY PartsApart, MemoryKept
<1>3. MemoryInv => MemoryIsSound
  BY MemorySaysAll DEF MemoryIsSound
<1> QED BY <1>1, <1>2, <1>3, PTL DEF WorkSpec

(***************************************************************************)
(* CallsAreOwn for every list of tools and every set of servers whose ids  *)
(* are plain: no two tools of a turn share a name, a tool runs on a server *)
(* with the id that offered it, and no call takes another's answer.        *)
(***************************************************************************)
THEOREM CallsStayOwn ==
  PlainIds /\ WorkSpec => []CallsAreOwn
<1> DEFINE Inv == PlainIds /\ NamesTellApart /\ McpInv
<1>1. PlainIds /\ WorkInit => Inv
  BY McpStart DEF WorkInit, NamesInit, NamesTellApart
<1>2. Inv /\ [WorkNext]_workVars => Inv'
  <2> SUFFICES ASSUME Inv, [WorkNext]_workVars PROVE Inv'
    OBVIOUS
  <2> QED BY PlainStays, PartsApart, NamesKept, McpKept
<1>3. Inv => CallsAreOwn
  <2>1. PlainIds => IdsComeBack
    BY PlainComesBack, Zenon DEF IdsComeBack
  <2> QED BY <2>1, McpSaysAll DEF CallsAreOwn
<1> QED BY <1>1, <1>2, <1>3, PTL DEF WorkSpec

(***************************************************************************)
(* WhatRunsIsKept for every number of calls, containers, requests and      *)
(* minutes: however output, timers, answers and closings overlap, lost     *)
(* output is told, a request is settled once and a closed session has no   *)
(* child; a container that was answered is there until it is dropped,      *)
(* whatever other calls, rebuilds and restarts come between; a window runs *)
(* the service in the minutes it covers and closing it ends no session     *)
(* unasked; a bot's files are found on the machine it works on.            *)
(***************************************************************************)
THEOREM WhatRunsStaysKept ==
  WorkSpec => []WhatRunsIsKept
<1> DEFINE Inv == HarnessInv /\ BoxesInv /\ ServiceInv /\ HostInv
<1>1. WorkInit => Inv
  BY HarnessStart, BoxesStart, ServiceStart, HostStart DEF WorkInit
<1>2. Inv /\ [WorkNext]_workVars => Inv'
  <2> SUFFICES ASSUME Inv, [WorkNext]_workVars PROVE Inv'
    OBVIOUS
  <2>1. /\ [HarnessNext]_harnessVars /\ [SupervisorNext]_supervisorVars
        /\ [ServiceNext]_serviceVars /\ [HostNext]_hostVars
    BY PartsApart
  <2>2. CliInv' /\ RpcInv'
    BY <2>1, CliKept, RpcKept DEF HarnessInv
  <2>3. BoxesInv' /\ ServiceInv' /\ HostInv'
    BY <2>1, BoxesKept, ServiceKept, HostKept
  <2> QED BY <2>2, <2>3 DEF HarnessInv
<1>3. Inv => WhatRunsIsKept
  BY ServiceSays, HostSays DEF WhatRunsIsKept, HarnessInv, CliInv, RpcInv, BoxesInv
<1> QED BY <1>1, <1>2, <1>3, PTL DEF WorkSpec

(***************************************************************************)
(* AnswersAreWhole for every number of slots, rounds and events, every set *)
(* of secrets and every length of text: an answer that ends is made of all *)
(* the deltas the agent said, once each and in order, over the rounds,     *)
(* whatever the queue between agent and reader holds when either stops; and*)
(* wherever the text is cut, what is shown comes to what redacting it at   *)
(* once gives, and what is held back is shorter than the longest secret.   *)
(***************************************************************************)
THEOREM AnswersStayWhole ==
  WorkSpec => []AnswersAreWhole
<1>1. WorkInit => AnswerInv /\ RedactInv
  BY AnswerStart, RedactStart DEF WorkInit
<1>2. AnswerInv /\ RedactInv /\ [WorkNext]_workVars => AnswerInv' /\ RedactInv'
  BY PartsApart, AnswerKept, RedactKept
<1>3. AnswerInv /\ RedactInv => AnswersAreWhole
  BY AnswerSays DEF AnswersAreWhole, RedactInv
<1> QED BY <1>1, <1>2, <1>3, PTL DEF WorkSpec

(***************************************************************************)
(* WorkTypeOK for any slots, helpers, tools, bots, runs, servers, boxes,   *)
(* documents and machines: every variable of the component that moves has  *)
(* its type.  No more than one container of a bot is there at a time       *)
(* (supervisor/src/index.ts), a revision of a document is no larger than   *)
(* the number of commits, though a writer may write what it read long ago  *)
(* (packages/memory/src/index.ts), and a machine has no file that was not  *)
(* written.                                                                *)
(***************************************************************************)
THEOREM WorkStaysTyped ==
  WorkSpec => []WorkTypeOK
<1> DEFINE Answers == EffectInv /\ AnswerInv /\ RedactInv
           Agents == PeerInv /\ TellInv /\ McpInv /\ TypeInv
           Machines == HarnessInv /\ BoxesInv /\ ServiceInv /\ HostInv /\ MemoryInv
           Inv == part \in Parts /\ Answers /\ Agents /\ Machines /\ WorkRest
<1>1. WorkInit => Inv
  <2> SUFFICES ASSUME WorkInit PROVE Inv
    OBVIOUS
  <2>1. part \in Parts
    BY DEF WorkInit
  <2>2. Answers
    BY InitEffects, AnswerStart, RedactStart DEF WorkInit
  <2>3. Agents
    BY PeerStart, TellInit, McpStart, InitTyped DEF WorkInit
  <2>4. Machines
    BY HarnessStart, BoxesStart, ServiceStart, HostStart, MemoryStart DEF WorkInit
  <2> QED BY <2>1, <2>2, <2>3, <2>4, WorkRestStart
<1>2. Inv /\ [WorkNext]_workVars => Inv'
  <2> SUFFICES ASSUME Inv, [WorkNext]_workVars PROVE Inv'
    OBVIOUS
  <2>1. part' \in Parts
    BY DEF WorkNext, workVars
  <2>2. Answers'
    BY PartsApart, EffectsKept, AnswerKept, RedactKept
  <2>3. Agents'
    BY PartsApart, PeerKept, TellKept, McpKept, StepsTyped
  <2>4. Machines'
    BY PartsApart, CliKept, RpcKept, BoxesKept, ServiceKept, HostKept, MemoryKept
    DEF HarnessInv
  <2>5. /\ PeerRest' /\ TurnRest' /\ HelperRest' /\ NamesTypeOK' /\ McpRest'
        /\ secrets' \in SecretSets /\ over' \in BOOLEAN
    BY PartsApart, PeerTyped, TurnTyped, HelperRestKept, NamesTyped, McpRestKept, RedactTyped
    DEF WorkRest, PeerInv
  <2>6. BoxRest' /\ HostRest' /\ MemoryRest'
    BY PartsApart, BoxRestKept, HostFilesKept, HostFlagsKept, HostPlacesKept, NumbersKept,
       IndexTypesKept DEF WorkRest, HostRest, MemoryRest
  <2> QED BY <2>1, <2>2, <2>3, <2>4, <2>5, <2>6 DEF WorkRest
<1>3. Inv => WorkTypeOK
  <2> SUFFICES ASSUME Inv PROVE WorkTypeOK
    OBVIOUS
  <2>1. TurnTypeOK /\ SubagentTypeOK /\ NamesTypeOK /\ PeerTypeOK
    BY AnswersTyped, HelpersTyped, PeersTyped DEF WorkRest
  <2>2. RedactTypeOK
    BY DEF RedactInv, WorkRest, Shown, RedactTypeOK
  <2>3. CredentialTypeOK /\ McpTypeOK /\ HarnessTypeOK
    BY McpTyped, HarnessTyped DEF WorkRest, TypeInv
  <2>4. SupervisorTypeOK /\ ServiceTypeOK /\ MemoryTypeOK /\ HostTypeOK
    BY BoxesTyped, ServiceTyped, MemoryTyped, HostTyped DEF WorkRest
  <2> QED BY <2>1, <2>2, <2>3, <2>4 DEF WorkTypeOK
<1> HIDE DEF Inv
<1> QED BY <1>1, <1>2, <1>3, PTL DEF WorkSpec
==============================================================================
