------------------------------ MODULE ToolNames ------------------------------
(***************************************************************************)
(* The names under which toAgentTools offers a turn's tools to the model.  *)
(* A name that providers accept stays; another one is cleaned, which may   *)
(* make it equal to a name that is there, and then gets a hash of what it  *)
(* was, and a number if that does not help.  The model calls a tool by its *)
(* name, and the first one that has it runs.                               *)
(*                                                                         *)
(* A name is the sequence of its parts: the base, the hash, the number.    *)
(***************************************************************************)
EXTENDS Naturals, Sequences

CONSTANTS
  ToolDefs,   \* tools: whether the name is safe, what cleaning makes of it, its hash
  MaxTools    \* bound: tools of a turn

ASSUME NameConstants ==
  /\ ToolDefs \subseteq [safe : BOOLEAN, base : Seq(STRING), hash : STRING]
  /\ MaxTools \in Nat

VARIABLES
  offered,    \* toolDefs of the turn
  exposed     \* the name of each for the model

nameVars == <<offered, exposed>>

(***************************************************************************)
(* Every tool that is offered has a name.                                  *)
(***************************************************************************)
NamesTypeOK ==
  /\ offered \in Seq(ToolDefs)
  /\ DOMAIN exposed = DOMAIN offered

NamesInit == offered = <<>> /\ exposed = <<>>

-----------------------------------------------------------------------------
\* Names that are valid as they are; reserved before any other is cleaned.
Reserved(tools) == {tools[i].base : i \in {j \in DOMAIN tools : tools[j].safe}}

\* Mutant: only names that were given before count.
TakenBefore(name, tool, used, reserved) == name \in used
Taken(name, tool, used, reserved) ==
  name \in used \/ (~tool.safe /\ name \in reserved)

\* withToolNameSuffix; a base that is cut to make room is the base of its tool here.
Suffixed(tool) == Append(tool.base, tool.hash)

Candidate(tool, used, reserved) ==
  LET IsTaken(name) == Taken(name, tool, used, reserved)
      Numbered(n) == Append(Suffixed(tool), n)
  IN IF ~IsTaken(tool.base) THEN tool.base
     ELSE IF ~IsTaken(Suffixed(tool)) THEN Suffixed(tool)
     ELSE Numbered(CHOOSE n \in 2..(MaxTools + 2) :
                     ~IsTaken(Numbered(n)) /\ \A m \in 2..(n - 1) : IsTaken(Numbered(m)))

\* normalizeAgentToolNames, tool after tool.
ExposedNames(tools) ==
  LET names[n \in 0..Len(tools)] ==
        IF n = 0 THEN <<>>
        ELSE Append(names[n - 1],
                    Candidate(tools[n], {names[n - 1][i] : i \in 1..(n - 1)},
                              Reserved(tools)))
  IN names[Len(tools)]

\* A turn begins with the tools of the moment.
OfferTools ==
  /\ \E n \in 0..MaxTools : \E tools \in [1..n -> ToolDefs] :
       /\ offered' = tools
       /\ exposed' = ExposedNames(tools)

NamesNext == OfferTools
NamesSpec == NamesInit /\ [][NamesNext]_nameVars

-----------------------------------------------------------------------------
(***************************************************************************)
(* No two tools of a turn have one name, so that a call leads to the tool  *)
(* that was meant; and a name that was valid is kept, unless valid names   *)
(* were given twice: no cleaned name takes it.                             *)
(***************************************************************************)
NamesTellApart ==
  /\ \A i, j \in DOMAIN exposed : exposed[i] = exposed[j] => i = j
  /\ (\A i, j \in DOMAIN offered :
        (offered[i].safe /\ offered[j].safe /\ offered[i].base = offered[j].base)
          => i = j)
       => \A i \in DOMAIN offered : offered[i].safe => exposed[i] = offered[i].base
=============================================================================
