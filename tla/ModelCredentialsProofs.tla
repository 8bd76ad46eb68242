------------------------ MODULE ModelCredentialsProofs ------------------------
(***************************************************************************)
(* Proofs about ModelCredentials, for any numbers of runs, requests, issued*)
(* credentials and losses.                                                 *)
(***************************************************************************)
EXTENDS ModelCredentials, TLAPS

(***************************************************************************)
(* A credential that waits to be stored is one that the provider issued.   *)
(***************************************************************************)
Issued ==
  /\ stored <= issued
  /\ \A r \in Runs : fresh[r] <= issued
  /\ \A l \in Listers : brought[l] <= issued

(***************************************************************************)
(* While the catalogue has a credential to store, nobody else has one.     *)
(***************************************************************************)
ListedAlone ==
  \A l \in ListersUnstored : RunsUnstored = {} /\ ListersUnstored = {l}

(***************************************************************************)
(* One that is about to be stored is not older than the stored one.        *)
(***************************************************************************)
NotOlder ==
  /\ \A r \in Runs : /\ place[r] = "keep" => stored < fresh[r]
                     /\ place[r] = "update" => stored <= fresh[r]
  /\ \A l \in ListersUnstored : stored < brought[l]

(***************************************************************************)
(* The newest credential is stored, or waits to be, unless one was lost.   *)
(***************************************************************************)
NewestKnown ==
  losses = 0 =>
    \/ stored = issued
    \/ \E r \in RunsUnstored : fresh[r] = issued
    \/ \E l \in ListersUnstored : brought[l] = issued

Apart == Issued /\ ListedAlone /\ NotOlder /\ NewestKnown


-----------------------------------------------------------------------------
(* Types *)

(***************************************************************************)
(* Whoever has a credential to store has one.                              *)
(***************************************************************************)
FreshThere ==
  /\ \A r \in Runs : place[r] \in Unstored => fresh[r] \in Generations
  /\ \A l \in Listers : listing[l] = "keep" => brought[l] \in Generations

TypeInv == CredentialTypeOK /\ FreshThere

(***************************************************************************)
(* A run takes and leaves the lock of its process exactly where it should  *)
(* (withModelCredentialLock around resolveModelKey and persistOAuth).      *)
(***************************************************************************)
LEMMA RunsTyped ==
  ASSUME TypeInv, NEW r \in Runs, CredentialStep(r),
         UNCHANGED <<listing, brought>>
  PROVE  TypeInv'
<1> USE CredentialConstants
        DEF TypeInv, FreshThere, Unstored, CredentialTypeOK, GoTo, Acquire, Release,
            Generations, Issue, NewGeneration, Adopt
<1>1. CASE BeginResolve(r) /\ UNCHANGED crossed
  BY <1>1 DEF BeginResolve
<1>2. CASE ReadSecret(r) /\ UNCHANGED crossed
  BY <1>2 DEF ReadSecret
<1>3. CASE KeepSecret(r) /\ UNCHANGED crossed
  BY <1>3 DEF KeepSecret
<1>4. CASE UseSecret(r) /\ UNCHANGED crossed
  BY <1>4 DEF UseSecret
<1>5. CASE BeginRenew(r) /\ UNCHANGED crossed
  BY <1>5 DEF BeginRenew
<1>6. CASE BeginPersist(r) /\ UNCHANGED crossed
  BY <1>6 DEF BeginPersist
<1>7. CASE Compare(r) /\ UNCHANGED crossed
  BY <1>7 DEF Compare
<1>8. CASE Update(r) /\ UNCHANGED crossed
  BY <1>8 DEF Update
<1>9. CASE FinishRun(r) /\ UNCHANGED crossed
  BY <1>9 DEF FinishRun
<1>10. CASE LoseFresh(r) /\ UNCHANGED crossed
  <2>1. losses' \in 0..MaxLosses
    BY <1>10 DEF LoseFresh
  <2>2. CASE place[r] = "keep"
    BY <1>10, <2>1, <2>2 DEF LoseFresh
  <2>3. CASE place[r] = "returned"
    <3>1. lock' = lock
      BY <1>10, <2>3 DEF LoseFresh
    <3> QED BY <1>10, <2>1, <2>3, <3>1 DEF LoseFresh
  <2>4. CASE place[r] \in {"compare", "update"}
    <3>1. lock' = [lock EXCEPT ![ProcessOf[r]] = NoRun]
      BY <1>10, <2>4 DEF LoseFresh
    <3> QED BY <1>10, <2>1, <2>4, <3>1 DEF LoseFresh
  <2> QED BY <1>10, <2>2, <2>3, <2>4 DEF LoseFresh
<1>11. CASE RefreshSecret(r)
  <2>1. CASE Issue(r) /\ GoTo(r, "keep") /\ UNCHANGED <<lock, copy, stored, losses>>
    <3>1. issued' \in Generations /\ fresh' = [fresh EXCEPT ![r] = issued']
      BY <2>1
    <3>2. crossed' \in BOOLEAN
      BY <2>1
    <3> QED BY <1>11, <2>1, <3>1, <3>2 DEF RefreshSecret
  <2>2. CASE UNCHANGED <<issued, fresh, crossed, stored, losses>>
    BY <1>11, <2>2 DEF RefreshSecret
  <2> QED BY <1>11, <2>1, <2>2 DEF RefreshSecret
<1>12. CASE Renew(r)
  <2>1. CASE Issue(r) /\ GoTo(r, "returned")
    <3>1. issued' \in Generations /\ fresh' = [fresh EXCEPT ![r] = issued']
      BY <2>1
    <3>2. crossed' \in BOOLEAN
      BY <2>1
    <3> QED BY <1>12, <2>1, <3>1, <3>2 DEF Renew
  <2>2. CASE GoTo(r, "running") /\ UNCHANGED <<issued, fresh, crossed>>
    BY <1>12, <2>2 DEF Renew
  <2> QED BY <1>12, <2>1, <2>2 DEF Renew
<1> QED BY <1>1, <1>2, <1>3, <1>4, <1>5, <1>6, <1>7, <1>8, <1>9, <1>10, <1>11, <1>12
        DEF CredentialStep

LEMMA ListersTyped ==
  ASSUME TypeInv, NEW l \in Listers,
         BeginList(l) \/ RefreshForList(l) \/ KeepForList(l)
  PROVE  TypeInv'
<1> USE CredentialConstants
        DEF TypeInv, FreshThere, Unstored, CredentialTypeOK, Generations, NewGeneration, runVars
<1>1. CASE BeginList(l) BY <1>1 DEF BeginList
<1>2. CASE RefreshForList(l)
  <2>1. crossed' \in BOOLEAN
    BY <1>2 DEF RefreshForList
  <2>2. issued' \in Generations /\ brought' \in [Listers -> Generations \union {0}]
    BY <1>2 DEF RefreshForList
  <2> QED BY <1>2, <2>1, <2>2 DEF RefreshForList
<1>3. CASE KeepForList(l) BY <1>3 DEF KeepForList
<1> QED BY <1>1, <1>2, <1>3

LEMMA InitTyped ==
  ASSUME CredentialInit
  PROVE  TypeInv
<1> USE CredentialConstants DEF CredentialInit, Generations
<1>1. \A r \in Runs : place[r] = "off" /\ lock[ProcessOf[r]] = NoRun
  OBVIOUS
<1>2. FreshThere
  BY DEF FreshThere, Unstored
<1>3. stored \in Generations /\ issued \in Generations /\ losses \in 0..MaxLosses
  OBVIOUS
<1>4. lock \in [Processes -> Runs \union {NoRun}]
  OBVIOUS
<1>5. copy \in [Runs -> Generations \union {0}] /\ fresh \in [Runs -> Generations \union {0}]
  OBVIOUS
<1>6. /\ listing \in [Listers -> {"off", "refresh", "keep"}]
      /\ brought \in [Listers -> Generations \union {0}]
      /\ crossed \in BOOLEAN
  OBVIOUS
<1>7. \A r \in Runs :
        place[r] \in {"resolve", "refresh", "keep", "auth", "compare", "update"}
          <=> lock[ProcessOf[r]] = r
  BY <1>1
<1>8. place \in [Runs -> {"off", "resolve", "refresh", "keep", "auth",
                          "running", "renew", "returned", "compare", "update"}]
  OBVIOUS
<1> QED BY <1>2, <1>3, <1>4, <1>5, <1>6, <1>7, <1>8 DEF TypeInv, CredentialTypeOK

LEMMA StepsTyped ==
  ASSUME TypeInv, [CredentialNext]_credentialVars
  PROVE  TypeInv'
<1>1. CASE CredentialNext
  BY <1>1, RunsTyped, ListersTyped DEF CredentialNext
<1>2. CASE UNCHANGED credentialVars
  BY <1>2 DEF credentialVars, runVars, TypeInv, FreshThere, CredentialTypeOK
<1> QED BY <1>1, <1>2

(***************************************************************************)
(* Every variable keeps its type, and the lock of a process is held by the *)
(* run that is in its critical section.                                    *)
(***************************************************************************)
THEOREM TypeCorrect ==
  CredentialSpec => []CredentialTypeOK
<1>1. TypeInv => CredentialTypeOK
  BY DEF TypeInv
<1> QED BY <1>1, InitTyped, StepsTyped, PTL DEF CredentialSpec

(***************************************************************************)
(* That refreshes have overlapped is not forgotten.                        *)
(***************************************************************************)
LEMMA CrossedStays ==
  ASSUME [CredentialNext]_credentialVars, crossed
  PROVE  crossed'
<1>1. ASSUME NEW r \in Runs, CredentialStep(r) PROVE crossed'
  BY <1>1 DEF CredentialStep, RefreshSecret, Renew, Issue
<1>2. ASSUME NEW l \in Listers, BeginList(l) \/ RefreshForList(l) \/ KeepForList(l)
      PROVE  crossed'
  BY <1>2 DEF BeginList, RefreshForList, KeepForList
<1> QED BY <1>1, <1>2 DEF CredentialNext, credentialVars

-----------------------------------------------------------------------------
(* What is stored *)

\* The places in which a run holds the lock of its process.
Locked == {"resolve", "refresh", "keep", "auth", "compare", "update"}

(***************************************************************************)
(* In one process the lock keeps two runs from storing at a time.          *)
(***************************************************************************)
LEMMA LockExcludes ==
  ASSUME TypeInv, KeptApart, NEW r \in Runs, NEW s \in Runs,
         place[r] \in Locked, place[s] \in Locked
  PROVE  r = s
BY DEF TypeInv, CredentialTypeOK, KeptApart, Locked

(***************************************************************************)
(* A step that neither brings, stores nor drops a credential.              *)
(***************************************************************************)
LEMMA QuietRun ==
  ASSUME TypeInv, Apart, NEW r \in Runs, NEW where, GoTo(r, where),
         where \notin {"keep", "update"},
         place[r] \in Unstored <=> where \in Unstored,
         UNCHANGED <<stored, issued, fresh, losses, listing, brought>>
  PROVE  Apart'
<1>1. RunsUnstored' = RunsUnstored /\ ListersUnstored' = ListersUnstored
  BY DEF RunsUnstored, ListersUnstored, GoTo, TypeInv, CredentialTypeOK
<1>2. \A s \in Runs : /\ place'[s] = "keep" => place[s] = "keep"
                      /\ place'[s] = "update" => place[s] = "update"
  BY DEF GoTo, TypeInv, CredentialTypeOK
<1>3. Issued' /\ ListedAlone'
  BY <1>1 DEF Apart, Issued, ListedAlone
<1>4. NotOlder'
  BY <1>1, <1>2 DEF Apart, NotOlder
<1>5. NewestKnown'
  BY <1>1 DEF Apart, NewestKnown
<1> QED BY <1>3, <1>4, <1>5 DEF Apart

(***************************************************************************)
(* A refresh brings the newest credential; that it does not overlap one of *)
(* the catalogue is what KeptApart says.                                   *)
(***************************************************************************)
LEMMA IssueKeeps ==
  ASSUME TypeInv, Apart, KeptApart', NEW r \in Runs, Issue(r),
         NEW where \in {"keep", "returned"}, GoTo(r, where), place[r] \notin Unstored,
         UNCHANGED <<stored, losses, listing, brought>>
  PROVE  Apart'
<1> USE DEF TypeInv, CredentialTypeOK, Generations
<1>1. ListersUnstored = {} /\ ListersUnstored' = {}
  BY DEF KeptApart, Issue, ListersUnstored
<1>2. issued' = issued + 1 /\ fresh' = [fresh EXCEPT ![r] = issued + 1]
  BY DEF Issue, NewGeneration
<1>3. Issued'
  BY <1>2 DEF Apart, Issued
<1>4. ListedAlone'
  BY <1>1 DEF ListedAlone
<1>5. NotOlder'
  BY <1>1, <1>2 DEF Apart, Issued, NotOlder, GoTo
<1>6. r \in RunsUnstored' /\ fresh'[r] = issued'
  BY <1>2 DEF RunsUnstored, GoTo, Unstored
<1>7. NewestKnown'
  BY <1>6 DEF NewestKnown
<1> QED BY <1>3, <1>4, <1>5, <1>7 DEF Apart

(***************************************************************************)
(* Storing what is not older than the stored one.                          *)
(***************************************************************************)
LEMMA StoreKeeps ==
  ASSUME TypeInv, Apart, KeptApart, NEW r \in Runs, place[r] \in {"keep", "update"},
         NEW where \in {"auth", "running"}, GoTo(r, where),
         stored' = fresh[r], fresh' = [fresh EXCEPT ![r] = 0],
         UNCHANGED <<issued, losses, listing, brought>>
  PROVE  Apart'
<1> USE DEF TypeInv, CredentialTypeOK, Generations
<1>1. r \in RunsUnstored
  BY DEF RunsUnstored, Unstored
<1>2. ListersUnstored = {} /\ ListersUnstored' = {}
  BY <1>1 DEF Apart, ListedAlone, ListersUnstored
<1>3. RunsUnstored' = RunsUnstored \ {r}
  BY DEF RunsUnstored, GoTo, Unstored
<1>4. Issued'
  BY DEF Apart, Issued
<1>5. ListedAlone'
  BY <1>2 DEF ListedAlone
<1>6. \A s \in Runs : place'[s] \notin {"keep", "update"}
  BY LockExcludes DEF GoTo, Locked
<1>7. NotOlder'
  BY <1>2, <1>6 DEF NotOlder
<1>8. NewestKnown'
  <2>1. stored <= fresh[r] /\ fresh[r] <= issued
    BY DEF Apart, NotOlder, Issued
  <2>2. CASE stored = issued \/ fresh[r] = issued
    BY <2>1, <2>2 DEF NewestKnown
  <2>3. ASSUME NEW s \in RunsUnstored, fresh[s] = issued, s # r PROVE NewestKnown'
    <3>1. s \in RunsUnstored' /\ fresh'[s] = issued'
      BY <1>3, <2>3 DEF RunsUnstored
    <3> QED BY <3>1 DEF NewestKnown
  <2> QED BY <1>2, <2>2, <2>3 DEF Apart, NewestKnown
<1> QED BY <1>4, <1>5, <1>7, <1>8 DEF Apart

(***************************************************************************)
(* A credential that is dropped was lost, or is older than the stored one. *)
(***************************************************************************)
LEMMA DropKeeps ==
  ASSUME TypeInv, Apart, NEW r \in Runs, place[r] \in Unstored,
         NEW where \in {"off", "running"}, GoTo(r, where),
         fresh' = [fresh EXCEPT ![r] = 0],
         losses' = losses + 1 \/ (stored > fresh[r] /\ losses' = losses),
         UNCHANGED <<stored, issued, listing, brought>>
  PROVE  Apart'
<1> USE DEF TypeInv, CredentialTypeOK, Generations
<1>1. ListersUnstored' = {}
  BY DEF Apart, ListedAlone, ListersUnstored, RunsUnstored
<1>2. RunsUnstored' = RunsUnstored \ {r}
  BY DEF RunsUnstored, GoTo, Unstored
<1>3. Issued' /\ ListedAlone'
  BY <1>1 DEF Apart, Issued, ListedAlone
<1>4. NotOlder'
  BY <1>1 DEF Apart, NotOlder, GoTo
<1>5. NewestKnown'
  <2>1. CASE losses' = losses + 1
    BY <2>1 DEF NewestKnown
  <2>2. CASE stored > fresh[r] /\ losses' = losses
    <3>1. ListersUnstored = {}
      BY <1>1 DEF ListersUnstored
    <3>2. fresh[r] # issued
      BY <2>2 DEF Apart, Issued
    <3>3. ASSUME NEW s \in RunsUnstored, fresh[s] = issued PROVE NewestKnown'
      <4>1. s \in RunsUnstored' /\ fresh'[s] = issued'
        BY <1>2, <3>2, <3>3 DEF RunsUnstored
      <4> QED BY <4>1 DEF NewestKnown
    <3>4. CASE stored = issued \/ losses # 0
      BY <2>2, <3>4 DEF NewestKnown
    <3> QED BY <3>1, <3>3, <3>4 DEF Apart, NewestKnown
  <2> QED BY <2>1, <2>2
<1> QED BY <1>3, <1>4, <1>5 DEF Apart

(***************************************************************************)
(* A comparison that lets the credential be stored.                        *)
(***************************************************************************)
LEMMA CompareKeeps ==
  ASSUME TypeInv, Apart, NEW r \in Runs, place[r] = "compare", ~Outdated(r),
         GoTo(r, "update"), UNCHANGED <<stored, issued, fresh, losses, listing, brought>>
  PROVE  Apart'
<1> USE DEF TypeInv, CredentialTypeOK, Generations
<1>1. RunsUnstored' = RunsUnstored /\ ListersUnstored' = ListersUnstored
  BY DEF RunsUnstored, ListersUnstored, GoTo, Unstored
<1>2. Issued' /\ ListedAlone'
  BY <1>1 DEF Apart, Issued, ListedAlone
<1>3. stored <= fresh[r]
  BY DEF Outdated
<1>4. NotOlder'
  BY <1>1, <1>3 DEF Apart, NotOlder, GoTo
<1>5. NewestKnown'
  BY <1>1 DEF Apart, NewestKnown
<1> QED BY <1>2, <1>4, <1>5 DEF Apart

LEMMA RunsKeepApart ==
  ASSUME TypeInv, Apart, KeptApart, KeptApart', NEW r \in Runs, CredentialStep(r),
         UNCHANGED <<listing, brought>>
  PROVE  Apart'
<1>1. CASE BeginResolve(r) BY <1>1, QuietRun DEF BeginResolve, Unstored
<1>2. CASE ReadSecret(r) BY <1>2, QuietRun DEF ReadSecret, Unstored
<1>3. CASE KeepSecret(r) BY <1>3, StoreKeeps DEF KeepSecret
<1>4. CASE UseSecret(r) BY <1>4, QuietRun DEF UseSecret, Unstored
<1>5. CASE BeginRenew(r) BY <1>5, QuietRun DEF BeginRenew, Unstored
<1>6. CASE BeginPersist(r) BY <1>6, QuietRun DEF BeginPersist, Unstored
<1>7. CASE Compare(r)
  <2>1. CASE Outdated(r)
    BY <1>7, <2>1, DropKeeps DEF Compare, Adopt, Outdated, Unstored
  <2>2. CASE ~Outdated(r)
    BY <1>7, <2>2, CompareKeeps DEF Compare
  <2> QED BY <2>1, <2>2
<1>8. CASE Update(r) BY <1>8, StoreKeeps DEF Update, Adopt
<1>9. CASE FinishRun(r) BY <1>9, QuietRun DEF FinishRun, Unstored
<1>10. CASE LoseFresh(r)
  <2>1. PICK where \in {"off", "running"} : GoTo(r, where)
    BY <1>10 DEF LoseFresh
  <2> QED BY <1>10, <2>1, DropKeeps DEF LoseFresh
<1>11. CASE RefreshSecret(r)
  BY <1>11, QuietRun, IssueKeeps DEF RefreshSecret, Unstored
<1>12. CASE Renew(r)
  BY <1>12, QuietRun, IssueKeeps DEF Renew, Unstored
<1> QED BY <1>1, <1>2, <1>3, <1>4, <1>5, <1>6, <1>7, <1>8, <1>9, <1>10, <1>11, <1>12
        DEF CredentialStep

(***************************************************************************)
(* The catalogue stores without a lock; where it meets nobody, its         *)
(* credential is the newest.                                               *)
(***************************************************************************)
LEMMA ListersKeepApart ==
  ASSUME TypeInv, Apart, KeptApart', NEW l \in Listers,
         BeginList(l) \/ RefreshForList(l) \/ KeepForList(l)
  PROVE  Apart'
<1> USE DEF TypeInv, CredentialTypeOK, Generations
<1>1. RunsUnstored' = RunsUnstored
  BY DEF RunsUnstored, BeginList, RefreshForList, KeepForList, runVars
<1>2. CASE UNCHANGED <<stored, issued, place, fresh, losses, brought>>
           /\ ListersUnstored' = ListersUnstored
  BY <1>1, <1>2 DEF Apart, Issued, ListedAlone, NotOlder, NewestKnown
<1>3. CASE BeginList(l)
  <2>1. ListersUnstored' = ListersUnstored
    BY <1>3 DEF BeginList, ListersUnstored
  <2> QED BY <1>2, <1>3, <2>1 DEF BeginList, runVars
<1>4. CASE RefreshForList(l)
  <2>1. CASE UNCHANGED <<issued, brought>>
    <3>1. ListersUnstored' = ListersUnstored
      BY <1>4, <2>1 DEF RefreshForList, NewGeneration, ListersUnstored
    <3> QED BY <1>2, <1>4, <2>1, <3>1 DEF RefreshForList
  <2>2. CASE NewGeneration
    <3>1. RunsUnstored = {} /\ ListersUnstored = {}
      <4>1. issued' # issued
        BY <2>2 DEF NewGeneration
      <4>2. crossed' = (crossed \/ RunsUnstored # {} \/ ListersUnstored # {})
        BY <1>4, <4>1 DEF RefreshForList
      <4> QED BY <4>2 DEF KeptApart
    <3>2. issued' = issued + 1 /\ brought' = [brought EXCEPT ![l] = issued + 1]
      BY <1>4, <2>2 DEF RefreshForList, NewGeneration
    <3>3. ListersUnstored' = {l}
      BY <1>4, <2>2, <3>1, <3>2 DEF RefreshForList, NewGeneration, ListersUnstored
    <3>4. Issued' /\ ListedAlone'
      BY <1>1, <1>4, <3>1, <3>2, <3>3 DEF Apart, Issued, ListedAlone, RefreshForList
    <3>5. NotOlder'
      BY <1>4, <3>2, <3>3 DEF Apart, Issued, NotOlder, RefreshForList
    <3>6. NewestKnown'
      BY <3>2, <3>3 DEF NewestKnown
    <3> QED BY <3>4, <3>5, <3>6 DEF Apart
  <2> QED BY <1>4, <2>1, <2>2 DEF RefreshForList
<1>5. CASE KeepForList(l)
  <2>1. RunsUnstored = {} /\ ListersUnstored = {l} /\ ListersUnstored' = {}
    BY <1>5 DEF KeepForList, Apart, ListedAlone, ListersUnstored
  <2>2. brought' = [brought EXCEPT ![l] = 0] /\ UNCHANGED <<issued, place, fresh>>
    BY <1>5 DEF KeepForList
  <2>3. stored' = brought[l] \/ stored' = stored
    BY <1>5 DEF KeepForList
  <2>4. Issued' /\ ListedAlone'
    BY <2>1, <2>2, <2>3 DEF Apart, Issued, ListedAlone
  <2>5. NotOlder'
    BY <2>1, <2>2 DEF NotOlder, RunsUnstored, Unstored
  <2>6. NewestKnown'
    <3>1. CASE losses' = losses + 1
      BY <3>1 DEF NewestKnown
    <3>2. CASE stored' = brought[l] /\ losses' = losses
      <4>1. stored < brought[l] /\ brought[l] <= issued
        BY <2>1 DEF Apart, NotOlder, Issued
      <4> QED BY <2>1, <2>2, <3>2, <4>1 DEF Apart, NewestKnown
    <3> QED BY <1>5, <3>1, <3>2 DEF KeepForList
  <2> QED BY <2>4, <2>5, <2>6 DEF Apart
<1> QED BY <1>3, <1>4, <1>5

-----------------------------------------------------------------------------

CredentialInv == TypeInv /\ (KeptApart => Apart)

(***************************************************************************)
(* The inductive invariant: while refreshes are kept apart, credentials    *)
(* wait to be stored one after the other.                                  *)
(***************************************************************************)
LEMMA InitApart == CredentialInit => CredentialInv
<1> SUFFICES ASSUME CredentialInit PROVE TypeInv /\ Apart
  BY DEF CredentialInv
<1>1. TypeInv
  BY InitTyped
<1>2. RunsUnstored = {} /\ ListersUnstored = {}
  BY DEF CredentialInit, RunsUnstored, ListersUnstored, Unstored
<1>3. Apart
  BY <1>2 DEF CredentialInit, Apart, Issued, ListedAlone, NotOlder, NewestKnown
<1> QED BY <1>1, <1>3

LEMMA StepsKeepApart ==
  ASSUME CredentialInv, [CredentialNext]_credentialVars
  PROVE  CredentialInv'
<1>1. TypeInv'
  BY StepsTyped DEF CredentialInv
<1>2. ASSUME KeptApart' PROVE Apart'
  <2>1. KeptApart
    BY <1>2, CrossedStays DEF CredentialInv, KeptApart
  <2>2. CASE CredentialNext
    BY <1>2, <2>1, <2>2, RunsKeepApart, ListersKeepApart DEF CredentialNext, CredentialInv
  <2>3. CASE UNCHANGED credentialVars
    BY <2>1, <2>3
       DEF credentialVars, runVars, CredentialInv, Apart, Issued, ListedAlone, NotOlder,
           NewestKnown, RunsUnstored, ListersUnstored
  <2> QED BY <2>2, <2>3
<1> QED BY <1>1, <1>2 DEF CredentialInv

(***************************************************************************)
(* NeverOlder for every number of runs, requests and credentials: a step   *)
(* that stores has the lock, and a later credential than the stored one.   *)
(***************************************************************************)
THEOREM NeverPutsBack ==
  CredentialSpec => NeverOlder
<1>1. ASSUME CredentialInv, [CredentialNext]_credentialVars
      PROVE  [KeptApart => stored' >= stored]_credentialVars
  <2>1. SUFFICES ASSUME KeptApart, CredentialNext PROVE stored' >= stored
    BY <1>1
  <2> USE DEF CredentialInv, TypeInv, CredentialTypeOK, Generations, Apart, NotOlder
  <2>2. ASSUME NEW r \in Runs, CredentialStep(r) PROVE stored' >= stored
    <3>1. CASE KeepSecret(r) \/ Update(r)
      BY <1>1, <2>1, <3>1 DEF KeepSecret, Update
    <3>2. CASE UNCHANGED stored
      BY <1>1, <3>2
    <3> QED BY <2>2, <3>1, <3>2
            DEF CredentialStep, BeginResolve, ReadSecret, UseSecret, BeginRenew, BeginPersist,
                Compare, FinishRun, LoseFresh, RefreshSecret, Renew
  <2>3. ASSUME NEW l \in Listers, BeginList(l) \/ RefreshForList(l) \/ KeepForList(l)
        PROVE  stored' >= stored
    <3>1. CASE KeepForList(l) /\ stored' = brought[l]
      BY <1>1, <2>1, <3>1 DEF KeepForList, ListersUnstored
    <3>2. CASE UNCHANGED stored
      BY <1>1, <3>2
    <3> QED BY <2>3, <3>1, <3>2 DEF BeginList, RefreshForList, KeepForList, runVars
  <2> QED BY <2>1, <2>2, <2>3 DEF CredentialNext
<1> QED BY <1>1, InitApart, StepsKeepApart, PTL DEF CredentialSpec, NeverOlder

(***************************************************************************)
(* StoredNewest for every number of runs, requests and credentials.        *)
(***************************************************************************)
THEOREM NewestStored ==
  CredentialSpec => []StoredNewest
<1>1. CredentialInv => StoredNewest
  BY DEF CredentialInv, Apart, NewestKnown, StoredNewest
<1> QED BY <1>1, InitApart, StepsKeepApart, PTL DEF CredentialSpec
===============================================================================
