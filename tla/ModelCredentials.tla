-------------------------- MODULE ModelCredentials ---------------------------
(***************************************************************************)
(* The stored credential of a subscription model and the runs that refresh *)
(* it: resolveModelKey when a run starts, under a lock of its process, and *)
(* PiRuntimeCredentialStore while it runs, which refreshes the copy it was *)
(* given and hands the result back through persistOAuth.  The API's        *)
(* models.list refreshes the same credential, and takes no lock.           *)
(*                                                                         *)
(* A credential is a generation: the provider numbers them as it issues    *)
(* them, and a later one expires later.  Any credential may be found to be *)
(* near its end at any time.                                               *)
(***************************************************************************)
EXTENDS Naturals

CONSTANTS
  Runs,            \* runs that use the secret
  Listers,         \* requests for the catalogue of models
  NoRun,           \* nobody holds a lock
  Processes,
  ProcessOf,       \* the worker process that executes a run
  MaxGenerations,  \* bound: credentials issued
  MaxLosses        \* bound: failures between a refresh and its storage

ASSUME CredentialConstants ==
  /\ NoRun \notin Runs
  /\ ProcessOf \in [Runs -> Processes]
  /\ MaxGenerations \in Nat \ {0}
  /\ MaxLosses \in Nat

VARIABLES
  stored,   \* the generation in the secrets table
  issued,   \* the newest generation of the provider
  lock,     \* modelCredentialLocks of each process
  place,    \* where each run is
  copy,     \* the credential in its runtime store
  fresh,    \* what its refresh brought
  losses,   \* refreshed credentials that were not stored
  listing,  \* where each request for the catalogue is
  brought,  \* what its refresh brought
  crossed   \* history: it refreshed while another refresh was not yet stored

runVars == <<stored, issued, lock, place, copy, fresh, losses>>
credentialVars == <<runVars, listing, brought, crossed>>

Generations == 1..MaxGenerations
Unstored == {"keep", "returned", "compare", "update"}  \* fresh waits to be stored

(***************************************************************************)
(* Every variable has its type; a lock is held exactly where the code      *)
(* holds it.                                                               *)
(***************************************************************************)
CredentialTypeOK ==
  /\ stored \in Generations
  /\ issued \in Generations
  /\ lock \in [Processes -> Runs \union {NoRun}]
  /\ place \in [Runs -> {"off", "resolve", "refresh", "keep", "auth",
                         "running", "renew", "returned", "compare", "update"}]
  /\ copy \in [Runs -> Generations \union {0}]
  /\ fresh \in [Runs -> Generations \union {0}]
  /\ losses \in 0..MaxLosses
  /\ listing \in [Listers -> {"off", "refresh", "keep"}]
  /\ brought \in [Listers -> Generations \union {0}]
  /\ crossed \in BOOLEAN
  /\ \A r \in Runs :
       place[r] \in {"resolve", "refresh", "keep", "auth", "compare", "update"}
         <=> lock[ProcessOf[r]] = r

CredentialInit ==
  /\ stored = 1
  /\ issued = 1
  /\ lock = [p \in Processes |-> NoRun]
  /\ place = [r \in Runs |-> "off"]
  /\ copy = [r \in Runs |-> 0]
  /\ fresh = [r \in Runs |-> 0]
  /\ losses = 0
  /\ listing = [l \in Listers |-> "off"]
  /\ brought = [l \in Listers |-> 0]
  /\ crossed = FALSE

-----------------------------------------------------------------------------

GoTo(r, where) == place' = [place EXCEPT ![r] = where]

\* withModelCredentialLock
Acquire(r) ==
  /\ lock[ProcessOf[r]] = NoRun
  /\ lock' = [lock EXCEPT ![ProcessOf[r]] = r]
Release(r) == lock' = [lock EXCEPT ![ProcessOf[r]] = NoRun]

\* What the provider answers to a refresh: a new generation, or a refusal, for
\* a token that it has replaced or for no reason.
NewGeneration == issued < MaxGenerations /\ issued' = issued + 1
RunsUnstored == {r \in Runs : place[r] \in Unstored}
ListersUnstored == {l \in Listers : listing[l] = "keep"}
Issue(r) ==
  /\ NewGeneration
  /\ fresh' = [fresh EXCEPT ![r] = issued + 1]
  /\ crossed' = (crossed \/ ListersUnstored # {})

-----------------------------------------------------------------------------
(* resolveModelKey *)

BeginResolve(r) ==
  /\ place[r] = "off"
  /\ Acquire(r)
  /\ GoTo(r, "resolve")
  /\ UNCHANGED <<stored, issued, copy, fresh, losses>>

\* The secret's row; resolveModelAuth finds it valid long enough, or not.
ReadSecret(r) ==
  /\ place[r] = "resolve"
  /\ copy' = [copy EXCEPT ![r] = stored]
  /\ \E where \in {"auth", "refresh"} : GoTo(r, where)
  /\ UNCHANGED <<stored, issued, lock, fresh, losses>>

RefreshSecret(r) ==
  /\ place[r] = "refresh"
  /\ \/ /\ Issue(r)
        /\ GoTo(r, "keep")
        /\ UNCHANGED <<lock, copy>>
     \/ /\ Release(r)
        /\ GoTo(r, "off")
        /\ copy' = [copy EXCEPT ![r] = 0]
        /\ UNCHANGED <<issued, fresh, crossed>>
  /\ UNCHANGED <<stored, losses>>

\* Mutant: the refreshed credential serves this run and is not stored.
KeepSecretToSelf(r) ==
  /\ place[r] = "keep"
  /\ copy' = [copy EXCEPT ![r] = fresh[r]]
  /\ fresh' = [fresh EXCEPT ![r] = 0]
  /\ GoTo(r, "auth")
  /\ UNCHANGED <<stored, issued, lock, losses>>

\* persist, with no look at what the row has become.
KeepSecret(r) ==
  /\ place[r] = "keep"
  /\ stored' = fresh[r]
  /\ copy' = [copy EXCEPT ![r] = fresh[r]]
  /\ fresh' = [fresh EXCEPT ![r] = 0]
  /\ GoTo(r, "auth")
  /\ UNCHANGED <<issued, lock, losses>>

\* toAuth, and the lock is released.
UseSecret(r) ==
  /\ place[r] = "auth"
  /\ Release(r)
  /\ GoTo(r, "running")
  /\ UNCHANGED <<stored, issued, copy, fresh, losses>>

-----------------------------------------------------------------------------
(* PiRuntimeCredentialStore.modify, one at a time in a run, and persistOAuth. *)

BeginRenew(r) ==
  /\ place[r] = "running"
  /\ GoTo(r, "renew")
  /\ UNCHANGED <<stored, issued, lock, copy, fresh, losses>>

Renew(r) ==
  /\ place[r] = "renew"
  /\ \/ Issue(r) /\ GoTo(r, "returned")
     \/ GoTo(r, "running") /\ UNCHANGED <<issued, fresh, crossed>>
  /\ UNCHANGED <<stored, lock, copy, losses>>

BeginPersist(r) ==
  /\ place[r] = "returned"
  /\ Acquire(r)
  /\ GoTo(r, "compare")
  /\ UNCHANGED <<stored, issued, copy, fresh, losses>>

\* Mutant: the expiry is not compared.
OutdatedNever(r) == FALSE

\* A stored credential that expires later stays.
Outdated(r) == stored > fresh[r]

Adopt(r) ==
  /\ copy' = [copy EXCEPT ![r] = fresh[r]]
  /\ fresh' = [fresh EXCEPT ![r] = 0]
  /\ Release(r)
  /\ GoTo(r, "running")

Compare(r) ==
  /\ place[r] = "compare"
  /\ IF Outdated(r)
     THEN Adopt(r)
     ELSE GoTo(r, "update") /\ UNCHANGED <<lock, copy, fresh>>
  /\ UNCHANGED <<stored, issued, losses>>

Update(r) ==
  /\ place[r] = "update"
  /\ stored' = fresh[r]
  /\ Adopt(r)
  /\ UNCHANGED <<issued, losses>>

-----------------------------------------------------------------------------

FinishRun(r) ==
  /\ place[r] = "running"
  /\ GoTo(r, "off")
  /\ copy' = [copy EXCEPT ![r] = 0]
  /\ UNCHANGED <<stored, issued, lock, fresh, losses>>

\* A statement throws with a refreshed credential in hand: resolveModelKey ends
\* the run, modify goes on with the credential it had.
LoseFresh(r) ==
  /\ place[r] \in Unstored
  /\ losses < MaxLosses
  /\ losses' = losses + 1
  /\ fresh' = [fresh EXCEPT ![r] = 0]
  /\ lock' = IF lock[ProcessOf[r]] = r THEN [lock EXCEPT ![ProcessOf[r]] = NoRun] ELSE lock
  /\ IF place[r] = "keep"
     THEN GoTo(r, "off") /\ copy' = [copy EXCEPT ![r] = 0]
     ELSE GoTo(r, "running") /\ UNCHANGED copy
  /\ UNCHANGED <<stored, issued>>

-----------------------------------------------------------------------------
(* models.list of the API, for its xai credential. *)

\* The secret's row is read and found near its end.
BeginList(l) ==
  /\ listing[l] = "off"
  /\ listing' = [listing EXCEPT ![l] = "refresh"]
  /\ UNCHANGED <<runVars, brought, crossed>>

\* A refusal is swallowed: the catalogue comes without the provider's models.
RefreshForList(l) ==
  /\ listing[l] = "refresh"
  /\ \/ /\ NewGeneration
        /\ brought' = [brought EXCEPT ![l] = issued + 1]
        /\ listing' = [listing EXCEPT ![l] = "keep"]
        /\ crossed' = (crossed \/ RunsUnstored # {} \/ ListersUnstored # {})
     \/ /\ listing' = [listing EXCEPT ![l] = "off"]
        /\ UNCHANGED <<issued, brought, crossed>>
  /\ UNCHANGED <<stored, lock, place, copy, fresh, losses>>

\* persist, with no lock and no look at what the row has become; so is its
\* failure swallowed.
KeepForList(l) ==
  /\ listing[l] = "keep"
  /\ \/ stored' = brought[l] /\ UNCHANGED losses
     \/ losses < MaxLosses /\ losses' = losses + 1 /\ UNCHANGED stored
  /\ listing' = [listing EXCEPT ![l] = "off"]
  /\ brought' = [brought EXCEPT ![l] = 0]
  /\ UNCHANGED <<issued, lock, place, copy, fresh, crossed>>

CredentialStep(r) ==
  \/ /\ \/ BeginResolve(r) \/ ReadSecret(r) \/ KeepSecret(r) \/ UseSecret(r)
        \/ BeginRenew(r) \/ BeginPersist(r) \/ Compare(r) \/ Update(r)
        \/ FinishRun(r) \/ LoseFresh(r)
     /\ UNCHANGED crossed
  \/ RefreshSecret(r) \/ Renew(r)

CredentialNext ==
  \/ \E r \in Runs : CredentialStep(r) /\ UNCHANGED <<listing, brought>>
  \/ \E l \in Listers : BeginList(l) \/ RefreshForList(l) \/ KeepForList(l)

CredentialSpec == CredentialInit /\ [][CredentialNext]_credentialVars

-----------------------------------------------------------------------------
\* What keeps the refreshes of a credential apart: its users are runs of one
\* process, and the catalogue's refresh met no other one.
KeptApart == (\A r, s \in Runs : ProcessOf[r] = ProcessOf[s]) /\ ~crossed

(***************************************************************************)
(* Runs of one process never put an older credential over a newer one,     *)
(* although each refreshes the copy that it was given.                     *)
(***************************************************************************)
NeverOlder == [][KeptApart => stored' >= stored]_credentialVars

(***************************************************************************)
(* When no refreshed credential is on its way to the table and none was    *)
(* lost, the table has the newest one, the only one that a provider with   *)
(* rotating tokens still accepts.                                          *)
(***************************************************************************)
StoredNewest ==
  (KeptApart /\ losses = 0 /\ RunsUnstored = {} /\ ListersUnstored = {})
    => stored = issued
=============================================================================
