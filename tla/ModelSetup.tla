------------------------------ MODULE ModelSetup -------------------------------
(***************************************************************************)
(* How a user connects models: with a key, or by a sign-in with a device   *)
(* code that the client polls for, and how one of the credentials becomes  *)
(* the default.  The settings overlay and the onboarding page are the      *)
(* clients; two tabs of one user may be at it.                             *)
(*                                                                         *)
(* PiOAuthLogins keeps the sign-ins in the memory of the API.  What a      *)
(* transaction writes is seen when it commits; its updates wait for the    *)
(* rows that another one has updated.                                      *)
(***************************************************************************)
EXTENDS Naturals, FiniteSets, Sequences

CONSTANTS
  Tabs,        \* clients of one user
  MaxLogins,   \* bound: sign-ins, numbered in the order of their begin
  MaxCreds,    \* bound: rows of credentials
  MaxSetups,   \* bound: what the user does
  MaxOutages   \* bound: failed statements and restarts of the API

ASSUME SetupConstants ==
  /\ MaxLogins \in Nat /\ MaxCreds \in Nat /\ MaxSetups \in Nat /\ MaxOutages \in Nat

VARIABLES
  creds,    \* userModelCredential, in the order of creation
  login,    \* the sign-ins
  pending,  \* those in the map of PiOAuthLogins
  tab,      \* what each client, and the handler it waits for, is at
  setups,
  outages

setupVars == <<creds, login, pending, tab, setups, outages>>

Providers == {"hosted", "ollama"}
Logins == 1..MaxLogins
NoLogin == 0
Idle == [at |-> "idle", flow |-> "none", login |-> NoLogin, clears |-> {}, chosen |-> 0,
         provider |-> "hosted", left |-> FALSE]

(***************************************************************************)
(* Every variable has its type.                                            *)
(***************************************************************************)
SetupTypeOK ==
  /\ creds \in Seq([provider : Providers, default : BOOLEAN]) /\ Len(creds) <= MaxCreds
  /\ login \in [Logins -> [at : {"none", "asked", "shown", "granted", "failed"},
                           stored : 0..MaxCreds]]
  /\ pending \subseteq Logins
  /\ tab \in [Tabs ->
       [at : {"idle", "begin", "poll", "secret", "open", "wait", "write", "select"},
        flow : {"none", "key", "custom", "device", "default"}, login : {NoLogin} \union Logins,
        clears : SUBSET (1..MaxCreds), chosen : 0..MaxCreds, provider : Providers,
        left : BOOLEAN]]
  /\ setups \in 0..MaxSetups
  /\ outages \in 0..MaxOutages

SetupInit ==
  /\ creds = <<>>
  /\ login = [l \in Logins |-> [at |-> "none", stored |-> 0]]
  /\ pending = {}
  /\ tab = [t \in Tabs |-> Idle]
  /\ setups = 0
  /\ outages = 0

To(t, place) == tab' = [tab EXCEPT ![t].at = place]
EndFlow(t) == tab' = [tab EXCEPT ![t] = Idle]
ByTab == UNCHANGED <<setups, outages>>

-----------------------------------------------------------------------------
(* The clients.  While a flow is pending its buttons are disabled. *)

Start(t, flow, place) ==
  /\ tab[t] = Idle
  /\ setups < MaxSetups /\ setups' = setups + 1
  /\ \E provider \in (IF flow = "default" THEN Providers ELSE {"hosted"}) :
       tab' = [tab EXCEPT ![t] = [Idle EXCEPT !.at = place, !.flow = flow, !.provider = provider]]

\* connectWithKey; addCustomModel and saveModel also make it the default.
ConnectKey(t) ==
  /\ \E flow \in {"key", "custom"} : Start(t, flow, "secret")
  /\ UNCHANGED <<creds, login, pending, outages>>

\* makeDefault: of a provider with a credential, or of Ollama.
MakeDefault(t) ==
  /\ Start(t, "default", "select")
  /\ UNCHANGED <<creds, login, pending, outages>>

\* beginDeviceSignIn, startDeviceSignIn
SignIn(t) ==
  /\ Start(t, "device", "begin")
  /\ UNCHANGED <<creds, login, pending, outages>>

\* The overlay is closed: its loop ends with the call that is under way.
Leave(t) ==
  /\ tab[t].flow = "device" /\ ~tab[t].left
  /\ tab' = [tab EXCEPT ![t].left = TRUE]
  /\ UNCHANGED <<creds, login, pending>> /\ ByTab

\* Ninety polls, or a hundred and eighty.
GiveUp(t) ==
  /\ tab[t].at = "poll"
  /\ EndFlow(t)
  /\ UNCHANGED <<creds, login, pending>> /\ ByTab

-----------------------------------------------------------------------------
(* PiOAuthLogins *)

Asked == {l \in Logins : login[l].at # "none"}

\* begin: the user's other sign-ins with the provider are aborted.
Begin(t) ==
  /\ tab[t].at = "begin" /\ tab[t].login = NoLogin
  /\ Asked # Logins
  /\ LET l == Cardinality(Asked) + 1 IN
       /\ login' = [login EXCEPT ![l].at = "asked"]
       /\ pending' = {l}
       /\ tab' = [tab EXCEPT ![t].login = l]
  /\ UNCHANGED creds /\ ByTab

\* The provider: a code, a grant, or an error, which it also is to be aborted.
ShowCode(l) ==
  /\ login[l].at = "asked" /\ l \in pending
  /\ login' = [login EXCEPT ![l].at = "shown"]
  /\ UNCHANGED <<creds, pending, tab>> /\ ByTab
Grant(l) ==
  /\ login[l].at = "shown" /\ l \in pending
  /\ login' = [login EXCEPT ![l].at = "granted"]
  /\ UNCHANGED <<creds, pending, tab>> /\ ByTab
Refuse(l) ==
  /\ login[l].at \in {"asked", "shown"}
  /\ login' = [login EXCEPT ![l].at = "failed"]
  /\ UNCHANGED <<creds, pending, tab>> /\ ByTab

\* begin returns the code, or throws when there is none within half a minute.
Began(t) ==
  LET l == tab[t].login IN
  /\ tab[t].at = "begin" /\ l # NoLogin
  /\ \/ /\ login[l].at \in {"shown", "granted"}
        /\ To(t, "poll") /\ UNCHANGED pending
     \/ /\ login[l].at \in {"asked", "failed"}
        /\ EndFlow(t) /\ pending' = pending \ {l}
  /\ UNCHANGED <<creds, login>> /\ ByTab

\* complete, and what the client makes of it.
Poll(t) ==
  LET l == tab[t].login IN
  /\ tab[t].at = "poll"
  /\ \/ tab[t].left /\ EndFlow(t) /\ UNCHANGED pending
     \/ l \notin pending /\ EndFlow(t) /\ UNCHANGED pending
     \/ l \in pending /\ login[l].at = "failed" /\ EndFlow(t) /\ pending' = pending \ {l}
     \/ l \in pending /\ login[l].at = "granted" /\ To(t, "secret") /\ UNCHANGED pending
  /\ UNCHANGED <<creds, login>> /\ ByTab

-----------------------------------------------------------------------------
(* persistModelCredential, models.setDefault *)

Open == {t \in Tabs : tab[t].at = "write"}
Locked == UNION {tab[t].clears : t \in Open}

StoreSecret(t) ==
  /\ tab[t].at = "secret"
  /\ To(t, "open")
  /\ UNCHANGED <<creds, login, pending>> /\ ByTab

\* setDefault looks for the provider's row that was updated last: a default one,
\* or any of those that were updated together.  Only Ollama needs none.
Select(t) ==
  LET own == {i \in 1..Len(creds) : creds[i].provider = tab[t].provider}
      latest == {i \in own : creds[i].default} IN
  /\ tab[t].at = "select"
  /\ IF own # {}
     THEN \E i \in (IF latest = {} THEN own ELSE latest) :
            tab' = [tab EXCEPT ![t].at = "open", ![t].chosen = i]
     ELSE IF tab[t].provider = "ollama" THEN To(t, "open") ELSE EndFlow(t)
  /\ UNCHANGED <<creds, login, pending>> /\ ByTab

\* Mutant: each statement is a transaction of its own.
ClearDefaultsAtOnce(t) ==
  /\ tab[t].at = "open"
  /\ Locked = {}
  /\ creds' = [i \in 1..Len(creds) |-> [creds[i] EXCEPT !.default = FALSE]]
  /\ tab' = [tab EXCEPT ![t].at = "write"]
  /\ UNCHANGED <<login, pending>> /\ ByTab

\* The transaction's first statement: no row that it sees is the default any more.
\* It waits for rows that another one has updated.
ClearDefaults(t) ==
  /\ tab[t].at = "open"
  /\ tab' = [tab EXCEPT ![t].at = IF Locked = {} THEN "write" ELSE "wait",
                        ![t].clears = 1..Len(creds)]
  /\ UNCHANGED <<creds, login, pending>> /\ ByTab
Waited(t) ==
  /\ tab[t].at = "wait"
  /\ Locked = {}
  /\ To(t, "write")
  /\ UNCHANGED <<creds, login, pending>> /\ ByTab

\* Mutant: the sign-in is kept when its credential is stored.
CommitKept(t) ==
  LET cleared == [i \in 1..Len(creds) |->
                    IF i \in tab[t].clears THEN [creds[i] EXCEPT !.default = FALSE] ELSE creds[i]]
      l == tab[t].login IN
  /\ tab[t].at = "write"
  /\ Len(creds) < MaxCreds
  /\ creds' = Append(cleared, [provider |-> tab[t].provider, default |-> TRUE])
  /\ login' = IF l = NoLogin THEN login ELSE [login EXCEPT ![l].stored = @ + 1]
  /\ EndFlow(t)
  /\ UNCHANGED pending /\ ByTab

\* Its second, and the commit: a new row, or the chosen one, is the default.  A
\* sign-in is consumed, and most clients set the default once more.
Commit(t) ==
  LET cleared == [i \in 1..Len(creds) |->
                    IF i \in tab[t].clears THEN [creds[i] EXCEPT !.default = FALSE] ELSE creds[i]]
      l == tab[t].login IN
  /\ tab[t].at = "write"
  /\ IF tab[t].chosen # 0
     THEN creds' = [cleared EXCEPT ![tab[t].chosen].default = TRUE]
     ELSE /\ Len(creds) < MaxCreds
          /\ creds' = Append(cleared, [provider |-> tab[t].provider, default |-> TRUE])
  /\ IF tab[t].chosen = 0 /\ l # NoLogin
     THEN login' = [login EXCEPT ![l].stored = @ + 1] /\ pending' = pending \ {l}
     ELSE UNCHANGED <<login, pending>>
  /\ tab' = [tab EXCEPT ![t] =
       IF tab[t].flow \in {"key", "default"} \/ tab[t].left THEN Idle
       ELSE [Idle EXCEPT !.at = "select", !.flow = "default"]]
  /\ ByTab

\* A statement or a call fails, and the client shows the error.
SetupFails(t) ==
  /\ tab[t].at \in {"secret", "open", "wait", "write", "select", "poll"}
  /\ outages < MaxOutages /\ outages' = outages + 1
  /\ EndFlow(t)
  /\ UNCHANGED <<creds, login, pending, setups>>

\* The API stops: the sign-ins are gone, and transactions roll back.
RestartApi ==
  /\ outages < MaxOutages /\ outages' = outages + 1
  /\ pending' = {}
  /\ tab' = [t \in Tabs |-> IF tab[t].at \in {"idle", "poll"} THEN tab[t] ELSE Idle]
  /\ UNCHANGED <<creds, login, setups>>

TabStep(t) ==
  \/ ConnectKey(t) \/ MakeDefault(t) \/ SignIn(t) \/ Leave(t) \/ GiveUp(t)
  \/ Begin(t) \/ Began(t) \/ Poll(t)
  \/ StoreSecret(t) \/ Select(t) \/ ClearDefaults(t) \/ Waited(t) \/ Commit(t) \/ SetupFails(t)

SetupNext ==
  \/ \E t \in Tabs : TabStep(t)
  \/ \E l \in Logins : ShowCode(l) \/ Grant(l) \/ Refuse(l)
  \/ RestartApi

SetupSpec == SetupInit /\ [][SetupNext]_setupVars

-----------------------------------------------------------------------------
(***************************************************************************)
(* A sign-in that a user has granted is stored once at most, is kept in    *)
(* the API's memory until it is stored and no longer, and no two sign-ins  *)
(* are alive at once, in whatever tabs they were begun.                    *)
(***************************************************************************)
SignInStoredOnce ==
  /\ Cardinality(pending) <= 1
  /\ \A l \in Logins : login[l].stored <= 1 /\ (login[l].stored = 1 => l \notin pending)

(***************************************************************************)
(* As soon as a user has a credential there is a default one, whatever     *)
(* else is being connected and wherever a statement fails or the API       *)
(* stops: no run falls back to the deployment's model in between.          *)
(***************************************************************************)
DefaultStays ==
  creds # <<>> => \E i \in 1..Len(creds) : creds[i].default
=============================================================================
