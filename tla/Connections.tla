----------------------------- MODULE Connections -----------------------------
(***************************************************************************)
(* Hosted apps through Composio.  A user's key is kept as a row that names *)
(* a secret, and, in the process of the API, in the connector, with the    *)
(* client and the sessions made under it.  The tabs of the user save and   *)
(* clear keys and connect and revoke an app at once, and each await of a   *)
(* handler lets the others in.  Composio is external: a key stands for a   *)
(* project, which knows its own sessions and accounts only.                *)
(***************************************************************************)
EXTENDS Integers, FiniteSets

CONSTANTS
  PluginTabs,           \* requests of the user under way at once
  EnvironmentKey, \* COMPOSIO_API_KEY of the process: NoKey, or MaxKeys + 1
  MaxKeys,        \* bound: keys that are saved
  MaxRows,        \* bound: connections that are begun
  MaxTroubles     \* bound: failed statements or calls, and restarts

NoKey == 0
Keys == 1..(MaxKeys + 1)

ASSUME ConnectionsConstants ==
  /\ MaxKeys \in Nat /\ MaxRows \in Nat /\ MaxTroubles \in Nat
  /\ EnvironmentKey \in {NoKey, MaxKeys + 1}

VARIABLES
  install,   \* capabilityInstall composio-local: the secret of each row, the newest last
  keySecrets,   \* the rows of kind composio-api-key
  held,      \* apiKey of the connector
  session,   \* catalogSessions: the key that the cached session was made under
  tabCall,   \* what the handler of each tab is about to do
  status,    \* connection rows of one app
  granting,  \* authorize: the project in which the user may still grant a row's request
  linked,    \* the projects in which the app's account is active
  savedKeys, troubles

connectionVars ==
  <<install, keySecrets, held, session, tabCall, status, granting, linked, savedKeys, troubles>>

ConnectionRows == 1..MaxRows
Installs == 1..MaxKeys
Unused == -1   \* a row that has not been created yet
Dropped == -2  \* a row that has been deleted

NoRequest == [op |-> "idle", at |-> "none", key |-> NoKey, seen |-> {}, row |-> 0]
Adapter == {"session", "use", "create", "act", "unlink"}
Operations == {"idle", "save", "clear", "begin", "complete", "revoke", "execute"}
Places == Adapter \union
  {"none", "find", "write", "delete", "set", "drop",
   "pending", "connected", "error", "revoked"}

(***************************************************************************)
(* Every variable has its type.                                            *)
(***************************************************************************)
ConnectionsTypeOK ==
  /\ install \in [Installs -> {Unused, Dropped} \union Keys]
  /\ keySecrets \subseteq Keys
  /\ held \in {NoKey} \union Keys
  /\ session \in {NoKey} \union Keys
  /\ tabCall \in [PluginTabs -> [op : Operations, at : Places, key : {NoKey} \union Keys,
                           seen : SUBSET Keys, row : 0..(MaxRows + MaxKeys)]]
  /\ status \in [ConnectionRows -> {"none", "pending", "connected", "error", "revoked"}]
  /\ granting \in [ConnectionRows -> {NoKey} \union Keys]
  /\ linked \subseteq Keys
  /\ savedKeys \in 0..MaxKeys
  /\ troubles \in 0..MaxTroubles

ConnectionsInit ==
  /\ install = [i \in Installs |-> Unused]
  /\ keySecrets = {}
  /\ held = EnvironmentKey
  /\ session = NoKey
  /\ tabCall = [t \in PluginTabs |-> NoRequest]
  /\ status = [r \in ConnectionRows |-> "none"]
  /\ granting = [r \in ConnectionRows |-> NoKey]
  /\ linked = {}
  /\ savedKeys = 0 /\ troubles = 0

CallAt(t, op, at) == tabCall[t].op = op /\ tabCall[t].at = at
GoTo(t, at) == tabCall' = [tabCall EXCEPT ![t].at = at]
Writes(t, to) == tabCall' = [tabCall EXCEPT ![t] = [@ EXCEPT !.at = to, !.key = NoKey, !.seen = {}]]
Ends(t) == tabCall' = [tabCall EXCEPT ![t] = NoRequest]
Opens(t, op, at, row) ==
  /\ tabCall[t] = NoRequest
  /\ tabCall' = [tabCall EXCEPT ![t] = [NoRequest EXCEPT !.op = op, !.at = at, !.row = row]]

KeyRows == UNCHANGED <<install, keySecrets, savedKeys>>
Links == UNCHANGED <<status, granting, linked>>
Connector == UNCHANGED <<held, session>>

-----------------------------------------------------------------------------
(* connections.configureComposio and clearComposio *)

WithKey == {i \in Installs : install[i] \in Keys}
Newest == CHOOSE i \in WithKey : \A j \in WithKey : j <= i

\* savePersistedComposioKey: the secret first, then the row.
PutSecret(t) ==
  /\ savedKeys < MaxKeys
  /\ savedKeys' = savedKeys + 1
  /\ keySecrets' = keySecrets \union {savedKeys + 1}
  /\ tabCall[t] = NoRequest
  /\ tabCall' = [tabCall EXCEPT ![t] = [NoRequest EXCEPT !.op = "save", !.at = "find",
                                                    !.key = savedKeys + 1]]
  /\ Connector /\ Links /\ UNCHANGED <<install, troubles>>
FindInstall(t) ==
  /\ CallAt(t, "save", "find")
  /\ tabCall' = [tabCall EXCEPT
       ![t].at = "write",
       ![t].row = IF WithKey = {} THEN 0 ELSE Newest,
       ![t].seen = IF WithKey = {} THEN {} ELSE {install[Newest]}]
  /\ KeyRows /\ Connector /\ Links /\ UNCHANGED troubles
\* An update of a row that is gone throws, and the new secret stays without one.
WriteInstall(t) ==
  /\ CallAt(t, "save", "write")
  /\ \/ /\ tabCall[t].row = 0
        /\ \E i \in Installs :
             /\ install[i] = Unused /\ \A j \in Installs : j < i => install[j] # Unused
             /\ install' = [install EXCEPT ![i] = tabCall[t].key]
        /\ GoTo(t, "set")
     \/ /\ tabCall[t].row \in WithKey
        /\ install' = [install EXCEPT ![tabCall[t].row] = tabCall[t].key]
        /\ GoTo(t, "delete")
     \/ /\ tabCall[t].row \notin WithKey \union {0}
        /\ UNCHANGED install /\ Ends(t)
  /\ Connector /\ Links /\ UNCHANGED <<keySecrets, savedKeys, troubles>>

\* clearPersistedComposioKey
ReadInstalls(t) ==
  /\ tabCall[t] = NoRequest /\ \E i \in Installs : install[i] # Unused
  /\ tabCall' = [tabCall EXCEPT ![t] = [NoRequest EXCEPT !.op = "clear", !.at = "drop",
       !.key = EnvironmentKey, !.seen = {install[i] : i \in WithKey}]]
  /\ KeyRows /\ Connector /\ Links /\ UNCHANGED troubles
DropInstalls(t) ==
  /\ CallAt(t, "clear", "drop")
  /\ install' = [i \in Installs |-> IF i \in WithKey THEN Dropped ELSE install[i]]
  /\ GoTo(t, IF tabCall[t].seen = {} THEN "set" ELSE "delete")
  /\ Connector /\ Links /\ UNCHANGED <<keySecrets, savedKeys, troubles>>

DeleteSecrets(t) ==
  /\ tabCall[t].at = "delete"
  /\ keySecrets' = keySecrets \ tabCall[t].seen
  /\ tabCall' = [tabCall EXCEPT ![t].at = "set", ![t].seen = {}, ![t].row = 0]
  /\ Connector /\ Links /\ UNCHANGED <<install, savedKeys, troubles>>

\* setApiKey: the client and the sessions go with the key.
SetApiKey(t) ==
  /\ tabCall[t].at = "set"
  /\ held' = tabCall[t].key
  /\ session' = IF held = tabCall[t].key THEN session ELSE NoKey
  /\ Ends(t)
  /\ KeyRows /\ Links /\ UNCHANGED troubles

-----------------------------------------------------------------------------
(* sessionFor: the client is the one of the moment the call began *)

BeginSession(t) ==
  /\ tabCall[t].at = "session" /\ held # NoKey
  /\ tabCall' = [tabCall EXCEPT
       ![t].key = held,
       ![t].seen = IF session = NoKey THEN {} ELSE {session},
       ![t].at = IF session = NoKey THEN "create" ELSE "use"]
  /\ KeyRows /\ Connector /\ Links /\ UNCHANGED troubles
\* Mutant: what the cache holds is taken for a session of this client.
UseUnasked(t) ==
  /\ tabCall[t].at = "use"
  /\ GoTo(t, "act") /\ UNCHANGED session
  /\ KeyRows /\ Links /\ UNCHANGED <<held, troubles>>
\* sessions.use: another project's session, or one that has expired, is not found.
UseSession(t) ==
  /\ tabCall[t].at = "use"
  /\ \/ tabCall[t].seen = {tabCall[t].key} /\ GoTo(t, "act") /\ UNCHANGED session
     \/ session' = NoKey
        /\ tabCall' = [tabCall EXCEPT ![t].at = "create", ![t].seen = {}]
  /\ KeyRows /\ Links /\ UNCHANGED <<held, troubles>>
CreateSession(t) ==
  /\ tabCall[t].at = "create"
  /\ session' = tabCall[t].key
  /\ tabCall' = [tabCall EXCEPT ![t].at = "act", ![t].seen = {tabCall[t].key}]
  /\ KeyRows /\ Links /\ UNCHANGED <<held, troubles>>

-----------------------------------------------------------------------------
(* connections.begin, complete and revoke, the catalog, and a tool call of a bot *)

Connect(t) ==
  /\ held # NoKey
  /\ \E r \in ConnectionRows :
       /\ status[r] = "none" /\ \A p \in ConnectionRows : p < r => status[p] # "none"
       /\ status' = [status EXCEPT ![r] = "pending"]
       /\ Opens(t, "begin", "session", r)
  /\ KeyRows /\ Connector /\ UNCHANGED <<granting, linked, troubles>>
\* authorize gives an address where the user may grant it, or nothing is to be granted.
Authorize(t) ==
  /\ CallAt(t, "begin", "act")
  /\ \/ Writes(t, "pending") /\ granting' = [granting EXCEPT ![tabCall[t].row] = tabCall[t].key]
     \/ Writes(t, "connected") /\ UNCHANGED granting
  /\ KeyRows /\ Connector /\ UNCHANGED <<status, linked, troubles>>
GrantAccess(r) ==
  /\ granting[r] # NoKey
  /\ linked' = linked \union {granting[r]}
  /\ granting' = [granting EXCEPT ![r] = NoKey]
  /\ KeyRows /\ Connector /\ UNCHANGED <<tabCall, status, troubles>>

\* Without a key the row counts as connected at once.
Complete(t) ==
  /\ \E r \in ConnectionRows : /\ status[r] # "none"
                     /\ Opens(t, "complete", IF held = NoKey THEN "connected" ELSE "session", r)
  /\ KeyRows /\ Connector /\ Links /\ UNCHANGED troubles
ConnectionReady(t) ==
  /\ CallAt(t, "complete", "act")
  /\ IF tabCall[t].key \in linked THEN Writes(t, "connected") ELSE Ends(t)
  /\ KeyRows /\ Connector /\ Links /\ UNCHANGED troubles

Revoke(t) ==
  /\ \E r \in ConnectionRows : /\ status[r] = "connected"
                     /\ Opens(t, "revoke", IF held = NoKey THEN "revoked" ELSE "session", r)
  /\ KeyRows /\ Connector /\ Links /\ UNCHANGED troubles
FindAccount(t) ==
  /\ CallAt(t, "revoke", "act")
  /\ IF tabCall[t].key \in linked THEN GoTo(t, "unlink") ELSE Writes(t, "revoked")
  /\ KeyRows /\ Connector /\ Links /\ UNCHANGED troubles
\* The account is deleted with the client of now: another project does not know it.
DeleteAccount(t) ==
  /\ tabCall[t].at = "unlink"
  /\ IF held = tabCall[t].key
     THEN linked' = linked \ {held} /\ Writes(t, "revoked")
     ELSE UNCHANGED linked /\ Ends(t)
  /\ KeyRows /\ Connector /\ UNCHANGED <<status, granting, troubles>>

WriteStatus(t) ==
  /\ tabCall[t].at \in {"pending", "connected", "error", "revoked"}
  /\ status' = [status EXCEPT ![tabCall[t].row] = tabCall[t].at]
  /\ Ends(t)
  /\ KeyRows /\ Connector /\ UNCHANGED <<granting, linked, troubles>>

\* What only needs a session: the catalog's connected apps, and discoverTools and
\* execute of a bot, whose sessions are cached in the same way.
Execute(t) ==
  /\ held # NoKey /\ linked # {} /\ Opens(t, "execute", "session", 0)
  /\ KeyRows /\ Connector /\ Links /\ UNCHANGED troubles
Executed(t) ==
  /\ CallAt(t, "execute", "act") /\ Ends(t)
  /\ KeyRows /\ Connector /\ Links /\ UNCHANGED troubles

-----------------------------------------------------------------------------
\* A new process: createApp loads the newest row's key.
NewProcess ==
  /\ tabCall' = [t \in PluginTabs |-> NoRequest]
  /\ held' = IF WithKey # {} /\ install[Newest] \in keySecrets THEN install[Newest]
             ELSE EnvironmentKey
  /\ session' = NoKey

RestartConnector ==
  /\ troubles < MaxTroubles /\ troubles' = troubles + 1
  /\ NewProcess /\ KeyRows /\ Links

\* A statement or a call throws; begin writes down that its adapter has.
HandlerFails(t) ==
  /\ tabCall[t].op # "idle"
  /\ troubles < MaxTroubles /\ troubles' = troubles + 1
  /\ IF tabCall[t].op = "begin" /\ tabCall[t].at \in Adapter THEN Writes(t, "error") ELSE Ends(t)
  /\ KeyRows /\ Connector /\ Links
\* The key has been cleared since the handler looked for one.
NoClient(t) ==
  /\ tabCall[t].at = "session" /\ held = NoKey
  /\ IF tabCall[t].op = "begin" THEN Writes(t, "error") ELSE Ends(t)
  /\ KeyRows /\ Connector /\ Links /\ UNCHANGED troubles

OverlayStep(t) ==
  \/ PutSecret(t) \/ FindInstall(t) \/ WriteInstall(t)
  \/ ReadInstalls(t) \/ DropInstalls(t) \/ DeleteSecrets(t) \/ SetApiKey(t)
  \/ BeginSession(t) \/ UseSession(t) \/ CreateSession(t) \/ NoClient(t)
  \/ Connect(t) \/ Authorize(t) \/ Complete(t) \/ ConnectionReady(t)
  \/ Revoke(t) \/ FindAccount(t) \/ DeleteAccount(t) \/ WriteStatus(t)
  \/ Execute(t) \/ Executed(t) \/ HandlerFails(t)

ConnectionsNext ==
  \/ \E t \in PluginTabs : OverlayStep(t)
  \/ \E r \in ConnectionRows : GrantAccess(r)
  \/ RestartConnector

ConnectionsSpec == ConnectionsInit /\ [][ConnectionsNext]_connectionVars

-----------------------------------------------------------------------------
(***************************************************************************)
(* However saves and clears of two tabs interleave and wherever one stops, *)
(* a row names a secret that is there: a restart finds the newest key.     *)
(***************************************************************************)
KeyHasSecret == \A i \in WithKey : install[i] \in keySecrets

(***************************************************************************)
(* A call that takes a session out of the cache works with one of its own  *)
(* client's project, even when the key has changed while it waited, or an  *)
(* older call has put its session into the cache after the change.         *)
(***************************************************************************)
OwnSession ==
  \A t \in PluginTabs :
    tabCall[t].at = "act" => tabCall[t].seen = {tabCall[t].key}
=============================================================================
