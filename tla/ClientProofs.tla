--------------------------- MODULE ClientProofs ----------------------------
(***************************************************************************)
(* Proofs about the components of MCClient, for any values of their        *)
(* constants: the thread view that loses no message over a reconnect, the  *)
(* keys of the connected accounts, the screens of the web client and the   *)
(* phone, the desktop application with its Lite runtime, the times of a    *)
(* routine's schedule, and the credentials of models.  Each component has  *)
(* its inductive invariant in a section of its own; the theorems at the    *)
(* end are about the composition.                                          *)
(***************************************************************************)
EXTENDS MCClient, FiniteSetTheorems, WellFoundedInduction, TLAPS

(***************************************************************************)
(* A set of naturals that is not empty has a least member: what is said of *)
(* every prefix of a sequence is proved from it.                           *)
(***************************************************************************)
LEMMA LeastNat ==
  ASSUME NEW T \in SUBSET Nat, T # {}
  PROVE  \E x \in T : \A y \in T : x <= y
<1>1. PICK R : R = OpToRel(<, Nat)
  OBVIOUS
<1>2. \E x \in T : \A y \in T : ~(<<y, x>> \in R)
  <2>1. IsWellFoundedOn(R, Nat)
    BY <1>1, NatLessThanWellFounded
  <2>2. T \subseteq Nat
    OBVIOUS
  <2> QED BY <2>1, <2>2, WFMin
<1>3. OpToRel(<, Nat) = {ss \in Nat \X Nat : ss[1] < ss[2]}
  BY DEF OpToRel
<1>4. R = {ss \in Nat \X Nat : ss[1] < ss[2]}
  BY <1>1, <1>3, Zenon
<1>5. ASSUME NEW x \in Nat, NEW y \in Nat, ~(<<y, x>> \in R) PROVE x <= y
  BY <1>4, <1>5
<1> QED BY <1>2, <1>5


-----------------------------------------------------------------------------
(* Connections: keys of a user, the secrets of their rows, and sessions. *)

RequestRecords ==
  [op : Operations, at : Places, key : {NoKey} \union Keys,
   seen : SUBSET ({NoKey} \union Keys), row : Nat]

RequestTypes ==
  /\ install \in [Installs -> {Unused, Dropped} \union Keys]
  /\ keySecrets \subseteq Keys
  /\ savedKeys \in 0..MaxKeys
  /\ held \in {NoKey} \union Keys
  /\ session \in {NoKey} \union Keys
  /\ tabCall \in [PluginTabs -> RequestRecords]

(***************************************************************************)
(* A handler at one of these places has a key that no row names yet, or    *)
(* keys whose secrets it will delete.                                      *)
(***************************************************************************)
Saving(t) == tabCall[t].at \in {"find", "write"}
Deleting(t) == tabCall[t].at \in {"write", "drop", "delete"}

KeyRowsInv ==
  /\ \A i \in WithKey : install[i] \in keySecrets /\ install[i] <= savedKeys
  /\ \A i, j \in WithKey : install[i] = install[j] => i = j

\* The key that is being saved is in no row, and nobody is about to delete its secret.
SavingInv(t) ==
  /\ tabCall[t].key \in keySecrets /\ tabCall[t].key <= savedKeys
  /\ \A i \in Installs : install[i] # tabCall[t].key
  /\ \A u \in PluginTabs :
       /\ Deleting(u) => tabCall[t].key \notin tabCall[u].seen
       /\ Saving(u) /\ u # t => tabCall[t].key # tabCall[u].key

\* What is about to be deleted is in no row, or in the one that is about to be written.
DeletingInv(t) ==
  /\ \A k \in tabCall[t].seen : k <= savedKeys
  /\ tabCall[t].at = "write" =>
       \A i \in Installs : install[i] \in tabCall[t].seen => i = tabCall[t].row
  /\ tabCall[t].at = "delete" => \A i \in Installs : install[i] \notin tabCall[t].seen

KeysInv ==
  /\ RequestTypes
  /\ KeyRowsInv
  /\ \A t \in PluginTabs : (Saving(t) => SavingInv(t)) /\ (Deleting(t) => DeletingInv(t))
  /\ OwnSession

LEMMA KeyFacts ==
  /\ Unused \notin Keys /\ Dropped \notin Keys /\ NoKey \notin Keys
  /\ Keys \subseteq Nat /\ MaxKeys \in Nat /\ EnvironmentKey \in {NoKey} \union Keys
  /\ Unused \notin {NoKey, Dropped} /\ Dropped # NoKey
BY ConnectionsConstants DEF Unused, Dropped, NoKey, Keys

LEMMA NoRequestType ==
  NoRequest \in RequestRecords /\ NoRequest.at = "none"
BY DEF NoRequest, RequestRecords, Operations, Places, Adapter

\* The newest row is there whenever a row has a key.
LEMMA NewestIs ==
  ASSUME RequestTypes, WithKey # {}
  PROVE  Newest \in WithKey
<1> DEFINE T == {MaxKeys - i : i \in WithKey}
<1>1. T \in SUBSET Nat /\ T # {}
  BY KeyFacts DEF WithKey, Installs
<1>2. PICK x \in T : \A y \in T : x <= y
  BY <1>1, LeastNat
<1>3. PICK i \in WithKey : x = MaxKeys - i
  BY <1>2
<1>4. \A j \in WithKey : j <= i
  <2> TAKE j \in WithKey
  <2>1. MaxKeys - i <= MaxKeys - j
    BY <1>2, <1>3
  <2> QED BY <2>1, KeyFacts DEF WithKey, Installs
<1> QED BY <1>4 DEF Newest

(***************************************************************************)
(* A step of a handler that ends at none of those places, and leaves the   *)
(* rows and the secrets alone.                                             *)
(***************************************************************************)
LEMMA KeysQuiet ==
  ASSUME KeysInv, NEW t \in PluginTabs, KeyRows,
         tabCall' \in [PluginTabs -> RequestRecords],
         \A u \in PluginTabs \ {t} : tabCall'[u] = tabCall[u],
         tabCall'[t].at \notin {"find", "write", "drop", "delete"},
         tabCall'[t].at = "act" => tabCall'[t].seen = {tabCall'[t].key},
         held' \in {NoKey} \union Keys, session' \in {NoKey} \union Keys
  PROVE  KeysInv'
<1> USE DEF KeysInv
<1>1. RequestTypes' /\ KeyRowsInv'
  BY DEF RequestTypes, KeyRowsInv, KeyRows, WithKey
<1>2. ~Saving(t)' /\ ~Deleting(t)'
  BY DEF Saving, Deleting
<1>3. ASSUME NEW u \in PluginTabs \ {t}
      PROVE  /\ Saving(u)' => Saving(u) /\ SavingInv(u)'
             /\ Deleting(u)' => Deleting(u) /\ DeletingInv(u)'
  <2>1. tabCall'[u] = tabCall[u] /\ (Saving(u)' => Saving(u)) /\ (Deleting(u)' => Deleting(u))
    BY <1>3 DEF Saving, Deleting
  <2>2. ASSUME Saving(u) PROVE SavingInv(u)'
    <3>1. \A v \in PluginTabs \ {t} : /\ tabCall'[v] = tabCall[v]
                                      /\ Saving(v)' => Saving(v)
                                      /\ Deleting(v)' => Deleting(v)
      BY DEF Saving, Deleting
    <3> QED BY <1>2, <2>1, <2>2, <3>1 DEF SavingInv, KeyRows
  <2>3. ASSUME Deleting(u) PROVE DeletingInv(u)'
    BY <2>1, <2>3 DEF DeletingInv, KeyRows
  <2> QED BY <2>1, <2>2, <2>3
<1>4. OwnSession'
  BY DEF OwnSession
<1> QED BY <1>1, <1>2, <1>3, <1>4

(***************************************************************************)
(* The steps that save and clear keys.                                     *)
(***************************************************************************)
LEMMA PutKept ==
  ASSUME KeysInv, NEW t \in PluginTabs, PutSecret(t)
  PROVE  KeysInv'
<1> USE DEF KeysInv
<1> DEFINE k == savedKeys + 1
<1>1. /\ savedKeys < MaxKeys /\ savedKeys' = k /\ keySecrets' = keySecrets \union {k}
      /\ tabCall[t] = NoRequest /\ UNCHANGED <<install, held, session>>
  BY DEF PutSecret, Connector
<1>2. k \in Keys /\ k \in Nat /\ savedKeys < k
  BY <1>1, KeyFacts DEF RequestTypes, Keys
<1>3. /\ tabCall' \in [PluginTabs -> RequestRecords]
      /\ \A u \in PluginTabs \ {t} : tabCall'[u] = tabCall[u]
      /\ tabCall'[t].at = "find" /\ tabCall'[t].key = k
  BY <1>2 DEF PutSecret, RequestTypes, NoRequest, RequestRecords, Operations, Places, Adapter
<1> HIDE DEF k
<1>4. RequestTypes' /\ KeyRowsInv'
  <2>1. savedKeys' \in 0..MaxKeys
    BY <1>1, KeyFacts DEF k, RequestTypes
  <2>2. WithKey' = WithKey
    BY <1>1 DEF WithKey
  <2>3. ASSUME NEW i \in WithKey PROVE install[i] <= k /\ install'[i] = install[i]
    <3>1. install[i] \in Nat
      BY KeyFacts DEF WithKey
    <3>2. savedKeys \in Nat
      BY KeyFacts DEF RequestTypes
    <3>3. install[i] <= savedKeys
      BY DEF KeyRowsInv
    <3> QED BY <1>1, <1>2, <3>1, <3>2, <3>3
  <2> QED BY <1>1, <1>2, <1>3, <2>1, <2>2, <2>3 DEF RequestTypes, KeyRowsInv
<1>5. \A i \in Installs : install[i] # k
  BY <1>2, KeyFacts DEF KeyRowsInv, RequestTypes, WithKey
<1>6. \A u \in PluginTabs \ {t} : (Saving(u)' => Saving(u)) /\ (Deleting(u)' => Deleting(u))
  BY <1>3 DEF Saving, Deleting
<1>7. Saving(t)' /\ ~Deleting(t)'
  BY <1>3 DEF Saving, Deleting
<1>8. \A u \in PluginTabs : Deleting(u) => \A j \in tabCall[u].seen : j <= savedKeys /\ j # k
  BY <1>2, KeyFacts DEF DeletingInv, RequestTypes, RequestRecords, NoKey
<1>9. SavingInv(t)'
  <2>1. ASSUME NEW u \in PluginTabs, Saving(u)', u # t PROVE tabCall[u].key # k
    BY <1>2, <1>6, <2>1, KeyFacts DEF SavingInv, RequestTypes, RequestRecords, NoKey
  <2>2. ASSUME NEW u \in PluginTabs, Deleting(u)' PROVE k \notin tabCall'[u].seen
    BY <1>3, <1>6, <1>7, <1>8, <2>2
  <2> QED BY <1>1, <1>2, <1>3, <1>5, <2>1, <2>2 DEF SavingInv
<1>10. ASSUME NEW u \in PluginTabs \ {t}, Saving(u)' PROVE SavingInv(u)'
  <2>1. SavingInv(u) /\ tabCall'[u] = tabCall[u] /\ tabCall[u].key \in Nat
    BY <1>3, <1>6, <1>10, KeyFacts DEF SavingInv, RequestTypes
  <2>2. tabCall[u].key # k /\ tabCall[u].key <= k
    BY <1>2, <2>1, KeyFacts DEF SavingInv, RequestTypes
  <2> QED BY <1>1, <1>3, <1>6, <1>7, <2>1, <2>2 DEF SavingInv
<1>11. ASSUME NEW u \in PluginTabs \ {t}, Deleting(u)' PROVE DeletingInv(u)'
  <2>1. DeletingInv(u) /\ tabCall'[u] = tabCall[u]
    BY <1>3, <1>6, <1>11
  <2>2. \A j \in tabCall[u].seen : j <= k
    BY <1>2, <1>6, <1>8, <1>11, KeyFacts DEF RequestTypes, RequestRecords, NoKey
  <2> QED BY <1>1, <2>1, <2>2 DEF DeletingInv
<1>12. OwnSession'
  BY <1>3 DEF OwnSession
<1> QED BY <1>4, <1>7, <1>9, <1>10, <1>11, <1>12

\* What a step of t has to leave so that the others keep what they rely on.
LEMMA OthersRely ==
  ASSUME KeysInv, NEW t \in PluginTabs, RequestTypes',
         \A u \in PluginTabs \ {t} : tabCall'[u] = tabCall[u],
         savedKeys' = savedKeys, keySecrets' \subseteq keySecrets,
         \A i \in Installs : \/ install'[i] = install[i] \/ install'[i] = Dropped
                             \/ Saving(t) /\ install'[i] = tabCall[t].key,
         \A k \in keySecrets \ keySecrets' : Deleting(t) /\ k \in tabCall[t].seen,
         Deleting(t)' => \A k \in tabCall'[t].seen :
                           \/ \E i \in Installs : install[i] = k
                           \/ Deleting(t) /\ k \in tabCall[t].seen,
         Saving(t)' => Saving(t) /\ tabCall'[t].key = tabCall[t].key,
         NEW u \in PluginTabs \ {t}
  PROVE  /\ Saving(u)' => SavingInv(u)'
         /\ Deleting(u)' => DeletingInv(u)'
<1> USE DEF KeysInv
<1>1. \A v \in PluginTabs \ {t} : (Saving(v)' <=> Saving(v)) /\ (Deleting(v)' <=> Deleting(v))
  BY DEF Saving, Deleting
<1>2. ASSUME Saving(u) PROVE SavingInv(u)'
  <2> DEFINE k == tabCall[u].key
  <2>1. SavingInv(u) /\ tabCall'[u] = tabCall[u] /\ k \in Keys
    BY <1>2 DEF SavingInv, RequestTypes
  <2>2. k \in keySecrets'
    BY <2>1 DEF SavingInv
  <2>3. Saving(t) => tabCall[t].key # k
    BY <2>1 DEF SavingInv
  <2>4. \A i \in Installs : install'[i] # k
    BY <2>1, <2>3, KeyFacts DEF SavingInv
  <2>5. ASSUME NEW v \in PluginTabs
        PROVE  /\ Deleting(v)' => k \notin tabCall'[v].seen
               /\ Saving(v)' /\ v # u => k # tabCall'[v].key
    <3>1. CASE v = t
      BY <2>1, <2>3, <3>1 DEF SavingInv
    <3>2. CASE v # t
      BY <1>1, <2>1, <3>2 DEF SavingInv
    <3> QED BY <3>1, <3>2
  <2> QED BY <2>1, <2>2, <2>4, <2>5 DEF SavingInv
<1>3. ASSUME Deleting(u) PROVE DeletingInv(u)'
  <2>1. DeletingInv(u) /\ tabCall'[u] = tabCall[u]
    BY <1>3
  <2>2. ASSUME NEW i \in Installs, install'[i] \in tabCall[u].seen PROVE install'[i] = install[i]
    <3>1. install'[i] # Dropped
      BY <2>2, KeyFacts DEF RequestTypes, RequestRecords
    <3>2. Saving(t) => tabCall[t].key # install'[i]
      BY <1>3, <2>2 DEF SavingInv
    <3> QED BY <3>1, <3>2
  <2> QED BY <2>1, <2>2 DEF DeletingInv
<1> QED BY <1>1, <1>2, <1>3

LEMMA OwnElsewhere ==
  ASSUME OwnSession, NEW t \in PluginTabs,
         \A u \in PluginTabs \ {t} : tabCall'[u] = tabCall[u], tabCall'[t].at # "act"
  PROVE  OwnSession'
BY DEF OwnSession

LEMMA FindKept ==
  ASSUME KeysInv, NEW t \in PluginTabs, FindInstall(t)
  PROVE  KeysInv'
<1> USE DEF KeysInv
<1>1. /\ UNCHANGED <<install, keySecrets, savedKeys, held, session>>
      /\ tabCall[t].at = "find" /\ Saving(t) /\ ~Deleting(t)
  BY DEF FindInstall, CallAt, KeyRows, Connector, Saving, Deleting
<1>2. PICK own, seen :
        /\ own = IF WithKey = {} THEN 0 ELSE Newest
        /\ seen = IF WithKey = {} THEN {} ELSE {install[Newest]}
  OBVIOUS
<1>3. /\ own \in Nat /\ seen \subseteq Keys
      /\ \A i \in Installs : install[i] \in seen => i = own
      /\ \A k \in seen : \E i \in WithKey : install[i] = k
  <2>1. CASE WithKey = {}
    BY <1>2, <2>1
  <2>2. CASE WithKey # {}
    <3>1. Newest \in WithKey /\ own = Newest /\ seen = {install[Newest]}
      BY <1>2, <2>2, NewestIs
    <3>2. own \in Installs /\ own \in Nat /\ install[own] \in Keys
      BY <3>1, KeyFacts DEF WithKey, Installs
    <3>3. \A i \in Installs : install[i] = install[own] => i = own
      BY <3>1, <3>2 DEF KeyRowsInv, WithKey
    <3> QED BY <3>1, <3>2, <3>3
  <2> QED BY <2>1, <2>2
<1>4. /\ tabCall' \in [PluginTabs -> RequestRecords]
      /\ \A u \in PluginTabs \ {t} : tabCall'[u] = tabCall[u]
      /\ tabCall'[t].at = "write" /\ tabCall'[t].key = tabCall[t].key
      /\ tabCall'[t].row = own /\ tabCall'[t].seen = seen
  <2>1. tabCall' = [tabCall EXCEPT ![t].at = "write", ![t].row = own, ![t].seen = seen]
    BY <1>2 DEF FindInstall
  <2>2. PICK c : c = [tabCall[t] EXCEPT !.at = "write", !.row = own, !.seen = seen]
    OBVIOUS
  <2>3. tabCall[t] \in RequestRecords
    BY DEF RequestTypes
  <2>4. "write" \in Places
    BY DEF Places
  <2>5. /\ c \in RequestRecords
        /\ c.at = "write" /\ c.key = tabCall[t].key /\ c.row = own /\ c.seen = seen
    BY <1>3, <2>2, <2>3, <2>4 DEF RequestRecords
  <2>6. tabCall' = [tabCall EXCEPT ![t] = c]
    BY <2>1, <2>2
  <2> QED BY <2>5, <2>6 DEF RequestTypes
<1>5. RequestTypes' /\ KeyRowsInv'
  BY <1>1, <1>4 DEF RequestTypes, KeyRowsInv, WithKey
<1>6. Saving(t)' /\ Deleting(t)'
  BY <1>4 DEF Saving, Deleting
<1>7. ASSUME NEW u \in PluginTabs \ {t}
      PROVE (Saving(u)' => SavingInv(u)') /\ (Deleting(u)' => DeletingInv(u)')
  BY <1>1, <1>3, <1>4, <1>5, <1>7, OthersRely DEF WithKey
<1>8. SavingInv(t)'
  <2>1. SavingInv(t)
    BY <1>1
  <2>2. tabCall[t].key \notin seen
    BY <1>3, <2>1 DEF SavingInv, WithKey
  <2>3. \A u \in PluginTabs \ {t} : (Saving(u)' <=> Saving(u)) /\ (Deleting(u)' <=> Deleting(u))
    BY <1>4 DEF Saving, Deleting
  <2> QED BY <1>1, <1>4, <2>1, <2>2, <2>3 DEF SavingInv
<1>9. DeletingInv(t)'
  <2>1. \A k \in seen : k <= savedKeys
    BY <1>3 DEF KeyRowsInv
  <2> QED BY <1>1, <1>3, <1>4, <2>1 DEF DeletingInv
<1> QED BY <1>4, <1>5, <1>7, <1>8, <1>9, OwnElsewhere

LEMMA WriteKept ==
  ASSUME KeysInv, NEW t \in PluginTabs, WriteInstall(t)
  PROVE  KeysInv'
<1> USE DEF KeysInv
<1>1. /\ UNCHANGED <<keySecrets, savedKeys, held, session>>
      /\ tabCall[t].at = "write" /\ Saving(t) /\ Deleting(t)
  BY DEF WriteInstall, CallAt, Connector, Saving, Deleting
<1> DEFINE k == tabCall[t].key
<1>2. k \in keySecrets /\ k \in Keys /\ k <= savedKeys /\ SavingInv(t) /\ DeletingInv(t)
  BY <1>1 DEF SavingInv, RequestTypes
<1>3. ASSUME NEW i \in Installs, install' = [install EXCEPT ![i] = k],
             NEW to \in {"set", "delete"}, GoTo(t, to),
             to = "delete" => i = tabCall[t].row
      PROVE  KeysInv'
  <2>1. /\ tabCall' \in [PluginTabs -> RequestRecords]
        /\ \A u \in PluginTabs \ {t} : tabCall'[u] = tabCall[u]
        /\ tabCall'[t].at = to /\ tabCall'[t].key = tabCall[t].key
        /\ tabCall'[t].seen = tabCall[t].seen
    BY <1>3 DEF GoTo, RequestTypes, RequestRecords, Places
  <2>2. /\ install' \in [Installs -> {Unused, Dropped} \union Keys]
        /\ install'[i] = k /\ \A j \in Installs \ {i} : install'[j] = install[j]
    BY <1>2, <1>3 DEF RequestTypes
  <2>3. RequestTypes'
    BY <1>1, <2>1, <2>2 DEF RequestTypes
  <2>4. KeyRowsInv'
    <3>1. \A j \in Installs : install[j] # k
      BY <1>2 DEF SavingInv
    <3> QED BY <1>1, <1>2, <2>2, <3>1 DEF KeyRowsInv, WithKey
  <2>5. ~Saving(t)'
    BY <2>1 DEF Saving
  <2>6. ASSUME NEW u \in PluginTabs \ {t}
        PROVE (Saving(u)' => SavingInv(u)') /\ (Deleting(u)' => DeletingInv(u)')
    <3>1. \A j \in Installs : install'[j] = install[j] \/ (Saving(t) /\ install'[j] = tabCall[t].key)
      <4> TAKE j \in Installs
      <4>1. CASE j = i
        BY <1>1, <2>2, <4>1
      <4>2. CASE j # i
        BY <2>2, <4>2
      <4> QED BY <4>1, <4>2
    <3> QED BY <1>1, <2>1, <2>3, <2>5, <2>6, <3>1, OthersRely
  <2>7. Deleting(t)' => DeletingInv(t)'
    <3> SUFFICES ASSUME Deleting(t)' PROVE DeletingInv(t)'
      OBVIOUS
    <3>1. to = "delete" /\ i = tabCall[t].row
      BY <1>3, <2>1 DEF Deleting
    <3>2. k \notin tabCall[t].seen
      BY <1>1, <1>2 DEF SavingInv
    <3>3. \A j \in Installs : install'[j] \notin tabCall[t].seen
      BY <1>1, <1>2, <2>2, <3>1, <3>2 DEF DeletingInv
    <3> QED BY <1>1, <1>2, <2>1, <3>1, <3>3 DEF DeletingInv
  <2>8. tabCall'[t].at # "act"
    BY <2>1
  <2> QED BY <2>1, <2>3, <2>4, <2>5, <2>6, <2>7, <2>8, OwnElsewhere
<1>4. CASE UNCHANGED install /\ Ends(t)
  <2>1. /\ tabCall' \in [PluginTabs -> RequestRecords]
        /\ \A u \in PluginTabs \ {t} : tabCall'[u] = tabCall[u]
        /\ tabCall'[t].at = "none"
    BY <1>4, NoRequestType DEF Ends, RequestTypes
  <2> QED BY <1>1, <1>4, <2>1, KeysQuiet DEF KeyRows, RequestTypes
<1>5. ASSUME tabCall[t].row = 0,
             NEW i \in Installs, install' = [install EXCEPT ![i] = tabCall[t].key], GoTo(t, "set")
      PROVE  KeysInv'
  BY <1>3, <1>5
<1>6. ASSUME tabCall[t].row \in WithKey, GoTo(t, "delete"),
             install' = [install EXCEPT ![tabCall[t].row] = tabCall[t].key]
      PROVE  KeysInv'
  BY <1>3, <1>6 DEF WithKey
<1> QED BY <1>4, <1>5, <1>6 DEF WriteInstall

LEMMA ReadKept ==
  ASSUME KeysInv, NEW t \in PluginTabs, ReadInstalls(t)
  PROVE  KeysInv'
<1> USE DEF KeysInv
<1>1. /\ UNCHANGED <<install, keySecrets, savedKeys, held, session>>
      /\ tabCall[t] = NoRequest
  BY DEF ReadInstalls, KeyRows, Connector
<1>2. PICK seen : seen = {install[i] : i \in WithKey}
  OBVIOUS
<1>3. seen \subseteq Keys /\ \A k \in seen : \E i \in WithKey : install[i] = k
  BY <1>2 DEF WithKey
<1>4. /\ tabCall' \in [PluginTabs -> RequestRecords]
      /\ \A u \in PluginTabs \ {t} : tabCall'[u] = tabCall[u]
      /\ tabCall'[t].at = "drop" /\ tabCall'[t].seen = seen
  <2>1. PICK c : c = [NoRequest EXCEPT !.op = "clear", !.at = "drop", !.key = EnvironmentKey,
                                        !.seen = seen]
    OBVIOUS
  <2>2. c \in RequestRecords /\ c.at = "drop" /\ c.seen = seen
    BY <1>3, <2>1, KeyFacts DEF NoRequest, RequestRecords, Operations, Places
  <2>3. tabCall' = [tabCall EXCEPT ![t] = c]
    BY <1>2, <2>1 DEF ReadInstalls
  <2> QED BY <2>2, <2>3 DEF RequestTypes
<1>5. RequestTypes' /\ KeyRowsInv'
  BY <1>1, <1>4 DEF RequestTypes, KeyRowsInv, WithKey
<1>6. ~Saving(t)' /\ Deleting(t)'
  BY <1>4 DEF Saving, Deleting
<1>7. ASSUME NEW u \in PluginTabs \ {t}
      PROVE (Saving(u)' => SavingInv(u)') /\ (Deleting(u)' => DeletingInv(u)')
  BY <1>1, <1>3, <1>4, <1>5, <1>6, <1>7, OthersRely DEF WithKey
<1>8. DeletingInv(t)'
  <2>1. \A k \in seen : k <= savedKeys
    BY <1>3 DEF KeyRowsInv
  <2> QED BY <1>1, <1>4, <2>1 DEF DeletingInv
<1> QED BY <1>4, <1>5, <1>6, <1>7, <1>8, OwnElsewhere

LEMMA DropKept ==
  ASSUME KeysInv, NEW t \in PluginTabs, DropInstalls(t)
  PROVE  KeysInv'
<1> USE DEF KeysInv
<1>1. /\ UNCHANGED <<keySecrets, savedKeys, held, session>>
      /\ tabCall[t].at = "drop" /\ Deleting(t)
  BY DEF DropInstalls, CallAt, Connector, Deleting
<1>2. PICK to \in {"set", "delete"} : GoTo(t, to)
  BY DEF DropInstalls
<1>3. /\ tabCall' \in [PluginTabs -> RequestRecords]
      /\ \A u \in PluginTabs \ {t} : tabCall'[u] = tabCall[u]
      /\ tabCall'[t].at = to /\ tabCall'[t].seen = tabCall[t].seen
  BY <1>2 DEF GoTo, RequestTypes, RequestRecords, Places
<1>4. /\ install' \in [Installs -> {Unused, Dropped} \union Keys]
      /\ \A i \in Installs : install'[i] \notin {NoKey} \union Keys
      /\ \A i \in Installs : install'[i] = install[i] \/ install'[i] = Dropped
  BY KeyFacts DEF DropInstalls, RequestTypes, WithKey
<1>5. RequestTypes' /\ KeyRowsInv'
  BY <1>1, <1>3, <1>4 DEF RequestTypes, KeyRowsInv, WithKey
<1>6. ~Saving(t)'
  BY <1>3 DEF Saving
<1>7. ASSUME NEW u \in PluginTabs \ {t}
      PROVE (Saving(u)' => SavingInv(u)') /\ (Deleting(u)' => DeletingInv(u)')
  BY <1>1, <1>3, <1>4, <1>5, <1>6, <1>7, OthersRely
<1>8. DeletingInv(t)'
  <2>1. tabCall[t].seen \subseteq {NoKey} \union Keys
    BY DEF RequestTypes, RequestRecords
  <2> QED BY <1>1, <1>3, <1>4, <2>1 DEF DeletingInv
<1>9. tabCall'[t].at # "act"
  BY <1>3
<1> QED BY <1>3, <1>5, <1>6, <1>7, <1>8, <1>9, OwnElsewhere

LEMMA DeleteKept ==
  ASSUME KeysInv, NEW t \in PluginTabs, DeleteSecrets(t)
  PROVE  KeysInv'
<1> USE DEF KeysInv
<1>1. /\ UNCHANGED <<install, savedKeys, held, session>>
      /\ keySecrets' = keySecrets \ tabCall[t].seen
      /\ tabCall[t].at = "delete" /\ Deleting(t) /\ DeletingInv(t)
  BY DEF DeleteSecrets, Connector, Deleting
<1>2. /\ tabCall' \in [PluginTabs -> RequestRecords]
      /\ \A u \in PluginTabs \ {t} : tabCall'[u] = tabCall[u]
      /\ tabCall'[t].at = "set"
  <2>1. PICK c : c = [tabCall[t] EXCEPT !.at = "set", !.seen = {}, !.row = 0]
    OBVIOUS
  <2>2. c \in RequestRecords /\ c.at = "set"
    BY <2>1 DEF RequestTypes, RequestRecords, Places
  <2>3. tabCall' = [tabCall EXCEPT ![t] = c]
    BY <2>1 DEF DeleteSecrets
  <2> QED BY <2>2, <2>3 DEF RequestTypes
<1>3. RequestTypes' /\ KeyRowsInv'
  <2>1. \A i \in WithKey : install[i] \notin tabCall[t].seen
    BY <1>1 DEF DeletingInv, WithKey
  <2> QED BY <1>1, <1>2, <2>1 DEF RequestTypes, KeyRowsInv, WithKey
<1>4. ~Saving(t)' /\ ~Deleting(t)'
  BY <1>2 DEF Saving, Deleting
<1>5. ASSUME NEW u \in PluginTabs \ {t}
      PROVE (Saving(u)' => SavingInv(u)') /\ (Deleting(u)' => DeletingInv(u)')
  BY <1>1, <1>2, <1>3, <1>4, <1>5, OthersRely
<1>6. tabCall'[t].at # "act"
  BY <1>2
<1> QED BY <1>2, <1>3, <1>4, <1>5, <1>6, OwnElsewhere

(***************************************************************************)
(* The other steps of the handlers.                                        *)
(***************************************************************************)
LEMMA HandlersKept ==
  ASSUME KeysInv, NEW t \in PluginTabs,
         OverlayStep(t), ~PutSecret(t), ~FindInstall(t), ~WriteInstall(t), ~ReadInstalls(t),
         ~DropInstalls(t), ~DeleteSecrets(t)
  PROVE  KeysInv'
<1>1. KeyRows
  BY DEF OverlayStep, SetApiKey, BeginSession, UseSession, CreateSession, NoClient, Connect,
         Authorize, Complete, ConnectionReady, Revoke, FindAccount, DeleteAccount,
         WriteStatus, Execute, Executed, HandlerFails
<1>2. tabCall \in [PluginTabs -> RequestRecords] /\ tabCall[t] \in RequestRecords
      /\ held \in {NoKey} \union Keys /\ session \in {NoKey} \union Keys
  BY DEF KeysInv, RequestTypes
<1> DEFINE Calm(c) ==
      /\ c \in RequestRecords /\ tabCall' = [tabCall EXCEPT ![t] = c]
      /\ c.at \notin {"find", "write", "drop", "delete"}
      /\ c.at = "act" => c.seen = {c.key}
<1>3. ASSUME NEW c, Calm(c), held' \in {NoKey} \union Keys, session' \in {NoKey} \union Keys
      PROVE  KeysInv'
  <2>1. /\ tabCall' \in [PluginTabs -> RequestRecords]
        /\ \A u \in PluginTabs \ {t} : tabCall'[u] = tabCall[u]
        /\ tabCall'[t] = c
    BY <1>2, <1>3
  <2> QED BY <1>1, <1>3, <2>1, KeysQuiet
<1>4. ASSUME Ends(t) PROVE Calm(NoRequest)
  BY <1>4, NoRequestType DEF Ends
<1>5. ASSUME NEW to \in {"pending", "connected", "error", "revoked"}, Writes(t, to)
      PROVE  \E c : Calm(c)
  <2>1. PICK c : c = [tabCall[t] EXCEPT !.at = to, !.key = NoKey, !.seen = {}]
    OBVIOUS
  <2>2. c \in RequestRecords /\ c.at = to
    BY <1>2, <2>1 DEF RequestRecords, Places
  <2>3. tabCall' = [tabCall EXCEPT ![t] = c]
    BY <1>5, <2>1 DEF Writes
  <2> QED BY <2>2, <2>3
<1>6. ASSUME NEW o \in Operations, NEW to \in {"session", "connected", "revoked"},
             NEW own \in Nat, Opens(t, o, to, own)
      PROVE  \E c : Calm(c)
  <2>1. PICK c : c = [NoRequest EXCEPT !.op = o, !.at = to, !.row = own]
    OBVIOUS
  <2>2. c \in RequestRecords /\ c.at = to
    BY <2>1 DEF NoRequest, RequestRecords, Places, Adapter
  <2>3. tabCall' = [tabCall EXCEPT ![t] = c]
    BY <1>6, <2>1 DEF Opens
  <2> QED BY <2>2, <2>3
<1>7. ASSUME NEW to \in {"act", "unlink"}, GoTo(t, to), to = "act" => tabCall[t].seen = {tabCall[t].key}
      PROVE  \E c : Calm(c)
  <2>1. PICK c : c = [tabCall[t] EXCEPT !.at = to]
    OBVIOUS
  <2>2. c \in RequestRecords /\ c.at = to /\ c.seen = tabCall[t].seen /\ c.key = tabCall[t].key
    BY <1>2, <2>1 DEF RequestRecords, Places, Adapter
  <2>3. tabCall' = [tabCall EXCEPT ![t] = c]
    BY <1>7, <2>1 DEF GoTo
  <2> QED BY <1>7, <2>2, <2>3
<1>8. ASSUME NEW key \in {NoKey} \union Keys, NEW to \in {"use", "create", "act"},
             NEW seen \in SUBSET ({NoKey} \union Keys), to = "act" => seen = {key},
             tabCall' = [tabCall EXCEPT ![t].key = key, ![t].seen = seen, ![t].at = to]
      PROVE  \E c : Calm(c)
  <2>1. PICK c : c = [tabCall[t] EXCEPT !.key = key, !.seen = seen, !.at = to]
    OBVIOUS
  <2>2. c \in RequestRecords /\ c.at = to /\ c.seen = seen /\ c.key = key
    BY <1>2, <2>1 DEF RequestRecords, Places, Adapter
  <2>3. tabCall' = [tabCall EXCEPT ![t] = c]
    BY <1>8, <2>1
  <2> QED BY <1>8, <2>2, <2>3
<1> HIDE DEF Calm
<1>9. ASSUME NEW seen \in SUBSET ({NoKey} \union Keys), NEW to \in {"create", "act"},
             to = "act" => seen = {tabCall[t].key},
             tabCall' = [tabCall EXCEPT ![t].at = to, ![t].seen = seen]
      PROVE  \E c : Calm(c)
  <2>1. PICK c : c = [tabCall[t] EXCEPT !.at = to, !.seen = seen]
    OBVIOUS
  <2>2. c \in RequestRecords /\ c.at = to /\ c.seen = seen /\ c.key = tabCall[t].key
    BY <1>2, <2>1 DEF RequestRecords, Places, Adapter
  <2>3. tabCall' = [tabCall EXCEPT ![t] = c]
    BY <1>9, <2>1
  <2> QED BY <1>9, <2>2, <2>3 DEF Calm
<1>10. CASE SetApiKey(t)
  <2>1. held' \in {NoKey} \union Keys /\ session' \in {NoKey} \union Keys
    BY <1>2, <1>10 DEF SetApiKey, RequestRecords
  <2> QED BY <1>3, <1>4, <1>10, <2>1 DEF SetApiKey
<1>11. CASE BeginSession(t)
  <2> DEFINE seen == IF session = NoKey THEN {} ELSE {session}
  <2>1. seen \in SUBSET ({NoKey} \union Keys)
    BY <1>2
  <2>2. tabCall' = [tabCall EXCEPT ![t].key = held, ![t].seen = seen,
                                   ![t].at = IF session = NoKey THEN "create" ELSE "use"]
    BY <1>11 DEF BeginSession
  <2>3. PICK to \in {"use", "create"} : to = IF session = NoKey THEN "create" ELSE "use"
    OBVIOUS
  <2> HIDE DEF seen
  <2>4. \E c : Calm(c)
    BY <1>2, <1>8, <2>1, <2>2, <2>3
  <2> QED BY <1>2, <1>3, <1>11, <2>4 DEF BeginSession, Connector
<1>12. CASE UseSession(t)
  <2>1. session' \in {NoKey} \union Keys /\ held' = held
    BY <1>2, <1>12 DEF UseSession
  <2>2. \E c : Calm(c)
    BY <1>7, <1>9, <1>12 DEF UseSession
  <2> QED BY <1>2, <1>3, <2>1, <2>2
<1>13. CASE CreateSession(t)
  <2>1. session' \in {NoKey} \union Keys /\ held' = held
    BY <1>2, <1>13 DEF CreateSession, RequestRecords
  <2>2. \E c : Calm(c)
    <3>1. {tabCall[t].key} \in SUBSET ({NoKey} \union Keys)
      BY <1>2 DEF RequestRecords
    <3> QED BY <1>9, <1>13, <3>1 DEF CreateSession
  <2> QED BY <1>2, <1>3, <2>1, <2>2
<1>14. CASE NoClient(t)
  <2>1. \E c : Calm(c)
    BY <1>4, <1>5, <1>14 DEF NoClient
  <2> QED BY <1>2, <1>3, <1>14, <2>1 DEF NoClient, Connector
<1>15. CASE Connect(t) \/ Complete(t) \/ Revoke(t) \/ Execute(t)
  <2>1. \E c : Calm(c)
    <3>1. \A r \in ConnectionRows : r \in Nat
      BY ConnectionsConstants DEF ConnectionRows
    <3> QED BY <1>6, <1>15, <3>1 DEF Connect, Complete, Revoke, Execute, Operations
  <2> QED BY <1>2, <1>3, <1>15, <2>1 DEF Connect, Complete, Revoke, Execute, Connector
<1>16. CASE Authorize(t) \/ ConnectionReady(t) \/ FindAccount(t) \/ DeleteAccount(t)
            \/ WriteStatus(t) \/ Executed(t) \/ HandlerFails(t)
  <2>1. \E c : Calm(c)
    BY <1>4, <1>5, <1>7, <1>16
    DEF Authorize, ConnectionReady, FindAccount, DeleteAccount, WriteStatus, Executed,
        HandlerFails
  <2> QED BY <1>2, <1>3, <1>16, <2>1
      DEF Authorize, ConnectionReady, FindAccount, DeleteAccount, WriteStatus, Executed,
          HandlerFails, Connector
<1> QED BY <1>10, <1>11, <1>12, <1>13, <1>14, <1>15, <1>16 DEF OverlayStep

(***************************************************************************)
(* Rows of keys and sessions, for any tabs and any key of the process.     *)
(***************************************************************************)
LEMMA ConnectionsKept == KeysInv /\ [ConnectionsNext]_connectionVars => KeysInv'
<1> SUFFICES ASSUME KeysInv, [ConnectionsNext]_connectionVars PROVE KeysInv'
  OBVIOUS
<1>1. ASSUME NEW t \in PluginTabs, OverlayStep(t) PROVE KeysInv'
  BY <1>1, PutKept, FindKept, WriteKept, ReadKept, DropKept, DeleteKept, HandlersKept
<1>2. ASSUME UNCHANGED <<install, keySecrets, savedKeys, held, session, tabCall>>
      PROVE  KeysInv'
  BY <1>2 DEF KeysInv, RequestTypes, KeyRowsInv, WithKey, Saving, Deleting, SavingInv,
              DeletingInv, OwnSession
<1>3. ASSUME NEW r \in ConnectionRows, GrantAccess(r) PROVE KeysInv'
  BY <1>2, <1>3 DEF GrantAccess, KeyRows, Connector
<1>4. CASE RestartConnector
  <2>1. /\ UNCHANGED <<install, keySecrets, savedKeys>>
        /\ tabCall' = [t \in PluginTabs |-> NoRequest] /\ session' = NoKey
        /\ held' = IF WithKey # {} /\ install[Newest] \in keySecrets THEN install[Newest]
                   ELSE EnvironmentKey
    BY <1>4 DEF RestartConnector, NewProcess, KeyRows
  <2>2. held' \in {NoKey} \union Keys
    BY <2>1, KeyFacts DEF KeysInv, RequestTypes
  <2>3. \A t \in PluginTabs : tabCall'[t].at = "none"
    BY <2>1, NoRequestType
  <2>4. RequestTypes' /\ KeyRowsInv'
    BY <2>1, <2>2, NoRequestType DEF KeysInv, RequestTypes, KeyRowsInv, WithKey
  <2> QED BY <2>3, <2>4 DEF KeysInv, Saving, Deleting, OwnSession
<1>5. CASE UNCHANGED connectionVars
  BY <1>2, <1>5 DEF connectionVars
<1> QED BY <1>1, <1>3, <1>4, <1>5 DEF ConnectionsNext

LEMMA ConnectionsStart == ConnectionsInit => KeysInv
<1> SUFFICES ASSUME ConnectionsInit PROVE KeysInv
  OBVIOUS
<1>1. RequestTypes
  BY KeyFacts, NoRequestType DEF ConnectionsInit, RequestTypes
<1>2. WithKey = {} /\ \A t \in PluginTabs : tabCall[t].at = "none"
  BY KeyFacts, NoRequestType DEF ConnectionsInit, WithKey
<1> QED BY <1>1, <1>2 DEF KeysInv, KeyRowsInv, Saving, Deleting, OwnSession

LEMMA ConnectionsSayAll == KeysInv => ConnectionsAreOwn
BY DEF KeysInv, KeyRowsInv, KeyHasSecret, ConnectionsAreOwn

-----------------------------------------------------------------------------
(* What a client shows: the entries of its view, and what it has yet to get. *)

Entries == [id : Nat, seq : Nat]
ApartIds(s) == \A i, j \in 1..Len(s) : s[i].id = s[j].id => i = j

(***************************************************************************)
(* The first n entries, without those in out.                              *)
(***************************************************************************)
KeptOf(s, out, n, f) ==
  f = [k \in 0..n |-> IF k = 0 THEN <<>>
                      ELSE IF s[k] \in out THEN f[k - 1] ELSE Append(f[k - 1], s[k])]

LEMMA KeptExist ==
  ASSUME NEW s, NEW out, NEW n \in Nat
  PROVE  \E f : KeptOf(s, out, n, f)
<1> DEFINE T == {k \in Nat : ~\E f : KeptOf(s, out, k, f)}
<1>1. SUFFICES ASSUME T # {} PROVE FALSE
  OBVIOUS
<1>2. PICK k \in T : \A j \in T : k <= j
  BY <1>1, LeastNat
<1>3. CASE k = 0
  <2>1. KeptOf(s, out, 0, [j \in 0..0 |-> <<>>])
    BY DEF KeptOf
  <2> QED BY <1>3, <2>1
<1>4. CASE k # 0
  <2>1. k - 1 \in Nat /\ k - 1 \notin T
    BY <1>2, <1>4
  <2>2. PICK f : KeptOf(s, out, k - 1, f)
    BY <2>1
  <2> DEFINE Next1(before, j) == IF s[j] \in out THEN before ELSE Append(before, s[j])
             g == [j \in 0..k |-> IF j = k THEN Next1(f[k - 1], k) ELSE f[j]]
  <2>3. \A j \in 0..(k - 1) : f[j] = IF j = 0 THEN <<>> ELSE Next1(f[j - 1], j)
    BY <2>2 DEF KeptOf
  <2> HIDE DEF Next1
  <2>4. \A j \in 0..k : g[j] = IF j = 0 THEN <<>> ELSE Next1(g[j - 1], j)
    <3> TAKE j \in 0..k
    <3>1. CASE j = k
      BY <1>4, <2>1, <3>1
    <3>2. CASE j # k
      <4>1. j \in 0..(k - 1) /\ g[j] = f[j]
        BY <2>1, <3>2
      <4>2. j # 0 => j - 1 \in 0..k /\ g[j - 1] = f[j - 1]
        BY <2>1, <3>2
      <4> QED BY <2>3, <4>1, <4>2
    <3> QED BY <3>1, <3>2
  <2>5. KeptOf(s, out, k, g)
    <3>1. g = [j \in 0..k |-> IF j = 0 THEN <<>> ELSE Next1(g[j - 1], j)]
      BY <2>4
    <3> QED BY <3>1 DEF KeptOf, Next1
  <2> QED BY <1>2, <2>5
<1> QED BY <1>3, <1>4

LEMMA WithoutIs ==
  ASSUME NEW s, Len(s) \in Nat, NEW out
  PROVE  \E f : KeptOf(s, out, Len(s), f) /\ Without(s, out) = f[Len(s)]
<1> DEFINE kept == CHOOSE f : KeptOf(s, out, Len(s), f)
<1>1. KeptOf(s, out, Len(s), kept)
  BY KeptExist
<1>2. Without(s, out) = kept[Len(s)]
  BY Zenon DEF Without, KeptOf
<1> QED BY <1>1, <1>2

(***************************************************************************)
(* What Without keeps: the other entries, and each as often as before.     *)
(***************************************************************************)
KeepsSome(s, out, n, kept) ==
  /\ kept \in Seq(Entries)
  /\ \A i \in 1..Len(kept) : \E j \in 1..n : s[j] = kept[i] /\ s[j] \notin out
  /\ \A j \in 1..n : s[j] \notin out => \E i \in 1..Len(kept) : kept[i] = s[j]
  /\ ApartIds(s) => ApartIds(kept)

LEMMA KeptStep ==
  ASSUME NEW s \in Seq(Entries), NEW out, NEW n \in Nat, n < Len(s), NEW kept,
         KeepsSome(s, out, n, kept)
  PROVE  KeepsSome(s, out, n + 1, IF s[n + 1] \in out THEN kept ELSE Append(kept, s[n + 1]))
<1>1. n + 1 \in 1..Len(s) /\ s[n + 1] \in Entries
  OBVIOUS
<1>2. CASE s[n + 1] \in out
  <2>1. \A j \in 1..(n + 1) : j \in 1..n \/ j = n + 1
    OBVIOUS
  <2>2. \A j \in 1..n : j \in 1..(n + 1)
    OBVIOUS
  <2> QED BY <1>2, <2>1, <2>2 DEF KeepsSome
<1>3. CASE s[n + 1] \notin out
  <2> DEFINE more == Append(kept, s[n + 1])
  <2>1. /\ more \in Seq(Entries) /\ Len(more) = Len(kept) + 1 /\ Len(kept) \in Nat
        /\ \A i \in 1..Len(kept) : more[i] = kept[i]
        /\ more[Len(kept) + 1] = s[n + 1]
    BY <1>1 DEF KeepsSome
  <2> HIDE DEF more
  <2>2. \A i \in 1..Len(more) : \E j \in 1..(n + 1) : s[j] = more[i] /\ s[j] \notin out
    <3> TAKE i \in 1..Len(more)
    <3>1. CASE i = Len(kept) + 1
      BY <1>1, <1>3, <2>1, <3>1
    <3>2. CASE i # Len(kept) + 1
      <4>1. i \in 1..Len(kept)
        BY <2>1, <3>2
      <4>2. PICK j \in 1..n : s[j] = kept[i] /\ s[j] \notin out
        BY <4>1 DEF KeepsSome
      <4>3. j \in 1..(n + 1)
        OBVIOUS
      <4> QED BY <2>1, <4>1, <4>2, <4>3
    <3> QED BY <3>1, <3>2
  <2>3. \A j \in 1..(n + 1) : s[j] \notin out => \E i \in 1..Len(more) : more[i] = s[j]
    <3> SUFFICES ASSUME NEW j \in 1..(n + 1), s[j] \notin out
                 PROVE  \E i \in 1..Len(more) : more[i] = s[j]
      OBVIOUS
    <3>1. CASE j = n + 1
      <4>1. Len(kept) + 1 \in 1..Len(more)
        BY <2>1
      <4> QED BY <2>1, <3>1, <4>1
    <3>2. CASE j # n + 1
      <4>1. j \in 1..n
        BY <3>2
      <4>2. PICK i \in 1..Len(kept) : kept[i] = s[j]
        BY <4>1 DEF KeepsSome
      <4>3. i \in 1..Len(more)
        BY <2>1
      <4> QED BY <2>1, <4>2, <4>3
    <3> QED BY <3>1, <3>2
  <2>4. ASSUME ApartIds(s) PROVE ApartIds(more)
    <3>1. ASSUME NEW i \in 1..Len(kept) PROVE kept[i].id # s[n + 1].id
      <4>1. PICK j \in 1..n : s[j] = kept[i]
        BY DEF KeepsSome
      <4>2. j \in 1..Len(s) /\ j # n + 1
        BY <1>1
      <4> QED BY <1>1, <2>4, <4>1, <4>2 DEF ApartIds
    <3>2. ApartIds(kept)
      BY <2>4 DEF KeepsSome
    <3> QED BY <2>1, <3>1, <3>2 DEF ApartIds
  <2>5. KeepsSome(s, out, n + 1, more)
    BY <2>1, <2>2, <2>3, <2>4 DEF KeepsSome
  <2> QED BY <1>3, <2>5 DEF more
<1> QED BY <1>2, <1>3

LEMMA WithoutKeeps ==
  ASSUME NEW s \in Seq(Entries), NEW out
  PROVE  KeepsSome(s, out, Len(s), Without(s, out))
<1>1. PICK f : KeptOf(s, out, Len(s), f) /\ Without(s, out) = f[Len(s)]
  BY WithoutIs
<1>2. f[0] = <<>>
  BY <1>1 DEF KeptOf
<1>3. ASSUME NEW n \in 1..Len(s)
      PROVE  f[n] = IF s[n] \in out THEN f[n - 1] ELSE Append(f[n - 1], s[n])
  <2>1. n \in 0..Len(s) /\ n # 0
    OBVIOUS
  <2> QED BY <1>1, <2>1, Zenon DEF KeptOf
<1> DEFINE T == {n \in 0..Len(s) : ~KeepsSome(s, out, n, f[n])}
<1>4. T = {}
  <2> SUFFICES ASSUME T # {} PROVE FALSE
    OBVIOUS
  <2>1. T \in SUBSET Nat
    OBVIOUS
  <2>2. PICK n \in T : \A m \in T : n <= m
    BY <2>1, LeastNat
  <2>3. KeepsSome(s, out, 0, <<>>)
    BY DEF KeepsSome, ApartIds
  <2>4. n # 0
    BY <1>2, <2>3
  <2>5. n - 1 \in Nat /\ n - 1 < Len(s) /\ n - 1 \in 0..Len(s) /\ n \in 1..Len(s) /\ (n - 1) + 1 = n
    BY <2>4
  <2>6. KeepsSome(s, out, n - 1, f[n - 1])
    BY <2>2, <2>5
  <2>7. KeepsSome(s, out, (n - 1) + 1,
                  IF s[(n - 1) + 1] \in out THEN f[n - 1] ELSE Append(f[n - 1], s[(n - 1) + 1]))
    BY <2>5, <2>6, KeptStep
  <2>8. KeepsSome(s, out, n, f[n])
    BY <1>3, <2>5, <2>7
  <2> QED BY <2>8
<1>5. Len(s) \in 0..Len(s)
  OBVIOUS
<1> QED BY <1>1, <1>4, <1>5

LEMMA WithoutIds ==
  ASSUME NEW s \in Seq(Entries), NEW ids
  PROVE  /\ Without(s, EntriesOf(ids)) \in Seq(Entries)
         /\ Ids(Without(s, EntriesOf(ids))) = Ids(s) \ ids
         /\ ApartIds(s) => ApartIds(Without(s, EntriesOf(ids)))
<1> DEFINE kept == Without(s, EntriesOf(ids))
<1>1. KeepsSome(s, EntriesOf(ids), Len(s), kept)
  BY WithoutKeeps
<1>2. \A j \in 1..Len(s) : s[j] \in EntriesOf(ids) <=> s[j].id \in ids
  <2> TAKE j \in 1..Len(s)
  <2>1. PICK e \in Entries : e = s[j]
    OBVIOUS
  <2>2. e \in [id : ids, seq : Nat] <=> e.id \in ids
    BY DEF Entries
  <2> QED BY <2>1, <2>2, Zenon DEF EntriesOf
<1> HIDE DEF kept
<1>3. Ids(kept) \subseteq Ids(s) \ ids
  BY <1>1, <1>2 DEF KeepsSome, Ids
<1>4. Ids(s) \ ids \subseteq Ids(kept)
  <2> SUFFICES ASSUME NEW j \in 1..Len(s), s[j].id \notin ids PROVE s[j].id \in Ids(kept)
    BY DEF Ids
  <2>1. PICK i \in 1..Len(kept) : kept[i] = s[j]
    BY <1>1, <1>2 DEF KeepsSome
  <2> QED BY <2>1, Zenon DEF Ids
<1> QED BY <1>1, <1>3, <1>4 DEF KeepsSome, kept

LEMMA JoinIds ==
  ASSUME NEW s \in Seq(Entries), NEW r \in Seq(Entries), ApartIds(s), ApartIds(r),
         Ids(s) \cap Ids(r) = {}
  PROVE  /\ s \o r \in Seq(Entries) /\ ApartIds(s \o r)
         /\ Ids(s \o r) = Ids(s) \union Ids(r)
<1>1. PICK t : t = s \o r
  OBVIOUS
<1>2. /\ t \in Seq(Entries) /\ Len(t) = Len(s) + Len(r) /\ Len(s) \in Nat /\ Len(r) \in Nat
      /\ \A i \in 1..Len(s) : t[i] = s[i]
      /\ \A i \in 1..Len(r) : t[Len(s) + i] = r[i]
  BY <1>1
<1>3. ASSUME NEW i \in 1..Len(t)
      PROVE  i \in 1..Len(s) \/ \E j \in 1..Len(r) : i = Len(s) + j
  <2>1. i \in 1..Len(s) \/ (i - Len(s) \in 1..Len(r) /\ i = Len(s) + (i - Len(s)))
    BY <1>2
  <2> QED BY <2>1
<1>4. \A i \in 1..Len(s), j \in 1..Len(r) : s[i].id # r[j].id
  BY DEF Ids
<1>5. ApartIds(t)
  <2> SUFFICES ASSUME NEW i \in 1..Len(t), NEW j \in 1..Len(t), t[i].id = t[j].id PROVE i = j
    BY DEF ApartIds
  <2>1. CASE i \in 1..Len(s) /\ j \in 1..Len(s)
    BY <1>2, <2>1 DEF ApartIds
  <2>2. ASSUME NEW k \in 1..Len(r), NEW m \in 1..Len(r), i = Len(s) + k, j = Len(s) + m
        PROVE  i = j
    BY <1>2, <2>2 DEF ApartIds
  <2>3. ASSUME NEW k \in 1..Len(r), i = Len(s) + k, j \in 1..Len(s) PROVE FALSE
    BY <1>2, <1>4, <2>3
  <2>4. ASSUME NEW k \in 1..Len(r), j = Len(s) + k, i \in 1..Len(s) PROVE FALSE
    BY <1>2, <1>4, <2>4
  <2> QED BY <1>3, <2>1, <2>2, <2>3, <2>4
<1>6. Ids(t) \subseteq Ids(s) \union Ids(r)
  <2> SUFFICES ASSUME NEW i \in 1..Len(t) PROVE t[i].id \in Ids(s) \union Ids(r)
    BY DEF Ids
  <2>1. CASE i \in 1..Len(s)
    BY <1>2, <2>1 DEF Ids
  <2>2. ASSUME NEW j \in 1..Len(r), i = Len(s) + j PROVE t[i].id \in Ids(r)
    BY <1>2, <2>2 DEF Ids
  <2> QED BY <1>3, <2>1, <2>2
<1>7. Ids(s) \subseteq Ids(t)
  <2> SUFFICES ASSUME NEW i \in 1..Len(s) PROVE s[i].id \in Ids(t)
    BY DEF Ids
  <2>1. i \in 1..Len(t)
    BY <1>2
  <2> QED BY <1>2, <2>1 DEF Ids
<1>8. Ids(r) \subseteq Ids(t)
  <2> SUFFICES ASSUME NEW i \in 1..Len(r) PROVE r[i].id \in Ids(t)
    BY DEF Ids
  <2>1. Len(s) + i \in 1..Len(t)
    BY <1>2
  <2> QED BY <1>2, <2>1 DEF Ids
<1> QED BY <1>1, <1>2, <1>5, <1>6, <1>7, <1>8

LEMMA MergeIds ==
  ASSUME NEW s \in Seq(Entries), NEW r \in Seq(Entries), ApartIds(s), ApartIds(r)
  PROVE  /\ MergeById(s, r) \in Seq(Entries) /\ ApartIds(MergeById(s, r))
         /\ Ids(MergeById(s, r)) = Ids(s) \union Ids(r)
<1> DEFINE rest == Without(r, EntriesOf(Ids(s)))
<1>1. rest \in Seq(Entries) /\ ApartIds(rest) /\ Ids(rest) = Ids(r) \ Ids(s)
  BY WithoutIds
<1> HIDE DEF rest
<1>2. /\ s \o rest \in Seq(Entries) /\ ApartIds(s \o rest)
      /\ Ids(s \o rest) = Ids(s) \union Ids(rest)
  BY <1>1, JoinIds
<1> QED BY <1>1, <1>2 DEF MergeById, rest

LEMMA MergePagesIds ==
  ASSUME NEW s \in Seq(Entries), NEW r \in Seq(Entries), ApartIds(s), ApartIds(r)
  PROVE  /\ MergePages(s, r) \in Seq(Entries) /\ ApartIds(MergePages(s, r))
         /\ Ids(r) \subseteq Ids(MergePages(s, r))
<1> DEFINE late == {e \in EntriesOf(MessageNos) : \E i \in 1..Len(r) : r[i].seq <= e.seq}
           early == Without(s, late)
<1>1. early \in Seq(Entries) /\ ApartIds(early)
  <2>1. KeepsSome(s, late, Len(s), early)
    BY WithoutKeeps
  <2> QED BY <2>1 DEF KeepsSome
<1>2. MergePages(s, r) = IF r = <<>> THEN r ELSE MergeById(early, r)
  BY DEF MergePages
<1> HIDE DEF early
<1> QED BY <1>1, <1>2, MergeIds

LEMMA PageIds ==
  ASSUME NEW top \in Nat
  PROVE  /\ PageOf(top) \in Seq(Entries) /\ ApartIds(PageOf(top))
         /\ Ids(PageOf(top)) = First(top)..top
         /\ First(top) \in Nat \ {0} /\ First(top) <= top + 1
<1> DEFINE n == top - First(top) + 1
<1>1. First(top) \in Nat \ {0} /\ First(top) <= top + 1 /\ n \in Nat
  BY ViewConstants DEF First
<1>2. PICK f : f = First(top)
  OBVIOUS
<1>3. PageOf(top) = [i \in 1..n |-> [id |-> f + i - 1, seq |-> f + i - 1]]
  BY <1>2 DEF PageOf, Entry
<1>4. \A i \in 1..n : f + i - 1 \in Nat
  BY <1>1, <1>2
<1>5. n = top - f + 1
  BY <1>2
<1> HIDE DEF n
<1>6. PageOf(top) \in Seq(Entries) /\ Len(PageOf(top)) = n
  BY <1>1, <1>3, <1>4 DEF Entries
<1>7. \A i \in 1..n : PageOf(top)[i].id = f + i - 1
  BY <1>3
<1>8. ApartIds(PageOf(top))
  BY <1>1, <1>2, <1>6, <1>7 DEF ApartIds
<1>9. Ids(PageOf(top)) = f..top
  <2>1. \A i \in 1..n : f + i - 1 \in f..top
    BY <1>1, <1>2, <1>5
  <2>2. \A m \in f..top : m - f + 1 \in 1..n /\ f + (m - f + 1) - 1 = m
    BY <1>1, <1>2, <1>5
  <2>3. \A m \in f..top : \E i \in 1..n : f + i - 1 = m
    BY <2>2
  <2>4. Ids(PageOf(top)) = {PageOf(top)[i].id : i \in 1..n}
    BY <1>6 DEF Ids
  <2> QED BY <1>7, <2>1, <2>3, <2>4
<1> QED BY <1>1, <1>2, <1>6, <1>8, <1>9

LEMMA ApartCounts ==
  ASSUME NEW s \in Seq(Entries), ApartIds(s)
  PROVE  Cardinality(Ids(s)) = Len(s)
<1> DEFINE f == [i \in 1..Len(s) |-> s[i].id]
<1>1. f \in Bijection(1..Len(s), Ids(s))
  <2>1. f \in [1..Len(s) -> Ids(s)]
    BY DEF Ids
  <2>2. \A i, j \in 1..Len(s) : f[i] = f[j] => i = j
    BY DEF ApartIds
  <2>3. \A m \in Ids(s) : \E i \in 1..Len(s) : f[i] = m
    BY DEF Ids
  <2> HIDE DEF f
  <2> QED BY <2>1, <2>2, <2>3 DEF Bijection, Injection, Surjection, IsInjective
<1>2. ExistsBijection(1..Len(s), Ids(s))
  BY <1>1 DEF ExistsBijection
<1>3. Len(s) \in Nat /\ 1 \in Nat
  OBVIOUS
<1>4. IsFiniteSet(1..Len(s)) /\ Cardinality(1..Len(s)) = Len(s)
  BY <1>3, FS_Interval
<1>5. Cardinality(1..Len(s)) = Cardinality(Ids(s))
  BY <1>1, <1>2, <1>4, FS_Bijection
<1> QED BY <1>4, <1>5

(***************************************************************************)
(* The types of what the view is made of; texts are left aside.            *)
(***************************************************************************)
Events == [kind : {"message", "delta", "over", "gone"}, id : Nat, run : Nat]
ViewTypes ==
  /\ messages \in Nat /\ unsaid \subseteq 1..messages
  /\ log \in Seq(Events)
  /\ turn \in [n : Nat, live : BOOLEAN, said : Nat]
  /\ cursor \in 0..Len(log)
  /\ DOMAIN view = {"shown", "entries", "run", "text", "older"}
  /\ view.shown \in BOOLEAN /\ view.older \in Nat
  /\ view.entries \in Seq(Entries) /\ ApartIds(view.entries)
  /\ page.at = "answer" => page.before \in Nat \ {0}

FetchTypes ==
  /\ DOMAIN fetch = Fetches
  /\ \A f \in Fetches :
       /\ DOMAIN fetch[f] = {"at", "why", "todo", "top", "run", "last", "text"}
       /\ fetch[f].top \in Nat
       /\ fetch[f].last \in 0..Len(log)
       /\ fetch[f].at = "answer" => "page" \notin fetch[f].todo

\* The loop asks before it subscribes; what else asks does so for an event.
LoopInv ==
  /\ fetch["other"].why = "event"
  /\ fetch["loop"].at # "idle" =>
       \/ fetch["loop"].why = "first" /\ stream = "none"
       \/ fetch["loop"].why = "reconnect" /\ stream = "lost"

\* The message's event is one that the stream has not handed out.
ToCome(m) == \E p \in 1..Len(log) : p > cursor /\ log[p] = Created(m)

\* What a reconnect's page does not have is to come.
AskedInv ==
  fetch["loop"].at # "idle" /\ fetch["loop"].why = "reconnect"
    /\ "page" \notin fetch["loop"].todo
  => \A m \in ((fetch["loop"].top + 1)..messages) \ unsaid : ToCome(m)

\* What the view does not have, from the first message of the reconnect's page, is to come.
BaseInv ==
  base.why = "reconnect" =>
    /\ view.shown /\ base.from \in Nat \ {0}
    /\ \A m \in (base.from..messages) \ unsaid : m \in Ids(view.entries) \/ ToCome(m)

ViewInv == ViewTypes /\ FetchTypes /\ LoopInv /\ AskedInv /\ BaseInv

(***************************************************************************)
(* The steps of the thread: the log grows, and what is said of it is to    *)
(* come.                                                                   *)
(***************************************************************************)
LEMMA ThreadKept ==
  ASSUME ViewInv, UNCHANGED clientVars,
         messages' \in Nat, unsaid' \subseteq 1..messages', log' \in Seq(Events),
         turn' \in [n : Nat, live : BOOLEAN, said : Nat],
         Len(log) <= Len(log'),
         \A p \in 1..Len(log) : log[p].kind = "message" => log'[p] = log[p],
         \A m \in (1..messages') \ unsaid' :
           m \in (1..messages) \ unsaid
           \/ \E p \in 1..Len(log') : p > Len(log) /\ log'[p] = Created(m)
  PROVE  ViewInv'
<1> USE DEF ViewInv
<1>1. UNCHANGED <<view, cursor, stream, fetch, page, base>>
  BY DEF clientVars
<1>2. Len(log) \in Nat /\ Len(log') \in Nat /\ cursor \in Nat /\ cursor <= Len(log)
  BY DEF ViewTypes
<1>3. ViewTypes'
  BY <1>1, <1>2 DEF ViewTypes
<1>4. FetchTypes'
  BY <1>1, <1>2 DEF FetchTypes
<1>5. LoopInv'
  BY <1>1 DEF LoopInv
<1>6. ASSUME NEW m, ToCome(m) PROVE ToCome(m)'
  <2>1. PICK p \in 1..Len(log) : p > cursor /\ log[p] = Created(m)
    BY <1>6 DEF ToCome
  <2>2. p \in 1..Len(log') /\ log[p].kind = "message"
    BY <1>2, <2>1 DEF Created
  <2> QED BY <1>1, <2>1, <2>2 DEF ToCome, Created
<1>7. ASSUME NEW m \in (1..messages') \ unsaid', ~(m \in (1..messages) \ unsaid)
      PROVE  ToCome(m)'
  <2>1. PICK p \in 1..Len(log') : p > Len(log) /\ log'[p] = Created(m)
    BY <1>7
  <2>2. p > cursor'
    BY <1>1, <1>2, <2>1
  <2> QED BY <2>1, <2>2 DEF ToCome, Created
<1>8. AskedInv'
  <2> SUFFICES ASSUME fetch["loop"].at # "idle", fetch["loop"].why = "reconnect",
                      "page" \notin fetch["loop"].todo,
                      NEW m \in ((fetch["loop"].top + 1)..messages') \ unsaid'
               PROVE  ToCome(m)'
    BY <1>1 DEF AskedInv
  <2>1. fetch["loop"].top \in Nat
    BY DEF FetchTypes, Fetches
  <2>2. m \in (1..messages') \ unsaid'
    BY <2>1
  <2>3. CASE m \in (1..messages) \ unsaid
    <3>1. m \in ((fetch["loop"].top + 1)..messages) \ unsaid
      BY <2>1, <2>3
    <3> QED BY <1>6, <3>1 DEF AskedInv
  <2> QED BY <1>7, <2>2, <2>3
<1>9. BaseInv'
  <2> SUFFICES ASSUME base.why = "reconnect"
               PROVE  /\ view.shown /\ base.from \in Nat \ {0}
                      /\ \A m \in (base.from..messages') \ unsaid' :
                           m \in Ids(view.entries) \/ ToCome(m)'
    BY <1>1 DEF BaseInv
  <2>1. view.shown /\ base.from \in Nat \ {0}
    BY DEF BaseInv
  <2>2. ASSUME NEW m \in (base.from..messages') \ unsaid'
        PROVE  m \in Ids(view.entries) \/ ToCome(m)'
    <3>1. m \in (1..messages') \ unsaid'
      BY <2>1
    <3>2. CASE m \in (1..messages) \ unsaid
      <4>1. m \in (base.from..messages) \ unsaid
        BY <2>1, <3>2
      <4> QED BY <1>6, <4>1 DEF BaseInv
    <3> QED BY <1>7, <3>1, <3>2
  <2> QED BY <2>1, <2>2
<1> QED BY <1>3, <1>4, <1>5, <1>8, <1>9

\* What events at the end of a sequence leave and add.
LEMMA EventsJoined ==
  ASSUME NEW a \in Seq(Events), NEW b \in Seq(Events)
  PROVE  /\ a \o b \in Seq(Events) /\ Len(a \o b) = Len(a) + Len(b)
         /\ \A p \in 1..Len(a) : (a \o b)[p] = a[p]
         /\ \A i \in 1..Len(b) : (a \o b)[Len(a) + i] = b[i]
<1>1. PICK c : c = a \o b
  OBVIOUS
<1>2. /\ c \in Seq(Events) /\ Len(c) = Len(a) + Len(b) /\ Len(a) \in Nat
      /\ \A i \in 1..Len(a) : c[i] = a[i]
      /\ \A i \in 1..Len(b) : c[Len(a) + i] = b[i]
  BY <1>1
<1> QED BY <1>1, <1>2

LEMMA ThreadSteps ==
  ASSUME ViewInv, ThreadStep
  PROVE  ViewInv'
<1>1. /\ messages \in Nat /\ unsaid \subseteq 1..messages /\ log \in Seq(Events)
      /\ turn \in [n : Nat, live : BOOLEAN, said : Nat] /\ Len(log) \in Nat
  BY DEF ViewInv, ViewTypes
<1>2. CASE CreateMessage
  <2>1. /\ messages' = messages + 1 /\ unsaid' = unsaid \union {messages + 1}
        /\ UNCHANGED <<log, turn, clientVars>>
    BY <1>2 DEF CreateMessage
  <2>2. messages' \in Nat /\ unsaid' \subseteq 1..messages'
    BY <1>1, <2>1
  <2>3. \A m \in (1..messages') \ unsaid' : m \in (1..messages) \ unsaid
    BY <1>1, <2>1
  <2> QED BY <1>1, <2>1, <2>2, <2>3, ThreadKept
<1>3. ASSUME NEW m \in unsaid, AppendCreated(m) PROVE ViewInv'
  <2>1. /\ unsaid' = unsaid \ {m} /\ log' = Append(log, Created(m))
        /\ messages' = messages /\ turn' = turn /\ UNCHANGED clientVars
    BY <1>3 DEF AppendCreated
  <2>2. m \in Nat /\ Created(m) \in Events
    BY <1>1 DEF Created, Events
  <2>3. /\ log' \in Seq(Events) /\ Len(log') = Len(log) + 1
        /\ \A p \in 1..Len(log) : log'[p] = log[p]
        /\ log'[Len(log) + 1] = Created(m)
    BY <1>1, <2>1, <2>2
  <2>4. ASSUME NEW k \in (1..messages') \ unsaid', ~(k \in (1..messages) \ unsaid)
        PROVE  \E p \in 1..Len(log') : p > Len(log) /\ log'[p] = Created(k)
    <3>1. k = m
      BY <2>1, <2>4
    <3>2. Len(log) + 1 \in 1..Len(log') /\ Len(log) + 1 > Len(log)
      BY <1>1, <2>3
    <3> QED BY <2>3, <3>1, <3>2
  <2> QED BY <1>1, <2>1, <2>3, <2>4, ThreadKept
<1>4. CASE StartTurn
  <2>1. turn' \in [n : Nat, live : BOOLEAN, said : Nat]
    BY <1>1, <1>4 DEF StartTurn
  <2> QED BY <1>1, <1>4, <2>1, ThreadKept DEF StartTurn
<1>5. CASE SayDelta
  <2>1. /\ turn' = [turn EXCEPT !.said = @ + 1]
        /\ log' = Append(log, TextDelta(turn.said + 1, turn.n))
        /\ UNCHANGED <<messages, unsaid, clientVars>>
    BY <1>5 DEF SayDelta
  <2>2. TextDelta(turn.said + 1, turn.n) \in Events
    BY <1>1 DEF TextDelta, Events
  <2>3. turn' \in [n : Nat, live : BOOLEAN, said : Nat]
    BY <1>1, <2>1
  <2>4. /\ log' \in Seq(Events) /\ Len(log') = Len(log) + 1
        /\ \A p \in 1..Len(log) : log'[p] = log[p]
    BY <1>1, <2>1, <2>2
  <2> QED BY <1>1, <2>1, <2>3, <2>4, ThreadKept
<1>6. CASE FinishTurn
  <2> DEFINE old == [i \in 1..Len(log) |-> IF log[i].kind = "delta" THEN Gone ELSE log[i]]
             new == <<Created(messages + 1), Over>>
  <2>1. /\ messages' = messages + 1 /\ turn' = [turn EXCEPT !.live = FALSE]
        /\ log' = old \o new
        /\ UNCHANGED <<unsaid, clientVars>>
    BY <1>6 DEF FinishTurn
  <2>2. Created(messages + 1) \in Events /\ Over \in Events /\ Gone \in Events
    BY <1>1 DEF Created, Over, Gone, Events
  <2>3. old \in Seq(Events) /\ Len(old) = Len(log)
        /\ \A p \in 1..Len(log) : log[p].kind = "message" => old[p] = log[p]
    BY <1>1, <2>2
  <2>4. new \in Seq(Events) /\ Len(new) = 2 /\ new[1] = Created(messages + 1)
    BY <2>2
  <2> HIDE DEF old, new
  <2>5. /\ log' \in Seq(Events) /\ Len(log') = Len(log) + 2
        /\ \A p \in 1..Len(log) : log[p].kind = "message" => log'[p] = log[p]
        /\ log'[Len(log) + 1] = Created(messages + 1)
    <3>1. log' = old \o new
      BY <2>1
    <3>2. /\ old \o new \in Seq(Events) /\ Len(old \o new) = Len(old) + Len(new)
          /\ \A p \in 1..Len(old) : (old \o new)[p] = old[p]
          /\ \A i \in 1..Len(new) : (old \o new)[Len(old) + i] = new[i]
      BY <2>3, <2>4, EventsJoined, Zenon
    <3> QED BY <2>3, <2>4, <3>1, <3>2
  <2>6. turn' \in [n : Nat, live : BOOLEAN, said : Nat] /\ messages' \in Nat
        /\ unsaid' \subseteq 1..messages'
    <3>1. messages' \in Nat /\ unsaid' \subseteq 1..messages'
      BY <1>1, <2>1
    <3>2. turn' \in [n : Nat, live : BOOLEAN, said : Nat]
      BY <1>1, <2>1
    <3> QED BY <3>1, <3>2
  <2>7. ASSUME NEW k \in (1..messages') \ unsaid', ~(k \in (1..messages) \ unsaid)
        PROVE  \E p \in 1..Len(log') : p > Len(log) /\ log'[p] = Created(k)
    <3>1. k = messages + 1
      BY <1>1, <2>1, <2>7
    <3>2. Len(log) + 1 \in 1..Len(log') /\ Len(log) + 1 > Len(log)
      BY <1>1, <2>5
    <3> QED BY <2>5, <3>1, <3>2
  <2>8. Len(log) <= Len(log') /\ UNCHANGED clientVars
    BY <1>1, <2>1, <2>5
  <2> QED BY <2>5, <2>6, <2>7, <2>8, ThreadKept
<1> QED BY <1>2, <1>3, <1>4, <1>5, <1>6 DEF ThreadStep

(***************************************************************************)
(* The steps of a request for the thread.                                  *)
(***************************************************************************)
\* The request f has gone on to the record c, and all else that counts has stayed.
LEMMA FetchKept ==
  ASSUME ViewInv, NEW f \in Fetches, NEW c, fetch' = [fetch EXCEPT ![f] = c],
         UNCHANGED threadVars, UNCHANGED <<view, cursor, page, base>>,
         DOMAIN c = {"at", "why", "todo", "top", "run", "last", "text"},
         c.top \in Nat, c.last \in 0..Len(log), c.at = "answer" => "page" \notin c.todo,
         f = "other" => c.why = "event" /\ stream' = stream,
         f = "loop" /\ c.at # "idle" =>
           \/ c.why = "first" /\ stream' = "none"
           \/ c.why = "reconnect" /\ stream' = "lost",
         f = "loop" /\ c.at # "idle" /\ c.why = "reconnect" /\ "page" \notin c.todo =>
           \A m \in ((c.top + 1)..messages) \ unsaid : ToCome(m)
  PROVE  ViewInv'
<1> USE DEF ViewInv
<1>1. UNCHANGED <<messages, unsaid, log, turn>>
  BY DEF threadVars
<1>2. fetch'[f] = c /\ (\A g \in Fetches \ {f} : fetch'[g] = fetch[g]) /\ DOMAIN fetch' = Fetches
  BY DEF FetchTypes
<1>3. ViewTypes'
  BY <1>1 DEF ViewTypes
<1>4. FetchTypes'
  BY <1>1, <1>2 DEF FetchTypes
<1>5. \A m : ToCome(m)' <=> ToCome(m)
  BY <1>1 DEF ToCome, Created
<1>6. BaseInv'
  BY <1>1, <1>5 DEF BaseInv
<1>7. CASE f = "loop"
  <2>1. fetch'["other"] = fetch["other"] /\ fetch'["loop"] = c
    BY <1>2, <1>7 DEF Fetches
  <2> QED BY <1>1, <1>3, <1>4, <1>5, <1>6, <1>7, <2>1 DEF LoopInv, AskedInv
<1>8. CASE f = "other"
  <2>1. fetch'["loop"] = fetch["loop"] /\ fetch'["other"] = c
    BY <1>2, <1>8 DEF Fetches
  <2> QED BY <1>1, <1>3, <1>4, <1>5, <1>6, <1>8, <2>1 DEF LoopInv, AskedInv
<1> QED BY <1>7, <1>8 DEF Fetches

LEMMA UnaskedIs ==
  /\ DOMAIN Unasked = {"at", "why", "todo", "top", "run", "last", "text"}
  /\ Unasked.at = "idle" /\ Unasked.why = "event" /\ Unasked.top = 0 /\ Unasked.last = 0
BY DEF Unasked

LEMMA ReadSteps ==
  ASSUME ViewInv, NEW f \in Fetches,
         ReadPage(f) \/ ReadRun(f) \/ ReadLast(f) \/ ReadLive(f)
  PROVE  ViewInv'
<1> DEFINE d == fetch[f]
<1>1. /\ DOMAIN d = {"at", "why", "todo", "top", "run", "last", "text"}
      /\ d.top \in Nat /\ d.last \in 0..Len(log)
      /\ messages \in Nat /\ Len(log) \in Nat
      /\ fetch["other"].why = "event"
  BY DEF ViewInv, ViewTypes, FetchTypes, LoopInv
<1>2. UNCHANGED threadVars /\ UNCHANGED <<view, cursor, stream, page, base>>
  BY DEF ReadPage, ReadRun, ReadLast, ReadLive, ByServer
<1>3. d.at = "reading"
  BY DEF ReadPage, ReadRun, ReadLast, ReadLive, Awaits
<1>4. f = "loop" => \/ d.why = "first" /\ stream = "none"
                    \/ d.why = "reconnect" /\ stream = "lost"
  BY <1>3 DEF ViewInv, LoopInv
<1>5. ASSUME f = "loop", d.why = "reconnect", "page" \notin d.todo
      PROVE  \A m \in ((d.top + 1)..messages) \ unsaid : ToCome(m)
  BY <1>3, <1>5 DEF ViewInv, AskedInv
<1>6. ASSUME NEW c, fetch' = [fetch EXCEPT ![f] = c],
             DOMAIN c = {"at", "why", "todo", "top", "run", "last", "text"},
             c.why = d.why, c.at \in {"reading", "answer"},
             c.last \in 0..Len(log), c.at = "answer" => "page" \notin c.todo,
             \/ c.top = d.top /\ ("page" \notin c.todo => "page" \notin d.todo)
             \/ c.top = messages
      PROVE  ViewInv'
  <2>1. c.top \in Nat
    BY <1>1, <1>6
  <2>2. f = "loop" /\ c.why = "reconnect" /\ "page" \notin c.todo =>
           \A m \in ((c.top + 1)..messages) \ unsaid : ToCome(m)
    <3>1. CASE c.top = messages
      BY <1>1, <3>1
    <3>2. CASE c.top = d.top /\ ("page" \notin c.todo => "page" \notin d.todo)
      BY <1>5, <1>6, <3>2
    <3> QED BY <1>6, <3>1, <3>2
  <2>3. stream' = stream
    BY <1>2
  <2>4. f = "other" => c.why = "event"
    BY <1>1, <1>6
  <2>5. f = "loop" => \/ c.why = "first" /\ stream' = "none"
                      \/ c.why = "reconnect" /\ stream' = "lost"
    BY <1>4, <1>6, <2>3
  <2> HIDE DEF d
  <2> QED BY <1>2, <1>6, <2>1, <2>2, <2>3, <2>4, <2>5, FetchKept
<1>7. CASE ReadPage(f)
  <2>1. PICK c : c = [d EXCEPT !.todo = Rest(f, "page"), !.top = messages]
    OBVIOUS
  <2>2. fetch' = [fetch EXCEPT ![f] = c]
    BY <1>7, <2>1 DEF ReadPage
  <2> QED BY <1>1, <1>3, <1>6, <2>1, <2>2
<1>8. CASE ReadRun(f)
  <2>1. PICK c : c = [d EXCEPT !.todo = Rest(f, "run"), !.run = IF turn.live THEN turn.n ELSE 0]
    OBVIOUS
  <2>2. fetch' = [fetch EXCEPT ![f] = c]
    BY <1>8, <2>1 DEF ReadRun
  <2>3. c.todo = d.todo \ {"run"}
    BY <1>1, <2>1 DEF Rest
  <2>4. c.at = "reading" /\ c.top = d.top /\ c.last = d.last /\ c.why = d.why
        /\ DOMAIN c = {"at", "why", "todo", "top", "run", "last", "text"}
    BY <1>1, <1>3, <2>1
  <2>5. "page" \notin c.todo => "page" \notin d.todo
    BY <2>3
  <2>6. c.last \in 0..Len(log)
    BY <1>1, <2>4
  <2> QED BY <1>6, <2>2, <2>4, <2>5, <2>6
<1>9. CASE ReadLast(f)
  <2>1. PICK c : c = [d EXCEPT !.todo = Rest(f, "last"), !.last = Len(log)]
    OBVIOUS
  <2>2. fetch' = [fetch EXCEPT ![f] = c]
    BY <1>9, <2>1 DEF ReadLast
  <2>3. c.todo = d.todo \ {"last"}
    BY <1>1, <2>1 DEF Rest
  <2>4. c.at = "reading" /\ c.top = d.top /\ c.last = Len(log) /\ c.why = d.why
        /\ DOMAIN c = {"at", "why", "todo", "top", "run", "last", "text"}
    BY <1>1, <1>3, <2>1
  <2>5. "page" \notin c.todo => "page" \notin d.todo
    BY <2>3
  <2>6. c.last \in 0..Len(log)
    BY <1>1, <2>4
  <2> QED BY <1>6, <2>2, <2>4, <2>5, <2>6
<1>10. CASE ReadLive(f)
  <2>1. PICK text : fetch' = [fetch EXCEPT ![f].at = "answer", ![f].text = text]
    BY <1>10 DEF ReadLive
  <2>2. PICK c : c = [d EXCEPT !.at = "answer", !.text = text]
    OBVIOUS
  <2>3. fetch' = [fetch EXCEPT ![f] = c]
    BY <2>1, <2>2
  <2>4. c.at = "answer" /\ c.top = d.top /\ c.last = d.last /\ c.why = d.why /\ c.todo = d.todo
        /\ DOMAIN c = {"at", "why", "todo", "top", "run", "last", "text"}
    BY <1>1, <2>2
  <2>5. c.last \in 0..Len(log) /\ "page" \notin c.todo
    BY <1>1, <1>10, <2>4 DEF ReadLive
  <2> QED BY <1>6, <2>3, <2>4, <2>5
<1> QED BY <1>7, <1>8, <1>9, <1>10

(***************************************************************************)
(* The client asks, or gives up.                                           *)
(***************************************************************************)
LEMMA AskIs ==
  ASSUME NEW f, NEW why, AskThread(f, why)
  PROVE  \E c : /\ fetch' = [fetch EXCEPT ![f] = c]
                /\ DOMAIN c = {"at", "why", "todo", "top", "run", "last", "text"}
                /\ c.at = "reading" /\ c.why = why /\ c.top = 0 /\ c.last = 0
                /\ "page" \in c.todo
<1>1. PICK c : c = [Unasked EXCEPT !.at = "reading", !.why = why,
                                   !.todo = {"page", "run", "last"}]
  OBVIOUS
<1>2. fetch' = [fetch EXCEPT ![f] = c]
  BY <1>1 DEF AskThread
<1>3. /\ DOMAIN c = {"at", "why", "todo", "top", "run", "last", "text"}
      /\ c.at = "reading" /\ c.why = why /\ c.top = 0 /\ c.last = 0
      /\ c.todo = {"page", "run", "last"}
  BY <1>1 DEF Unasked
<1> QED BY <1>2, <1>3

LEMMA AskSteps ==
  ASSUME ViewInv, AskFirst \/ AskAgain \/ \E f \in Fetches : FailFetch(f)
  PROVE  ViewInv'
<1>0. Len(log) \in Nat
  BY DEF ViewInv, ViewTypes
<1>1. CASE AskFirst
  <2>1. AskThread("loop", "first") /\ stream' = "none" /\ UNCHANGED threadVars
        /\ UNCHANGED <<view, cursor, page, base>>
    BY <1>1 DEF AskFirst
  <2>2. PICK c : /\ fetch' = [fetch EXCEPT !["loop"] = c]
                 /\ DOMAIN c = {"at", "why", "todo", "top", "run", "last", "text"}
                 /\ c.at = "reading" /\ c.why = "first"
                 /\ c.top = 0 /\ c.last = 0 /\ "page" \in c.todo
    BY <2>1, AskIs
  <2>3. /\ "loop" \in Fetches /\ c.top \in Nat /\ c.last \in 0..Len(log)
        /\ ~("page" \notin c.todo) /\ c.at # "answer"
    BY <1>0, <2>2 DEF Fetches
  <2> QED BY <2>1, <2>2, <2>3, FetchKept
<1>2. CASE AskAgain
  <2>1. AskThread("loop", "reconnect") /\ stream' = "lost" /\ UNCHANGED threadVars
        /\ UNCHANGED <<view, cursor, page, base>>
    BY <1>2 DEF AskAgain
  <2>2. PICK c : /\ fetch' = [fetch EXCEPT !["loop"] = c]
                 /\ DOMAIN c = {"at", "why", "todo", "top", "run", "last", "text"}
                 /\ c.at = "reading" /\ c.why = "reconnect"
                 /\ c.top = 0 /\ c.last = 0 /\ "page" \in c.todo
    BY <2>1, AskIs
  <2>3. /\ "loop" \in Fetches /\ c.top \in Nat /\ c.last \in 0..Len(log)
        /\ ~("page" \notin c.todo) /\ c.at # "answer"
    BY <1>0, <2>2 DEF Fetches
  <2> QED BY <2>1, <2>2, <2>3, FetchKept
<1>3. ASSUME NEW f \in Fetches, FailFetch(f) PROVE ViewInv'
  <2>1. /\ stream' = IF f = "loop" THEN "on" ELSE stream
        /\ fetch' = [fetch EXCEPT ![f] = Unasked]
        /\ UNCHANGED threadVars /\ UNCHANGED <<view, cursor, page, base>>
    BY <1>3 DEF FailFetch
  <2>2. /\ Unasked.top \in Nat /\ Unasked.last \in 0..Len(log)
        /\ Unasked.why = "event" /\ ~(Unasked.at # "idle") /\ Unasked.at # "answer"
        /\ f = "other" => stream' = stream
    BY <1>0, <2>1, UnaskedIs
  <2>3. DOMAIN Unasked = {"at", "why", "todo", "top", "run", "last", "text"}
    BY UnaskedIs
  <2> QED BY <2>1, <2>2, <2>3, FetchKept
<1> QED BY <1>1, <1>2, <1>3

(***************************************************************************)
(* An answer replaces the view, and an older page goes above it.           *)
(***************************************************************************)
LEMMA SnapshotFits ==
  ASSUME ViewInv, NEW f \in Fetches, NEW v, v = MergeHistory(view, SnapshotOf(f))
  PROVE  /\ DOMAIN v = {"shown", "entries", "run", "text", "older"}
         /\ v.shown = TRUE /\ v.older \in Nat
         /\ v.entries \in Seq(Entries) /\ ApartIds(v.entries)
         /\ First(fetch[f].top)..fetch[f].top \subseteq Ids(v.entries)
<1> DEFINE top == fetch[f].top
           s == SnapshotOf(f)
<1>1. top \in Nat /\ view.older \in Nat /\ view.entries \in Seq(Entries) /\ ApartIds(view.entries)
  BY DEF ViewInv, ViewTypes, FetchTypes
<1>2. /\ DOMAIN s = {"shown", "entries", "run", "text", "older"}
      /\ s.shown = TRUE /\ s.older = OlderOf(top) /\ s.entries = PageOf(top)
  BY DEF SnapshotOf
<1> HIDE DEF s
<1>3. /\ PageOf(top) \in Seq(Entries) /\ ApartIds(PageOf(top)) /\ Ids(PageOf(top)) = First(top)..top
      /\ OlderOf(top) \in Nat
  BY <1>1, PageIds DEF OlderOf
<1>4. CASE view.shown /\ expanded
  <2>1. v = [s EXCEPT !.entries = MergePages(view.entries, s.entries), !.older = view.older]
    BY <1>4 DEF MergeHistory, s
  <2>2. /\ DOMAIN v = {"shown", "entries", "run", "text", "older"}
        /\ v.shown = TRUE /\ v.older = view.older /\ v.entries = MergePages(view.entries, PageOf(top))
    BY <1>2, <2>1
  <2> QED BY <1>1, <1>3, <2>2, MergePagesIds
<1>5. CASE ~(view.shown /\ expanded)
  <2>1. v = s
    BY <1>5 DEF MergeHistory, s
  <2> QED BY <1>2, <1>3, <2>1
<1> QED BY <1>4, <1>5

LEMMA ApplySteps ==
  ASSUME ViewInv, NEW f \in Fetches, Apply(f)
  PROVE  ViewInv'
<1> DEFINE d == fetch[f]
<1>1. /\ d.at = "answer" /\ fetch' = [fetch EXCEPT ![f] = Unasked]
      /\ view' = MergeHistory(view, SnapshotOf(f))
      /\ base' = [why |-> d.why, from |-> First(d.top)]
      /\ cursor' = IF d.why = "first" THEN d.last ELSE cursor
      /\ stream' = IF f = "loop" THEN "on" ELSE stream
      /\ UNCHANGED <<messages, unsaid, log, turn, page>>
  BY DEF Apply, threadVars
<1>2. /\ d.top \in Nat /\ d.last \in 0..Len(log) /\ "page" \notin d.todo
      /\ cursor \in 0..Len(log) /\ DOMAIN fetch = Fetches
  BY <1>1 DEF ViewInv, ViewTypes, FetchTypes
<1>3. f = "loop" \/ (f = "other" /\ d.why = "event")
  BY DEF ViewInv, LoopInv, Fetches
<1> HIDE DEF d
<1>4. /\ DOMAIN view' = {"shown", "entries", "run", "text", "older"}
      /\ view'.shown = TRUE /\ view'.older \in Nat
      /\ view'.entries \in Seq(Entries) /\ ApartIds(view'.entries)
      /\ First(d.top)..d.top \subseteq Ids(view'.entries)
  <2>1. PICK v : v = MergeHistory(view, SnapshotOf(f))
    OBVIOUS
  <2>2. /\ DOMAIN v = {"shown", "entries", "run", "text", "older"}
        /\ v.shown = TRUE /\ v.older \in Nat
        /\ v.entries \in Seq(Entries) /\ ApartIds(v.entries)
        /\ First(d.top)..d.top \subseteq Ids(v.entries)
    BY <2>1, SnapshotFits DEF d
  <2> QED BY <1>1, <2>1, <2>2
<1>5. fetch'[f] = Unasked /\ (\A g \in Fetches \ {f} : fetch'[g] = fetch[g]) /\ DOMAIN fetch' = Fetches
  BY <1>1, <1>2
<1>6. cursor' \in 0..Len(log')
  BY <1>1, <1>2
<1>7. ViewTypes'
  <2>1. view'.shown \in BOOLEAN
    BY <1>4
  <2>2. /\ messages \in Nat /\ unsaid \subseteq 1..messages /\ log \in Seq(Events)
        /\ turn \in [n : Nat, live : BOOLEAN, said : Nat]
        /\ page.at = "answer" => page.before \in Nat \ {0}
    BY DEF ViewInv, ViewTypes
  <2> QED BY <1>1, <1>4, <1>6, <2>1, <2>2 DEF ViewTypes
<1>8. FetchTypes'
  <2>1. /\ DOMAIN Unasked = {"at", "why", "todo", "top", "run", "last", "text"}
        /\ Unasked.top \in Nat /\ Unasked.last \in 0..Len(log) /\ Unasked.at # "answer"
    BY <1>2, UnaskedIs
  <2> QED BY <1>1, <1>5, <2>1 DEF ViewInv, FetchTypes
<1>9. cursor' = cursor => \A m : ToCome(m)' <=> ToCome(m)
  BY <1>1 DEF ToCome, Created
<1>10. ASSUME d.why = "reconnect" PROVE \A m \in ((d.top + 1)..messages) \ unsaid : ToCome(m)
  <2>1. f = "loop"
    BY <1>3, <1>10
  <2> QED BY <1>1, <1>2, <1>10, <2>1 DEF ViewInv, AskedInv, d
<1>11. BaseInv'
  <2> SUFFICES ASSUME d.why = "reconnect"
               PROVE  /\ view'.shown /\ First(d.top) \in Nat \ {0}
                      /\ \A m \in (First(d.top)..messages) \ unsaid :
                           m \in Ids(view'.entries) \/ ToCome(m)'
    BY <1>1 DEF BaseInv, Ids
  <2>1. First(d.top) \in Nat \ {0}
    BY <1>2, PageIds
  <2>2. messages \in Nat
    BY DEF ViewInv, ViewTypes
  <2>3. ASSUME NEW m \in (First(d.top)..messages) \ unsaid
        PROVE  m \in First(d.top)..d.top \/ m \in ((d.top + 1)..messages) \ unsaid
    BY <1>2, <2>1, <2>2
  <2> QED BY <1>1, <1>4, <1>9, <1>10, <2>1, <2>3
<1>12. CASE f = "loop"
  <2>1. fetch'["loop"].at = "idle" /\ fetch'["other"] = fetch["other"]
    BY <1>5, <1>12, UnaskedIs DEF Fetches
  <2>2. fetch'["other"].why = "event"
    BY <2>1 DEF ViewInv, LoopInv
  <2> QED BY <1>7, <1>8, <1>11, <2>1, <2>2 DEF ViewInv, LoopInv, AskedInv
<1>13. CASE f = "other" /\ d.why = "event"
  <2>1. fetch'["loop"] = fetch["loop"] /\ fetch'["other"].why = "event"
        /\ cursor' = cursor /\ stream' = stream
    BY <1>1, <1>5, <1>13, UnaskedIs DEF Fetches
  <2>2. LoopInv'
    BY <2>1 DEF ViewInv, LoopInv
  <2>3. AskedInv'
    BY <1>1, <1>9, <2>1 DEF ViewInv, AskedInv
  <2> QED BY <1>7, <1>8, <1>11, <2>2, <2>3 DEF ViewInv
<1> QED BY <1>3, <1>12, <1>13

LEMMA PrependSteps ==
  ASSUME ViewInv, AskOlder \/ Prepend
  PROVE  ViewInv'
<1>1. /\ DOMAIN view = {"shown", "entries", "run", "text", "older"}
      /\ view.shown \in BOOLEAN /\ view.older \in Nat
      /\ view.entries \in Seq(Entries) /\ ApartIds(view.entries)
      /\ messages \in Nat /\ unsaid \subseteq 1..messages /\ log \in Seq(Events)
      /\ turn \in [n : Nat, live : BOOLEAN, said : Nat] /\ cursor \in 0..Len(log)
      /\ page.at = "answer" => page.before \in Nat \ {0}
  BY DEF ViewInv, ViewTypes
<1>2. UNCHANGED <<messages, unsaid, log, turn, cursor, stream, fetch, base>>
  BY DEF AskOlder, Prepend, threadVars
<1>3. \A m : ToCome(m)' <=> ToCome(m)
  BY <1>2 DEF ToCome, Created
<1>4. FetchTypes' /\ LoopInv' /\ AskedInv'
  BY <1>2, <1>3 DEF ViewInv, FetchTypes, LoopInv, AskedInv
<1>5. CASE AskOlder
  <2>1. view' = view /\ page'.before = view.older /\ view.older # 0
    BY <1>5 DEF AskOlder
  <2>2. ViewTypes'
    BY <1>1, <1>2, <2>1 DEF ViewTypes
  <2>3. BaseInv'
    BY <1>2, <1>3, <2>1 DEF ViewInv, BaseInv
  <2> QED BY <1>4, <2>2, <2>3 DEF ViewInv
<1>6. CASE Prepend
  <2>1. page.at = "answer" /\ page'.at = "idle"
        /\ view' = [view EXCEPT !.entries = MergeById(PageOf(page.before - 1), @),
                                !.older = OlderOf(page.before - 1)]
    BY <1>6 DEF Prepend
  <2>2. PICK top : top = page.before - 1
    OBVIOUS
  <2>3. top \in Nat
    BY <1>1, <2>1, <2>2
  <2>4. PICK all : all = MergeById(PageOf(top), view.entries)
    OBVIOUS
  <2>5. PICK older : older = OlderOf(top)
    OBVIOUS
  <2>6. all \in Seq(Entries) /\ ApartIds(all) /\ Ids(view.entries) \subseteq Ids(all)
        /\ older \in Nat
    <3>1. /\ PageOf(top) \in Seq(Entries) /\ ApartIds(PageOf(top)) /\ First(top) \in Nat
      BY <2>3, PageIds
    <3>2. older \in Nat
      BY <2>5, <3>1 DEF OlderOf
    <3> QED BY <1>1, <2>4, <3>1, <3>2, MergeIds
  <2>7. view' = [view EXCEPT !.entries = all, !.older = older]
    BY <2>1, <2>2, <2>4, <2>5
  <2>8. /\ DOMAIN view' = {"shown", "entries", "run", "text", "older"}
        /\ view'.shown = view.shown /\ view'.older \in Nat /\ view'.entries = all
    BY <1>1, <2>6, <2>7
  <2>9. ViewTypes'
    BY <1>1, <1>2, <2>1, <2>6, <2>8 DEF ViewTypes
  <2>10. BaseInv'
    <3>1. \A m : m \in Ids(view.entries) => m \in Ids(view'.entries)
      BY <2>6, <2>8
    <3> QED BY <1>2, <1>3, <2>8, <3>1 DEF ViewInv, BaseInv
  <2> QED BY <1>4, <2>9, <2>10 DEF ViewInv
<1> QED BY <1>5, <1>6

(***************************************************************************)
(* An event of the stream takes nothing out of the view.                   *)
(***************************************************************************)
LEMMA ReducedFits ==
  ASSUME ViewTypes, NEW i \in 1..Len(log), NEW v, v = Reduced(log[i], i)
  PROVE  /\ DOMAIN v = {"shown", "entries", "run", "text", "older"}
         /\ v.shown = view.shown /\ v.older = view.older
         /\ v.entries \in Seq(Entries) /\ ApartIds(v.entries)
         /\ Ids(view.entries) \subseteq Ids(v.entries)
         /\ view.shown /\ log[i].kind = "message" => log[i].id \in Ids(v.entries)
<1>1. PICK e : e = log[i]
  OBVIOUS
<1>2. /\ DOMAIN view = {"shown", "entries", "run", "text", "older"}
      /\ view.entries \in Seq(Entries) /\ ApartIds(view.entries)
      /\ log \in Seq(Events)
  BY DEF ViewTypes
<1>7. e \in Events /\ i \in Nat
  BY <1>1, <1>2
<1>8. e.id \in Nat
  BY <1>7 DEF Events
<1>3. CASE ~view.shown
  BY <1>2, <1>3 DEF Reduced
<1>4. CASE view.shown /\ e.kind = "delta"
  <2>1. PICK text : v = [view EXCEPT !.run = e.run, !.text = text]
    BY <1>1, <1>4 DEF Reduced
  <2> QED BY <1>1, <1>2, <1>4, <2>1
<1>5. CASE view.shown /\ e.kind = "message"
  <2>1. PICK rest : rest = Without(view.entries, EntriesOf({e.id}))
    OBVIOUS
  <2>2. rest \in Seq(Entries) /\ ApartIds(rest) /\ Ids(rest) = Ids(view.entries) \ {e.id}
    BY <1>2, <2>1, WithoutIds
  <2>3. PICK one : one = <<Entry(e.id, i)>>
    OBVIOUS
  <2>4. one \in Seq(Entries) /\ ApartIds(one) /\ Ids(one) = {e.id}
    BY <1>7, <1>8, <2>3 DEF Entry, Entries, ApartIds, Ids
  <2>5. PICK all : all = rest \o one
    OBVIOUS
  <2>6. all \in Seq(Entries) /\ ApartIds(all) /\ Ids(all) = Ids(rest) \union {e.id}
    BY <2>2, <2>4, <2>5, JoinIds
  <2>7. Append(rest, Entry(e.id, i)) = all
    BY <2>2, <2>3, <2>5
  <2>8. v = [view EXCEPT !.text = <<>>, !.entries = all]
    BY <1>1, <1>5, <2>1, <2>7 DEF Reduced
  <2>9. /\ DOMAIN v = {"shown", "entries", "run", "text", "older"}
        /\ v.shown = view.shown /\ v.older = view.older /\ v.entries = all
    BY <1>2, <2>8
  <2> QED BY <1>1, <2>2, <2>6, <2>9
<1>6. CASE view.shown /\ e.kind \notin {"delta", "message"}
  <2>1. v = view
    BY <1>1, <1>6 DEF Reduced
  <2> QED BY <1>1, <1>2, <1>6, <2>1
<1> QED BY <1>3, <1>4, <1>5, <1>6

LEMMA ReceiveSteps ==
  ASSUME ViewInv, Receive
  PROVE  ViewInv'
<1>1. /\ stream = "on" /\ UNCHANGED <<messages, unsaid, log, turn, stream, page, base>>
  BY DEF Receive, threadVars
<1>2. PICK i \in 1..Len(log) :
        /\ i > cursor
        /\ \A j \in 1..(i - 1) : j > cursor => log[j].kind = "gone"
        /\ cursor' = i
        /\ view' = Reduced(log[i], i)
        /\ IF log[i].kind = "over" THEN AskThread("other", "event") ELSE UNCHANGED fetch
  BY DEF Receive
<1>3. PICK v : v = Reduced(log[i], i)
  OBVIOUS
<1>4. /\ DOMAIN v = {"shown", "entries", "run", "text", "older"}
      /\ v.shown = view.shown /\ v.older = view.older
      /\ v.entries \in Seq(Entries) /\ ApartIds(v.entries)
      /\ Ids(view.entries) \subseteq Ids(v.entries)
      /\ view.shown /\ log[i].kind = "message" => log[i].id \in Ids(v.entries)
  BY <1>3, ReducedFits DEF ViewInv
<1>5. view' = v
  BY <1>2, <1>3
<1>6. /\ view.shown \in BOOLEAN /\ view.older \in Nat
      /\ messages \in Nat /\ unsaid \subseteq 1..messages /\ log \in Seq(Events)
      /\ turn \in [n : Nat, live : BOOLEAN, said : Nat] /\ cursor \in Nat /\ Len(log) \in Nat
      /\ page.at = "answer" => page.before \in Nat \ {0}
      /\ DOMAIN fetch = Fetches
  BY DEF ViewInv, ViewTypes, FetchTypes
<1>7. ViewTypes'
  <2>1. cursor' \in 0..Len(log)
    BY <1>2, <1>6
  <2> QED BY <1>1, <1>4, <1>5, <1>6, <2>1 DEF ViewTypes
<1>8. fetch'["loop"] = fetch["loop"] /\ fetch'["other"].why = "event" /\ FetchTypes'
  <2>1. CASE log[i].kind = "over"
    <3>1. PICK c : /\ fetch' = [fetch EXCEPT !["other"] = c]
                   /\ DOMAIN c = {"at", "why", "todo", "top", "run", "last", "text"}
                   /\ c.at = "reading" /\ c.why = "event" /\ c.top = 0 /\ c.last = 0
                   /\ "page" \in c.todo
      BY <1>2, <2>1, AskIs
    <3>2. fetch'["loop"] = fetch["loop"] /\ fetch'["other"] = c /\ DOMAIN fetch' = Fetches
      BY <1>6, <3>1 DEF Fetches
    <3>3. c.top \in Nat /\ c.last \in 0..Len(log) /\ c.at # "answer"
      BY <1>6, <3>1
    <3> QED BY <1>1, <3>1, <3>2, <3>3 DEF ViewInv, FetchTypes, Fetches
  <2>2. CASE log[i].kind # "over"
    BY <1>1, <1>2, <2>2 DEF ViewInv, FetchTypes, LoopInv
  <2> QED BY <2>1, <2>2
<1>9. fetch["loop"].at = "idle"
  BY <1>1 DEF ViewInv, LoopInv
<1>10. LoopInv' /\ AskedInv'
  BY <1>8, <1>9 DEF LoopInv, AskedInv
<1>11. ASSUME NEW m, ToCome(m), view.shown PROVE m \in Ids(v.entries) \/ ToCome(m)'
  <2>1. PICK p \in 1..Len(log) : p > cursor /\ log[p] = Created(m)
    BY <1>11 DEF ToCome
  <2>2. log[p].kind = "message" /\ log[p].id = m
    BY <2>1 DEF Created
  <2>3. CASE p < i
    <3>1. p \in 1..(i - 1)
      BY <1>6, <2>3
    <3> QED BY <1>2, <2>1, <2>2, <3>1
  <2>4. CASE p = i
    BY <1>4, <1>11, <2>2, <2>4
  <2>5. CASE p > i
    BY <1>1, <1>2, <2>1, <2>5 DEF ToCome, Created
  <2> QED BY <1>6, <2>3, <2>4, <2>5
<1>12. BaseInv'
  BY <1>1, <1>4, <1>5, <1>11 DEF ViewInv, BaseInv
<1> QED BY <1>7, <1>8, <1>10, <1>12 DEF ViewInv

LEMMA LoseSteps ==
  ASSUME ViewInv, LoseStream
  PROVE  ViewInv'
<1>1. /\ stream = "on" /\ UNCHANGED <<messages, unsaid, log, turn, view, cursor, fetch, page, base>>
  BY DEF LoseStream, threadVars
<1>2. fetch["loop"].at = "idle"
  BY <1>1 DEF ViewInv, LoopInv
<1>3. \A m : ToCome(m)' <=> ToCome(m)
  BY <1>1 DEF ToCome, Created
<1> QED BY <1>1, <1>2, <1>3 DEF ViewInv, ViewTypes, FetchTypes, LoopInv, AskedInv, BaseInv

-----------------------------------------------------------------------------
LEMMA ViewStart == ViewInit => ViewInv
<1> SUFFICES ASSUME ViewInit PROVE ViewInv
  OBVIOUS
<1>1. ViewTypes
  <2>1. ApartIds(<<>>) /\ <<>> \in Seq(Entries) /\ <<>> \in Seq(Events) /\ Len(<<>>) = 0
    BY DEF ApartIds
  <2>2. view = NoView /\ log = <<>> /\ messages = 0 /\ unsaid = {} /\ cursor = 0
        /\ turn = [n |-> 0, live |-> FALSE, said |-> 0] /\ page = [at |-> "idle", before |-> 0]
    BY DEF ViewInit
  <2>3. /\ DOMAIN view = {"shown", "entries", "run", "text", "older"}
        /\ view.shown = FALSE /\ view.older = 0 /\ view.entries = <<>>
    BY <2>2 DEF NoView
  <2>4. /\ messages \in Nat /\ unsaid \subseteq 1..messages
        /\ turn \in [n : Nat, live : BOOLEAN, said : Nat]
        /\ cursor \in 0..Len(log) /\ ~(page.at = "answer")
    BY <2>1, <2>2
  <2> QED BY <2>1, <2>2, <2>3, <2>4 DEF ViewTypes
<1>2. \A f \in Fetches : fetch[f] = Unasked
  BY DEF ViewInit
<1>3. FetchTypes
  <2>1. Len(log) = 0
    BY DEF ViewInit
  <2>2. DOMAIN fetch = Fetches
    BY DEF ViewInit
  <2>3. /\ DOMAIN Unasked = {"at", "why", "todo", "top", "run", "last", "text"}
        /\ Unasked.top \in Nat /\ Unasked.last \in 0..Len(log) /\ Unasked.at # "answer"
    BY <2>1, UnaskedIs
  <2> QED BY <1>2, <2>2, <2>3 DEF FetchTypes
<1>4. fetch["loop"].at = "idle" /\ fetch["other"].why = "event"
  BY <1>2, UnaskedIs DEF Fetches
<1>5. base.why # "reconnect"
  BY DEF ViewInit
<1> QED BY <1>1, <1>3, <1>4, <1>5 DEF ViewInv, LoopInv, AskedInv, BaseInv

LEMMA ViewKept == ViewInv /\ [ViewNext]_viewVars => ViewInv'
<1> SUFFICES ASSUME ViewInv, [ViewNext]_viewVars PROVE ViewInv'
  OBVIOUS
<1>1. CASE ThreadStep
  BY <1>1, ThreadSteps
<1>2. CASE ClientStep
  <2>1. CASE AskFirst \/ AskAgain \/ \E f \in Fetches : FailFetch(f)
    BY <2>1, AskSteps
  <2>2. CASE \E f \in Fetches : ReadPage(f) \/ ReadRun(f) \/ ReadLast(f) \/ ReadLive(f)
    BY <2>2, ReadSteps
  <2>3. CASE \E f \in Fetches : Apply(f)
    BY <2>3, ApplySteps
  <2>4. CASE AskOlder \/ Prepend
    BY <2>4, PrependSteps
  <2>5. CASE Receive
    BY <2>5, ReceiveSteps
  <2>6. CASE LoseStream
    BY <2>6, LoseSteps
  <2> QED BY <1>2, <2>1, <2>2, <2>3, <2>4, <2>5, <2>6 DEF ClientStep
<1>3. CASE UNCHANGED viewVars
  <2>1. UNCHANGED <<messages, unsaid, log, turn, view, cursor, stream, fetch, page, base>>
    BY <1>3 DEF viewVars, threadVars, clientVars
  <2>2. \A m : ToCome(m)' <=> ToCome(m)
    BY <2>1 DEF ToCome, Created
  <2> QED BY <2>1, <2>2 DEF ViewInv, ViewTypes, FetchTypes, LoopInv, AskedInv, BaseInv
<1> QED BY <1>1, <1>2, <1>3 DEF ViewNext

LEMMA ViewSaysAll == ViewInv => NothingLost
<1> SUFFICES ASSUME ViewInv, CaughtUp, base.why = "reconnect"
             PROVE  /\ (base.from..messages) \ unsaid \subseteq Ids(view.entries)
                    /\ Cardinality(Ids(view.entries)) = Len(view.entries)
  BY DEF NothingLost
<1>1. ASSUME NEW m PROVE ~ToCome(m)
  BY DEF ToCome, CaughtUp, Created
<1>2. \A m \in (base.from..messages) \ unsaid : m \in Ids(view.entries)
  BY <1>1 DEF ViewInv, BaseInv
<1>3. Cardinality(Ids(view.entries)) = Len(view.entries)
  BY ApartCounts DEF ViewInv, ViewTypes
<1> QED BY <1>2, <1>3

-----------------------------------------------------------------------------
(* ShellView: the panel edits what is of the bot that is shown. *)

\* A request that ends with the list is none that an editor or an overlay waits for.
ListKinds ==
  \A f \in FlightSlots : flight[f].at = "list" => flight[f].kind \in {"list", "create", "delete"}

ScreenInv == ShellTypeOK /\ ListKinds /\ EditsOwn /\ BusyForAReason

FlightTypes ==
  [FlightSlots -> [kind : Kinds, at : {"none", "list", "request", "get"}, bot : {NoOne} \union Bots]]

LEMMA ShellStart == ShellInit => ScreenInv
<1> SUFFICES ASSUME ShellInit PROVE ScreenInv
  OBVIOUS
<1>1. NoFlight \in [kind : Kinds, at : {"none", "list", "request", "get"}, bot : {NoOne} \union Bots]
      /\ NoFlight.at = "none"
  BY DEF NoFlight, Kinds
<1>2. 1..2 \intersect Bots \subseteq Bots /\ opened \in {NoOne} \union Bots
  BY ShellConstants DEF ShellInit, Bots, NoOne
<1>3. ShellTypeOK
  <2>1. flight \in FlightTypes
    BY <1>1 DEF ShellInit, FlightTypes
  <2>2. {route, opened, edited, doomed, heldOf} \subseteq {NoOne} \union Bots
    BY <1>2 DEF ShellInit
  <2>3. events \in 0..MaxShellEvents
    BY ShellConstants DEF ShellInit
  <2>4. {full, booting, saving} \subseteq BOOLEAN
    BY DEF ShellInit
  <2> QED BY <1>2, <2>1, <2>2, <2>3, <2>4 DEF ShellInit, ShellTypeOK, FlightTypes
<1>4. ListKinds
  BY <1>1 DEF ShellInit, ListKinds
<1>5. EditsOwn /\ BusyForAReason
  BY DEF ShellInit, EditsOwn, BusyForAReason
<1> QED BY <1>3, <1>4, <1>5 DEF ScreenInv

LEMMA MinOf ==
  ASSUME NEW S \in SUBSET Nat, S # {}
  PROVE  Min(S) \in S
<1>1. \E x \in S : \A y \in S : x <= y
  BY LeastNat
<1> QED BY <1>1 DEF Min

LEMMA ShownTyped == ShellTypeOK => Shown \in {NoOne} \union Bots
<1> SUFFICES ASSUME ShellTypeOK PROVE Shown \in {NoOne} \union Bots
  OBVIOUS
<1>1. listed \in SUBSET Nat /\ listed \subseteq Bots
  BY ShellConstants DEF ShellTypeOK, Bots
<1>2. listed # {} => Min(listed) \in Bots
  BY <1>1, MinOf
<1> QED BY <1>1, <1>2 DEF Shown

\* Whoever goes to another bot leaves what was of the one before.
LEMMA LeavesOwn ==
  ASSUME EditsOwn, Leaves(listed', route')
  PROVE  EditsOwn'
<1>1. Shown' = IF route' \in listed' THEN route' ELSE IF listed' = {} THEN NoOne ELSE Min(listed')
  BY DEF Shown
<1>2. CASE Shown' = Shown
  BY <1>1, <1>2 DEF Leaves, EditsOwn, Side
<1>3. CASE Shown' # Shown
  BY <1>1, <1>3 DEF Leaves, EditsOwn
<1> QED BY <1>2, <1>3

LEMMA EditsStayOwn == ScreenInv /\ [ShellNext]_shellVars => EditsOwn'
<1> SUFFICES ASSUME EditsOwn, [ShellNext]_shellVars PROVE EditsOwn'
  BY DEF ScreenInv
<1>1. ASSUME UNCHANGED <<listed, route>>, {edited', doomed'} \subseteq {NoOne, edited, doomed, Shown}
      PROVE  EditsOwn'
  <2>1. Shown' = Shown
    BY <1>1 DEF Shown
  <2> QED BY <1>1, <2>1 DEF EditsOwn
<1>2. CASE UNCHANGED shellVars
  BY <1>1, <1>2 DEF shellVars
<1>3. CASE AskList \/ RefreshThread \/ Ask \/ OpenPanel \/ CloseFull \/ AutoBoot \/ OpenComputer
           \/ AskDelete \/ SaveRoutine \/ RemoveRoutine \/ CreateBot \/ DeleteBot \/ Elsewhere
  BY <1>1, <1>3 DEF AskList, RefreshThread, Ask, OpenPanel, CloseFull, AutoBoot, OpenComputer, Boot,
     AskDelete, SaveRoutine, RemoveRoutine, CreateBot, DeleteBot, Elsewhere, Place, Side
<1>4. CASE EditRoutine
  <2>1. doomed' = NoOne /\ edited' \in {NoOne, Shown} /\ UNCHANGED <<listed, route>>
    BY <1>4 DEF EditRoutine, Place
  <2> QED BY <1>1, <2>1
<1>5. CASE SelectBot
  <2>1. listed' = listed /\ Leaves(listed, route')
    BY <1>5 DEF SelectBot
  <2> QED BY <2>1, LeavesOwn
<1>6. ASSUME NEW f \in FlightSlots, TakeList(f) PROVE EditsOwn'
  <2>1. CASE flight[f].kind = "create"
    BY <1>6, <2>1 DEF TakeList, EditsOwn
  <2>2. CASE flight[f].kind # "create"
    <3>1. listed' = exists /\ Leaves(exists, route')
      BY <1>6, <2>2 DEF TakeList
    <3> QED BY <3>1, LeavesOwn
  <2> QED BY <2>1, <2>2
<1>7. ASSUME NEW f \in FlightSlots, TakeThread(f) \/ Answered(f) \/ Broken(f) PROVE EditsOwn'
  BY <1>1, <1>7 DEF TakeThread, AfterRefresh, Answered, Broken, Place, Side
<1> QED BY <1>2, <1>3, <1>4, <1>5, <1>6, <1>7 DEF ShellNext

\* Slots that hold a request of these kinds.
Under(kinds) == \E f \in FlightSlots : flight[f].kind \in kinds

LEMMA StartsUnder ==
  ASSUME ShellTypeOK, ListKinds, NEW kind \in Kinds \ {"none"}, NEW where \in {"list", "request", "get"},
         NEW bot \in {NoOne} \union Bots,
         Starts(kind, where, bot), where = "list" => kind = "list"
  PROVE  /\ flight' \in FlightTypes /\ ListKinds'
         /\ \A kinds : Under(kinds) /\ "none" \notin kinds => Under(kinds)'
         /\ \A kinds : kind \in kinds => Under(kinds)'
<1>1. PICK f \in FlightSlots :
        /\ flight[f] = NoFlight
        /\ flight' = [flight EXCEPT ![f] = [kind |-> kind, at |-> where, bot |-> bot]]
  BY DEF Starts
<1>2. flight \in FlightTypes
  BY DEF ShellTypeOK, FlightTypes
<1>3. /\ flight' \in FlightTypes
      /\ flight'[f].kind = kind /\ flight'[f].at = where
      /\ \A g \in FlightSlots \ {f} : flight'[g] = flight[g]
  BY <1>1, <1>2 DEF FlightTypes
<1>4. ListKinds'
  BY <1>3 DEF ListKinds
<1>5. flight[f].kind = "none"
  BY <1>1 DEF NoFlight
<1> QED BY <1>3, <1>4, <1>5 DEF Under

LEMMA LandsUnder ==
  ASSUME ShellTypeOK, ListKinds, NEW f \in FlightSlots, Lands(f)
  PROVE  /\ flight' \in FlightTypes /\ ListKinds'
         /\ \A kinds : Under(kinds) /\ flight[f].kind \notin kinds => Under(kinds)'
<1>1. flight \in FlightTypes /\ flight' = [flight EXCEPT ![f] = NoFlight]
  BY DEF ShellTypeOK, FlightTypes, Lands
<1>2. NoFlight \in [kind : Kinds, at : {"none", "list", "request", "get"}, bot : {NoOne} \union Bots]
      /\ NoFlight.at = "none"
  BY DEF NoFlight, Kinds
<1>3. /\ flight' \in FlightTypes /\ flight'[f] = NoFlight
      /\ \A g \in FlightSlots \ {f} : flight'[g] = flight[g]
  BY <1>1, <1>2 DEF FlightTypes
<1> QED BY <1>2, <1>3 DEF ListKinds, Under

\* A request that goes on stays what it is.
LEMMA GoesUnder ==
  ASSUME ShellTypeOK, ListKinds, NEW f \in FlightSlots, NEW where \in {"list", "request", "get"},
         NEW bot \in {NoOne} \union Bots,
         flight' = [flight EXCEPT ![f].at = where] \/ flight' = [flight EXCEPT ![f].at = where, ![f].bot = bot],
         where = "list" => flight[f].kind \in {"list", "create", "delete"}
  PROVE  /\ flight' \in FlightTypes /\ ListKinds'
         /\ \A kinds : Under(kinds) => Under(kinds)'
<1>1. flight \in FlightTypes
  BY DEF ShellTypeOK, FlightTypes
<1>2. /\ flight' \in FlightTypes /\ flight'[f].kind = flight[f].kind /\ flight'[f].at = where
      /\ \A g \in FlightSlots \ {f} : flight'[g] = flight[g]
  BY <1>1 DEF FlightTypes
<1> QED BY <1>2 DEF ListKinds, Under


BootKinds == {"boot", "open"}

\* Requests that start while the page is as busy as it was, or is busy with them.
LEMMA StartingKeeps ==
  ASSUME ScreenInv, NEW kind \in Kinds \ {"none"}, NEW where \in {"list", "request", "get"},
         NEW bot \in {NoOne} \union Bots, Starts(kind, where, bot), where = "list" => kind = "list",
         saving' => saving \/ kind = "save",
         booting' => booting \/ kind \in BootKinds
  PROVE  flight' \in FlightTypes /\ ListKinds' /\ BusyForAReason'
<1>1. /\ flight' \in FlightTypes /\ ListKinds'
      /\ \A kinds : Under(kinds) /\ "none" \notin kinds => Under(kinds)'
      /\ \A kinds : kind \in kinds => Under(kinds)'
  BY StartsUnder DEF ScreenInv
<1>2. (saving => Under({"save"})) /\ (booting => Under(BootKinds))
  BY DEF ScreenInv, BusyForAReason, Under, BootKinds
<1>3. (saving' => Under({"save"})') /\ (booting' => Under(BootKinds)')
  BY <1>1, <1>2 DEF BootKinds
<1> QED BY <1>1, <1>3 DEF BusyForAReason, Under, BootKinds

\* The button and the overlay do not outlast the request that they wait for.
LEMMA LandingKeeps ==
  ASSUME ScreenInv, NEW f \in FlightSlots, Lands(f),
         saving' => saving /\ flight[f].kind # "save",
         booting' => booting /\ flight[f].kind \notin BootKinds
  PROVE  flight' \in FlightTypes /\ ListKinds' /\ BusyForAReason'
<1>1. /\ flight' \in FlightTypes /\ ListKinds'
      /\ \A kinds : Under(kinds) /\ flight[f].kind \notin kinds => Under(kinds)'
  BY LandsUnder DEF ScreenInv
<1>2. (saving => Under({"save"})) /\ (booting => Under(BootKinds))
  BY DEF ScreenInv, BusyForAReason, Under, BootKinds
<1>3. (saving' => Under({"save"})') /\ (booting' => Under(BootKinds)')
  BY <1>1, <1>2
<1> QED BY <1>1, <1>3 DEF BusyForAReason, Under, BootKinds

LEMMA GoingKeeps ==
  ASSUME ScreenInv, NEW f \in FlightSlots, NEW where \in {"list", "request", "get"},
         NEW bot \in {NoOne} \union Bots,
         flight' = [flight EXCEPT ![f].at = where] \/ flight' = [flight EXCEPT ![f].at = where, ![f].bot = bot],
         where = "list" => flight[f].kind \in {"list", "create", "delete"},
         UNCHANGED <<saving, booting>>
  PROVE  flight' \in FlightTypes /\ ListKinds' /\ BusyForAReason'
<1>1. /\ flight' \in FlightTypes /\ ListKinds'
      /\ \A kinds : Under(kinds) => Under(kinds)'
  BY GoesUnder DEF ScreenInv
<1>2. (saving => Under({"save"})) /\ (booting => Under(BootKinds))
  BY DEF ScreenInv, BusyForAReason, Under, BootKinds
<1>3. (saving' => Under({"save"})') /\ (booting' => Under(BootKinds)')
  BY <1>1, <1>2
<1> QED BY <1>1, <1>3 DEF BusyForAReason, Under, BootKinds

\* The requests and what waits for them.
LEMMA FlightsKept ==
  ASSUME ScreenInv, [ShellNext]_shellVars
  PROVE  flight' \in FlightTypes /\ ListKinds' /\ BusyForAReason'
<1>1. /\ ShellTypeOK /\ Shown \in {NoOne} \union Bots
      /\ {opened, route} \subseteq {NoOne} \union Bots
      /\ {"list", "act", "boot", "open", "save", "remove", "create", "delete"} \subseteq Kinds \ {"none"}
  BY ShownTyped DEF ScreenInv, ShellTypeOK, Kinds
<1>2. ASSUME UNCHANGED <<flight, booting, saving>>
      PROVE  flight' \in FlightTypes /\ ListKinds' /\ BusyForAReason'
  BY <1>2 DEF ScreenInv, ShellTypeOK, FlightTypes, ListKinds, BusyForAReason
<1>3. CASE UNCHANGED shellVars \/ SelectBot \/ OpenPanel \/ CloseFull \/ EditRoutine \/ AskDelete \/ Elsewhere
  BY <1>2, <1>3 DEF shellVars, SelectBot, OpenPanel, CloseFull, EditRoutine, AskDelete, Elsewhere, Busy
<1>4. CASE AskList
  <2>1. PICK address \in {opened, route} : Starts("list", "list", address)
    BY <1>4 DEF AskList
  <2>2. UNCHANGED <<booting, saving>>
    BY <1>4 DEF AskList, Busy
  <2> QED BY <1>1, <2>1, <2>2, StartingKeeps
<1>5. CASE RefreshThread
  BY <1>1, <1>5, StartingKeeps DEF RefreshThread, Busy
<1>6. CASE Ask
  <2>1. Starts("act", "request", Shown) /\ UNCHANGED <<booting, saving>>
    BY <1>6 DEF Ask, Busy
  <2> QED BY <1>1, <2>1, StartingKeeps
<1>7. ASSUME NEW kind \in BootKinds, Boot(kind)
      PROVE  flight' \in FlightTypes /\ ListKinds' /\ BusyForAReason'
  <2>1. PICK where \in {"request", "get"} : Starts(kind, where, Shown)
    BY <1>7 DEF Boot
  <2>2. saving' = saving
    BY <1>7 DEF Boot
  <2> QED BY <1>1, <1>7, <2>1, <2>2, StartingKeeps DEF BootKinds
<1>8. CASE SaveRoutine
  BY <1>1, <1>8, StartingKeeps DEF SaveRoutine
<1>9. CASE RemoveRoutine \/ CreateBot \/ DeleteBot
  <2>1. UNCHANGED <<booting, saving>>
    BY <1>9 DEF RemoveRoutine, CreateBot, DeleteBot, Busy
  <2>2. CASE RemoveRoutine
    BY <1>1, <2>1, <2>2, StartingKeeps DEF RemoveRoutine
  <2>3. CASE CreateBot
    BY <1>1, <2>1, <2>3, StartingKeeps DEF CreateBot
  <2>4. CASE DeleteBot
    BY <1>1, <2>1, <2>4, StartingKeeps DEF DeleteBot
  <2> QED BY <1>9, <2>2, <2>3, <2>4
<1>10. ASSUME NEW f \in FlightSlots, TakeList(f)
       PROVE  flight' \in FlightTypes /\ ListKinds' /\ BusyForAReason'
  <2>1. Lands(f) /\ UNCHANGED <<booting, saving>> /\ flight[f].kind \in {"list", "create", "delete"}
    BY <1>10 DEF TakeList, Busy, ScreenInv, ListKinds
  <2> QED BY <2>1, LandingKeeps DEF BootKinds
<1>11. ASSUME NEW f \in FlightSlots, TakeThread(f) \/ Broken(f)
       PROVE  flight' \in FlightTypes /\ ListKinds' /\ BusyForAReason'
  <2>1. /\ Lands(f)
        /\ saving' => saving /\ flight[f].kind # "save"
        /\ booting' => booting /\ flight[f].kind \notin BootKinds
    BY <1>11 DEF TakeThread, Broken, AfterRefresh, BootKinds
  <2> QED BY <2>1, LandingKeeps
<1>12. ASSUME NEW f \in FlightSlots, Answered(f)
       PROVE  flight' \in FlightTypes /\ ListKinds' /\ BusyForAReason'
  <2>1. CASE flight[f].kind \in {"act", "boot", "open"}
    BY <1>12, <2>1, GoingKeeps DEF Answered, Goes, Busy
  <2>2. CASE flight[f].kind \in {"save", "remove"} /\ flight[f].bot = Shown
    BY <1>12, <2>2, GoingKeeps DEF Answered, Goes, Busy
  <2>3. CASE flight[f].kind \in {"save", "remove"} /\ flight[f].bot # Shown
    <3>1. /\ Lands(f) /\ booting' = booting
          /\ saving' = IF flight[f].kind = "save" THEN FALSE ELSE saving
      BY <1>12, <2>3 DEF Answered
    <3>2. flight[f].kind \notin BootKinds /\ (saving' => saving /\ flight[f].kind # "save")
      BY <2>3, <3>1 DEF BootKinds
    <3> QED BY <3>1, <3>2, LandingKeeps
  <2>4. CASE flight[f].kind = "create"
    <3>1. PICK new \in Bots : flight' = [flight EXCEPT ![f].at = "list", ![f].bot = new]
      BY <1>12, <2>4 DEF Answered
    <3>2. UNCHANGED <<booting, saving>>
      BY <1>12, <2>4 DEF Answered, Busy
    <3> QED BY <2>4, <3>1, <3>2, GoingKeeps
  <2>5. CASE flight[f].kind = "delete"
    BY <1>12, <2>5, GoingKeeps DEF Answered, Goes, Busy
  <2> QED BY <1>12, <2>1, <2>2, <2>3, <2>4, <2>5 DEF Answered
<1>13. CASE AutoBoot \/ OpenComputer
  BY <1>7, <1>13 DEF AutoBoot, OpenComputer, BootKinds
<1> QED BY <1>3, <1>4, <1>5, <1>6, <1>8, <1>9, <1>10, <1>11, <1>12, <1>13 DEF ShellNext

LEMMA ShellTyped ==
  ASSUME ScreenInv, [ShellNext]_shellVars
  PROVE  ShellTypeOK'
<1>1. flight' \in FlightTypes /\ Shown \in {NoOne} \union Bots /\ ShellTypeOK
  BY FlightsKept, ShownTyped DEF ScreenInv
<1>2. \A f \in FlightSlots : flight[f].bot \in {NoOne} \union Bots
  BY <1>1 DEF ShellTypeOK
<1>3. exists # {} => Min(exists) \in Bots
  <2>1. exists \in SUBSET Nat /\ exists \subseteq Bots
    BY <1>1, ShellConstants DEF ShellTypeOK, Bots
  <2> QED BY <2>1, MinOf
<1>4. /\ exists' \subseteq Bots /\ listed' \subseteq Bots
      /\ opened' = opened /\ heldOf' \in {NoOne} \union Bots
  BY <1>1 DEF ShellTypeOK, ShellNext, shellVars, AskList, SelectBot, RefreshThread, Ask, OpenPanel,
     CloseFull, AutoBoot, OpenComputer, Boot, EditRoutine, AskDelete, SaveRoutine, RemoveRoutine,
     CreateBot, DeleteBot, Elsewhere, TakeList, TakeThread, Answered, Broken, ServerSame, Place
<1>5. route' \in {NoOne} \union Bots
  BY <1>1, <1>2, <1>3 DEF ShellTypeOK, ShellNext, shellVars, AskList, SelectBot, RefreshThread, Ask, OpenPanel,
     CloseFull, AutoBoot, OpenComputer, Boot, EditRoutine, AskDelete, SaveRoutine, RemoveRoutine,
     CreateBot, DeleteBot, Elsewhere, TakeList, TakeThread, Answered, Broken, ServerSame, Place
<1>6. {edited', doomed'} \subseteq {NoOne} \union Bots
  BY <1>1 DEF ShellTypeOK, ShellNext, shellVars, AskList, SelectBot, RefreshThread, Ask, OpenPanel,
     CloseFull, AutoBoot, OpenComputer, Boot, EditRoutine, AskDelete, SaveRoutine, RemoveRoutine,
     CreateBot, DeleteBot, Elsewhere, TakeList, TakeThread, AfterRefresh, Answered, Broken, Side, Leaves
<1>7. panel' \in {"none", "computer", "settings", "routine", "create"} /\ full' \in BOOLEAN
  BY <1>1 DEF ShellTypeOK, ShellNext, shellVars, AskList, SelectBot, RefreshThread, Ask, OpenPanel,
     CloseFull, AutoBoot, OpenComputer, Boot, EditRoutine, AskDelete, SaveRoutine, RemoveRoutine,
     CreateBot, DeleteBot, Elsewhere, TakeList, TakeThread, AfterRefresh, Answered, Broken, Side, Leaves
<1>8. {booting', saving'} \subseteq BOOLEAN
  BY <1>1 DEF ShellTypeOK, ShellNext, shellVars, AskList, SelectBot, RefreshThread, Ask, OpenPanel,
     CloseFull, AutoBoot, OpenComputer, Boot, EditRoutine, AskDelete, SaveRoutine, RemoveRoutine,
     CreateBot, DeleteBot, Elsewhere, TakeList, TakeThread, AfterRefresh, Answered, Broken, Busy
<1>9. events' \in 0..MaxShellEvents
  <2>1. events' = events \/ (events < MaxShellEvents /\ events' = events + 1)
    BY DEF ShellNext, shellVars, AskList, SelectBot, RefreshThread, Ask, OpenPanel,
       CloseFull, AutoBoot, OpenComputer, Boot, EditRoutine, AskDelete, SaveRoutine, RemoveRoutine,
       CreateBot, DeleteBot, Elsewhere, TakeList, TakeThread, Answered, Broken, ServerSame
  <2>2. events \in 0..MaxShellEvents /\ MaxShellEvents \in Nat
    BY <1>1, ShellConstants DEF ShellTypeOK
  <2> QED BY <2>1, <2>2
<1> QED BY <1>1, <1>4, <1>5, <1>6, <1>7, <1>8, <1>9 DEF ShellTypeOK, FlightTypes

LEMMA ScreenKept == ScreenInv /\ [ShellNext]_shellVars => ScreenInv'
BY FlightsKept, ShellTyped, EditsStayOwn DEF ScreenInv

-----------------------------------------------------------------------------
(* MobileApp: sessions of the phone, and the overlay of its boots. *)

\* Ids of sessions are given once: the one that a sign-in brings is neither held,
\* nor being ended, nor ended.
SessionsInv ==
  /\ token.id <= sessions /\ leaving <= sessions
  /\ signedOut \subseteq 1..sessions
  /\ signIn.at = "answered" =>
       /\ signIn.token.id \in 1..sessions
       /\ signIn.token.id \notin signedOut
       /\ signIn.token.id # leaving /\ signIn.token.id # token.id

PhoneInv == MobileTypeOK /\ SessionsInv /\ StaysSignedOut /\ OverlayGoes

LEMMA NoTokenType == NoToken \in Tokens /\ NoToken.id = 0
BY MobileConstants DEF NoToken, Tokens

LEMMA NotSigningInType ==
  NotSigningIn \in [at : {"idle", "asked", "answered"}, token : Tokens] /\ NotSigningIn.at = "idle"
BY NoTokenType DEF NotSigningIn

LEMMA NoSheetType ==
  NoSheet \in [at : {"idle", "probe", "clear"}, server : Servers, previous : Servers]
BY MobileConstants DEF NoSheet

LEMMA MobileStart == MobileInit => PhoneInv
<1> SUFFICES ASSUME MobileInit PROVE PhoneInv
  OBVIOUS
<1>1. /\ endpoint \in Servers /\ apiBase \in Servers /\ token \in Tokens /\ token.id = 0
      /\ sessions = 0 /\ leaving = -1 /\ signedOut = {} /\ signIn.at = "idle" /\ covered = FALSE
  BY NoTokenType, NotSigningInType, MobileConstants DEF MobileInit, Staying
<1>2. /\ signIn \in [at : {"idle", "asked", "answered"}, token : Tokens]
      /\ sheet \in [at : {"idle", "probe", "clear"}, server : Servers, previous : Servers]
  BY NotSigningInType, NoSheetType DEF MobileInit
<1>3. MobileTypeOK
  <2>1. /\ sessions \in 0..MaxSignIns /\ signedOut \subseteq 1..MaxSignIns
        /\ leaving \in Staying..MaxSignIns
        /\ serverChanges \in 0..MaxServerChanges /\ mobileTroubles \in 0..MaxMobileTroubles
    BY <1>1, MobileConstants DEF MobileInit, Staying
  <2>2. /\ boots \in [Boots -> {"idle", "bare", "overlay"}]
        /\ autoBooted \in BOOLEAN /\ covered \in BOOLEAN
        /\ screen = "loading" /\ computerState = "unknown"
    BY DEF MobileInit
  <2> QED BY <1>1, <1>2, <2>1, <2>2 DEF MobileTypeOK
<1>4. SessionsInv /\ StaysSignedOut /\ OverlayGoes
  BY <1>1 DEF SessionsInv, StaysSignedOut, OverlayGoes
<1> QED BY <1>3, <1>4 DEF PhoneInv

\* The steps that touch a session, the server, or the computer's screen.
AccountStep == Submit \/ SignInAnswered \/ SaveToken \/ SignOut \/ ClearSession \/ DeletionRefused
ServerStep == LoadApiBase \/ Mount \/ SaveServer \/ StoreServer \/ ProbeFails \/ ClearForServer
ScreenStep ==
  \/ OpenScreen \/ LeaveScreen \/ ComputerRefresh
  \/ \E b \in Boots : BootUnasked(b) \/ OpenOnPhone(b) \/ BootEnds(b)

LEMMA AccountStepKeeps == PhoneInv /\ AccountStep => PhoneInv'
<1> SUFFICES ASSUME PhoneInv, AccountStep PROVE PhoneInv'
  OBVIOUS
<1>1. /\ MobileTypeOK /\ SessionsInv /\ StaysSignedOut /\ OverlayGoes
      /\ sessions \in Nat /\ sessions <= MaxSignIns /\ MaxSignIns \in Nat
      /\ token.id \in Nat /\ leaving \in Int /\ token \in Tokens
      /\ signIn.token \in Tokens /\ signIn.token.id \in Nat
  BY MobileConstants DEF PhoneInv, MobileTypeOK, Tokens, Staying
<1>2. /\ UNCHANGED <<endpoint, apiBase, sheet, serverChanges, mobileTroubles, computerState, autoBooted,
                     boots, covered>>
  BY DEF AccountStep, Submit, SignInAnswered, SaveToken, SignOut, ClearSession, DeletionRefused,
     ComputerScreen
<1>3. OverlayGoes'
  BY <1>1, <1>2 DEF OverlayGoes
<1>4. ASSUME token' \in Tokens, sessions' \in 0..MaxSignIns, leaving' \in Staying..MaxSignIns,
             signedOut' \subseteq 1..MaxSignIns,
             signIn' \in [at : {"idle", "asked", "answered"}, token : Tokens],
             screen' \in {"loading", "mounting", "sign-in", "home", "computer"}
      PROVE  MobileTypeOK'
  BY <1>1, <1>2, <1>4 DEF MobileTypeOK
<1>5. CASE Submit
  <2>1. /\ signIn' \in [at : {"idle", "asked", "answered"}, token : Tokens] /\ signIn'.at = "asked"
    BY <1>1, <1>5 DEF Submit, Tokens, MobileTypeOK
  <2>2. UNCHANGED <<token, sessions, leaving, signedOut, screen>>
    BY <1>5 DEF Submit
  <2>3. MobileTypeOK'
    BY <1>1, <1>4, <2>1, <2>2 DEF MobileTypeOK
  <2> QED BY <1>1, <1>3, <2>1, <2>2, <2>3 DEF PhoneInv, SessionsInv, StaysSignedOut
<1>6. CASE SignInAnswered
  <2>1. UNCHANGED <<token, leaving, signedOut, screen>>
    BY <1>6 DEF SignInAnswered
  <2>2. CASE signIn' = NotSigningIn /\ UNCHANGED sessions
    <3>1. MobileTypeOK' /\ signIn'.at = "idle"
      BY <1>1, <1>4, <2>1, <2>2, NotSigningInType DEF MobileTypeOK
    <3> QED BY <1>1, <1>3, <2>1, <2>2, <3>1 DEF PhoneInv, SessionsInv, StaysSignedOut
  <2>3. CASE sessions < MaxSignIns /\ sessions' = sessions + 1
             /\ signIn' = [at |-> "answered", token |-> [signIn.token EXCEPT !.id = sessions + 1]]
    <3>1. PICK k : k = [signIn.token EXCEPT !.id = sessions + 1]
      OBVIOUS
    <3>2. k \in Tokens /\ k.id = sessions + 1 /\ sessions + 1 \in 0..MaxSignIns
      BY <1>1, <2>3, <3>1 DEF Tokens
    <3>3. signIn' \in [at : {"idle", "asked", "answered"}, token : Tokens]
          /\ signIn'.token.id = sessions + 1
      BY <2>3, <3>1, <3>2
    <3>4. MobileTypeOK'
      BY <1>1, <1>4, <2>1, <2>3, <3>2, <3>3 DEF MobileTypeOK
    <3>5. SessionsInv'
      BY <1>1, <2>1, <2>3, <3>3 DEF SessionsInv
    <3> QED BY <1>1, <1>3, <2>1, <3>4, <3>5 DEF PhoneInv, StaysSignedOut
  <2> QED BY <1>6, <2>2, <2>3 DEF SignInAnswered
<1>7. CASE SaveToken
  <2>1. /\ token' = signIn.token /\ signIn.at = "answered" /\ signIn' = NotSigningIn
        /\ screen' = "mounting" /\ UNCHANGED <<sessions, leaving, signedOut>>
    BY <1>7 DEF SaveToken
  <2>2. MobileTypeOK' /\ signIn'.at = "idle"
    BY <1>1, <1>4, <2>1, NotSigningInType DEF MobileTypeOK
  <2> QED BY <1>1, <1>3, <2>1, <2>2 DEF PhoneInv, SessionsInv, StaysSignedOut
<1>8. CASE SignOut
  <2>1. leaving' = token.id /\ UNCHANGED <<sessions, token, signIn, screen, signedOut>>
    BY <1>8 DEF SignOut
  <2>2. token.id \in Staying..MaxSignIns
    BY <1>1 DEF Tokens, Staying, MobileTypeOK
  <2>3. MobileTypeOK'
    BY <1>1, <1>4, <2>1, <2>2 DEF MobileTypeOK
  <2> QED BY <1>1, <1>3, <2>1, <2>3 DEF PhoneInv, SessionsInv, StaysSignedOut
<1>9. CASE ClearSession
  <2>1. /\ token' = NoToken /\ signedOut' = signedOut \union ({leaving} \ {0}) /\ leaving' = Staying
        /\ leaving # Staying /\ screen' = "mounting" /\ UNCHANGED <<sessions, signIn>>
    BY <1>9 DEF ClearSession
  <2>2. leaving \in 0..MaxSignIns /\ leaving <= sessions /\ Staying = -1
    BY <1>1, <2>1 DEF MobileTypeOK, Staying, SessionsInv
  <2>3. signedOut' \subseteq 1..sessions /\ 1..sessions \subseteq 1..MaxSignIns
    <3>1. \A x \in signedOut : x \in 1..sessions
      BY <1>1 DEF SessionsInv
    <3>2. leaving # 0 => leaving \in 1..sessions
      BY <1>1, <2>2
    <3>3. \A x \in signedOut' : x \in 1..sessions
      BY <2>1, <3>1, <3>2
    <3> QED BY <1>1, <3>3
  <2>4. MobileTypeOK'
    BY <1>1, <1>4, <2>1, <2>2, <2>3, NoTokenType DEF MobileTypeOK
  <2>5. token'.id = 0
    BY <2>1, NoTokenType
  <2>6. SessionsInv'
    BY <1>1, <2>1, <2>2, <2>3, <2>5 DEF SessionsInv
  <2> QED BY <1>3, <2>3, <2>4, <2>5, <2>6 DEF PhoneInv, StaysSignedOut
<1>10. CASE DeletionRefused
  <2>1. leaving' = Staying /\ UNCHANGED <<sessions, token, signIn, screen, signedOut>> /\ Staying = -1
    BY <1>10 DEF DeletionRefused, Staying
  <2>2. MobileTypeOK'
    BY <1>1, <1>4, <2>1 DEF MobileTypeOK
  <2> QED BY <1>1, <1>3, <2>1, <2>2 DEF PhoneInv, SessionsInv, StaysSignedOut
<1> QED BY <1>5, <1>6, <1>7, <1>8, <1>9, <1>10 DEF AccountStep

LEMMA ServerStepKeeps == PhoneInv /\ (ServerStep \/ Kill) => PhoneInv'
<1> SUFFICES ASSUME PhoneInv, ServerStep \/ Kill PROVE PhoneInv'
  OBVIOUS
<1>1. /\ MobileTypeOK /\ SessionsInv /\ StaysSignedOut /\ OverlayGoes /\ sessions \in Nat
  BY DEF PhoneInv, MobileTypeOK
<1>2. /\ UNCHANGED <<sessions, signedOut>> /\ token' \in {token, NoToken}
      /\ (UNCHANGED <<signIn, leaving>>) \/ (signIn' = NotSigningIn /\ leaving' = Staying)
      /\ (UNCHANGED <<boots, covered>>) \/ covered' = FALSE
  BY DEF ServerStep, LoadApiBase, Mount, Kill, SaveServer, StoreServer, ProbeFails, ClearForServer,
     ComputerScreen, RestOfApp
<1>3. SessionsInv' /\ StaysSignedOut'
  BY <1>1, <1>2, NoTokenType, NotSigningInType DEF SessionsInv, StaysSignedOut, Staying
<1>4. OverlayGoes'
  BY <1>1, <1>2 DEF OverlayGoes
<1>5. /\ token' \in Tokens /\ signIn' \in [at : {"idle", "asked", "answered"}, token : Tokens]
      /\ leaving' \in Staying..MaxSignIns
  BY <1>1, <1>2, NoTokenType, NotSigningInType, MobileConstants DEF MobileTypeOK, Staying
<1>6. /\ endpoint' \in Servers /\ apiBase' \in Servers
      /\ sheet' \in [at : {"idle", "probe", "clear"}, server : Servers, previous : Servers]
  <2>1. sheet' \in {sheet, NoSheet} \/ ServerStep
    BY DEF Kill
  <2>2. CASE SaveServer
    BY <1>1, <2>2, NoSheetType DEF SaveServer, MobileTypeOK
  <2>3. CASE StoreServer
    BY <1>1, <2>3, NoSheetType DEF StoreServer, MobileTypeOK
  <2>4. CASE ~SaveServer /\ ~StoreServer
    <3>1. sheet' \in {sheet, NoSheet} /\ endpoint' = endpoint /\ apiBase' \in {apiBase, endpoint, DefaultServer}
      BY <2>4 DEF ServerStep, LoadApiBase, Mount, Kill, ProbeFails, ClearForServer, RestOfApp
    <3> QED BY <1>1, <3>1, NoSheetType, MobileConstants DEF MobileTypeOK
  <2> QED BY <2>2, <2>3, <2>4
<1>7. /\ screen' \in {"loading", "mounting", "sign-in", "home", "computer"}
      /\ computerState' \in {"unknown", "stopped", "booting", "running"}
      /\ autoBooted' \in BOOLEAN /\ covered' \in BOOLEAN
      /\ boots' \in [Boots -> {"idle", "bare", "overlay"}]
  BY <1>1 DEF MobileTypeOK, ServerStep, LoadApiBase, Mount, Kill, SaveServer, StoreServer, ProbeFails,
     ClearForServer, ComputerScreen, RestOfApp
<1>8. serverChanges' \in 0..MaxServerChanges /\ mobileTroubles' \in 0..MaxMobileTroubles
  <2>1. /\ serverChanges' = serverChanges
           \/ (serverChanges < MaxServerChanges /\ serverChanges' = serverChanges + 1)
        /\ mobileTroubles' = mobileTroubles
           \/ (mobileTroubles < MaxMobileTroubles /\ mobileTroubles' = mobileTroubles + 1)
    BY DEF ServerStep, LoadApiBase, Mount, Kill, SaveServer, StoreServer, ProbeFails, ClearForServer,
       RestOfApp, Fails
  <2>2. /\ serverChanges \in 0..MaxServerChanges /\ mobileTroubles \in 0..MaxMobileTroubles
    BY <1>1 DEF MobileTypeOK
  <2> QED BY <2>1, <2>2, MobileConstants
<1>9. MobileTypeOK'
  BY <1>1, <1>2, <1>5, <1>6, <1>7, <1>8 DEF MobileTypeOK
<1> QED BY <1>3, <1>4, <1>9 DEF PhoneInv

LEMMA ScreenStepKeeps == PhoneInv /\ (ScreenStep \/ UNCHANGED mobileVars) => PhoneInv'
<1> SUFFICES ASSUME PhoneInv, ScreenStep \/ UNCHANGED mobileVars PROVE PhoneInv'
  OBVIOUS
<1>1. MobileTypeOK /\ SessionsInv /\ StaysSignedOut /\ OverlayGoes
  BY DEF PhoneInv
<1>2. /\ UNCHANGED <<endpoint, apiBase, token, sessions, signedOut, signIn, sheet, leaving,
                     serverChanges, mobileTroubles>>
  BY DEF ScreenStep, OpenScreen, LeaveScreen, ComputerRefresh, BootUnasked, OpenOnPhone, BootEnds,
     RestOfApp, mobileVars
<1>3. SessionsInv' /\ StaysSignedOut'
  BY <1>1, <1>2 DEF SessionsInv, StaysSignedOut
<1>4. ASSUME NEW b \in Boots, NEW overlay \in BOOLEAN, BootComputer(b, overlay)
      PROVE  /\ boots' \in [Boots -> {"idle", "bare", "overlay"}] /\ covered' \in BOOLEAN
             /\ boots'[b] # "idle"
  BY <1>1, <1>4 DEF BootComputer, MobileTypeOK
<1>5. ASSUME NEW b \in Boots, BootUnasked(b) \/ OpenOnPhone(b)
      PROVE  /\ boots' \in [Boots -> {"idle", "bare", "overlay"}] /\ covered' \in BOOLEAN
             /\ boots'[b] # "idle"
  BY <1>4, <1>5 DEF BootUnasked, OpenOnPhone
<1>6. /\ boots' \in [Boots -> {"idle", "bare", "overlay"}] /\ covered' \in BOOLEAN /\ OverlayGoes'
  <2>1. CASE OpenScreen \/ ComputerRefresh \/ UNCHANGED mobileVars
    BY <1>1, <2>1 DEF OpenScreen, ComputerRefresh, ComputerScreen, mobileVars, MobileTypeOK, OverlayGoes
  <2>2. CASE LeaveScreen
    BY <2>2 DEF LeaveScreen, OverlayGoes
  <2>3. ASSUME NEW b \in Boots, BootUnasked(b) \/ OpenOnPhone(b) PROVE OverlayGoes'
    BY <1>5, <2>3 DEF OverlayGoes
  <2>4. ASSUME NEW b \in Boots, BootEnds(b)
        PROVE  boots' \in [Boots -> {"idle", "bare", "overlay"}] /\ covered' = FALSE
    BY <1>1, <2>4 DEF BootEnds, MobileTypeOK
  <2> QED BY <1>5, <2>1, <2>2, <2>3, <2>4 DEF ScreenStep, OverlayGoes
<1>7. /\ screen' \in {"loading", "mounting", "sign-in", "home", "computer"}
      /\ computerState' \in {"unknown", "stopped", "booting", "running"}
      /\ autoBooted' \in BOOLEAN
  BY <1>1 DEF ScreenStep, OpenScreen, LeaveScreen, ComputerRefresh, BootUnasked, OpenOnPhone, BootEnds,
     ComputerScreen, mobileVars, MobileTypeOK
<1> QED BY <1>1, <1>2, <1>3, <1>6, <1>7 DEF PhoneInv, MobileTypeOK

LEMMA PhoneKept == PhoneInv /\ [MobileNext]_mobileVars => PhoneInv'
BY AccountStepKeeps, ServerStepKeeps, ScreenStepKeeps
DEF MobileNext, AccountStep, ServerStep, ScreenStep

-----------------------------------------------------------------------------
(* BotStudio: rows of a bot's appearance. *)

\* The row that a save has installed and not taken back or made the bot's.
Installing(t) == pendingSave[t].at \in {"color", "undo"}

\* Rows have numbers of their own, a save replaces an older row than its own, and the
\* row of the newest save that went through is kept: who would remove it is done with
\* a newer one.
RowsInv ==
  /\ savedLook = 0 \/ savedLook \in appearances
  /\ savedLook <= looks
  /\ \A t \in StudioTabs : \A r \in known[t].rows : r <= looks
  /\ \A r \in appearances : r <= looks
  /\ \A t \in StudioTabs :
       /\ Installing(t) \/ pendingSave[t].at = "remove" =>
            /\ pendingSave[t].row \in 1..looks
            /\ pendingSave[t].existing < pendingSave[t].row
       /\ Installing(t) =>
            /\ pendingSave[t].row # savedLook
            /\ \A u \in StudioTabs \ {t} : Installing(u) => pendingSave[u].row # pendingSave[t].row
       /\ pendingSave[t].at = "color" =>
            pendingSave[t].row \in appearances \/ pendingSave[t].row < savedLook
       /\ pendingSave[t].at = "remove" => pendingSave[t].row <= savedLook

StudioInv == StudioTypeOK /\ RowsInv

Saves == [at : {"idle", "color", "undo", "remove", "text"}, row : Looks, existing : Looks, text : Sections]

LEMMA NotSavingType == NotSaving \in Saves /\ NotSaving.at = "idle"
BY StudioConstants DEF NotSaving, Saves, Looks, Sections

LEMMA StudioStart == StudioInit => StudioInv
<1> SUFFICES ASSUME StudioInit PROVE StudioInv
  OBVIOUS
<1>1. instructions \in Sections
  BY StudioConstants DEF StudioInit, Sections
<1>2. \A t \in StudioTabs : pendingSave[t] = NotSaving /\ known[t].rows = {}
  BY DEF StudioInit
<1>3. /\ appearances \subseteq 1..MaxLooks /\ looks \in Looks /\ color \in Looks /\ savedLook \in Looks
      /\ edits \in 0..MaxEdits /\ studioTroubles \in 0..MaxStudioTroubles
  BY StudioConstants DEF StudioInit, Looks
<1>4. /\ known \in [StudioTabs -> [rows : SUBSET (1..MaxLooks), bots : Sections]]
      /\ shown \in [StudioTabs -> Sections]
      /\ studio \in [StudioTabs -> {"none", "look", "steering"}]
  BY <1>1 DEF StudioInit
<1>5. pendingSave \in [StudioTabs -> Saves]
  BY NotSavingType DEF StudioInit
<1>6. StudioTypeOK
  BY <1>1, <1>3, <1>4, <1>5 DEF StudioTypeOK, Saves
<1>7. RowsInv
  BY <1>2, NotSavingType DEF StudioInit, RowsInv, Installing
<1> QED BY <1>6, <1>7 DEF StudioInv

\* The newest of some rows is one of them, and none is newer.
LEMMA NewestLook ==
  ASSUME NEW m \in Nat, NEW R, R \subseteq 1..m, R # {}
  PROVE  NewestOf(R) \in R /\ \A r \in R : r <= NewestOf(R)
<1> DEFINE Left == {m - r : r \in R}
<1>0. \A r \in R : r \in Int /\ m - r \in Nat
  <2>1. \A r \in R : r \in 1..m
    OBVIOUS
  <2> QED BY <2>1
<1>1. Left \in SUBSET Nat /\ Left # {}
  BY <1>0
<1>2. PICK x \in Left : \A y \in Left : x <= y
  BY <1>1, LeastNat
<1>3. PICK q \in R : x = m - q
  BY <1>2
<1>4. ASSUME NEW r \in R PROVE r <= q
  <2>1. m - r \in Left
    OBVIOUS
  <2>2. m - q <= m - r
    BY <1>2, <1>3, <2>1
  <2>3. r \in Int /\ q \in Int /\ m \in Int
    BY <1>0
  <2> QED BY <2>2, <2>3
<1>5. \E r \in R : \A s \in R : s <= r
  BY <1>4
<1>6. NewestOf(R) = CHOOSE r \in R : \A s \in R : s <= r
  BY DEF NewestOf
<1>7. NewestOf(R) \in R
  BY <1>5, <1>6
<1>8. \A r \in R : r <= NewestOf(R)
  BY <1>5, <1>6
<1> QED BY <1>7, <1>8

LEMMA NewestLookBounded ==
  ASSUME NEW m \in Nat, NEW R, R \subseteq 1..m
  PROVE  NewestOf(R) \in 0..m
<1>1. CASE R = {}
  BY <1>1 DEF NewestOf
<1>2. CASE R # {}
  <2>1. NewestOf(R) \in R
    BY <1>2, NewestLook
  <2>2. \A r \in R : r \in 0..m
    <3>1. \A r \in R : r \in 1..m
      OBVIOUS
    <3> QED BY <3>1
  <2> QED BY <2>1, <2>2
<1> QED BY <1>1, <1>2

\* Types hold together with bounds.
LEMMA StudioFacts ==
  ASSUME StudioInv
  PROVE  /\ looks \in Nat /\ looks <= MaxLooks /\ savedLook \in Nat /\ MaxLooks \in Nat
         /\ appearances \subseteq 1..looks /\ pendingSave \in [StudioTabs -> Saves]
         /\ \A t \in StudioTabs :
              /\ pendingSave[t] \in Saves /\ pendingSave[t].row \in Nat
              /\ pendingSave[t].existing \in Nat
              /\ known[t].rows \in SUBSET (1..looks)
BY StudioConstants DEF StudioInv, StudioTypeOK, RowsInv, Looks, Saves

\* The rows stay while no row is installed, saved or removed.
LEMMA RowsUntouched ==
  ASSUME StudioInv, NEW t \in StudioTabs, UNCHANGED <<appearances, looks, savedLook, known>>,
         \A u \in StudioTabs \ {t} : pendingSave'[u] = pendingSave[u],
         pendingSave'[t].at \in {"idle", "text"} \/ pendingSave'[t] = pendingSave[t]
  PROVE  RowsInv'
BY DEF StudioInv, RowsInv, Installing

\* What a step of a tab leaves typed when the saves, the rows and the texts it writes are.
LEMMA StudioTyped ==
  ASSUME StudioTypeOK,
         appearances' \subseteq 1..MaxLooks, looks' \in Looks, color' \in Looks, savedLook' \in Looks,
         instructions' \in Sections, edits' \in 0..MaxEdits,
         pendingSave' \in [StudioTabs -> Saves], studioTroubles' \in 0..MaxStudioTroubles,
         known' \in [StudioTabs -> [rows : SUBSET (1..MaxLooks), bots : Sections]],
         shown' \in [StudioTabs -> Sections],
         studio' \in [StudioTabs -> {"none", "look", "steering"}]
  PROVE  StudioTypeOK'
BY DEF StudioTypeOK, Saves

\* The steps that change no row and install none.
LEMMA ListsKept ==
  ASSUME StudioInv, NEW t \in StudioTabs, Refresh(t) \/ CloseStudio(t) \/ ShellRefreshes(t)
  PROVE  StudioInv'
<1>1. /\ UNCHANGED <<appearances, looks, color, savedLook, instructions, edits, pendingSave, studioTroubles>>
      /\ known' \in [StudioTabs -> [rows : SUBSET (1..MaxLooks), bots : Sections]]
      /\ shown' \in [StudioTabs -> Sections]
      /\ studio' \in [StudioTabs -> {"none", "look", "steering"}]
      /\ \A u \in StudioTabs : known'[u].rows \in {known[u].rows, appearances}
  <2>1. StudioTypeOK
    BY DEF StudioInv
  <2>2. CASE Refresh(t)
    <3>1. known' = [known EXCEPT ![t] = [rows |-> appearances, bots |-> instructions]]
      BY <2>2 DEF Refresh
    <3>2. [rows |-> appearances, bots |-> instructions] \in [rows : SUBSET (1..MaxLooks), bots : Sections]
      BY <2>1 DEF StudioTypeOK
    <3>3. known' \in [StudioTabs -> [rows : SUBSET (1..MaxLooks), bots : Sections]]
      BY <2>1, <3>1, <3>2 DEF StudioTypeOK
    <3>4. \A u \in StudioTabs : known'[u].rows \in {known[u].rows, appearances}
      BY <2>1, <3>1 DEF StudioTypeOK
    <3>5. studio' \in [StudioTabs -> {"none", "look", "steering"}]
      BY <2>1, <2>2 DEF StudioTypeOK, Refresh
    <3> QED BY <2>1, <2>2, <3>3, <3>4, <3>5 DEF StudioTypeOK, Refresh, Stored
  <2>3. CASE CloseStudio(t)
    BY <2>1, <2>3 DEF StudioTypeOK, CloseStudio, Stored
  <2>4. CASE ShellRefreshes(t)
    BY <2>1, <2>4 DEF StudioTypeOK, ShellRefreshes, Stored
  <2> QED BY <2>2, <2>3, <2>4
<1>2. StudioTypeOK'
  BY <1>1, StudioTyped DEF StudioInv, StudioTypeOK, Saves
<1>3. RowsInv'
  BY <1>1 DEF StudioInv, RowsInv, Installing
<1> QED BY <1>2, <1>3 DEF StudioInv

\* The save of a section, and its end.
LEMMA SectionsKept ==
  ASSUME StudioInv, NEW t \in StudioTabs,
         SaveSteering(t) \/ SaveRole(t) \/ WriteText(t) \/ WriteFails(t)
  PROVE  StudioInv'
<1>1. StudioTypeOK /\ pendingSave \in [StudioTabs -> Saves] /\ NotSaving.text \in Sections
  BY NotSavingType DEF StudioInv, StudioTypeOK, Saves
<1>2. ASSUME NEW x \in Sections
      PROVE  [NotSaving EXCEPT !.at = "text", !.text = x] \in Saves
             /\ [NotSaving EXCEPT !.at = "text", !.text = x].at = "text"
  BY NotSavingType, StudioConstants DEF NotSaving, Saves, Looks
<1>3. ASSUME NEW s \in Saves, s.at \in {"idle", "text"}, pendingSave' = [pendingSave EXCEPT ![t] = s],
             UNCHANGED <<appearances, looks, color, savedLook, known, shown, studio>>,
             instructions' \in Sections, edits' \in 0..MaxEdits, studioTroubles' \in 0..MaxStudioTroubles
      PROVE  StudioInv'
  <2>1. pendingSave' \in [StudioTabs -> Saves] /\ pendingSave'[t] = s
        /\ \A u \in StudioTabs \ {t} : pendingSave'[u] = pendingSave[u]
    BY <1>1, <1>3
  <2>2. StudioTypeOK'
    BY <1>1, <1>3, <2>1, StudioTyped DEF StudioTypeOK
  <2>3. RowsInv'
    BY <1>3, <2>1, RowsUntouched
  <2> QED BY <2>2, <2>3 DEF StudioInv
<1>4. CASE SaveSteering(t)
  <2> DEFINE x == [known[t].bots EXCEPT !.steering = edits + 1]
  <2>1. edits < MaxEdits /\ edits' = edits + 1 /\ edits + 1 \in 0..MaxEdits
    BY <1>1, <1>4, StudioConstants DEF SaveSteering, StudioTypeOK
  <2>2. known[t].bots \in Sections
    BY <1>1 DEF StudioTypeOK
  <2>3. x \in Sections
    BY <2>1, <2>2 DEF Sections
  <2>4. pendingSave' = [pendingSave EXCEPT ![t] = [NotSaving EXCEPT !.at = "text", !.text = x]]
    BY <1>4 DEF SaveSteering
  <2>5. /\ UNCHANGED <<appearances, looks, color, savedLook, known, shown, studio>>
        /\ instructions' \in Sections /\ studioTroubles' \in 0..MaxStudioTroubles
    BY <1>1, <1>4 DEF SaveSteering, Overlays, StudioTypeOK
  <2> HIDE DEF x
  <2> QED BY <1>2, <1>3, <2>1, <2>3, <2>4, <2>5
<1>5. CASE SaveRole(t)
  <2> DEFINE x == [shown[t] EXCEPT !.role = edits + 1]
  <2>1. edits < MaxEdits /\ edits' = edits + 1 /\ edits + 1 \in 0..MaxEdits
    BY <1>1, <1>5, StudioConstants DEF SaveRole, StudioTypeOK
  <2>2. shown[t] \in Sections
    BY <1>1 DEF StudioTypeOK
  <2>3. x \in Sections
    BY <2>1, <2>2 DEF Sections
  <2>4. pendingSave' = [pendingSave EXCEPT ![t] = [NotSaving EXCEPT !.at = "text", !.text = x]]
    BY <1>5 DEF SaveRole
  <2>5. /\ UNCHANGED <<appearances, looks, color, savedLook, known, shown, studio>>
        /\ instructions' \in Sections /\ studioTroubles' \in 0..MaxStudioTroubles
    BY <1>1, <1>5 DEF SaveRole, Overlays, StudioTypeOK
  <2> HIDE DEF x
  <2> QED BY <1>2, <1>3, <2>1, <2>3, <2>4, <2>5
<1>6. CASE WriteText(t)
  <2>1. /\ UNCHANGED <<appearances, looks, color, savedLook, known, shown, studio>>
        /\ pendingSave' = [pendingSave EXCEPT ![t] = NotSaving]
        /\ instructions' \in Sections /\ studioTroubles' \in 0..MaxStudioTroubles
        /\ edits' \in 0..MaxEdits
    BY <1>1, <1>6 DEF WriteText, Overlays, StudioTypeOK, Saves
  <2> QED BY <1>3, <2>1, NotSavingType
<1>7. CASE WriteFails(t)
  <2>1. /\ UNCHANGED <<appearances, looks, color, savedLook, known, shown, studio>>
        /\ pendingSave' = [pendingSave EXCEPT ![t] = NotSaving]
        /\ instructions' \in Sections /\ studioTroubles' \in 0..MaxStudioTroubles
        /\ edits' \in 0..MaxEdits
    BY <1>1, <1>7, StudioConstants DEF WriteFails, Overlays, Stored, StudioTypeOK, Trouble
  <2> QED BY <1>3, <2>1, NotSavingType
<1> QED BY <1>4, <1>5, <1>6, <1>7

\* A new row gets a number of its own.
LEMMA InstallKept ==
  ASSUME StudioInv, NEW t \in StudioTabs, InstallLook(t) \/ InstallFails(t)
  PROVE  StudioInv'
<1> DEFINE k == looks + 1
<1>1. StudioTypeOK /\ RowsInv
  BY DEF StudioInv
<1>2. /\ looks < MaxLooks /\ looks' = k /\ appearances' = appearances \union {k}
      /\ pendingSave[t].at = "idle"
      /\ UNCHANGED <<known, shown, studio, color, savedLook, instructions, edits>>
  BY DEF InstallLook, InstallFails, Overlays
<1>3. k \in 1..MaxLooks /\ k \in Nat /\ looks \in Nat /\ looks < k /\ savedLook \in Nat
  BY <1>2, StudioFacts
<1>4. PICK s : s = [NotSaving EXCEPT !.at = "color", !.row = k, !.existing = NewestOf(known[t].rows)]
  OBVIOUS
<1>5. NewestOf(known[t].rows) \in 0..looks
  BY <1>3, StudioFacts, NewestLookBounded
<1>6. s \in Saves /\ s.at = "color" /\ s.row = k /\ s.existing = NewestOf(known[t].rows)
  <2>1. PICK e : e = NewestOf(known[t].rows)
    OBVIOUS
  <2>2. e \in Looks /\ k \in Looks
    BY <1>3, <1>5, <2>1, StudioFacts DEF Looks
  <2>3. s = [at |-> "color", row |-> k, existing |-> e, text |-> [role |-> 0, steering |-> 0]]
    BY <1>4, <2>1 DEF NotSaving
  <2>4. [role |-> 0, steering |-> 0] \in Sections
    BY StudioConstants DEF Sections
  <2> HIDE DEF k
  <2> QED BY <2>1, <2>2, <2>3, <2>4 DEF Saves
<1>7. /\ pendingSave' \in [StudioTabs -> Saves]
      /\ pendingSave'[t] \in {s, pendingSave[t]}
      /\ \A u \in StudioTabs \ {t} : pendingSave'[u] = pendingSave[u]
  <2>1. CASE InstallLook(t)
    BY <1>4, <1>6, <2>1, StudioFacts DEF InstallLook
  <2>2. CASE InstallFails(t)
    BY <2>2, StudioFacts DEF InstallFails
  <2> QED BY <2>1, <2>2
<1>8. studioTroubles' \in 0..MaxStudioTroubles
  BY <1>1, StudioConstants DEF InstallLook, InstallFails, Trouble, StudioTypeOK
<1>9. StudioTypeOK'
  <2>1. looks' \in Looks /\ appearances' \subseteq 1..MaxLooks
    BY <1>1, <1>2, <1>3 DEF Looks, StudioTypeOK
  <2> QED BY <1>1, <1>2, <1>7, <1>8, <2>1, StudioTyped DEF StudioTypeOK
<1>10. RowsInv'
  <2>1. /\ savedLook' = 0 \/ savedLook' \in appearances'
        /\ savedLook' <= looks'
    BY <1>1, <1>2, <1>3 DEF RowsInv
  <2>2. \A u \in StudioTabs : \A r \in known'[u].rows : r <= looks'
    <3>1. \A u \in StudioTabs : known[u].rows \in SUBSET (1..looks)
      BY StudioFacts
    <3>2. \A u \in StudioTabs : \A r \in known[u].rows : r \in 1..looks
      BY <3>1
    <3> QED BY <1>2, <1>3, <3>2
  <2>3. \A r \in appearances' : r <= looks'
    <3>1. \A r \in appearances : r \in 1..looks
      BY StudioFacts
    <3> QED BY <1>2, <1>3, <3>1
  <2>4. \A u \in StudioTabs :
          /\ pendingSave[u].row \in Nat /\ pendingSave[u].existing \in Nat
          /\ Installing(u) \/ pendingSave[u].at = "remove" => pendingSave[u].row <= looks
    BY <1>1, <1>3, StudioFacts DEF RowsInv
  <2>5. ASSUME NEW u \in StudioTabs, u # t \/ pendingSave'[t] = pendingSave[t]
        PROVE  /\ Installing(u)' \/ pendingSave'[u].at = "remove" =>
                    /\ pendingSave'[u].row \in 1..looks'
                    /\ pendingSave'[u].existing < pendingSave'[u].row
               /\ Installing(u)' =>
                    /\ pendingSave'[u].row # savedLook'
                    /\ \A v \in StudioTabs \ {u} : Installing(v)' => pendingSave'[v].row # pendingSave'[u].row
               /\ pendingSave'[u].at = "color" =>
                    pendingSave'[u].row \in appearances' \/ pendingSave'[u].row < savedLook'
               /\ pendingSave'[u].at = "remove" => pendingSave'[u].row <= savedLook'
    <3>1. pendingSave'[u] = pendingSave[u]
      BY <1>7, <2>5
    <3>2. Installing(u)' \/ pendingSave'[u].at = "remove" =>
             /\ pendingSave'[u].row \in 1..looks'
             /\ pendingSave'[u].existing < pendingSave'[u].row
      BY <1>1, <1>2, <1>3, <2>4, <3>1 DEF RowsInv, Installing
    <3>3. ASSUME Installing(u)', NEW v \in StudioTabs \ {u}, Installing(v)'
          PROVE  pendingSave'[v].row # pendingSave'[u].row
      <4>1. Installing(u) /\ pendingSave[u].row <= looks
        BY <2>4, <3>1, <3>3 DEF Installing
      <4>2. CASE pendingSave'[v] = pendingSave[v]
        BY <1>1, <3>1, <3>3, <4>1, <4>2 DEF RowsInv, Installing
      <4>3. CASE v = t /\ pendingSave'[t] = s
        BY <1>3, <1>6, <2>4, <3>1, <4>1, <4>3
      <4> QED BY <1>7, <4>2, <4>3
    <3>4. Installing(u)' => pendingSave'[u].row # savedLook'
      BY <1>1, <1>2, <3>1 DEF RowsInv, Installing
    <3>5. pendingSave'[u].at = "color" =>
             pendingSave'[u].row \in appearances' \/ pendingSave'[u].row < savedLook'
      BY <1>1, <1>2, <3>1 DEF RowsInv
    <3>6. pendingSave'[u].at = "remove" => pendingSave'[u].row <= savedLook'
      BY <1>1, <1>2, <3>1 DEF RowsInv
    <3> QED BY <3>2, <3>3, <3>4, <3>5, <3>6
  <2>6. ASSUME pendingSave'[t] = s
        PROVE  /\ pendingSave'[t].row \in 1..looks' /\ pendingSave'[t].existing < pendingSave'[t].row
               /\ pendingSave'[t].row # savedLook'
               /\ \A v \in StudioTabs \ {t} : Installing(v)' => pendingSave'[v].row # pendingSave'[t].row
               /\ pendingSave'[t].row \in appearances'
               /\ pendingSave'[t].at = "color"
    <3>1. s.row = k /\ s.existing \in 0..looks /\ savedLook <= looks
      BY <1>1, <1>5, <1>6 DEF RowsInv
    <3>2. /\ k \in 1..looks' /\ s.existing < k /\ k # savedLook' /\ k \in appearances'
      BY <1>2, <1>3, <3>1
    <3>3. \A v \in StudioTabs \ {t} : Installing(v)' => pendingSave'[v].row # k
      <4> TAKE v \in StudioTabs \ {t}
      <4> HAVE Installing(v)'
      <4>1. pendingSave'[v] = pendingSave[v] /\ Installing(v)
        BY <1>7 DEF Installing
      <4> QED BY <1>3, <2>4, <4>1
    <3> QED BY <1>6, <2>6, <3>1, <3>2, <3>3
  <2> QED BY <1>7, <2>1, <2>2, <2>3, <2>5, <2>6 DEF RowsInv, Installing
<1> QED BY <1>9, <1>10 DEF StudioInv

\* The colour is the bot's now: the save is of the newest look, or of one already replaced.
LEMMA ColorKept ==
  ASSUME StudioInv, NEW t \in StudioTabs, UpdateColor(t)
  PROVE  StudioInv'
<1>1. StudioTypeOK /\ RowsInv
  BY DEF StudioInv
<1>2. /\ pendingSave[t].at = "color" /\ color' = pendingSave[t].row
      /\ savedLook' = IF pendingSave[t].row > savedLook THEN pendingSave[t].row ELSE savedLook
      /\ UNCHANGED <<appearances, looks, known, shown, studio, instructions, edits, studioTroubles>>
  BY DEF UpdateColor, Overlays
<1>3. /\ \A u \in StudioTabs : pendingSave[u] \in Saves /\ pendingSave[u].row \in Nat
                               /\ pendingSave[u].existing \in Nat
      /\ pendingSave \in [StudioTabs -> Saves] /\ savedLook \in Nat /\ looks \in Nat
  BY StudioFacts
<1>4. /\ Installing(t) /\ pendingSave[t].row \in 1..looks
      /\ pendingSave[t].row \in appearances \/ pendingSave[t].row < savedLook
      /\ \A u \in StudioTabs \ {t} : Installing(u) => pendingSave[u].row # pendingSave[t].row
  BY <1>1, <1>2 DEF RowsInv, Installing
<1>5. PICK s : s = [pendingSave[t] EXCEPT !.at = "remove"]
  OBVIOUS
<1>6. s \in Saves /\ s.at = "remove" /\ s.row = pendingSave[t].row /\ s.existing = pendingSave[t].existing
  BY <1>3, <1>5 DEF Saves
<1>7. /\ pendingSave' = [pendingSave EXCEPT ![t] = NotSaving] \/ pendingSave' = [pendingSave EXCEPT ![t] = s]
  BY <1>3, <1>5 DEF UpdateColor, SaveGoes
<1>8. /\ pendingSave' \in [StudioTabs -> Saves] /\ pendingSave'[t] \in {NotSaving, s}
      /\ \A u \in StudioTabs \ {t} : pendingSave'[u] = pendingSave[u]
  BY <1>3, <1>6, <1>7, NotSavingType
<1>9. savedLook' \in Nat /\ savedLook <= savedLook' /\ pendingSave[t].row <= savedLook'
      /\ savedLook' \in {savedLook, pendingSave[t].row} /\ savedLook' <= looks
  BY <1>1, <1>2, <1>3, <1>4 DEF RowsInv
<1>10. StudioTypeOK'
  <2>1. color' \in Looks /\ savedLook' \in Looks
    BY <1>1, <1>2, <1>3, <1>9 DEF StudioTypeOK, Saves
  <2> QED BY <1>1, <1>2, <1>8, <2>1, StudioTyped DEF StudioTypeOK
<1>11. RowsInv'
  <2>1. savedLook' = 0 \/ savedLook' \in appearances'
    <3>1. savedLook = 0 \/ savedLook \in appearances
      BY <1>1 DEF RowsInv
    <3>2. CASE savedLook' = savedLook
      BY <1>2, <3>1, <3>2
    <3>3. CASE savedLook' # savedLook
      BY <1>2, <1>3, <1>4, <1>9, <3>3
    <3> QED BY <3>2, <3>3
  <2>2. ASSUME NEW u \in StudioTabs, u # t
        PROVE  /\ Installing(u)' \/ pendingSave'[u].at = "remove" =>
                    /\ pendingSave'[u].row \in 1..looks'
                    /\ pendingSave'[u].existing < pendingSave'[u].row
               /\ Installing(u)' =>
                    /\ pendingSave'[u].row # savedLook'
                    /\ \A v \in StudioTabs \ {u} : Installing(v)' => pendingSave'[v].row # pendingSave'[u].row
               /\ pendingSave'[u].at = "color" =>
                    pendingSave'[u].row \in appearances' \/ pendingSave'[u].row < savedLook'
               /\ pendingSave'[u].at = "remove" => pendingSave'[u].row <= savedLook'
    <3>1. pendingSave'[u] = pendingSave[u] /\ (Installing(u)' <=> Installing(u))
      BY <1>8, <2>2 DEF Installing
    <3>2. Installing(u) \/ pendingSave[u].at = "remove" =>
             /\ pendingSave[u].row \in 1..looks
             /\ pendingSave[u].existing < pendingSave[u].row
      BY <1>1 DEF RowsInv
    <3>3. Installing(u)' => pendingSave'[u].row # savedLook'
      BY <1>1, <1>4, <1>9, <2>2, <3>1 DEF RowsInv
    <3>4. ASSUME Installing(u)', NEW v \in StudioTabs \ {u}, Installing(v)'
          PROVE  pendingSave'[v].row # pendingSave'[u].row
      <4>1. v # t
        BY <1>6, <1>8, <3>4, NotSavingType DEF Installing
      <4>2. pendingSave'[v] = pendingSave[v] /\ Installing(v)
        BY <1>8, <3>4, <4>1 DEF Installing
      <4> QED BY <1>1, <3>1, <3>4, <4>2 DEF RowsInv
    <3>5. pendingSave'[u].at = "color" =>
             pendingSave'[u].row \in appearances' \/ pendingSave'[u].row < savedLook'
      BY <1>1, <1>2, <1>3, <1>9, <3>1 DEF RowsInv
    <3>6. pendingSave'[u].at = "remove" => pendingSave'[u].row <= savedLook'
      BY <1>1, <1>3, <1>9, <3>1 DEF RowsInv
    <3> QED BY <1>2, <3>1, <3>2, <3>3, <3>4, <3>5, <3>6
  <2>3. /\ ~Installing(t)' /\ pendingSave'[t].at # "color"
        /\ pendingSave'[t].at = "remove" =>
             /\ pendingSave'[t].row \in 1..looks' /\ pendingSave'[t].existing < pendingSave'[t].row
             /\ pendingSave'[t].row <= savedLook'
    <3>1. ~Installing(t)' /\ pendingSave'[t].at # "color"
      BY <1>6, <1>8, NotSavingType DEF Installing
    <3>2. pendingSave[t].existing < pendingSave[t].row
      BY <1>1, <1>4 DEF RowsInv
    <3>3. pendingSave'[t].at = "remove" => pendingSave'[t] = s
      BY <1>8, NotSavingType
    <3> QED BY <1>2, <1>4, <1>6, <1>9, <3>1, <3>2, <3>3
  <2>4. /\ savedLook' <= looks'
        /\ \A u \in StudioTabs : \A r \in known'[u].rows : r <= looks'
        /\ \A r \in appearances' : r <= looks'
    BY <1>1, <1>2, <1>9 DEF RowsInv
  <2> QED BY <2>1, <2>2, <2>3, <2>4 DEF RowsInv
<1> QED BY <1>10, <1>11 DEF StudioInv

\* A refused colour leaves the row to be taken back.
LEMMA UndoKept ==
  ASSUME StudioInv, NEW t \in StudioTabs, UpdateFails(t)
  PROVE  StudioInv'
<1>1. StudioTypeOK /\ RowsInv
  BY DEF StudioInv
<1>2. /\ pendingSave[t].at = "color" /\ color' \in {color, pendingSave[t].row}
      /\ UNCHANGED <<appearances, looks, savedLook, known, shown, studio, instructions, edits>>
      /\ studioTroubles' \in 0..MaxStudioTroubles
  BY <1>1, StudioConstants DEF UpdateFails, Overlays, Trouble, StudioTypeOK
<1>3. /\ \A u \in StudioTabs : pendingSave[u] \in Saves
      /\ pendingSave \in [StudioTabs -> Saves]
  BY StudioFacts
<1>4. PICK s : s = [pendingSave[t] EXCEPT !.at = "undo"]
  OBVIOUS
<1>5. s \in Saves /\ s.at = "undo" /\ s.row = pendingSave[t].row /\ s.existing = pendingSave[t].existing
  BY <1>3, <1>4 DEF Saves
<1>6. /\ pendingSave' \in [StudioTabs -> Saves] /\ pendingSave'[t] = s
      /\ \A u \in StudioTabs \ {t} : pendingSave'[u] = pendingSave[u]
  BY <1>3, <1>4, <1>5 DEF UpdateFails, SaveGoes
<1>7. StudioTypeOK'
  <2>1. color' \in Looks
    BY <1>1, <1>2, <1>3 DEF StudioTypeOK, Saves
  <2> QED BY <1>1, <1>2, <1>6, <2>1, StudioTyped DEF StudioTypeOK
<1>8. \A u \in StudioTabs :
        /\ pendingSave'[u].row = pendingSave[u].row /\ pendingSave'[u].existing = pendingSave[u].existing
        /\ (Installing(u)' <=> Installing(u))
        /\ pendingSave'[u].at \in {"color", "remove"} => pendingSave'[u].at = pendingSave[u].at
  BY <1>2, <1>5, <1>6 DEF Installing
<1>9. RowsInv'
  <2>1. ASSUME NEW u \in StudioTabs
        PROVE  /\ Installing(u)' \/ pendingSave'[u].at = "remove" =>
                    /\ pendingSave'[u].row \in 1..looks'
                    /\ pendingSave'[u].existing < pendingSave'[u].row
               /\ Installing(u)' =>
                    /\ pendingSave'[u].row # savedLook'
                    /\ \A v \in StudioTabs \ {u} : Installing(v)' => pendingSave'[v].row # pendingSave'[u].row
               /\ pendingSave'[u].at = "color" =>
                    pendingSave'[u].row \in appearances' \/ pendingSave'[u].row < savedLook'
               /\ pendingSave'[u].at = "remove" => pendingSave'[u].row <= savedLook'
    BY <1>1, <1>2, <1>8 DEF RowsInv
  <2> QED BY <1>1, <1>2, <2>1 DEF RowsInv
<1> QED BY <1>7, <1>9 DEF StudioInv

\* Neither a row that is taken back nor one that is replaced is of the newest save.
LEMMA RemoveKept ==
  ASSUME StudioInv, NEW t \in StudioTabs, RemoveLook(t)
  PROVE  StudioInv'
<1> DEFINE gone == IF pendingSave[t].at = "undo" THEN pendingSave[t].row ELSE pendingSave[t].existing
<1>1. StudioTypeOK /\ RowsInv
  BY DEF StudioInv
<1>2. /\ pendingSave[t].at \in {"undo", "remove"}
      /\ appearances' \in {appearances, appearances \ {gone}}
      /\ pendingSave' = [pendingSave EXCEPT ![t] = NotSaving]
      /\ UNCHANGED <<looks, color, savedLook, known, shown, studio, instructions, edits>>
      /\ studioTroubles' \in 0..MaxStudioTroubles
  BY <1>1, StudioConstants DEF RemoveLook, Overlays, Trouble, StudioTypeOK
<1>3. /\ \A u \in StudioTabs : pendingSave[u].row \in Nat /\ pendingSave[u].existing \in Nat
      /\ pendingSave \in [StudioTabs -> Saves] /\ savedLook \in Nat
  BY StudioFacts
<1>4. gone # savedLook
  <2>1. CASE pendingSave[t].at = "undo"
    BY <1>1, <2>1 DEF RowsInv, Installing
  <2>2. CASE pendingSave[t].at = "remove"
    <3>1. pendingSave[t].existing < pendingSave[t].row /\ pendingSave[t].row <= savedLook
      BY <1>1, <2>2 DEF RowsInv
    <3> QED BY <1>3, <2>2, <3>1
  <2> QED BY <1>2, <2>1, <2>2
<1>5. /\ pendingSave' \in [StudioTabs -> Saves] /\ pendingSave'[t] = NotSaving
      /\ \A u \in StudioTabs \ {t} : pendingSave'[u] = pendingSave[u]
      /\ ~Installing(t)' /\ pendingSave'[t].at = "idle"
  BY <1>2, <1>3, NotSavingType DEF Installing
<1>6. \A u \in StudioTabs \ {t} : pendingSave[u].at = "color" =>
        pendingSave[u].row # gone \/ pendingSave[u].row < savedLook
  <2> TAKE u \in StudioTabs \ {t}
  <2> HAVE pendingSave[u].at = "color"
  <2>1. CASE pendingSave[t].at = "undo"
    BY <1>1, <2>1 DEF RowsInv, Installing
  <2>2. CASE pendingSave[t].at = "remove"
    <3>1. pendingSave[t].existing < pendingSave[t].row /\ pendingSave[t].row <= savedLook
      BY <1>1, <2>2 DEF RowsInv
    <3> QED BY <1>3, <2>2, <3>1
  <2> QED BY <1>2, <2>1, <2>2
<1>7. StudioTypeOK'
  <2>1. appearances' \subseteq 1..MaxLooks
    BY <1>1, <1>2 DEF StudioTypeOK
  <2> QED BY <1>1, <1>2, <1>5, <2>1, StudioTyped DEF StudioTypeOK
<1>8. RowsInv'
  <2>1. /\ savedLook' = 0 \/ savedLook' \in appearances'
        /\ \A r \in appearances' : r <= looks'
    BY <1>1, <1>2, <1>4 DEF RowsInv
  <2>2. ASSUME NEW u \in StudioTabs, u # t
        PROVE  /\ Installing(u)' \/ pendingSave'[u].at = "remove" =>
                    /\ pendingSave'[u].row \in 1..looks'
                    /\ pendingSave'[u].existing < pendingSave'[u].row
               /\ Installing(u)' =>
                    /\ pendingSave'[u].row # savedLook'
                    /\ \A v \in StudioTabs \ {u} : Installing(v)' => pendingSave'[v].row # pendingSave'[u].row
               /\ pendingSave'[u].at = "color" =>
                    pendingSave'[u].row \in appearances' \/ pendingSave'[u].row < savedLook'
               /\ pendingSave'[u].at = "remove" => pendingSave'[u].row <= savedLook'
    <3>1. pendingSave'[u] = pendingSave[u] /\ (Installing(u)' <=> Installing(u))
      BY <1>5, <2>2 DEF Installing
    <3>2. pendingSave'[u].at = "color" =>
             pendingSave'[u].row \in appearances' \/ pendingSave'[u].row < savedLook'
      BY <1>1, <1>2, <1>6, <2>2, <3>1 DEF RowsInv
    <3>3. ASSUME Installing(u)', NEW v \in StudioTabs \ {u}, Installing(v)'
          PROVE  pendingSave'[v].row # pendingSave'[u].row
      <4>1. pendingSave'[v] = pendingSave[v] /\ Installing(v)
        BY <1>5, <3>3 DEF Installing
      <4> QED BY <1>1, <3>1, <3>3, <4>1 DEF RowsInv
    <3> QED BY <1>1, <1>2, <3>1, <3>2, <3>3 DEF RowsInv
  <2> QED BY <1>1, <1>2, <1>5, <2>1, <2>2 DEF RowsInv
<1> QED BY <1>7, <1>8 DEF StudioInv

LEMMA StudioKept == StudioInv /\ [StudioNext]_studioVars => StudioInv'
<1> SUFFICES ASSUME StudioInv, [StudioNext]_studioVars PROVE StudioInv'
  OBVIOUS
<1>1. CASE UNCHANGED studioVars
  BY <1>1 DEF studioVars, StudioInv, StudioTypeOK, RowsInv, Installing
<1>2. CASE StudioNext
  <2>1. PICK t \in StudioTabs :
          \/ Refresh(t) \/ CloseStudio(t) \/ ShellRefreshes(t)
          \/ InstallLook(t) \/ InstallFails(t) \/ UpdateColor(t) \/ UpdateFails(t) \/ RemoveLook(t)
          \/ SaveSteering(t) \/ SaveRole(t) \/ WriteText(t) \/ WriteFails(t)
    BY <1>2 DEF StudioNext
  <2> QED BY <2>1, ListsKept, SectionsKept, InstallKept, ColorKept, UndoKept, RemoveKept
<1> QED BY <1>1, <1>2

LEMMA LooksKept == StudioInv => LookNotOlder
<1> SUFFICES ASSUME StudioInv PROVE LookNotOlder
  OBVIOUS
<1>1. savedLook = 0 \/ savedLook \in appearances
  BY DEF StudioInv, RowsInv
<1>2. appearances \subseteq 1..looks /\ looks \in Nat /\ savedLook \in Nat
  BY StudioFacts
<1>3. CASE savedLook = 0
  <2>1. NewestOf(appearances) \in 0..looks
    BY <1>2, NewestLookBounded
  <2> QED BY <1>2, <1>3, <2>1 DEF LookNotOlder
<1>4. CASE savedLook \in appearances
  BY <1>2, <1>4, NewestLook DEF LookNotOlder
<1> QED BY <1>1, <1>3, <1>4

-----------------------------------------------------------------------------
(* DesktopShell: runtimes and their owners, loads of a window, and its trust. *)

Calls ==
  [at : {"free", "release", "activate", "starting", "probe", "persist", "navigate", "fail",
         "launcher", "load"},
   kind : {"choose", "show", "stop"}, win : 0..MaxWindows, mode : {"lite", "server"},
   next : Origins, was : [terminal : Origins, launcher : {Nowhere} \union Launchers],
   ok : BOOLEAN]

\* A runtime that has started is of one call, or the active one of one window: nobody
\* else can stop it, and no other window shows it.
RuntimesOwned ==
  /\ \A o \in Ops : op[o].next \in Lites =>
       /\ lite[op[o].next] # "none"
       /\ \A u \in Ops \ {o} : op[u].next # op[o].next
       /\ \A w \in WindowIds : active[w] # op[o].next /\ (loaded[w] = op[o].next => w = op[o].win)
       /\ op[o].at \in {"probe", "persist", "navigate", "load"} => lite[op[o].next] = "up"
       /\ op[o].at # "launcher"
  /\ \A w \in WindowIds : active[w] \in Lites =>
       /\ lite[active[w]] = "up"
       /\ \A v \in WindowIds \ {w} : active[v] # active[w] /\ loaded[v] # active[w]
  /\ \A w \in WindowIds : loaded[w] \in Lites => lite[loaded[w]] # "none"

\* A window is busy with a call that loads it, and is the open one; who stops a
\* runtime for good does so for a window that has closed.
LoadsInv ==
  /\ \A w \in WindowIds : loading[w] \in Ops =>
       /\ w = window
       /\ op[loading[w]].at = "load" /\ op[loading[w]].win = w
  /\ \A o \in Ops :
       /\ op[o].win <= windows
       /\ op[o].at # "free" => op[o].win # 0
       /\ op[o].kind = "stop" => op[o].at = "release" /\ op[o].win # window

Alive(w) == loaded[w] # Nowhere /\ (loaded[w] \in Lites => lite[loaded[w]] = "up")

\* A call that will still load the window, unless another one takes it over.
Brings(o) ==
  /\ op[o].at # "free" /\ op[o].kind # "stop" /\ op[o].win = window
  /\ op[o].at = "load" => loading[window] = o

WindowInv == window # 0 => Alive(window) \/ \E o \in Ops : Brings(o)

\* Where the window will be when its load is done.
Target ==
  IF window = 0 THEN Nowhere
  ELSE IF loading[window] \in Ops THEN op[loading[window]].next ELSE loaded[window]

\* Calls that are about to take all trust back.
Resets(o) == op[o].at \in {"fail", "launcher"}

TrustInv == trust.terminal \in {Nowhere, Target} \/ \E o \in Ops : Resets(o)

TerminalsInv == \A t \in Live : terminals[t] = window

DesktopInv ==
  DesktopTypeOK /\ RuntimesOwned /\ LoadsInv /\ WindowInv /\ TrustInv /\ TerminalsInv

Trusts == [terminal : Origins, launcher : {Nowhere} \union Launchers]

LEMMA FreeType ==
  /\ NoTrust \in Trusts /\ NoTrust.terminal = Nowhere
  /\ Free \in Calls /\ Free.at = "free" /\ Free.kind = "show" /\ Free.win = 0 /\ Free.next = Nowhere
<1>1. Nowhere \in Origins
  BY DesktopConstants DEF Nowhere, Origins, Server
<1>2. NoTrust \in Trusts /\ NoTrust.terminal = Nowhere
  BY <1>1 DEF NoTrust, Trusts
<1>3. Free \in Calls
  BY <1>1, <1>2, DesktopConstants DEF Free, Calls, Trusts
<1> QED BY <1>2, <1>3 DEF Free

\* Places have numbers of their own.
LEMMA PlacesApart ==
  /\ Nowhere \notin Lites /\ Server \notin Lites /\ Server # Nowhere /\ Lites \subseteq Origins
  /\ Launcher \notin Lites /\ LauncherWithError \notin Lites
  /\ Launcher # Nowhere /\ LauncherWithError # Nowhere /\ Server \in Origins /\ Nowhere \in Origins
  /\ Origins \subseteq 0..LauncherWithError
  /\ Launcher \in 0..LauncherWithError /\ LauncherWithError \in 0..LauncherWithError
BY DesktopConstants DEF Nowhere, Server, Lites, Origins, Launcher, LauncherWithError

LEMMA DesktopTypes ==
  ASSUME DesktopTypeOK
  PROVE  /\ op \in [Ops -> Calls] /\ trust \in Trusts /\ windows \in Nat /\ window \in Nat
         /\ \A o \in Ops : op[o] \in Calls /\ op[o].win \in Nat /\ op[o].next \in Origins
                           /\ op[o].was \in Trusts
         /\ window # 0 => window \in WindowIds
         /\ window <= windows
BY DesktopConstants DEF DesktopTypeOK, Calls, Trusts, WindowIds

LEMMA DesktopTyped ==
  ASSUME DesktopTypeOK,
         windows' \in 0..MaxWindows, window' \in 0..windows',
         loaded' \in [WindowIds -> 0..LauncherWithError],
         loading' \in [WindowIds -> Ops \union {NoOp}],
         active' \in [WindowIds -> Origins],
         lite' \in [Lites -> {"none", "starting", "up", "down"}],
         saved' \in {"none", "lite", "server"}, trust' \in Trusts, op' \in [Ops -> Calls],
         terminals' \in [1..MaxTerminals -> 0..MaxWindows], streams' \subseteq Lites, acts' \in 0..MaxActs
  PROVE  DesktopTypeOK'
BY DEF DesktopTypeOK, Calls, Trusts

\* LiteDown stops one runtime; there is none to stop when a server was active.
LEMMA DownIs ==
  ASSUME DesktopTypeOK, NEW r, LiteDown(r)
  PROVE  /\ lite' \in [Lites -> {"none", "starting", "up", "down"}]
         /\ \A x \in Lites \ {r} : lite'[x] = lite[x]
         /\ \A x \in Lites : lite'[x] = "none" => lite[x] = "none"
BY DEF DesktopTypeOK, LiteDown

(***************************************************************************)
(* A step of a call that changes its own record and its own runtimes, and  *)
(* neither a window nor what is trusted.                                   *)
(***************************************************************************)
CallStep(o, c) ==
  /\ op' = [op EXCEPT ![o] = c]
  /\ UNCHANGED <<loaded, loading, active, trust, windows, window, terminals, acts, streams>>
  /\ lite' \in [Lites -> {"none", "starting", "up", "down"}] /\ saved' \in {"none", "lite", "server"}
  /\ \A x \in Lites \ {op[o].next, c.next} : lite'[x] = lite[x]
  /\ \A x \in Lites : lite'[x] = "none" => lite[x] = "none"

\* The call goes on to its next place, for the same window, or has stopped for good.
GoesOn(o, c) ==
  \/ /\ c.at \notin {"free", "load"} /\ c.win = op[o].win /\ c.kind = op[o].kind
     /\ c.kind # "stop" /\ op[o].at \notin {"free", "load"}
     /\ Resets(o) => c.at \in {"fail", "launcher"}
  \/ c = Free /\ op[o].kind = "stop" /\ op[o].at = "release"

OwnsNext(o, c) ==
  c.next \in Lites =>
    /\ c.next = op[o].next \/ lite[c.next] = "none"
    /\ lite'[c.next] # "none" /\ c.at # "launcher"
    /\ c.at \in {"probe", "persist", "navigate", "load"} => lite'[c.next] = "up"

LEMMA CallMoves ==
  ASSUME DesktopInv, NEW o \in Ops, NEW c \in Calls, CallStep(o, c), GoesOn(o, c), OwnsNext(o, c)
  PROVE  DesktopInv'
<1>1. /\ DesktopTypeOK /\ RuntimesOwned /\ LoadsInv /\ WindowInv /\ TrustInv /\ TerminalsInv
  BY DEF DesktopInv
<1>2. /\ op' \in [Ops -> Calls] /\ op'[o] = c
      /\ \A u \in Ops \ {o} : op'[u] = op[u]
  BY <1>1, DesktopTypes DEF CallStep
<1>3. UNCHANGED <<loaded, loading, active, trust, windows, window, terminals, acts, streams>>
  BY DEF CallStep
<1>4. DesktopTypeOK'
  BY <1>1, <1>2, <1>3, DesktopTyped DEF CallStep, DesktopTypeOK, Trusts
<1>5. RuntimesOwned'
  <2>1. ASSUME NEW u \in Ops \ {o}, op'[u].next \in Lites
        PROVE  /\ lite'[op'[u].next] # "none"
               /\ \A v \in Ops \ {u} : op'[v].next # op'[u].next
               /\ \A w \in WindowIds : active'[w] # op'[u].next
                                       /\ (loaded'[w] = op'[u].next => w = op'[u].win)
               /\ op'[u].at \in {"probe", "persist", "navigate", "load"} => lite'[op'[u].next] = "up"
               /\ op'[u].at # "launcher"
    <3>1. op'[u] = op[u] /\ op[u].next \in Lites /\ lite[op[u].next] # "none"
      BY <1>1, <1>2, <2>1 DEF RuntimesOwned
    <3>2. op[o].next # op[u].next /\ c.next # op[u].next
      BY <1>1, <3>1 DEF RuntimesOwned, OwnsNext
    <3>3. lite'[op[u].next] = lite[op[u].next]
      BY <3>1, <3>2 DEF CallStep
    <3>4. \A v \in Ops \ {u} : op'[v].next # op[u].next
      BY <1>1, <1>2, <3>1, <3>2 DEF RuntimesOwned
    <3> QED BY <1>1, <1>3, <3>1, <3>3, <3>4 DEF RuntimesOwned
  <2>2. ASSUME c.next \in Lites
        PROVE  /\ lite'[c.next] # "none"
               /\ \A v \in Ops \ {o} : op'[v].next # c.next
               /\ \A w \in WindowIds : active'[w] # c.next /\ (loaded'[w] = c.next => w = c.win)
               /\ c.at \in {"probe", "persist", "navigate", "load"} => lite'[c.next] = "up"
               /\ c.at # "launcher"
    <3>1. \A v \in Ops \ {o} : op'[v].next # c.next
      BY <1>1, <1>2, <2>2 DEF RuntimesOwned, OwnsNext
    <3>2. c # Free
      BY <2>2, FreeType, PlacesApart
    <3>3. c.win = op[o].win
      BY <3>2 DEF GoesOn
    <3>4. \A w \in WindowIds : active[w] # c.next /\ (loaded[w] = c.next => w = c.win)
      BY <1>1, <2>2, <3>3 DEF RuntimesOwned, OwnsNext
    <3> QED BY <1>3, <2>2, <3>1, <3>4 DEF OwnsNext
  <2>3. ASSUME NEW w \in WindowIds, active'[w] \in Lites
        PROVE  /\ lite'[active'[w]] = "up"
               /\ \A v \in WindowIds \ {w} : active'[v] # active'[w] /\ loaded'[v] # active'[w]
    <3>1. active'[w] = active[w] /\ lite[active[w]] = "up" /\ active[w] \in Lites
      BY <1>1, <1>3, <2>3 DEF RuntimesOwned
    <3>2. active[w] # op[o].next /\ active[w] # c.next
      BY <1>1, <3>1 DEF RuntimesOwned, OwnsNext
    <3>3. lite'[active[w]] = "up"
      BY <3>1, <3>2 DEF CallStep
    <3> QED BY <1>1, <1>3, <2>3, <3>3 DEF RuntimesOwned
  <2>4. \A w \in WindowIds : loaded'[w] \in Lites => lite'[loaded'[w]] # "none"
    BY <1>1, <1>3 DEF RuntimesOwned, CallStep
  <2> QED BY <1>2, <2>1, <2>2, <2>3, <2>4 DEF RuntimesOwned
<1>6. LoadsInv'
  <2>1. op[o].at # "load" /\ op[o].at # "free"
    BY DEF GoesOn
  <2>2. \A w \in WindowIds : loading[w] \in Ops =>
          w = window /\ loading[w] # o /\ op'[loading[w]].at = "load" /\ op'[loading[w]].win = w
    BY <1>1, <1>2, <2>1 DEF LoadsInv
  <2>3. /\ c.win <= windows
        /\ c.at # "free" => c.win # 0
        /\ c.kind # "stop"
    <3>1. op[o].win # 0 /\ op[o].win <= windows
      BY <1>1, <2>1 DEF LoadsInv
    <3>2. 0 <= windows
      BY <1>1, DesktopTypes
    <3> QED BY <3>1, <3>2, FreeType DEF GoesOn
  <2> QED BY <1>1, <1>2, <1>3, <2>2, <2>3 DEF LoadsInv
<1>7. ASSUME window # 0 PROVE Alive(window)' \/ \E u \in Ops : Brings(u)'
  <2>1. \A u \in Ops \ {o} : Brings(u) => Brings(u)'
    BY <1>2, <1>3 DEF Brings
  <2>2. Brings(o) => Brings(o)'
    BY <1>2, <1>3 DEF Brings, GoesOn
  <2>3. ASSUME Alive(window), ~Alive(window)' PROVE Brings(o)'
    <3>1. loaded[window] \in Lites /\ lite[loaded[window]] = "up" /\ lite'[loaded[window]] # "up"
      BY <1>3, <2>3 DEF Alive
    <3>2. loaded[window] \in {op[o].next, c.next}
      BY <3>1 DEF CallStep
    <3>3. loaded[window] = op[o].next
      BY <3>1, <3>2 DEF OwnsNext
    <3>4. window = op[o].win
      BY <1>1, <1>7, <3>1, <3>3, DesktopTypes DEF RuntimesOwned
    <3>5. op[o].kind # "stop"
      BY <1>1, <3>4 DEF LoadsInv
    <3> QED BY <1>2, <1>3, <3>4, <3>5 DEF Brings, GoesOn
  <2> QED BY <1>1, <1>7, <2>1, <2>2, <2>3 DEF WindowInv
<1>8. TrustInv'
  <2>1. window # 0 /\ loading[window] \in Ops => loading[window] # o
    BY <1>1, DesktopTypes DEF LoadsInv, GoesOn
  <2>2. Target' = Target
    BY <1>2, <1>3, <2>1 DEF Target
  <2>3. \A u \in Ops : Resets(u) => Resets(u)'
    BY <1>2 DEF Resets, GoesOn
  <2> QED BY <1>1, <1>3, <2>2, <2>3 DEF TrustInv
<1>9. TerminalsInv'
  BY <1>1, <1>3 DEF TerminalsInv, Live
<1> QED BY <1>3, <1>4, <1>5, <1>6, <1>7, <1>8, <1>9 DEF DesktopInv, WindowInv

\* The steps of a call between its start and its load.
LEMMA SessionStepsKeep ==
  ASSUME DesktopInv, NEW o \in Ops,
         Release(o) \/ Activate(o) \/ FinishStart(o) \/ Probe(o) \/ Persist(o) \/ Fail(o)
  PROVE  DesktopInv'
<1>1. DesktopTypeOK /\ RuntimesOwned /\ LoadsInv
  BY DEF DesktopInv
<1>2. /\ op \in [Ops -> Calls] /\ op[o] \in Calls /\ op[o].next \in Origins
      /\ op[o].kind = "stop" => op[o].at = "release"
  BY <1>1, DesktopTypes DEF LoadsInv
<1>3. /\ lite \in [Lites -> {"none", "starting", "up", "down"}] /\ saved \in {"none", "lite", "server"}
  BY <1>1 DEF DesktopTypeOK
<1>4. CASE Release(o)
  <2>1. /\ op[o].at = "release" /\ LiteDown(op[o].next)
        /\ UNCHANGED <<loaded, loading, active, trust, windows, window, terminals, acts, streams>>
        /\ saved' = saved
    BY <1>4 DEF Release, UnchangedRest, Others
  <2>2. PICK c : c = CASE op[o].kind = "choose" -> [op[o] EXCEPT !.next = Nowhere, !.at = "activate"]
                       [] op[o].kind = "show"   -> [op[o] EXCEPT !.next = Nowhere, !.at = "launcher"]
                       [] op[o].kind = "stop"   -> Free
    OBVIOUS
  <2>3. op' = [op EXCEPT ![o] = c]
    BY <1>2, <1>4, <2>2 DEF Release
  <2>4. c \in Calls /\ c.next = Nowhere
        /\ \/ c = Free /\ op[o].kind = "stop"
           \/ /\ op[o].kind # "stop" /\ c.win = op[o].win /\ c.kind = op[o].kind
              /\ c.at \in {"activate", "launcher"}
    <3>1. op[o].kind \in {"choose", "show", "stop"}
      BY <1>2 DEF Calls
    <3>2. CASE op[o].kind = "stop"
      BY <2>2, <3>2, FreeType
    <3>3. CASE op[o].kind = "choose"
      <4>1. c = [op[o] EXCEPT !.next = Nowhere, !.at = "activate"]
        BY <2>2, <3>3
      <4> QED BY <1>2, <3>3, <4>1, PlacesApart DEF Calls
    <3>4. CASE op[o].kind = "show"
      <4>1. c = [op[o] EXCEPT !.next = Nowhere, !.at = "launcher"]
        BY <2>2, <3>4
      <4> QED BY <1>2, <3>4, <4>1, PlacesApart DEF Calls
    <3> QED BY <3>1, <3>2, <3>3, <3>4
  <2>5. GoesOn(o, c)
    BY <2>1, <2>4 DEF GoesOn, Resets
  <2>6. OwnsNext(o, c)
    BY <2>4, PlacesApart DEF OwnsNext
  <2>7. CallStep(o, c)
    BY <1>1, <1>3, <2>1, <2>3, DownIs DEF CallStep
  <2> QED BY <2>4, <2>5, <2>6, <2>7, CallMoves
<1>5. CASE Activate(o)
  <2>1. /\ op[o].at = "activate" /\ saved' = saved
        /\ UNCHANGED <<loaded, loading, active, trust, windows, window, terminals, acts, streams>>
    BY <1>5 DEF Activate, UnchangedRest, Others
  <2>2. CASE op' = [op EXCEPT ![o].next = Server, ![o].at = "probe"] /\ UNCHANGED lite
    <3>1. PICK c : c = [op[o] EXCEPT !.next = Server, !.at = "probe"]
      OBVIOUS
    <3>2. op' = [op EXCEPT ![o] = c]
      BY <1>2, <2>2, <3>1
    <3>3. c \in Calls /\ c.next = Server /\ c.at = "probe" /\ c.win = op[o].win /\ c.kind = op[o].kind
      BY <1>2, <3>1, PlacesApart DEF Calls
    <3>4. GoesOn(o, c) /\ OwnsNext(o, c)
      BY <1>2, <2>1, <3>3, PlacesApart DEF GoesOn, OwnsNext, Resets
    <3>5. CallStep(o, c)
      BY <1>3, <2>1, <2>2, <3>2 DEF CallStep
    <3> QED BY <3>3, <3>4, <3>5, CallMoves
  <2>3. ASSUME NEW r \in Lites, lite[r] = "none", lite' = [lite EXCEPT ![r] = "starting"],
               op' = [op EXCEPT ![o].next = r, ![o].at = "starting"]
        PROVE  DesktopInv'
    <3>1. PICK c : c = [op[o] EXCEPT !.next = r, !.at = "starting"]
      OBVIOUS
    <3>2. op' = [op EXCEPT ![o] = c]
      BY <1>2, <2>3, <3>1
    <3>3. c \in Calls /\ c.next = r /\ c.at = "starting" /\ c.win = op[o].win /\ c.kind = op[o].kind
      BY <1>2, <3>1, PlacesApart DEF Calls
    <3>4. GoesOn(o, c) /\ OwnsNext(o, c)
      BY <1>2, <1>3, <2>1, <2>3, <3>3 DEF GoesOn, OwnsNext, Resets
    <3>5. CallStep(o, c)
      BY <1>3, <2>1, <2>3, <3>2, <3>3 DEF CallStep
    <3> QED BY <3>3, <3>4, <3>5, CallMoves
  <2>4. (op' = [op EXCEPT ![o].next = Server, ![o].at = "probe"] /\ UNCHANGED lite)
        \/ \E r \in Lites : /\ lite[r] = "none" /\ lite' = [lite EXCEPT ![r] = "starting"]
                            /\ op' = [op EXCEPT ![o].next = r, ![o].at = "starting"]
    BY <1>5 DEF Activate
  <2> QED BY <2>2, <2>3, <2>4
<1>6. CASE FinishStart(o)
  <2>1. /\ op[o].at = "starting" /\ saved' = saved
        /\ UNCHANGED <<loaded, loading, active, trust, windows, window, terminals, acts, streams>>
    BY <1>6 DEF FinishStart, UnchangedRest, Others
  <2>2. CASE lite' = [lite EXCEPT ![op[o].next] = "up"] /\ ReachStep(o, "probe")
    <3>1. PICK c : c = [op[o] EXCEPT !.at = "probe"]
      OBVIOUS
    <3>2. op' = [op EXCEPT ![o] = c]
      BY <1>2, <2>2, <3>1 DEF ReachStep
    <3>3. c \in Calls /\ c.next = op[o].next /\ c.at = "probe" /\ c.win = op[o].win /\ c.kind = op[o].kind
      BY <1>2, <3>1 DEF Calls
    <3>4. GoesOn(o, c) /\ OwnsNext(o, c)
      BY <1>2, <1>3, <2>1, <2>2, <3>3 DEF GoesOn, OwnsNext, Resets
    <3>5. CallStep(o, c)
      BY <1>3, <2>1, <2>2, <3>2, <3>3 DEF CallStep
    <3> QED BY <3>3, <3>4, <3>5, CallMoves
  <2>3. CASE LiteDown(op[o].next) /\ op' = [op EXCEPT ![o].next = Nowhere, ![o].at = "fail"]
    <3>1. PICK c : c = [op[o] EXCEPT !.next = Nowhere, !.at = "fail"]
      OBVIOUS
    <3>2. op' = [op EXCEPT ![o] = c]
      BY <1>2, <2>3, <3>1
    <3>3. c \in Calls /\ c.next = Nowhere /\ c.at = "fail" /\ c.win = op[o].win /\ c.kind = op[o].kind
      BY <1>2, <3>1, PlacesApart DEF Calls
    <3>4. GoesOn(o, c) /\ OwnsNext(o, c)
      BY <1>2, <2>1, <3>3, PlacesApart DEF GoesOn, OwnsNext, Resets
    <3>5. CallStep(o, c)
      <4>1. /\ lite' \in [Lites -> {"none", "starting", "up", "down"}]
            /\ \A x \in Lites \ {op[o].next} : lite'[x] = lite[x]
            /\ \A x \in Lites : lite'[x] = "none" => lite[x] = "none"
        BY <1>1, <2>3, DownIs
      <4> QED BY <1>3, <2>1, <3>2, <4>1 DEF CallStep
    <3> QED BY <3>3, <3>4, <3>5, CallMoves
  <2>4. \/ lite' = [lite EXCEPT ![op[o].next] = "up"] /\ ReachStep(o, "probe")
        \/ LiteDown(op[o].next) /\ op' = [op EXCEPT ![o].next = Nowhere, ![o].at = "fail"]
    BY <1>6 DEF FinishStart
  <2> QED BY <2>2, <2>3, <2>4
<1>7. CASE Probe(o) \/ Persist(o)
  <2>1. /\ op[o].at \in {"probe", "persist"} /\ lite' = lite /\ saved' \in {"none", "lite", "server"}
        /\ UNCHANGED <<loaded, loading, active, trust, windows, window, terminals, acts, streams>>
    BY <1>2, <1>3, <1>7 DEF Probe, Persist, UnchangedRest, Others, Calls
  <2>2. PICK place \in {"persist", "navigate", "fail"} : ReachStep(o, place)
    BY <1>7 DEF Probe, Persist
  <2>3. PICK c : c = [op[o] EXCEPT !.at = place]
    OBVIOUS
  <2>4. op' = [op EXCEPT ![o] = c]
    BY <1>2, <2>2, <2>3 DEF ReachStep
  <2>5. c \in Calls /\ c.next = op[o].next /\ c.at = place /\ c.win = op[o].win /\ c.kind = op[o].kind
    BY <1>2, <2>3 DEF Calls
  <2>6. op[o].next \in Lites => lite[op[o].next] = "up"
    BY <1>1, <2>1 DEF RuntimesOwned
  <2>7. GoesOn(o, c) /\ OwnsNext(o, c)
    BY <1>2, <2>1, <2>5, <2>6 DEF GoesOn, OwnsNext, Resets
  <2>8. CallStep(o, c)
    BY <1>3, <2>1, <2>4 DEF CallStep
  <2> QED BY <2>5, <2>7, <2>8, CallMoves
<1>8. CASE Fail(o)
  <2>1. /\ op[o].at = "fail" /\ LiteDown(op[o].next) /\ saved' = saved
        /\ UNCHANGED <<loaded, loading, active, trust, windows, window, terminals, acts, streams>>
    BY <1>8 DEF Fail, UnchangedRest, Others
  <2>2. PICK c : c = [op[o] EXCEPT !.next = Nowhere, !.ok = FALSE, !.at = "launcher"]
    OBVIOUS
  <2>3. op' = [op EXCEPT ![o] = c]
    BY <1>2, <1>8, <2>2 DEF Fail
  <2>4. c \in Calls /\ c.next = Nowhere /\ c.at = "launcher" /\ c.win = op[o].win /\ c.kind = op[o].kind
    BY <1>2, <2>2, PlacesApart DEF Calls
  <2>5. GoesOn(o, c) /\ OwnsNext(o, c)
    BY <1>2, <2>1, <2>4, PlacesApart DEF GoesOn, OwnsNext, Resets
  <2>6. CallStep(o, c)
    BY <1>1, <1>3, <2>1, <2>3, DownIs DEF CallStep
  <2> QED BY <2>4, <2>5, <2>6, CallMoves
<1> QED BY <1>4, <1>5, <1>6, <1>7, <1>8

\* A call takes the window over, or finds it gone: navigate, and showLauncher.
LEMMA LoadStepsKeep ==
  ASSUME DesktopInv, NEW o \in Ops, Navigate(o) \/ ShowLauncher(o)
  PROVE  DesktopInv'
<1>1. DesktopTypeOK /\ RuntimesOwned /\ LoadsInv /\ WindowInv /\ TrustInv /\ TerminalsInv
  BY DEF DesktopInv
<1>2. /\ op \in [Ops -> Calls] /\ op[o] \in Calls /\ op[o].next \in Origins
      /\ op[o].at \in {"navigate", "launcher"} /\ op[o].kind # "stop"
      /\ trust \in Trusts /\ windows \in Nat
  BY <1>1, DesktopTypes DEF LoadsInv, Navigate, ShowLauncher
<1>3. UNCHANGED <<loaded, active, lite, saved, windows, window, terminals, acts, streams>>
  BY DEF Navigate, ShowLauncher, UnchangedRest, Others
<1>4. op[o].win # 0 /\ op[o].win <= windows
  BY <1>1, <1>2 DEF LoadsInv
<1>5. CASE window = op[o].win
  <2>1. \E c \in Calls :
          /\ op' = [op EXCEPT ![o] = c] /\ c.at = "load" /\ c.win = op[o].win /\ c.kind = op[o].kind
          /\ c.next = op[o].next
    <3>1. CASE Navigate(o)
      <4>1. PICK c : c = [op[o] EXCEPT !.at = "load", !.was = trust]
        OBVIOUS
      <4>2. op' = [op EXCEPT ![o] = c]
        BY <1>5, <3>1, <4>1 DEF Navigate, Load
      <4>3. c \in Calls /\ c.at = "load" /\ c.win = op[o].win /\ c.kind = op[o].kind /\ c.next = op[o].next
        BY <1>2, <4>1 DEF Calls, Trusts
      <4> QED BY <4>2, <4>3
    <3>2. CASE ShowLauncher(o)
      <4>1. PICK c : c = [op[o] EXCEPT !.at = "load"]
        OBVIOUS
      <4>2. op' = [op EXCEPT ![o] = c]
        BY <1>5, <3>2, <4>1 DEF ShowLauncher, Load
      <4>3. c \in Calls /\ c.at = "load" /\ c.win = op[o].win /\ c.kind = op[o].kind /\ c.next = op[o].next
        BY <1>2, <4>1 DEF Calls
      <4> QED BY <4>2, <4>3
    <3> QED BY <3>1, <3>2
  <2>2. PICK c \in Calls :
          /\ op' = [op EXCEPT ![o] = c] /\ c.at = "load" /\ c.win = op[o].win /\ c.kind = op[o].kind
          /\ c.next = op[o].next
    BY <2>1
  <2>3. /\ op' \in [Ops -> Calls] /\ op'[o] = c /\ \A u \in Ops \ {o} : op'[u] = op[u]
    BY <1>2, <2>2
  <2>4. /\ window \in WindowIds /\ loading \in [WindowIds -> Ops \union {NoOp}]
        /\ loading' = [loading EXCEPT ![window] = o]
    BY <1>1, <1>4, <1>5, DesktopTypes DEF Navigate, ShowLauncher, Load, DesktopTypeOK
  <2>5. /\ trust' \in Trusts /\ trust'.terminal \in {Nowhere, op[o].next}
    <3>1. CASE Navigate(o)
      <4>1. trust' = [trust EXCEPT !.terminal = op[o].next]
        BY <1>5, <3>1 DEF Navigate
      <4> QED BY <1>2, <4>1 DEF Trusts
    <3>2. CASE ShowLauncher(o)
      BY <3>2, PlacesApart DEF ShowLauncher, Trusts, Launchers
    <3> QED BY <3>1, <3>2
  <2>6. DesktopTypeOK'
    BY <1>1, <1>3, <2>3, <2>4, <2>5, DesktopTyped DEF DesktopTypeOK
  <2>7. RuntimesOwned'
    <3>1. \A u \in Ops : op'[u].next = op[u].next /\ op'[u].win = op[u].win
      BY <2>2, <2>3
    <3>2. op[o].next \in Lites => op[o].at = "navigate" /\ lite[op[o].next] = "up"
      BY <1>1, <1>2 DEF RuntimesOwned
    <3>3. ASSUME NEW u \in Ops, op'[u].next \in Lites
          PROVE  /\ lite'[op'[u].next] # "none"
                 /\ \A v \in Ops \ {u} : op'[v].next # op'[u].next
                 /\ \A w \in WindowIds : active'[w] # op'[u].next
                                         /\ (loaded'[w] = op'[u].next => w = op'[u].win)
                 /\ op'[u].at \in {"probe", "persist", "navigate", "load"} => lite'[op'[u].next] = "up"
                 /\ op'[u].at # "launcher"
      <4>1. /\ lite[op[u].next] # "none"
            /\ \A v \in Ops \ {u} : op[v].next # op[u].next
            /\ \A w \in WindowIds : active[w] # op[u].next /\ (loaded[w] = op[u].next => w = op[u].win)
        BY <1>1, <3>1, <3>3 DEF RuntimesOwned
      <4>2. /\ op'[u].at \in {"probe", "persist", "navigate", "load"} => lite[op[u].next] = "up"
            /\ op'[u].at # "launcher"
        BY <1>1, <2>2, <2>3, <3>1, <3>2, <3>3 DEF RuntimesOwned
      <4> QED BY <1>3, <3>1, <4>1, <4>2
    <3> QED BY <1>1, <1>3, <3>3 DEF RuntimesOwned
  <2>8. LoadsInv'
    <3>1. \A w \in WindowIds : loading'[w] \in Ops => w = window /\ loading'[w] = o
      BY <1>1, <2>4 DEF LoadsInv
    <3> QED BY <1>1, <1>2, <1>3, <1>4, <1>5, <2>2, <2>3, <3>1 DEF LoadsInv
  <2>9. WindowInv'
    <3>1. Brings(o)'
      BY <1>2, <1>3, <1>5, <2>2, <2>3, <2>4 DEF Brings
    <3> QED BY <3>1 DEF WindowInv
  <2>10. TrustInv'
    <3>1. Target' = op[o].next
      BY <1>3, <1>4, <1>5, <2>2, <2>3, <2>4 DEF Target
    <3> QED BY <2>5, <3>1 DEF TrustInv
  <2>11. TerminalsInv'
    BY <1>1, <1>3 DEF TerminalsInv, Live
  <2> QED BY <2>6, <2>7, <2>8, <2>9, <2>10, <2>11 DEF DesktopInv
<1>6. CASE window # op[o].win
  <2>1. CASE Navigate(o)
    <3>1. PICK c : c = [op[o] EXCEPT !.at = "fail"]
      OBVIOUS
    <3>2. op' = [op EXCEPT ![o] = c] /\ UNCHANGED <<loading, trust>> /\ op[o].at = "navigate"
      BY <1>6, <2>1, <3>1 DEF Navigate, Load
    <3>3. c \in Calls /\ c.next = op[o].next /\ c.at = "fail" /\ c.win = op[o].win /\ c.kind = op[o].kind
      BY <1>2, <3>1 DEF Calls
    <3>4. GoesOn(o, c) /\ OwnsNext(o, c)
      BY <1>1, <1>2, <1>3, <3>2, <3>3 DEF GoesOn, OwnsNext, Resets, RuntimesOwned
    <3>5. CallStep(o, c)
      BY <1>1, <1>3, <3>2 DEF CallStep, DesktopTypeOK
    <3> QED BY <3>3, <3>4, <3>5, CallMoves
  <2>2. CASE ShowLauncher(o)
    <3>1. /\ op' = [op EXCEPT ![o] = Free] /\ UNCHANGED loading
          /\ trust' \in Trusts /\ trust'.terminal = Nowhere /\ op[o].at = "launcher"
      BY <1>6, <2>2, PlacesApart DEF ShowLauncher, Load, Trusts, Launchers
    <3>2. /\ op' \in [Ops -> Calls] /\ op'[o] = Free /\ \A u \in Ops \ {o} : op'[u] = op[u]
      BY <1>2, <3>1, FreeType
    <3>3. DesktopTypeOK'
      BY <1>1, <1>3, <3>1, <3>2, DesktopTyped DEF DesktopTypeOK
    <3>4. RuntimesOwned'
      BY <1>1, <1>3, <3>2, FreeType, PlacesApart DEF RuntimesOwned
    <3>5. LoadsInv'
      BY <1>1, <1>2, <1>3, <3>1, <3>2, FreeType DEF LoadsInv
    <3>6. WindowInv'
      <4>1. ~Brings(o) /\ \A u \in Ops \ {o} : Brings(u) => Brings(u)'
        BY <1>3, <1>6, <3>1, <3>2 DEF Brings
      <4>2. window # 0 => (Alive(window) <=> Alive(window)')
        BY <1>3 DEF Alive
      <4> QED BY <1>1, <1>3, <4>1, <4>2 DEF WindowInv
    <3>7. TrustInv' /\ TerminalsInv'
      BY <1>1, <1>3, <3>1 DEF TrustInv, TerminalsInv, Live
    <3> QED BY <3>3, <3>4, <3>5, <3>6, <3>7 DEF DesktopInv
  <2> QED BY <2>1, <2>2
<1> QED BY <1>5, <1>6

\* A load is done: what it has brought is alive, and trusted if anything is.
LEMMA LoadDoneKeeps ==
  ASSUME DesktopInv, NEW o \in Ops, LoadDone(o)
  PROVE  DesktopInv'
<1> DEFINE r == op[o].next
           brought == IF r # Nowhere THEN r ELSE IF op[o].ok THEN Launcher ELSE LauncherWithError
<1>1. DesktopTypeOK /\ RuntimesOwned /\ LoadsInv /\ WindowInv /\ TrustInv /\ TerminalsInv
  BY DEF DesktopInv
<1>2. /\ op \in [Ops -> Calls] /\ op[o].next \in Origins /\ trust \in Trusts /\ windows \in Nat
      /\ op[o].at = "load" /\ op[o].win # 0 /\ NoOp \notin Ops
  BY <1>1, DesktopTypes, DesktopConstants DEF LoadsInv, LoadDone
<1>3. op[o].win \in WindowIds /\ loading[op[o].win] = o /\ op[o].win = window /\ window # 0
      /\ window \in WindowIds
  <2>1. op[o].win \in WindowIds
    BY <1>1, <1>2 DEF DesktopTypeOK, WindowIds
  <2>2. loading[op[o].win] = o
    BY DEF LoadDone
  <2> QED BY <1>1, <1>2, <2>1, <2>2 DEF LoadsInv
<1>4. /\ UNCHANGED <<lite, saved, windows, window, terminals, acts>>
      /\ loading' = [loading EXCEPT ![window] = NoOp]
      /\ op' = [op EXCEPT ![o] = Free]
      /\ streams' = streams \ {loaded[window]}
      /\ loaded' = [loaded EXCEPT ![window] = brought]
  BY <1>3 DEF LoadDone, Others
<1>5. \/ active' = [active EXCEPT ![window] = r] /\ r # Nowhere
      \/ active' = active /\ r = Nowhere
  BY <1>3 DEF LoadDone
<1>6. trust' \in Trusts /\ trust'.terminal = trust.terminal
  <2>1. trust' = [trust EXCEPT !.launcher = Nowhere] \/ trust' = trust
    BY DEF LoadDone
  <2> QED BY <1>2, <2>1 DEF Trusts
<1>7. /\ op' \in [Ops -> Calls] /\ op'[o] = Free /\ \A u \in Ops \ {o} : op'[u] = op[u]
  BY <1>2, <1>4, FreeType
<1>8. /\ brought \in 0..LauncherWithError /\ brought # Nowhere
      /\ brought \in Lites => brought = r /\ lite[r] = "up"
  <2>1. r \in Lites => lite[r] = "up"
    BY <1>1, <1>2 DEF RuntimesOwned
  <2> QED BY <1>2, <2>1, PlacesApart
<1>9. /\ loaded' \in [WindowIds -> 0..LauncherWithError] /\ loaded'[window] = brought
      /\ \A w \in WindowIds \ {window} : loaded'[w] = loaded[w]
  <2> HIDE DEF brought
  <2> QED BY <1>1, <1>3, <1>4, <1>8 DEF DesktopTypeOK
<1>10. /\ active' \in [WindowIds -> Origins]
       /\ active'[window] = r \/ active'[window] = active[window]
       /\ r = Nowhere => active' = active
       /\ \A w \in WindowIds \ {window} : active'[w] = active[w]
  BY <1>1, <1>2, <1>3, <1>5 DEF DesktopTypeOK
<1>11. /\ loading' \in [WindowIds -> Ops \union {NoOp}] /\ loading'[window] = NoOp
       /\ \A w \in WindowIds \ {window} : loading'[w] = loading[w]
  BY <1>1, <1>3, <1>4 DEF DesktopTypeOK
<1> HIDE DEF brought
<1>12. DesktopTypeOK'
  BY <1>1, <1>4, <1>6, <1>7, <1>9, <1>10, <1>11, DesktopTyped DEF DesktopTypeOK
<1>13. RuntimesOwned'
  <2>1. r \in Lites => /\ lite[r] = "up" /\ \A u \in Ops \ {o} : op[u].next # r
                       /\ \A w \in WindowIds : active[w] # r /\ (loaded[w] = r => w = window)
    BY <1>1, <1>2, <1>3 DEF RuntimesOwned
  <2>2. ASSUME NEW u \in Ops, op'[u].next \in Lites
        PROVE  /\ lite'[op'[u].next] # "none"
               /\ \A v \in Ops \ {u} : op'[v].next # op'[u].next
               /\ \A w \in WindowIds : active'[w] # op'[u].next
                                       /\ (loaded'[w] = op'[u].next => w = op'[u].win)
               /\ op'[u].at \in {"probe", "persist", "navigate", "load"} => lite'[op'[u].next] = "up"
               /\ op'[u].at # "launcher"
    <3>1. u # o /\ op'[u] = op[u] /\ op[u].next \in Lites
      BY <1>7, <2>2, FreeType, PlacesApart
    <3>2. r # op[u].next
      BY <2>1, <3>1
    <3>3. brought # op[u].next
      BY <1>8, <3>1, <3>2
    <3>4. \A v \in Ops \ {u} : op'[v].next # op[u].next
      BY <1>1, <1>7, <3>1, FreeType, PlacesApart DEF RuntimesOwned
    <3>5. \A w \in WindowIds : active[w] # op[u].next /\ (loaded[w] = op[u].next => w = op[u].win)
      BY <1>1, <3>1 DEF RuntimesOwned
    <3>6. \A w \in WindowIds : active'[w] # op[u].next /\ (loaded'[w] = op[u].next => w = op[u].win)
      BY <1>9, <1>10, <1>3, <3>2, <3>3, <3>5
    <3>7. /\ lite[op[u].next] # "none" /\ op[u].at # "launcher"
          /\ op[u].at \in {"probe", "persist", "navigate", "load"} => lite[op[u].next] = "up"
      BY <1>1, <3>1 DEF RuntimesOwned
    <3> QED BY <1>4, <3>1, <3>4, <3>6, <3>7
  <2>3. ASSUME NEW w \in WindowIds, active'[w] \in Lites
        PROVE  /\ lite'[active'[w]] = "up"
               /\ \A v \in WindowIds \ {w} : active'[v] # active'[w] /\ loaded'[v] # active'[w]
    <3>1. CASE w = window /\ active'[w] = r
      <4>1. \A v \in WindowIds \ {w} : active'[v] = active[v] /\ loaded'[v] = loaded[v]
        BY <1>9, <1>10, <3>1
      <4> QED BY <1>3, <1>4, <2>1, <2>3, <3>1, <4>1
    <3>2. CASE active'[w] = active[w]
      <4>1. /\ lite[active[w]] = "up"
            /\ \A v \in WindowIds \ {w} : active[v] # active[w] /\ loaded[v] # active[w]
        BY <1>1, <2>3, <3>2 DEF RuntimesOwned
      <4>2. active[w] # r
        BY <2>1, <2>3, <3>2
      <4>3. brought # active[w]
        BY <1>8, <2>3, <3>2, <4>2
      <4>4. \A v \in WindowIds \ {w} : active'[v] # active[w] /\ loaded'[v] # active[w]
        BY <1>3, <1>9, <1>10, <4>1, <4>2, <4>3
      <4> QED BY <1>4, <3>2, <4>1, <4>4
    <3> QED BY <1>3, <1>10, <3>1, <3>2
  <2>4. \A w \in WindowIds : loaded'[w] \in Lites => lite'[loaded'[w]] # "none"
    BY <1>1, <1>4, <1>8, <1>9 DEF RuntimesOwned
  <2> QED BY <2>2, <2>3, <2>4 DEF RuntimesOwned
<1>14. LoadsInv'
  <2>1. \A w \in WindowIds : loading'[w] \notin Ops
    BY <1>1, <1>2, <1>11 DEF LoadsInv
  <2> QED BY <1>1, <1>2, <1>4, <1>7, <2>1, FreeType DEF LoadsInv
<1>15. WindowInv'
  <2>1. Alive(window)'
    BY <1>4, <1>8, <1>9 DEF Alive
  <2> QED BY <2>1 DEF WindowInv
<1>16. TrustInv'
  <2>1. Target = r
    BY <1>3 DEF Target
  <2>2. Target' = brought
    BY <1>2, <1>3, <1>4, <1>9, <1>11 DEF Target
  <2>3. r # Nowhere => brought = r
    BY DEF brought
  <2>4. \A u \in Ops : Resets(u) => Resets(u)'
    BY <1>2, <1>7 DEF Resets
  <2> QED BY <1>1, <1>6, <2>1, <2>2, <2>3, <2>4 DEF TrustInv
<1>17. TerminalsInv'
  BY <1>1, <1>4 DEF TerminalsInv, Live
<1> QED BY <1>12, <1>13, <1>14, <1>15, <1>16, <1>17 DEF DesktopInv

\* A load that is taken over, or fails: the call goes on to the launcher, or had brought it.
LEMMA LoadFailsKeeps ==
  ASSUME DesktopInv, NEW o \in Ops, LoadFails(o)
  PROVE  DesktopInv'
<1> DEFINE r == op[o].next
<1>1. DesktopTypeOK /\ RuntimesOwned /\ LoadsInv /\ WindowInv /\ TrustInv /\ TerminalsInv
  BY DEF DesktopInv
<1>2. /\ op \in [Ops -> Calls] /\ op[o] \in Calls /\ op[o].was \in Trusts /\ trust \in Trusts
      /\ windows \in Nat /\ op[o].at = "load" /\ op[o].win # 0 /\ op[o].kind # "stop" /\ NoOp \notin Ops
  BY <1>1, DesktopTypes, DesktopConstants DEF LoadsInv, LoadFails
<1>3. /\ UNCHANGED <<loaded, active, lite, saved, windows, window, terminals, acts, streams>>
      /\ op[o].win \in WindowIds /\ (loading[op[o].win] # o \/ r # Nowhere)
      /\ loading' = IF loading[op[o].win] = o THEN [loading EXCEPT ![op[o].win] = NoOp] ELSE loading
      /\ trust' = IF r # Nowhere THEN op[o].was ELSE trust
  BY <1>1, <1>2 DEF LoadFails, UnchangedRest, Others, DesktopTypeOK, WindowIds
<1>4. PICK c : c = IF r # Nowhere THEN [op[o] EXCEPT !.at = "fail"] ELSE Free
  OBVIOUS
<1>5. op' = [op EXCEPT ![o] = c]
  BY <1>2, <1>4 DEF LoadFails
<1>6. /\ c \in Calls
      /\ r # Nowhere => c.at = "fail" /\ c.win = op[o].win /\ c.kind = op[o].kind /\ c.next = r
      /\ r = Nowhere => c = Free
  BY <1>2, <1>4, FreeType DEF Calls
<1>7. op' \in [Ops -> Calls] /\ op'[o] = c /\ \A u \in Ops \ {o} : op'[u] = op[u]
  BY <1>2, <1>5, <1>6
<1>8. trust' \in Trusts
  BY <1>2, <1>3
<1>9. /\ loading' \in [WindowIds -> Ops \union {NoOp}]
      /\ \A w \in WindowIds : loading'[w] \in Ops => loading'[w] = loading[w] /\ loading[w] # o
  <2>1. ASSUME NEW w \in WindowIds, loading[w] = o PROVE w = op[o].win
    BY <1>1, <2>1 DEF LoadsInv
  <2> QED BY <1>1, <1>2, <1>3, <2>1 DEF DesktopTypeOK
<1>10. DesktopTypeOK'
  BY <1>1, <1>3, <1>7, <1>8, <1>9, DesktopTyped DEF DesktopTypeOK
<1>11. RuntimesOwned'
  <2>1. \A u \in Ops : op'[u].next = op[u].next
    BY <1>6, <1>7, FreeType
  <2>2. \A u \in Ops : op'[u].next \in Lites =>
          op'[u].win = op[u].win /\ (op'[u].at = op[u].at \/ op'[u].at = "fail")
    BY <1>6, <1>7, FreeType, PlacesApart
  <2> QED BY <1>1, <1>3, <2>1, <2>2 DEF RuntimesOwned
<1>12. LoadsInv'
  <2>1. c.win <= windows /\ (c.at # "free" => c.win # 0) /\ c.kind # "stop"
    BY <1>1, <1>2, <1>6, FreeType DEF LoadsInv
  <2> QED BY <1>1, <1>3, <1>7, <1>9, <2>1 DEF LoadsInv
<1>13. WindowInv'
  <2>1. \A u \in Ops \ {o} : Brings(u) => Brings(u)'
    <3> TAKE u \in Ops \ {o}
    <3> HAVE Brings(u)
    <3>1. ASSUME op[u].at = "load" PROVE loading'[window] = u
      BY <1>3, <3>1 DEF Brings
    <3> QED BY <1>3, <1>7, <3>1 DEF Brings
  <2>2. Brings(o) => Brings(o)'
    BY <1>2, <1>3, <1>6, <1>7 DEF Brings
  <2>3. Alive(window) => Alive(window)'
    BY <1>3 DEF Alive
  <2> QED BY <1>1, <1>3, <2>1, <2>2, <2>3 DEF WindowInv
<1>14. TrustInv'
  <2>1. CASE r # Nowhere
    BY <1>6, <1>7, <2>1 DEF TrustInv, Resets
  <2>2. CASE r = Nowhere
    <3>1. trust' = trust /\ loading' = loading
      BY <1>3, <2>2
    <3>2. window # 0 => window \in WindowIds
      BY <1>1, DesktopTypes
    <3>3. Target' = Target
      BY <1>3, <1>7, <1>9, <3>1, <3>2 DEF Target
    <3>4. \A u \in Ops : Resets(u) => Resets(u)'
      BY <1>2, <1>7 DEF Resets
    <3> QED BY <1>1, <3>1, <3>3, <3>4 DEF TrustInv
  <2> QED BY <2>1, <2>2
<1>15. TerminalsInv'
  BY <1>1, <1>3 DEF TerminalsInv, Live
<1> QED BY <1>10, <1>11, <1>12, <1>13, <1>14, <1>15 DEF DesktopInv

\* A new call takes what is active from its window, to release it.
LEMMA BeginIs ==
  ASSUME DesktopInv, NEW o \in Ops, NEW kind \in {"choose", "show", "stop"}, NEW w \in WindowIds,
         NEW mode \in {"lite", "server"}, w <= windows,
         BeginLoad(o, kind, w, mode),
         UNCHANGED <<lite, saved>>,
         \A v \in WindowIds : loaded'[v] \in {loaded[v], Nowhere}
  PROVE  /\ op' \in [Ops -> Calls] /\ op[o].at = "free" /\ op[o].next = Nowhere
         /\ op'[o].at = "release" /\ op'[o].kind = kind /\ op'[o].win = w
         /\ \A u \in Ops \ {o} : op'[u] = op[u]
         /\ active' \in [WindowIds -> Origins]
         /\ RuntimesOwned'
<1>1. /\ op \in [Ops -> Calls] /\ active \in [WindowIds -> Origins] /\ RuntimesOwned /\ op[o] = Free
      /\ \A v \in WindowIds : loaded[v] \in 0..LauncherWithError
  BY DesktopTypes DEF DesktopInv, DesktopTypeOK, BeginLoad
<1>2. PICK c : c = [Free EXCEPT !.at = "release", !.kind = kind, !.win = w, !.mode = mode, !.next = active[w]]
  OBVIOUS
<1>3. op' = [op EXCEPT ![o] = c] /\ active' = [active EXCEPT ![w] = Nowhere]
  BY <1>2 DEF BeginLoad
<1>4. c \in Calls /\ c.at = "release" /\ c.kind = kind /\ c.win = w /\ c.next = active[w]
  <2>1. PICK a : a = active[w]
    OBVIOUS
  <2>2. a \in Origins /\ w \in 0..MaxWindows
    BY <1>1, <2>1 DEF WindowIds
  <2>3. c = [at |-> "release", kind |-> kind, win |-> w, mode |-> mode, next |-> a,
             was |-> NoTrust, ok |-> TRUE]
    BY <1>2, <2>1 DEF Free
  <2> QED BY <2>1, <2>2, <2>3, FreeType DEF Calls, Trusts
<1>5. /\ op' \in [Ops -> Calls] /\ op'[o] = c /\ \A u \in Ops \ {o} : op'[u] = op[u]
      /\ active' \in [WindowIds -> Origins] /\ active'[w] = Nowhere
      /\ \A v \in WindowIds \ {w} : active'[v] = active[v]
  BY <1>1, <1>3, <1>4, PlacesApart
<1>6. ASSUME NEW u \in Ops, op'[u].next \in Lites
      PROVE  /\ lite'[op'[u].next] # "none"
             /\ \A v \in Ops \ {u} : op'[v].next # op'[u].next
             /\ \A v \in WindowIds : active'[v] # op'[u].next
                                     /\ (loaded'[v] = op'[u].next => v = op'[u].win)
             /\ op'[u].at \in {"probe", "persist", "navigate", "load"} => lite'[op'[u].next] = "up"
             /\ op'[u].at # "launcher"
  <2>1. CASE u = o
    <3>1. op'[u] = c /\ c.next = active[w] /\ active[w] \in Lites
      BY <1>4, <1>5, <1>6, <2>1
    <3>2. /\ lite[active[w]] = "up"
          /\ \A v \in WindowIds \ {w} : active[v] # active[w] /\ loaded[v] # active[w]
          /\ \A v \in Ops : op[v].next # active[w]
      BY <1>1, <3>1 DEF RuntimesOwned
    <3>3. \A v \in WindowIds : active'[v] # active[w] /\ (loaded'[v] = active[w] => v = w)
      BY <1>5, <3>1, <3>2, PlacesApart
    <3>4. \A v \in Ops \ {o} : op'[v].next # active[w]
      BY <1>5, <3>2
    <3> QED BY <1>4, <2>1, <3>1, <3>2, <3>3, <3>4
  <2>2. CASE u # o
    <3>1. op'[u] = op[u] /\ op[u].next \in Lites
      BY <1>5, <1>6, <2>2
    <3>2. /\ lite[op[u].next] # "none"
          /\ \A v \in Ops \ {u} : op[v].next # op[u].next
          /\ \A v \in WindowIds : active[v] # op[u].next /\ (loaded[v] = op[u].next => v = op[u].win)
          /\ op[u].at \in {"probe", "persist", "navigate", "load"} => lite[op[u].next] = "up"
          /\ op[u].at # "launcher"
      BY <1>1, <3>1 DEF RuntimesOwned
    <3>3. c.next # op[u].next
      BY <1>4, <3>2
    <3>4. \A v \in Ops \ {u} : op'[v].next # op[u].next
      BY <1>5, <3>2, <3>3
    <3>5. \A v \in WindowIds : active'[v] # op[u].next /\ (loaded'[v] = op[u].next => v = op[u].win)
      BY <1>5, <3>1, <3>2, PlacesApart
    <3> QED BY <3>1, <3>2, <3>4, <3>5
  <2> QED BY <2>1, <2>2
<1>7. ASSUME NEW v \in WindowIds, active'[v] \in Lites
      PROVE  /\ lite'[active'[v]] = "up"
             /\ \A x \in WindowIds \ {v} : active'[x] # active'[v] /\ loaded'[x] # active'[v]
  <2>1. v # w /\ active'[v] = active[v] /\ active[v] \in Lites
    BY <1>5, <1>7, PlacesApart
  <2>2. /\ lite[active[v]] = "up"
        /\ \A x \in WindowIds \ {v} : active[x] # active[v] /\ loaded[x] # active[v]
    BY <1>1, <2>1 DEF RuntimesOwned
  <2>3. \A x \in WindowIds \ {v} : active'[x] # active[v] /\ loaded'[x] # active[v]
    BY <1>5, <2>1, <2>2, PlacesApart
  <2> QED BY <2>1, <2>2, <2>3
<1>8. \A v \in WindowIds : loaded'[v] \in Lites => lite'[loaded'[v]] # "none"
  BY <1>1, PlacesApart DEF RuntimesOwned
<1>9. RuntimesOwned'
  BY <1>6, <1>7, <1>8 DEF RuntimesOwned
<1> QED BY <1>1, <1>4, <1>5, <1>9, FreeType

LEMMA AskingKeeps ==
  ASSUME DesktopInv, NEW o \in Ops, Choose(o) \/ MenuRuntime(o)
  PROVE  DesktopInv'
<1>1. DesktopTypeOK /\ RuntimesOwned /\ LoadsInv /\ WindowInv /\ TrustInv /\ TerminalsInv
  BY DEF DesktopInv
<1>2. /\ window # 0 /\ acts' \in 0..MaxActs
      /\ UNCHANGED <<window, windows, loaded, loading, lite, saved, trust, terminals, streams>>
  BY <1>1, DesktopConstants DEF Choose, MenuRuntime, DesktopTypeOK
<1>3. window \in WindowIds /\ window <= windows /\ windows \in Nat
  BY <1>1, <1>2, DesktopTypes
<1>4. PICK kind \in {"choose", "show"}, mode \in {"lite", "server"} : BeginLoad(o, kind, window, mode)
  BY DEF Choose, MenuRuntime
<1>5. /\ op' \in [Ops -> Calls] /\ op[o].at = "free"
      /\ op'[o].at = "release" /\ op'[o].kind = kind /\ op'[o].win = window
      /\ \A u \in Ops \ {o} : op'[u] = op[u]
      /\ active' \in [WindowIds -> Origins]
      /\ RuntimesOwned'
  BY <1>2, <1>3, <1>4, BeginIs
<1>6. DesktopTypeOK'
  BY <1>1, <1>2, <1>5, DesktopTyped, DesktopTypes DEF DesktopTypeOK
<1>7. LoadsInv'
  <2>1. \A w \in WindowIds : loading[w] # o
    BY <1>1, <1>5 DEF LoadsInv
  <2> QED BY <1>1, <1>2, <1>3, <1>5, <2>1 DEF LoadsInv
<1>8. WindowInv'
  BY <1>2, <1>5 DEF WindowInv, Brings
<1>9. TrustInv'
  <2>1. loading[window] # o
    BY <1>1, <1>3, <1>5 DEF LoadsInv
  <2>2. Target' = Target
    BY <1>2, <1>5, <2>1 DEF Target
  <2>3. \A u \in Ops : Resets(u) => Resets(u)'
    BY <1>5 DEF Resets
  <2> QED BY <1>1, <1>2, <2>2, <2>3 DEF TrustInv
<1>10. TerminalsInv'
  BY <1>1, <1>2 DEF TerminalsInv, Live
<1> QED BY <1>5, <1>6, <1>7, <1>8, <1>9, <1>10 DEF DesktopInv

LEMMA CloseKeeps ==
  ASSUME DesktopInv, NEW o \in Ops, CloseWindow(o)
  PROVE  DesktopInv'
<1>1. DesktopTypeOK /\ RuntimesOwned /\ LoadsInv
  BY DEF DesktopInv
<1>2. /\ window # 0 /\ window' = 0 /\ BeginLoad(o, "stop", window, "lite")
      /\ loaded' = [loaded EXCEPT ![window] = Nowhere]
      /\ loading' = [loading EXCEPT ![window] = NoOp]
      /\ trust' = NoTrust /\ terminals' = [t \in 1..MaxTerminals |-> 0]
      /\ streams' = streams \ {loaded[window]}
      /\ UNCHANGED <<windows, lite, saved, acts>>
  BY DEF CloseWindow
<1>3. window \in WindowIds /\ window <= windows /\ windows \in Nat /\ NoOp \notin Ops
  BY <1>1, <1>2, DesktopTypes, DesktopConstants
<1>4. /\ loaded' \in [WindowIds -> 0..LauncherWithError]
      /\ \A v \in WindowIds : loaded'[v] \in {loaded[v], Nowhere}
  BY <1>1, <1>2, <1>3, PlacesApart DEF DesktopTypeOK
<1>5. /\ op' \in [Ops -> Calls] /\ op[o].at = "free"
      /\ op'[o].at = "release" /\ op'[o].kind = "stop" /\ op'[o].win = window
      /\ \A u \in Ops \ {o} : op'[u] = op[u]
      /\ active' \in [WindowIds -> Origins]
      /\ RuntimesOwned'
  BY <1>2, <1>3, <1>4, BeginIs
<1>6. /\ loading' \in [WindowIds -> Ops \union {NoOp}] /\ \A w \in WindowIds : loading'[w] \notin Ops
  BY <1>1, <1>2, <1>3 DEF DesktopTypeOK, LoadsInv
<1>7. DesktopTypeOK'
  <2>1. terminals' \in [1..MaxTerminals -> 0..MaxWindows]
    BY <1>2, DesktopConstants
  <2>2. window' \in 0..windows'
    BY <1>2, <1>3
  <2> QED BY <1>1, <1>2, <1>4, <1>5, <1>6, <2>1, <2>2, DesktopTyped, FreeType DEF DesktopTypeOK
<1>8. LoadsInv'
  <2>1. ASSUME NEW u \in Ops
        PROVE  /\ op'[u].win <= windows'
               /\ op'[u].at # "free" => op'[u].win # 0
               /\ op'[u].kind = "stop" => op'[u].at = "release" /\ op'[u].win # window'
    BY <1>1, <1>2, <1>3, <1>5 DEF LoadsInv
  <2> QED BY <1>6, <2>1 DEF LoadsInv
<1>9. WindowInv' /\ TrustInv' /\ TerminalsInv'
  BY <1>2, FreeType DEF WindowInv, TrustInv, TerminalsInv, Live
<1> QED BY <1>5, <1>7, <1>8, <1>9 DEF DesktopInv

LEMMA CreateKeeps ==
  ASSUME DesktopInv, NEW o \in Ops, CreateWindow(o)
  PROVE  DesktopInv'
<1> DEFINE w == windows + 1
<1>1. DesktopTypeOK /\ RuntimesOwned /\ LoadsInv /\ TrustInv /\ TerminalsInv
  BY DEF DesktopInv
<1>2. /\ window = 0 /\ windows < MaxWindows /\ windows' = w /\ window' = w /\ op[o] = Free
      /\ UNCHANGED <<loaded, loading, active, lite, saved, trust, terminals, acts, streams>>
  BY DEF CreateWindow
<1>3. windows \in Nat /\ w \in 1..MaxWindows /\ op \in [Ops -> Calls] /\ saved \in {"none", "lite", "server"}
  BY <1>1, <1>2, DesktopTypes, DesktopConstants DEF DesktopTypeOK
<1>4. PICK c : c = IF saved = "none" THEN [Free EXCEPT !.at = "launcher", !.win = w]
                   ELSE [Free EXCEPT !.at = "release", !.kind = "choose", !.win = w, !.mode = saved]
  OBVIOUS
<1>5. op' = [op EXCEPT ![o] = c]
  BY <1>4 DEF CreateWindow
<1>6. c \in Calls /\ c.at \in {"launcher", "release"} /\ c.kind # "stop" /\ c.win = w /\ c.next = Nowhere
  <2>1. w \in 0..MaxWindows
    BY <1>3
  <2>2. CASE saved = "none"
    <3>1. c = [at |-> "launcher", kind |-> "show", win |-> w, mode |-> "lite", next |-> Nowhere,
               was |-> NoTrust, ok |-> TRUE]
      BY <1>4, <2>2 DEF Free
    <3> HIDE DEF w
    <3> QED BY <2>1, <3>1, FreeType, PlacesApart DEF Calls, Trusts
  <2>3. CASE saved # "none"
    <3>1. c = [at |-> "release", kind |-> "choose", win |-> w, mode |-> saved, next |-> Nowhere,
               was |-> NoTrust, ok |-> TRUE]
      BY <1>4, <2>3 DEF Free
    <3> HIDE DEF w
    <3> QED BY <1>3, <2>1, <2>3, <3>1, FreeType, PlacesApart DEF Calls, Trusts
  <2> QED BY <2>2, <2>3
<1>7. op' \in [Ops -> Calls] /\ op'[o] = c /\ \A u \in Ops \ {o} : op'[u] = op[u]
  BY <1>3, <1>5, <1>6
<1>8. DesktopTypeOK'
  <2>1. windows' \in 0..MaxWindows /\ window' \in 0..windows'
    BY <1>2, <1>3
  <2> QED BY <1>1, <1>2, <1>7, <2>1, DesktopTyped, DesktopTypes DEF DesktopTypeOK
<1>9. RuntimesOwned'
  <2>1. \A u \in Ops : op'[u].next = op[u].next /\ (op'[u].next \in Lites => op'[u] = op[u])
    BY <1>2, <1>6, <1>7, FreeType, PlacesApart
  <2> QED BY <1>1, <1>2, <2>1 DEF RuntimesOwned
<1>10. LoadsInv'
  <2>1. \A v \in WindowIds : loading[v] \notin Ops
    BY <1>1, <1>2 DEF LoadsInv, WindowIds
  <2>2. \A u \in Ops : op[u].win \in Nat /\ op[u].win <= windows
    BY <1>1, DesktopTypes DEF LoadsInv
  <2> QED BY <1>1, <1>2, <1>3, <1>6, <1>7, <2>1, <2>2 DEF LoadsInv
<1>11. WindowInv'
  BY <1>2, <1>6, <1>7 DEF WindowInv, Brings
<1>12. TrustInv'
  <2>1. Target = Nowhere
    BY <1>2 DEF Target
  <2>2. \A u \in Ops : Resets(u) => Resets(u)'
    BY <1>2, <1>7, FreeType DEF Resets
  <2> QED BY <1>1, <1>2, <2>1, <2>2 DEF TrustInv
<1>13. TerminalsInv'
  BY <1>1, <1>2 DEF TerminalsInv, Live
<1> QED BY <1>8, <1>9, <1>10, <1>11, <1>12, <1>13 DEF DesktopInv

LEMMA PageStepsKeep ==
  ASSUME DesktopInv, CreateTerminal \/ FollowThread \/ \E t \in 1..MaxTerminals : EndTerminal(t)
  PROVE  DesktopInv'
<1>1. DesktopTypeOK /\ RuntimesOwned /\ LoadsInv /\ WindowInv /\ TrustInv /\ TerminalsInv
  BY DEF DesktopInv
<1>2. UNCHANGED <<window, windows, loaded, loading, active, lite, saved, trust, op, acts>>
  BY DEF CreateTerminal, FollowThread, EndTerminal
<1>3. streams' \subseteq Lites
  BY <1>1 DEF CreateTerminal, FollowThread, EndTerminal, DesktopTypeOK
<1>4. terminals' \in [1..MaxTerminals -> 0..MaxWindows] /\ TerminalsInv'
  <2>1. terminals \in [1..MaxTerminals -> 0..MaxWindows] /\ window \in 0..MaxWindows /\ 0 \in 0..MaxWindows
    BY <1>1, DesktopConstants DEF DesktopTypeOK
  <2>2. CASE CreateTerminal
    BY <1>1, <2>1, <2>2 DEF CreateTerminal, TerminalsInv, Live
  <2>3. CASE FollowThread
    BY <1>1, <2>1, <2>3 DEF FollowThread, TerminalsInv, Live
  <2>4. CASE \E t \in 1..MaxTerminals : EndTerminal(t)
    BY <1>1, <2>1, <2>4 DEF EndTerminal, TerminalsInv, Live
  <2> QED BY <2>2, <2>3, <2>4
<1>5. DesktopTypeOK'
  BY <1>1, <1>2, <1>3, <1>4 DEF DesktopTypeOK
<1>6. RuntimesOwned' /\ LoadsInv' /\ WindowInv' /\ TrustInv'
  BY <1>1, <1>2 DEF RuntimesOwned, LoadsInv, WindowInv, TrustInv, Alive, Brings, Target, Resets
<1> QED BY <1>4, <1>5, <1>6 DEF DesktopInv

LEMMA DesktopStart == DesktopInit => DesktopInv
<1> SUFFICES ASSUME DesktopInit PROVE DesktopInv
  OBVIOUS
<1>1. \A o \in Ops : op[o] = Free
  BY DEF DesktopInit
<1>2. DesktopTypeOK
  <2>1. /\ loaded \in [WindowIds -> 0..LauncherWithError] /\ active \in [WindowIds -> Origins]
        /\ loading \in [WindowIds -> Ops \union {NoOp}]
    BY PlacesApart DEF DesktopInit
  <2>2. /\ op \in [Ops -> Calls] /\ trust \in Trusts
    BY FreeType DEF DesktopInit
  <2>3. /\ terminals \in [1..MaxTerminals -> 0..MaxWindows] /\ acts \in 0..MaxActs
        /\ windows \in 0..MaxWindows /\ window \in 0..windows
        /\ lite \in [Lites -> {"none", "starting", "up", "down"}]
    BY DesktopConstants DEF DesktopInit
  <2> QED BY <2>1, <2>2, <2>3 DEF DesktopInit, DesktopTypeOK, Calls, Trusts
<1>3. RuntimesOwned
  BY <1>1, FreeType, PlacesApart DEF DesktopInit, RuntimesOwned
<1>4. LoadsInv
  BY <1>1, FreeType, DesktopConstants DEF DesktopInit, LoadsInv
<1>5. WindowInv /\ TrustInv /\ TerminalsInv
  BY FreeType DEF DesktopInit, WindowInv, TrustInv, TerminalsInv, Live
<1> QED BY <1>2, <1>3, <1>4, <1>5 DEF DesktopInv

LEMMA DesktopKept == DesktopInv /\ [DesktopNext]_desktopVars => DesktopInv'
<1> SUFFICES ASSUME DesktopInv, [DesktopNext]_desktopVars PROVE DesktopInv'
  OBVIOUS
<1>1. CASE UNCHANGED desktopVars
  BY <1>1 DEF desktopVars, DesktopInv, DesktopTypeOK, RuntimesOwned, LoadsInv, WindowInv, TrustInv,
     TerminalsInv, Alive, Brings, Target, Resets, Live
<1>2. ASSUME NEW o \in Ops, SessionStep(o) PROVE DesktopInv'
  BY <1>2, SessionStepsKeep, LoadStepsKeep, LoadDoneKeeps, LoadFailsKeeps DEF SessionStep
<1>3. ASSUME NEW o \in Ops, MainStep(o) PROVE DesktopInv'
  BY <1>3, CreateKeeps, AskingKeeps, CloseKeeps DEF MainStep
<1>4. CASE CreateTerminal \/ FollowThread \/ \E t \in 1..MaxTerminals : EndTerminal(t)
  BY <1>4, PageStepsKeep
<1> QED BY <1>1, <1>2, <1>3, <1>4 DEF DesktopNext

LEMMA DesktopSaysAll == DesktopInv => PageIsAlive /\ TerminalsFollowWindow
<1> SUFFICES ASSUME DesktopInv PROVE PageIsAlive /\ TerminalsFollowWindow
  OBVIOUS
<1>1. ASSUME Quiet PROVE \A o \in Ops : ~Brings(o) /\ ~Resets(o) /\ op[o].at = "free"
  BY <1>1, FreeType DEF Quiet, Brings, Resets
<1>2. PageIsAlive
  BY <1>1 DEF DesktopInv, WindowInv, Alive, PageIsAlive, OfLite
<1>3. ASSUME Quiet, window # 0, trust.terminal # Nowhere PROVE loaded[window] = trust.terminal
  <2>1. trust.terminal = Target
    BY <1>1, <1>3 DEF DesktopInv, TrustInv
  <2>2. loading[window] \notin Ops
    BY <1>1, <1>3, DesktopTypes DEF DesktopInv, LoadsInv
  <2> QED BY <1>3, <2>1, <2>2 DEF Target
<1> QED BY <1>2, <1>3 DEF TerminalsFollowWindow, DesktopInv, TerminalsInv

-----------------------------------------------------------------------------
(* LiteRuntime: what a start holds at each of its steps, and its migrations. *)

\* What the process holds after each step of a start, and while it closes.
Chain == {{}, {"db"}, {"db", "socket"}, {"db", "socket", "pool"},
          {"db", "socket", "pool", "connector"}, {"db", "socket", "pool", "connector", "jobs"},
          Resources}
HeldAt ==
  /\ at \in {"down", "secrets", "create", "db"} => open = {}
  /\ at \in {"migrate", "record", "socket"} => open = {"db"}
  /\ at = "pool" => open = {"db", "socket"}
  /\ at = "connector" => open = {"db", "socket", "pool"}
  /\ at = "jobs" => open = {"db", "socket", "pool", "connector"}
  /\ at = "http" => open = {"db", "socket", "pool", "connector", "jobs"}
  /\ at = "up" => open = Resources
  /\ at \in {"close", "fail"} => open \in Chain

\* A transaction is of a migration without a row, and past the migrations every row
\* has the text that is shipped.
MigrationsInv ==
  /\ at = "record" => tx \in Migrations /\ shipped[tx] # 0 /\ row[tx] = 0
  /\ at \in {"socket", "pool", "connector", "jobs", "http", "up"} =>
       \A m \in Migrations : shipped[m] # 0 => row[m] = shipped[m]

\* Who is told that the account exists signs in to one that does.
AgainInv == \A p \in Pages : localSession[p] = "again" => account

LiteInv ==
  LiteTypeOK /\ HeldAt /\ MigrationsInv /\ AgainInv /\ MigratedOnce /\ ClosedInOrder /\ SessionForEvery

LEMMA LiteStart == LiteInit => LiteInv
<1> SUFFICES ASSUME LiteInit PROVE LiteInv
  OBVIOUS
<1>1. LiteTypeOK
  <2>1. /\ shipped \in [Migrations -> MigrationTexts] /\ row \in [Migrations -> MigrationTexts]
        /\ ran \in [Migrations -> 0..2]
    BY DEF LiteInit, MigrationTexts
  <2>2. starts \in 0..MaxStarts /\ crashes \in 0..MaxCrashes /\ releases \in 0..MaxReleases
    BY LiteConstants DEF LiteInit
  <2>3. localSession \in [Pages -> {"none", "signIn", "signUp", "again", "in", "refused"}]
    BY DEF LiteInit
  <2> QED BY <2>1, <2>2, <2>3 DEF LiteInit, LiteTypeOK
<1>2. HeldAt /\ MigrationsInv /\ AgainInv
  BY DEF LiteInit, HeldAt, MigrationsInv, AgainInv
<1>3. MigratedOnce /\ ClosedInOrder /\ SessionForEvery
  BY DEF LiteInit, MigratedOnce, ClosedInOrder, SessionForEvery
<1> QED BY <1>1, <1>2, <1>3 DEF LiteInv

\* Before the migrations, and in the steps that only load and create the secrets.
LEMMA EarlyStepsKeep ==
  LiteInv /\ (StartLite \/ LoadSecrets \/ CreateSecrets \/ OpenDatabase) => LiteInv'
<1> SUFFICES ASSUME LiteInv, StartLite \/ LoadSecrets \/ CreateSecrets \/ OpenDatabase PROVE LiteInv'
  OBVIOUS
<1>1. /\ UNCHANGED <<shipped, row, ran, tx, account, localSession, crashes, releases>>
      /\ at' \in {"down", "secrets", "create", "db", "migrate"}
      /\ secrets' \in {"none", "partial", "whole"} /\ starts' \in 0..MaxStarts
      /\ at' = "migrate" => open' = {"db"}
      /\ at' # "migrate" => open' = {}
  <2>1. LiteTypeOK /\ HeldAt
    BY DEF LiteInv
  <2>2. CASE StartLite
    BY <2>1, <2>2, LiteConstants DEF StartLite, OnDisk, LiteTypeOK, HeldAt
  <2>3. CASE LoadSecrets
    BY <2>1, <2>3 DEF LoadSecrets, OnDisk, LiteRest, LiteTypeOK, HeldAt
  <2>4. CASE CreateSecrets
    BY <2>1, <2>4 DEF CreateSecrets, LiteRest, LiteTypeOK, HeldAt
  <2>5. CASE OpenDatabase
    BY <2>1, <2>5 DEF OpenDatabase, OnDisk, LiteRest, LiteTypeOK, HeldAt
  <2> QED BY <2>2, <2>3, <2>4, <2>5
<1>2. LiteTypeOK'
  BY <1>1 DEF LiteInv, LiteTypeOK, Resources
<1>3. HeldAt'
  BY <1>1 DEF HeldAt
<1>4. MigrationsInv' /\ AgainInv' /\ MigratedOnce' /\ SessionForEvery'
  BY <1>1 DEF LiteInv, MigrationsInv, AgainInv, MigratedOnce, SessionForEvery
<1>5. ClosedInOrder'
  BY <1>1 DEF ClosedInOrder
<1> QED BY <1>2, <1>3, <1>4, <1>5 DEF LiteInv

LEMMA MigratingKeeps ==
  LiteInv /\ (ExecMigration \/ RefuseAltered \/ RecordMigration \/ Migrated) => LiteInv'
<1> SUFFICES ASSUME LiteInv, ExecMigration \/ RefuseAltered \/ RecordMigration \/ Migrated PROVE LiteInv'
  OBVIOUS
<1>1. LiteTypeOK /\ HeldAt /\ MigrationsInv /\ AgainInv /\ MigratedOnce /\ SessionForEvery
  BY DEF LiteInv
<1>2. /\ UNCHANGED <<open, secrets, account, shipped, localSession, starts, crashes, releases>>
      /\ open = {"db"} /\ at' \in {"record", "fail", "migrate", "socket"}
  BY <1>1 DEF ExecMigration, RefuseAltered, RecordMigration, Migrated, OnDisk, LiteRest, HeldAt
<1>3. HeldAt' /\ ClosedInOrder' /\ AgainInv' /\ SessionForEvery'
  BY <1>1, <1>2 DEF HeldAt, Chain, ClosedInOrder, AgainInv, SessionForEvery
<1>4. CASE ExecMigration
  <2>1. PICK m \in Migrations : Unrecorded(m) /\ tx' = m
    BY <1>4 DEF ExecMigration
  <2>2. UNCHANGED <<row, ran>> /\ at' = "record"
    BY <1>4 DEF ExecMigration, OnDisk
  <2>3. LiteTypeOK'
    BY <1>1, <1>2, <2>1, <2>2 DEF LiteTypeOK
  <2>4. MigrationsInv' /\ MigratedOnce'
    BY <1>1, <1>2, <2>1, <2>2 DEF MigrationsInv, MigratedOnce, Unrecorded
  <2> QED BY <1>3, <2>3, <2>4 DEF LiteInv
<1>5. CASE RefuseAltered
  <2>1. UNCHANGED <<row, ran, tx>> /\ at' = "fail"
    BY <1>5 DEF RefuseAltered, OnDisk
  <2> QED BY <1>1, <1>2, <1>3, <2>1 DEF LiteInv, LiteTypeOK, MigrationsInv, MigratedOnce
<1>6. CASE RecordMigration
  <2>1. tx \in Migrations /\ shipped[tx] # 0 /\ row[tx] = 0 /\ ran[tx] = 0
    BY <1>1, <1>6 DEF MigrationsInv, RecordMigration, MigratedOnce
  <2>2. CASE UNCHANGED <<row, ran>> /\ at' = "fail" /\ tx' = NoTx
    BY <1>1, <1>2, <1>3, <2>2 DEF LiteInv, LiteTypeOK, MigrationsInv, MigratedOnce
  <2>3. CASE /\ row' = [row EXCEPT ![tx] = shipped[tx]]
             /\ ran' = [ran EXCEPT ![tx] = IF @ < 2 THEN @ + 1 ELSE @]
             /\ at' = "migrate" /\ tx' = NoTx
    <3>1. ran' = [ran EXCEPT ![tx] = 1]
      BY <2>1, <2>3
    <3>2. LiteTypeOK'
      BY <1>1, <1>2, <2>1, <2>3, <3>1 DEF LiteTypeOK
    <3>3. MigratedOnce'
      BY <1>1, <1>2, <2>1, <2>3, <3>1 DEF MigratedOnce, LiteTypeOK
    <3> QED BY <1>3, <2>3, <3>2, <3>3 DEF LiteInv, MigrationsInv
  <2> QED BY <1>6, <2>2, <2>3 DEF RecordMigration
<1>7. CASE Migrated
  <2>1. UNCHANGED <<row, ran, tx>> /\ at' = "socket"
        /\ \A m \in Migrations : shipped[m] # 0 => row[m] = shipped[m]
    BY <1>7 DEF Migrated, OnDisk, Unrecorded, Altered
  <2> QED BY <1>1, <1>2, <1>3, <2>1 DEF LiteInv, LiteTypeOK, MigrationsInv, MigratedOnce
<1> QED BY <1>4, <1>5, <1>6, <1>7

\* Opening and closing: the chain is walked up, and down from where a step failed.
LEMMA OpeningKeeps ==
  LiteInv /\ (OpenNext \/ StopLite \/ CloseNext \/ CrashLite) => LiteInv'
<1> SUFFICES ASSUME LiteInv, OpenNext \/ StopLite \/ CloseNext \/ CrashLite PROVE LiteInv'
  OBVIOUS
<1>1. LiteTypeOK /\ HeldAt /\ MigrationsInv /\ AgainInv /\ MigratedOnce /\ SessionForEvery
  BY DEF LiteInv
<1>2. /\ UNCHANGED <<secrets, row, ran, account, shipped, starts, releases>>
      /\ localSession' = localSession \/ localSession' = [p \in Pages |-> "none"]
      /\ crashes' \in 0..MaxCrashes /\ tx' \in {tx, NoTx}
  BY <1>1, LiteConstants DEF OpenNext, StopLite, CloseNext, CrashLite, OnDisk, LiteRest, LiteTypeOK
<1>3. /\ HeldAt'
      /\ at' \in {"down", "pool", "connector", "jobs", "http", "up", "close", "fail"}
      /\ at' \in {"pool", "connector", "jobs", "http", "up"} =>
           at \in {"socket", "pool", "connector", "jobs", "http"}
  <2>1. CASE OpenNext
    <3>1. at \in {"socket", "pool", "connector", "jobs", "http"}
      BY <2>1 DEF OpenNext, After
    <3>2. After["socket"] = "pool" /\ After["pool"] = "connector" /\ After["connector"] = "jobs"
          /\ After["jobs"] = "http" /\ After["http"] = "up"
      BY DEF After
    <3>3. CASE open' = open \union {at} /\ at' = After[at]
      <4>1. CASE at = "socket"
        BY <1>1, <3>2, <3>3, <4>1 DEF HeldAt
      <4>2. CASE at = "pool"
        BY <1>1, <3>2, <3>3, <4>2 DEF HeldAt
      <4>3. CASE at = "connector"
        BY <1>1, <3>2, <3>3, <4>3 DEF HeldAt
      <4>4. CASE at = "jobs"
        BY <1>1, <3>2, <3>3, <4>4 DEF HeldAt
      <4>5. CASE at = "http"
        BY <1>1, <3>2, <3>3, <4>5 DEF HeldAt, Resources
      <4> QED BY <3>1, <4>1, <4>2, <4>3, <4>4, <4>5
    <3>4. CASE at \in {"socket", "connector", "http"} /\ at' = "fail" /\ UNCHANGED open
      BY <1>1, <3>4 DEF HeldAt, Chain
    <3> QED BY <2>1, <3>3, <3>4 DEF OpenNext
  <2>2. CASE StopLite
    BY <1>1, <2>2 DEF StopLite, HeldAt, Chain
  <2>3. CASE CloseNext
    <3>1. open \in Chain /\ at \in {"close", "fail"}
      BY <1>1, <2>3 DEF CloseNext, HeldAt
    <3>2. CASE open = {}
      BY <2>3, <3>2 DEF CloseNext, HeldAt
    <3>3. CASE open # {}
      <4>1. PICK i \in Held : (\A j \in Held : i <= j) /\ open' = open \ CloseOrder[i] /\ UNCHANGED at
        BY <2>3, <3>3 DEF CloseNext
      <4>2. /\ CloseOrder[1] = {"http"} /\ CloseOrder[2] = {"jobs", "connector"}
            /\ CloseOrder[3] = {"pool"} /\ CloseOrder[4] = {"socket"} /\ CloseOrder[5] = {"db"}
        BY DEF CloseOrder
      <4>3. i \in {1, 2, 3, 4, 5} /\ CloseOrder[i] \intersect open # {}
            /\ \A j \in {1, 2, 3, 4, 5} : CloseOrder[j] \intersect open # {} => i <= j
        BY <4>1 DEF Held
      <4>4. open' \in Chain
        <5>1. CASE "http" \in open
          BY <3>1, <4>1, <4>2, <4>3, <5>1 DEF Chain, Resources
        <5>2. CASE "http" \notin open /\ ("jobs" \in open \/ "connector" \in open)
          BY <3>1, <4>1, <4>2, <4>3, <5>2 DEF Chain, Resources
        <5>3. CASE open = {"db", "socket", "pool"}
          BY <3>1, <4>1, <4>2, <4>3, <5>3 DEF Chain, Resources
        <5>4. CASE open = {"db", "socket"}
          BY <3>1, <4>1, <4>2, <4>3, <5>4 DEF Chain, Resources
        <5>5. CASE open = {"db"}
          BY <3>1, <4>1, <4>2, <4>3, <5>5 DEF Chain, Resources
        <5> QED BY <3>1, <3>3, <5>1, <5>2, <5>3, <5>4, <5>5 DEF Chain, Resources
      <4> QED BY <3>1, <4>1, <4>4 DEF HeldAt
    <3> QED BY <3>2, <3>3
  <2>4. CASE CrashLite
    BY <2>4 DEF CrashLite, HeldAt
  <2> QED BY <2>1, <2>2, <2>3, <2>4
<1>4. open' \subseteq Resources
  BY <1>3 DEF HeldAt, Chain, Resources
<1>5. LiteTypeOK'
  <2>1. localSession' \in [Pages -> {"none", "signIn", "signUp", "again", "in", "refused"}]
    BY <1>1, <1>2 DEF LiteTypeOK
  <2>2. at' \in {"down", "secrets", "create", "db", "migrate", "record", "socket", "pool",
                 "connector", "jobs", "http", "up", "close", "fail"}
    BY <1>3
  <2> QED BY <1>1, <1>2, <1>4, <2>1, <2>2 DEF LiteTypeOK
<1>6. MigrationsInv' /\ MigratedOnce'
  BY <1>1, <1>2, <1>3 DEF MigrationsInv, MigratedOnce
<1>7. AgainInv' /\ SessionForEvery'
  BY <1>1, <1>2 DEF AgainInv, SessionForEvery
<1>8. ClosedInOrder'
  BY <1>3, <1>4 DEF HeldAt, ClosedInOrder, Chain, Resources
<1> QED BY <1>3, <1>5, <1>6, <1>7, <1>8 DEF LiteInv

LEMMA PagesKeep ==
  LiteInv /\ (Install \/ \E p \in Pages : PageStep(p)) => LiteInv'
<1> SUFFICES ASSUME LiteInv, Install \/ \E p \in Pages : PageStep(p) PROVE LiteInv'
  OBVIOUS
<1>1. LiteTypeOK /\ HeldAt /\ MigrationsInv /\ AgainInv /\ MigratedOnce /\ ClosedInOrder /\ SessionForEvery
  BY DEF LiteInv
<1>2. CASE Install
  <2>1. /\ at = "down" /\ UNCHANGED <<at, open, secrets, row, ran, tx, account, localSession, starts, crashes>>
        /\ releases' \in 0..MaxReleases
    BY <1>1, <1>2, LiteConstants DEF Install, OnDisk, LiteTypeOK
  <2>2. shipped' \in [Migrations -> MigrationTexts]
    BY <1>1, <1>2 DEF Install, LiteTypeOK, MigrationTexts
  <2> QED BY <1>1, <2>1, <2>2 DEF LiteInv, LiteTypeOK, HeldAt, MigrationsInv, AgainInv, MigratedOnce,
             ClosedInOrder, SessionForEvery
<1>3. CASE \E p \in Pages : PageStep(p)
  <2>1. PICK p \in Pages : PageStep(p)
    BY <1>3
  <2>2. /\ UNCHANGED <<at, open, secrets, shipped, row, ran, tx, starts, crashes, releases>>
        /\ account' \in BOOLEAN /\ (account => account')
        /\ \E place \in {"none", "signIn", "signUp", "again", "in"} :
             /\ localSession' = [localSession EXCEPT ![p] = place]
             /\ place = "again" => account
    BY <1>1, <2>1 DEF PageStep, AskPage, TryIn, SignUp, TryAgain, LeavePage, ToPage, AgainInv, LiteTypeOK
  <2>3. /\ localSession' \in [Pages -> {"none", "signIn", "signUp", "again", "in", "refused"}]
        /\ AgainInv' /\ SessionForEvery'
    BY <1>1, <2>2 DEF LiteTypeOK, AgainInv, SessionForEvery
  <2> QED BY <1>1, <2>2, <2>3 DEF LiteInv, LiteTypeOK, HeldAt, MigrationsInv, MigratedOnce, ClosedInOrder
<1> QED BY <1>2, <1>3

LEMMA LiteKept == LiteInv /\ [LiteNext]_liteVars => LiteInv'
<1> SUFFICES ASSUME LiteInv, [LiteNext]_liteVars PROVE LiteInv'
  OBVIOUS
<1>1. CASE UNCHANGED liteVars
  BY <1>1 DEF liteVars, LiteInv, LiteTypeOK, HeldAt, MigrationsInv, AgainInv, MigratedOnce,
     ClosedInOrder, SessionForEvery
<1>2. CASE LiteNext
  BY <1>2, EarlyStepsKeep, MigratingKeeps, OpeningKeeps, PagesKeep DEF LiteNext
<1> QED BY <1>1, <1>2

-----------------------------------------------------------------------------
(* The schedule of a routine: its cron, its preset, its next time. *)

(***************************************************************************)
(* Arithmetic of days and minutes.                                         *)
(***************************************************************************)
LEMMA SmallRest == \A n \in Nat \ {0}, x \in Nat : x < n => x % n = x
OBVIOUS

LEMMA NextRest == \A n \in Nat \ {0}, x \in Nat : x < n => (n + x) % n = x
OBVIOUS

LEMMA DivParts ==
  \A n \in Nat \ {0}, x \in Nat :
    /\ x \div n \in Nat /\ x % n \in 0..(n - 1)
    /\ x = (x \div n) * n + (x % n)
<1> SUFFICES ASSUME NEW n \in Nat \ {0}, NEW x \in Nat
             PROVE  /\ x \div n \in Nat /\ x % n \in 0..(n - 1)
                    /\ x = (x \div n) * n + (x % n)
  OBVIOUS
<1>1. x \div n \in Nat
  OBVIOUS
<1>2. x % n \in 0..(n - 1)
  OBVIOUS
<1>3. x = n * (x \div n) + (x % n)
  OBVIOUS
<1>4. n * (x \div n) = (x \div n) * n
  BY <1>1
<1> QED BY <1>1, <1>2, <1>3, <1>4

LEMMA TimesGrow == \A a, b, n \in Nat : a < b => a * n + n <= b * n
<1> SUFFICES ASSUME NEW a \in Nat, NEW b \in Nat, NEW n \in Nat, a < b
             PROVE  a * n + n <= b * n
  OBVIOUS
<1>1. PICK c \in Nat : b = a + 1 + c
  <2>1. b - a - 1 \in Nat /\ b = a + 1 + (b - a - 1)
    OBVIOUS
  <2> QED BY <2>1
<1>2. b * n = a * n + n + c * n /\ c * n >= 0
  BY <1>1
<1> QED BY <1>2

LEMMA DivOnly ==
  \A n \in Nat \ {0}, a \in Nat, j \in Nat :
    j < n => (a * n + j) \div n = a /\ (a * n + j) % n = j
OBVIOUS

\* The minute j, counted from the minute `from`, at which a search that is at the
\* minute i ends: the first that matches, or the one after the last.
EndsAt(c, from, i, j) ==
  /\ j \in i..(SearchBound + 1)
  /\ j <= SearchBound => Matches(c, from + j)
  /\ \A k \in i..(j - 1) : ~Matches(c, from + k)

Found(j) == IF j > SearchBound THEN 1 ELSE j

LEMMA CronNumbers ==
  /\ Half \in Nat \ {0, 1} /\ HoursPerDay \in Nat \ {0} /\ MinutesPerHour \in Nat \ {0}
  /\ HoursPerDay = 2 * Half
  /\ Day \in Nat \ {0} /\ Week \in Nat \ {0} /\ SearchBound \in Nat /\ SearchBound = Day + 2
<1>1. Half \in Nat \ {0, 1} /\ HoursPerDay \in Nat \ {0} /\ MinutesPerHour \in Nat \ {0}
  BY CronConstants DEF Half
<1>2. Day \in Nat \ {0}
  BY <1>1 DEF Day
<1> QED BY <1>1, <1>2, CronConstants DEF Week, SearchBound

(***************************************************************************)
(* A search ends somewhere, and at one minute only.                        *)
(***************************************************************************)
LEMMA SearchEnds ==
  ASSUME NEW c, NEW from \in Nat, NEW i \in 1..(SearchBound + 1)
  PROVE  /\ \E j : EndsAt(c, from, i, j)
         /\ \A j, k : EndsAt(c, from, i, j) /\ EndsAt(c, from, i, k) => j = k
<1> USE CronNumbers
<1>1. \E j : EndsAt(c, from, i, j)
  <2> DEFINE T == {j \in i..(SearchBound + 1) : j = SearchBound + 1 \/ Matches(c, from + j)}
  <2>1. T \in SUBSET Nat /\ SearchBound + 1 \in T
    OBVIOUS
  <2>2. PICK j \in T : \A k \in T : j <= k
    BY <2>1, LeastNat
  <2>3. ASSUME NEW k \in i..(j - 1) PROVE ~Matches(c, from + k)
    <3>1. k \in i..(SearchBound + 1) /\ k < j
      OBVIOUS
    <3>2. k \notin T
      BY <2>2, <3>1
    <3> QED BY <3>1, <3>2
  <2>4. EndsAt(c, from, i, j)
    BY <2>3 DEF EndsAt
  <2> QED BY <2>4
<1>2. ASSUME NEW j, NEW k, EndsAt(c, from, i, j), EndsAt(c, from, i, k)
      PROVE  j = k
  <2> USE <1>2 DEF EndsAt
  <2>1. j \in Nat /\ k \in Nat
    OBVIOUS
  <2>2. CASE j < k
    BY <2>1, <2>2
  <2>3. CASE k < j
    BY <2>1, <2>3
  <2> QED BY <2>1, <2>2, <2>3
<1> QED BY <1>1, <1>2

LEMMA SearchGoesOn ==
  ASSUME NEW c, NEW from \in Nat, NEW i \in 1..SearchBound, NEW j
  PROVE  /\ Matches(c, from + i) => EndsAt(c, from, i, i)
         /\ ~Matches(c, from + i) /\ EndsAt(c, from, i + 1, j) => EndsAt(c, from, i, j)
         /\ EndsAt(c, from, SearchBound + 1, SearchBound + 1)
BY CronNumbers DEF EndsAt

(***************************************************************************)
(* nextCronDate returns the minute at which its search ends, or the next.  *)
(***************************************************************************)
LEMMA SearchFinds ==
  ASSUME NEW c, NEW from \in Nat
  PROVE  \E j : EndsAt(c, from, 1, j) /\ MinutesToNext(c, from) = Found(j)
<1> USE CronNumbers
<1> DEFINE B == SearchBound
           M(i) == Matches(c, from + i)
           Eq(f) == f = [i \in 1..(B + 1) |->
                           IF i > B THEN 1 ELSE IF M(i) THEN i ELSE f[i + 1]]
           end == [i \in 1..(B + 1) |-> CHOOSE j : EndsAt(c, from, i, j)]
           g == [i \in 1..(B + 1) |-> Found(end[i])]
<1>1. \A i \in 1..(B + 1) : EndsAt(c, from, i, end[i])
  BY SearchEnds
<1>2. end[B + 1] = B + 1
  BY <1>1, SearchGoesOn, SearchEnds DEF EndsAt
<1>3. \A i \in 1..B : end[i] = IF M(i) THEN i ELSE end[i + 1]
  <2> TAKE i \in 1..B
  <2>1. i \in 1..(B + 1) /\ i + 1 \in 1..(B + 1)
    OBVIOUS
  <2> HIDE DEF end
  <2>2. EndsAt(c, from, i, end[i]) /\ EndsAt(c, from, i + 1, end[i + 1])
    BY <1>1, <2>1
  <2>3. CASE M(i)
    <3>1. EndsAt(c, from, i, i)
      BY <2>3, SearchGoesOn
    <3>2. end[i] = i
      BY <2>1, <2>2, <3>1, SearchEnds
    <3> QED BY <2>3, <3>2
  <2>4. CASE ~M(i)
    <3>1. EndsAt(c, from, i, end[i + 1])
      BY <2>2, <2>4, SearchGoesOn
    <3>2. end[i] = end[i + 1]
      BY <2>1, <2>2, <3>1, SearchEnds
    <3> QED BY <2>4, <3>2
  <2> QED BY <2>3, <2>4
<1>4. \A i \in 1..(B + 1) : g[i] = IF i > B THEN 1 ELSE IF M(i) THEN i ELSE g[i + 1]
  <2> HIDE DEF end, M
  <2> QED BY <1>2, <1>3 DEF Found
<1>5. Eq(g)
  <2> DEFINE h == [i \in 1..(B + 1) |->
                           IF i > B THEN 1 ELSE IF M(i) THEN i ELSE g[i + 1]]
  <2>1. g = h
    <3> HIDE DEF end, M
    <3> QED BY <1>4
  <2> QED BY <2>1
<1>6. ASSUME NEW f, Eq(f) PROVE f[1] = g[1]
  <2> HIDE DEF M, end
  <2>1. \A i \in 1..(B + 1) : f[i] = IF i > B THEN 1 ELSE IF M(i) THEN i ELSE f[i + 1]
    BY <1>6
  <2> HIDE DEF g, Eq
  <2> DEFINE T == {k \in 0..B : f[B + 1 - k] # g[B + 1 - k]}
  <2>2. CASE T # {}
    <3>1. PICK k \in T : \A n \in T : k <= n
      <4>1. T \in SUBSET Nat
        OBVIOUS
      <4> HIDE DEF T
      <4> QED BY <2>2, <4>1, LeastNat
    <3> DEFINE i == B + 1 - k
    <3>2. i \in 1..(B + 1) /\ f[i] # g[i]
      BY <3>1
    <3>3. i <= B => f[i + 1] = g[i + 1]
      <4>1. ASSUME i <= B PROVE k - 1 \in 0..B /\ B + 1 - (k - 1) = i + 1
        BY <4>1
      <4>2. k - 1 \notin T
        BY <3>1
      <4> QED BY <4>1, <4>2
    <3> HIDE DEF i
    <3> QED BY <1>4, <2>1, <3>2, <3>3
  <2>3. CASE T = {}
    <3>1. B \in 0..B /\ B + 1 - B = 1
      OBVIOUS
    <3> QED BY <2>3, <3>1
  <2> QED BY <2>2, <2>3
<1>7. MinutesToNext(c, from) = (CHOOSE f : Eq(f))[1]
  BY DEF MinutesToNext
<1>8. Eq(CHOOSE f : Eq(f))
  <2> HIDE DEF Eq, g
  <2> QED BY <1>5
<1>9. MinutesToNext(c, from) = g[1]
  <2> HIDE DEF Eq, g
  <2> QED BY <1>6, <1>7, <1>8
<1>10. 1 \in 1..(B + 1)
  OBVIOUS
<1> HIDE DEF end, B
<1> QED BY <1>1, <1>9, <1>10

(***************************************************************************)
(* Hours and minutes of a day repeat every day.                            *)
(***************************************************************************)
LEMMA DaysRepeat ==
  ASSUME NEW c, NEW q \in Nat, NEW t \in 0..(Day - 1)
  PROVE  Matches(c, q * Day + t) <=> Matches(c, t)
<1> USE CronNumbers
<1>1. /\ t \div MinutesPerHour \in Nat /\ t % MinutesPerHour \in 0..(MinutesPerHour - 1)
      /\ t = (t \div MinutesPerHour) * MinutesPerHour + (t % MinutesPerHour)
  <2>1. t \in Nat
    OBVIOUS
  <2> QED BY <2>1, DivParts
<1>2. (q * Day + t) % Day = t /\ (0 * Day + t) % Day = t
  BY DivOnly
<1> DEFINE a == t \div MinutesPerHour
           b == t % MinutesPerHour
<1>3. q * Day + t = (q * HoursPerDay + a) * MinutesPerHour + b
  <2> HIDE DEF a, b
  <2>1. a \in Nat /\ b \in Nat /\ t = a * MinutesPerHour + b
    BY <1>1 DEF a, b
  <2>2. q * Day = (q * HoursPerDay) * MinutesPerHour
    BY DEF Day
  <2> QED BY <2>1, <2>2
<1>4. q * HoursPerDay + a \in Nat
  BY <1>1
<1>5. (q * Day + t) % MinutesPerHour = b
  <2> HIDE DEF a, b
  <2>1. b \in 0..(MinutesPerHour - 1)
    BY <1>1 DEF b
  <2> QED BY <1>3, <1>4, <2>1, DivOnly
<1>6. HourOf(q * Day + t) = HourOf(t) /\ MinuteOf(q * Day + t) = MinuteOf(t)
  BY <1>2, <1>5 DEF HourOf, MinuteOf
<1> QED BY <1>6 DEF Matches

(***************************************************************************)
(* A search of a day sees every minute of it.                              *)
(***************************************************************************)
LEMMA DayIsSearched ==
  ASSUME NEW c, NEW from \in Nat, \A i \in 1..Day : ~Matches(c, from + i)
  PROVE  \A t \in 0..(Day - 1) : ~Matches(c, t)
<1> USE CronNumbers
<1> TAKE t \in 0..(Day - 1)
<1> DEFINE q == from \div Day
           r == from % Day
<1>1. q \in Nat /\ r \in 0..(Day - 1) /\ from = q * Day + r
  BY DivParts
<1> HIDE DEF q, r
<1>2. CASE t > r
  <2>1. t - r \in 1..Day /\ from + (t - r) = q * Day + t
    BY <1>1, <1>2
  <2> QED BY <1>1, <2>1, DaysRepeat
<1>3. CASE t <= r
  <2>1. Day + t - r \in 1..Day /\ q + 1 \in Nat /\ (q + 1) * Day = q * Day + Day
    BY <1>1, <1>3
  <2>2. from + (Day + t - r) = (q + 1) * Day + t
    <3>1. q * Day \in Nat
      BY <1>1
    <3> QED BY <1>1, <2>1, <3>1
  <2> QED BY <2>1, <2>2, DaysRepeat
<1> QED BY <1>1, <1>2, <1>3

(***************************************************************************)
(* What nextCronDate returns is the first minute that matches, or, if no   *)
(* minute of a day does, the next one.                                     *)
(***************************************************************************)
LEMMA NextIsFirst ==
  ASSUME NEW c, NEW from \in Nat, NEW w, w = MinutesToNext(c, from)
  PROVE  /\ w \in 1..SearchBound
         /\ \A i \in 1..(w - 1) : ~Matches(c, from + i)
         /\ \/ Matches(c, from + w)
            \/ w = 1 /\ \A t \in 0..(Day - 1) : ~Matches(c, t)
<1> USE CronNumbers
<1>1. PICK j : EndsAt(c, from, 1, j) /\ w = Found(j)
  BY SearchFinds
<1>2. CASE j <= SearchBound
  <2>1. w = j /\ w \in 1..SearchBound
    BY <1>1, <1>2 DEF EndsAt, Found
  <2> QED BY <1>1, <1>2, <2>1 DEF EndsAt
<1>3. CASE j > SearchBound
  <2>1. \A i \in 1..Day : ~Matches(c, from + i)
    BY <1>1, <1>3 DEF EndsAt
  <2>2. w = 1
    BY <1>1, <1>3 DEF Found
  <2>3. \A t \in 0..(Day - 1) : ~Matches(c, t)
    BY <2>1, DayIsSearched
  <2> QED BY <2>2, <2>3
<1> QED BY <1>1, <1>2, <1>3 DEF EndsAt

\* Fields as cron.ts reads them, with the numbers that one may be; crons whose hour
\* and minute are those of a clock.
FieldsOf(numbers) ==
  {Always} \union {At(n) : n \in numbers} \union {Every(n) : n \in Nat}
    \union {FromTo(a, b) : a \in Nat, b \in Nat}
Crons ==
  [minute : FieldsOf(0..(MinutesPerHour - 1)), hour : FieldsOf(0..(HoursPerDay - 1)),
   day : FieldsOf(Nat), month : FieldsOf(Nat), dow : FieldsOf(Nat)]
ClockExpressions == Expressions \subseteq Crons

LEMMA FieldKinds ==
  ASSUME NEW numbers, NEW f \in FieldsOf(numbers)
  PROVE  /\ f.kind \in {"any", "at", "step", "range"}
         /\ f.kind = "any" => f = Always
         /\ f.kind = "at" => f.n \in numbers /\ f = At(f.n)
         /\ f.kind = "step" => f.n \in Nat /\ f = Every(f.n)
BY DEF FieldsOf, Always, At, Every, FromTo

LEMMA FieldsDiffer ==
  /\ \A n, m : At(n) = At(m) => n = m
  /\ \A n, m : Every(n) = Every(m) => n = m
  /\ \A n, m : At(n) # Every(m)
  /\ \A n : At(n) # Always /\ Every(n) # Always /\ At(n) # Weekdays /\ Every(n) # Weekdays
  /\ Always # Weekdays
  /\ \A n : ~IsStep(At(n)) /\ (IsStep(Every(n)) <=> n > 0) /\ At(n).kind = "at" /\ At(n).n = n
            /\ Every(n).kind = "step" /\ Every(n).n = n
  /\ ~IsStep(Always) /\ Always.kind = "any"
BY DEF At, Every, Always, Weekdays, FromTo, IsStep

(***************************************************************************)
(* A time of day is the same on both clocks.                               *)
(***************************************************************************)
LEMMA ClockComesBack ==
  ASSUME NEW h \in 0..(HoursPerDay - 1), NEW m
  PROVE  ParseClock(FormatClock(h, m)) = [minute |-> m, hour |-> h]
<1> USE CronNumbers
<1> DEFINE t == FormatClock(h, m)
<1>1. t.h = (IF h % Half = 0 THEN Half ELSE h % Half) /\ t.m = m
  BY DEF FormatClock
<1>2. t.pm = (h >= Half)
  BY DEF FormatClock
<1>3. t.pm <=> h >= Half
  BY <1>2, Zenon
<1> HIDE DEF t
<1>4. CASE h < Half
  <2>1. h % Half = h
    BY <1>4, SmallRest
  <2> QED BY <1>1, <1>3, <1>4, <2>1 DEF ParseClock, t
<1>5. CASE h >= Half
  <2>1. h - Half \in Nat /\ h - Half < Half /\ h = Half + (h - Half)
    BY <1>5
  <2>2. h % Half = h - Half
    BY <2>1, NextRest
  <2> QED BY <1>1, <1>3, <1>5, <2>1, <2>2 DEF ParseClock, t
<1> QED BY <1>4, <1>5

LEMMA ClockGoesOn ==
  ASSUME NEW t \in [h : 1..Half, m : 0..(MinutesPerHour - 1), pm : BOOLEAN]
  PROVE  /\ ParseClock(t).hour \in 0..(HoursPerDay - 1)
         /\ ParseClock(t).minute \in 0..(MinutesPerHour - 1)
         /\ FormatClock(ParseClock(t).hour, ParseClock(t).minute) = t
<1> USE CronNumbers
<1> DEFINE h == ParseClock(t).hour
<1>1. ParseClock(t).minute = t.m /\ t.m \in 0..(MinutesPerHour - 1)
  BY DEF ParseClock
<1>2. /\ h \in 0..(HoursPerDay - 1) /\ (h >= Half <=> t.pm)
      /\ t.h = Half => h % Half = 0
      /\ t.h # Half => h % Half = t.h /\ h % Half # 0
  <2>1. CASE t.pm /\ t.h < Half
    <3>1. h = Half + t.h
      BY <2>1 DEF ParseClock
    <3> QED BY <2>1, <3>1, NextRest
  <2>2. CASE t.pm /\ t.h = Half
    <3>1. h = Half /\ h = Half + 0
      BY <2>2 DEF ParseClock
    <3> QED BY <2>2, <3>1, NextRest
  <2>3. CASE ~t.pm /\ t.h = Half
    <3>1. h = 0
      BY <2>3 DEF ParseClock
    <3> QED BY <2>3, <3>1, SmallRest
  <2>4. CASE ~t.pm /\ t.h < Half
    <3>1. h = t.h
      BY <2>4 DEF ParseClock
    <3> QED BY <2>4, <3>1, SmallRest
  <2> QED BY <2>1, <2>2, <2>3, <2>4
<1>3. t = [h |-> t.h, m |-> t.m, pm |-> t.pm] /\ t.pm \in BOOLEAN
  OBVIOUS
<1> HIDE DEF h
<1>4. FormatClock(h, t.m) = [h |-> t.h, m |-> t.m, pm |-> t.pm]
  BY <1>2 DEF FormatClock
<1> QED BY <1>1, <1>2, <1>3, <1>4 DEF h

(***************************************************************************)
(* presetFromCron by the shapes that it tells apart.                       *)
(***************************************************************************)
LEMMA PresetShape ==
  ASSUME NEW c, c.month = Always
  PROVE  PresetFromCron(c) =
           IF c.minute = At(0) /\ c.hour = Always /\ c.day = Always /\ c.dow = Always
           THEN Hourly
           ELSE IF IsStep(c.minute) /\ c.hour = Always /\ c.day = Always /\ c.dow = Always
           THEN Interval(c.minute.n, "minutes")
           ELSE IF c.minute = At(0) /\ IsStep(c.hour) /\ c.day = Always /\ c.dow = Always
           THEN Interval(c.hour.n, "hours")
           ELSE IF c.minute = At(0) /\ c.hour = At(0) /\ IsStep(c.day) /\ c.dow = Always
           THEN Interval(c.day.n, "days")
           ELSE IF c.minute.kind = "at" /\ c.hour.kind = "at"
           THEN LET Daily(freq) == Timely(freq, FormatClock(c.hour.n, c.minute.n)) IN
                IF c.day = Always /\ c.dow = Weekdays THEN Daily("Weekdays")
                ELSE IF c.day = Always /\ c.dow = At(1) THEN Daily("Every week")
                ELSE IF c.day = At(1) /\ c.dow = Always THEN Daily("Every month")
                ELSE IF c.day = Always /\ c.dow = Always THEN Daily("Every day")
                ELSE [Base EXCEPT !.freq = "Advanced", !.cron = c]
           ELSE [Base EXCEPT !.freq = "Advanced", !.cron = c]
BY DEF PresetFromCron

(***************************************************************************)
(* cronFromPreset gives the cron back that presetFromCron was shown.       *)
(***************************************************************************)
LEMMA CronComesBack ==
  ASSUME NEW c \in Crons
  PROVE  CronFromPreset(PresetFromCron(c)) = c
<1> DEFINE advanced == [Base EXCEPT !.freq = "Advanced", !.cron = c]
           Daily(freq) == Timely(freq, FormatClock(c.hour.n, c.minute.n))
           Whole(day, dow) == c.day = day /\ c.dow = dow
           hourly == c.minute = At(0) /\ c.hour = Always /\ Whole(Always, Always)
           minutes == IsStep(c.minute) /\ c.hour = Always /\ Whole(Always, Always)
           hours == c.minute = At(0) /\ IsStep(c.hour) /\ Whole(Always, Always)
           days == c.minute = At(0) /\ c.hour = At(0) /\ IsStep(c.day) /\ c.dow = Always
           timed == c.minute.kind = "at" /\ c.hour.kind = "at"
<1>1. c = [minute |-> c.minute, hour |-> c.hour, day |-> c.day, month |-> c.month,
           dow |-> c.dow]
  BY DEF Crons
<1>2. /\ c.minute.kind = "at" => c.minute = At(c.minute.n)
      /\ c.hour.kind = "at" => c.hour = At(c.hour.n) /\ c.hour.n \in 0..(HoursPerDay - 1)
      /\ c.minute.kind = "step" => c.minute = Every(c.minute.n)
      /\ c.hour.kind = "step" => c.hour = Every(c.hour.n)
      /\ c.day.kind = "step" => c.day = Every(c.day.n)
      /\ c.minute.kind # "blank"
  BY FieldKinds DEF Crons
<1>3. CronFromPreset(advanced) = c
  <2>1. c # Blank
    BY <1>2 DEF Blank, Fields
  <2> QED BY <2>1 DEF CronFromPreset, Base
<1>4. ASSUME c.month = Always, hourly
      PROVE  CronFromPreset(Hourly) = c
  BY <1>1, <1>4 DEF CronFromPreset, Hourly, Base, Fields
<1>5. ASSUME c.month = Always, minutes
      PROVE  CronFromPreset(Interval(c.minute.n, "minutes")) = c
  BY <1>1, <1>2, <1>5 DEF CronFromPreset, Base, Fields, Interval, IsStep
<1>6. ASSUME c.month = Always, hours
      PROVE  CronFromPreset(Interval(c.hour.n, "hours")) = c
  BY <1>1, <1>2, <1>6 DEF CronFromPreset, Base, Fields, Interval, IsStep
<1>7. ASSUME c.month = Always, days
      PROVE  CronFromPreset(Interval(c.day.n, "days")) = c
  BY <1>1, <1>2, <1>7 DEF CronFromPreset, Base, Fields, Interval, IsStep
<1>8. ASSUME NEW freq, NEW day, NEW dow, c.month = Always, timed, Whole(day, dow),
             \/ freq = "Weekdays" /\ <<day, dow>> = <<Always, Weekdays>>
             \/ freq = "Every week" /\ <<day, dow>> = <<Always, At(1)>>
             \/ freq = "Every month" /\ <<day, dow>> = <<At(1), Always>>
             \/ freq = "Every day" /\ <<day, dow>> = <<Always, Always>>
      PROVE  CronFromPreset(Daily(freq)) = c
  <2> DEFINE p == Daily(freq)
  <2>1. p.freq = freq /\ p.time = FormatClock(c.hour.n, c.minute.n)
    BY DEF Base, Timely
  <2>2. c.minute = At(c.minute.n) /\ c.hour = At(c.hour.n) /\ c.hour.n \in 0..(HoursPerDay - 1)
    BY <1>2, <1>8
  <2> HIDE DEF p
  <2>3. ParseClock(p.time) = [minute |-> c.minute.n, hour |-> c.hour.n]
    BY <2>1, <2>2, ClockComesBack
  <2>4. CronFromPreset(p) = Fields(At(c.minute.n), At(c.hour.n), day, dow)
    <3>1. /\ ParseClock(p.time).minute = c.minute.n
          /\ ParseClock(p.time).hour = c.hour.n
      BY <2>3
    <3> QED BY <1>8, <2>1, <3>1 DEF CronFromPreset
  <2>5. c = Fields(c.minute, c.hour, day, dow)
    BY <1>1, <1>8 DEF Fields
  <2> QED BY <2>2, <2>4, <2>5 DEF p
<1>9. PresetFromCron(c) =
        IF c.month # Always THEN advanced
        ELSE IF hourly THEN Hourly
        ELSE IF minutes THEN Interval(c.minute.n, "minutes")
        ELSE IF hours THEN Interval(c.hour.n, "hours")
        ELSE IF days THEN Interval(c.day.n, "days")
        ELSE IF ~timed THEN advanced
        ELSE IF Whole(Always, Weekdays) THEN Daily("Weekdays")
        ELSE IF Whole(Always, At(1)) THEN Daily("Every week")
        ELSE IF Whole(At(1), Always) THEN Daily("Every month")
        ELSE IF Whole(Always, Always) THEN Daily("Every day")
        ELSE advanced
  BY DEF PresetFromCron
<1> HIDE DEF advanced, hourly, minutes, hours, days, timed, Whole, Daily
<1> QED BY <1>3, <1>4, <1>5, <1>6, <1>7, <1>8, <1>9

(***************************************************************************)
(* Which fields and crons are those of clock times.                        *)
(***************************************************************************)
LEMMA FieldsIn ==
  /\ \A S : Always \in FieldsOf(S) /\ (1 \in S /\ 5 \in S => Weekdays \in FieldsOf(S))
  /\ \A S : \A n \in S : At(n) \in FieldsOf(S)
  /\ \A S : \A n \in Nat : Every(n) \in FieldsOf(S)
BY DEF FieldsOf, Weekdays

LEMMA CronsIn ==
  ASSUME NEW minute \in FieldsOf(0..(MinutesPerHour - 1)),
         NEW hour \in FieldsOf(0..(HoursPerDay - 1)),
         NEW day \in FieldsOf(Nat), NEW dow \in FieldsOf(Nat),
         NEW c, c = Fields(minute, hour, day, dow)
  PROVE  /\ c \in Crons
         /\ c.minute = minute /\ c.hour = hour /\ c.day = day /\ c.dow = dow
         /\ c.month = Always
BY FieldsIn DEF Crons, Fields

(***************************************************************************)
(* presetFromCron gives the preset back that the editor set, and what the  *)
(* editor sets is a cron of clock times.                                   *)
(***************************************************************************)
LEMMA PresetComesBack ==
  ASSUME NEW p \in Pickable \union {Base}
  PROVE  /\ PresetFromCron(CronFromPreset(p)) = p
         /\ CronFromPreset(p) \in Crons
<1> USE CronNumbers
<1>1. CASE p = Hourly
  <2>1. CronFromPreset(p) = Fields(At(0), Always, Always, Always)
    BY <1>1 DEF CronFromPreset, Hourly, Base
  <2>2. /\ At(0) \in FieldsOf(0..(MinutesPerHour - 1))
        /\ Always \in FieldsOf(0..(HoursPerDay - 1)) /\ Always \in FieldsOf(Nat)
    BY FieldsIn
  <2> DEFINE c == CronFromPreset(p)
  <2>3. /\ c \in Crons
        /\ c.minute = At(0) /\ c.hour = Always /\ c.day = Always /\ c.dow = Always
        /\ c.month = Always
    <3>1. c = Fields(At(0), Always, Always, Always)
      BY <2>1
    <3> HIDE DEF c
    <3> QED BY <2>2, <3>1, CronsIn
  <2> HIDE DEF c
  <2>4. PresetFromCron(c) = p
    BY <1>1, <2>3, PresetShape
  <2> QED BY <2>3, <2>4 DEF c
<1>2. ASSUME NEW n \in EditorNumbers, NEW unit \in Units, p = Interval(n, unit)
      PROVE  PresetFromCron(CronFromPreset(p)) = p /\ CronFromPreset(p) \in Crons
  <2>1. n \in Nat /\ n > 0
    BY CronConstants
  <2>2. p.freq = "Interval" /\ p.n = n /\ p.unit = unit
    BY <1>2 DEF Interval, Base
  <2>6. /\ At(0) \in FieldsOf(0..(MinutesPerHour - 1)) /\ At(0) \in FieldsOf(0..(HoursPerDay - 1))
        /\ \A S : Always \in FieldsOf(S) /\ Every(n) \in FieldsOf(S)
    BY <2>1, FieldsIn
  <2>3. CASE unit = "minutes"
    <3>1. CronFromPreset(p) = Fields(Every(n), Always, Always, Always)
      BY <2>2, <2>3 DEF CronFromPreset
    <3> DEFINE c == CronFromPreset(p)
    <3>2. /\ c \in Crons
          /\ c.minute = Every(n) /\ c.hour = Always /\ c.day = Always
          /\ c.dow = Always /\ c.month = Always
      BY <2>6, <3>1, CronsIn
    <3> HIDE DEF c
    <3>4. c.minute # At(0) /\ IsStep(c.minute) /\ c.minute.n = n
      BY <2>1, <3>2, FieldsDiffer
    <3>3. PresetFromCron(c) = Interval(n, unit)
      BY <2>3, <3>2, <3>4, PresetShape
    <3> QED BY <1>2, <3>2, <3>3 DEF c
  <2>4. CASE unit = "hours"
    <3>1. CronFromPreset(p) = Fields(At(0), Every(n), Always, Always)
      BY <2>2, <2>4 DEF CronFromPreset
    <3> DEFINE c == CronFromPreset(p)
    <3>2. /\ c \in Crons
          /\ c.minute = At(0) /\ c.hour = Every(n) /\ c.day = Always
          /\ c.dow = Always /\ c.month = Always
      BY <2>6, <3>1, CronsIn
    <3> HIDE DEF c
    <3>4. ~IsStep(c.minute) /\ c.hour # Always /\ IsStep(c.hour) /\ c.hour.n = n
      BY <2>1, <3>2, FieldsDiffer
    <3>3. PresetFromCron(c) = Interval(n, unit)
      BY <2>4, <3>2, <3>4, PresetShape
    <3> QED BY <1>2, <3>2, <3>3 DEF c
  <2>5. CASE unit = "days"
    <3>1. CronFromPreset(p) = Fields(At(0), At(0), Every(n), Always)
      BY <2>2, <2>5 DEF CronFromPreset
    <3> DEFINE c == CronFromPreset(p)
    <3>2. /\ c \in Crons
          /\ c.minute = At(0) /\ c.hour = At(0) /\ c.day = Every(n)
          /\ c.dow = Always /\ c.month = Always
      BY <2>6, <3>1, CronsIn
    <3> HIDE DEF c
    <3>4. /\ ~IsStep(c.minute) /\ c.hour # Always /\ ~IsStep(c.hour)
          /\ IsStep(c.day) /\ c.day.n = n
      BY <2>1, <3>2, FieldsDiffer
    <3>3. PresetFromCron(c) = Interval(n, unit)
      BY <2>5, <3>2, <3>4, PresetShape
    <3> QED BY <1>2, <3>2, <3>3 DEF c
  <2> QED BY <2>3, <2>4, <2>5 DEF Units
<1>3. ASSUME NEW freq \in Timed,
             NEW t \in [h : 1..Half, m : 0..(MinutesPerHour - 1), pm : BOOLEAN],
             p = Timely(freq, t)
      PROVE  PresetFromCron(CronFromPreset(p)) = p /\ CronFromPreset(p) \in Crons
  <2> DEFINE h == ParseClock(t).hour
             m == ParseClock(t).minute
  <2>1. h \in 0..(HoursPerDay - 1) /\ m \in 0..(MinutesPerHour - 1) /\ FormatClock(h, m) = t
    BY ClockGoesOn
  <2>2. p.freq = freq /\ p.time = t
    BY <1>3 DEF Base, Timely
  <2> DEFINE day == IF freq = "Every month" THEN At(1) ELSE Always
             dow == IF freq = "Weekdays" THEN Weekdays
                    ELSE IF freq = "Every week" THEN At(1) ELSE Always
             c == Fields(At(m), At(h), day, dow)
  <2>3. CronFromPreset(p) = c
    BY <2>2 DEF CronFromPreset, Timed
  <2>4. At(m) \in FieldsOf(0..(MinutesPerHour - 1)) /\ At(h) \in FieldsOf(0..(HoursPerDay - 1))
    BY <2>1 DEF FieldsOf
  <2>5. day \in FieldsOf(Nat) /\ dow \in FieldsOf(Nat) /\ Always \in FieldsOf(Nat)
    BY FieldsIn
  <2>6. /\ c \in Crons
        /\ c.month = Always /\ c.minute = At(m) /\ c.hour = At(h) /\ c.day = day /\ c.dow = dow
    <3> HIDE DEF h, m, day, dow
    <3> QED BY <2>4, <2>5, CronsIn
  <2>8. PresetFromCron(c) = Timely(freq, FormatClock(h, m))
    <3> HIDE DEF c, h, m
    <3>1. /\ ~IsStep(c.minute) /\ ~IsStep(c.hour) /\ c.hour # Always
          /\ c.minute.kind = "at" /\ c.hour.kind = "at" /\ c.minute.n = m /\ c.hour.n = h
      <4>1. At(h) # Always
        BY FieldsDiffer
      <4>2. /\ ~IsStep(At(m)) /\ At(m).kind = "at" /\ At(m).n = m
            /\ ~IsStep(At(h)) /\ At(h).kind = "at" /\ At(h).n = h
        BY FieldsDiffer
      <4> QED BY <2>6, <4>1, <4>2
    <3>2. /\ ~IsStep(c.day)
          /\ Always # At(1) /\ Always # Weekdays /\ At(1) # Weekdays
      <4>1. ~IsStep(Always) /\ ~IsStep(At(1))
        BY FieldsDiffer
      <4>2. c.day = Always \/ c.day = At(1)
        BY <2>6
      <4>3. Always # At(1) /\ Always # Weekdays /\ At(1) # Weekdays
        BY FieldsDiffer
      <4> QED BY <4>1, <4>2, <4>3
    <3>3. PresetFromCron(c) =
            IF c.day = Always /\ c.dow = Weekdays
            THEN Timely("Weekdays", FormatClock(h, m))
            ELSE IF c.day = Always /\ c.dow = At(1)
            THEN Timely("Every week", FormatClock(h, m))
            ELSE IF c.day = At(1) /\ c.dow = Always
            THEN Timely("Every month", FormatClock(h, m))
            ELSE IF c.day = Always /\ c.dow = Always
            THEN Timely("Every day", FormatClock(h, m))
            ELSE [Base EXCEPT !.freq = "Advanced", !.cron = c]
      BY <2>6, <3>1, <3>2, PresetShape
    <3> QED BY <2>6, <3>2, <3>3 DEF Timed
  <2> QED BY <1>3, <2>1, <2>3, <2>6, <2>8
<1>4. CASE p = Base
  <2>1. Base.time = [h |-> Half - 1, m |-> 0, pm |-> FALSE]
    BY DEF Base
  <2>2. Base.time \in [h : 1..Half, m : 0..(MinutesPerHour - 1), pm : BOOLEAN]
    BY <2>1
  <2>3. DOMAIN Base = {"freq", "n", "unit", "time", "cron"} /\ Base.freq = "Every day"
    BY DEF Base
  <2>5. \A b, f, t : b = [i \in DOMAIN b |-> b[i]] /\ b.freq = f /\ b.time = t
                    => b = [b EXCEPT !.freq = f, !.time = t]
    OBVIOUS
  <2>6. Base = [i \in DOMAIN Base |-> Base[i]]
    BY DEF Base
  <2>4. Base = Timely("Every day", Base.time)
    BY <2>3, <2>5, <2>6 DEF Timely
  <2> QED BY <1>3, <1>4, <2>2, <2>4 DEF Timed
<1>5. \/ p \in {Hourly} \union {Interval(n, unit) : n \in EditorNumbers, unit \in Units}
      \/ p \in {Timely(freq, t) : freq \in Timed, t \in EditorTimes}
      \/ p = Base
  BY DEF Pickable
<1>6. \A freq \in Timed, t \in EditorTimes : p = Timely(freq, t)
        => PresetFromCron(CronFromPreset(p)) = p /\ CronFromPreset(p) \in Crons
  BY <1>3, CronConstants
<1>7. \/ p = Hourly
      \/ \E n \in EditorNumbers, unit \in Units : p = Interval(n, unit)
      \/ \E freq \in Timed, t \in EditorTimes : p = Timely(freq, t)
      \/ p = Base
  BY <1>5
<1> QED BY <1>1, <1>2, <1>4, <1>6, <1>7

\* A preset that is saved as a cron of clock times and, unless it is "Advanced",
\* comes back from it.
Keeps(s) ==
  /\ CronFromPreset(s) \in Crons
  /\ s.freq # "Advanced" => PresetFromCron(CronFromPreset(s)) = s

(***************************************************************************)
(* What can be in the editor keeps: a preset of the selects, one that was  *)
(* read from a cron, one that was typed.                                   *)
(***************************************************************************)
LEMMA EditorKeeps ==
  /\ \A p \in Pickable \union {Base} : Keeps(p)
  /\ \A c \in Crons : Keeps(PresetFromCron(c))
  /\ \A c \in Crons \union {Blank} : Keeps([Base EXCEPT !.freq = "Advanced", !.cron = c])
<1>1. \A p \in Pickable \union {Base} : Keeps(p)
  BY PresetComesBack DEF Keeps
<1>2. \A c \in Crons : Keeps(PresetFromCron(c))
  BY CronComesBack DEF Keeps
<1>3. ASSUME NEW c \in Crons \union {Blank}
      PROVE  Keeps([Base EXCEPT !.freq = "Advanced", !.cron = c])
  <2> DEFINE p == [Base EXCEPT !.freq = "Advanced", !.cron = c]
  <2>1. p.freq = "Advanced" /\ p.cron = c
    BY DEF Base
  <2>2. FallbackCron \in Crons
    <3>1. /\ Every(3) \in FieldsOf(0..(MinutesPerHour - 1))
          /\ Always \in FieldsOf(0..(HoursPerDay - 1)) /\ Always \in FieldsOf(Nat)
      BY FieldsIn
    <3> QED BY <3>1, CronsIn DEF FallbackCron
  <2> HIDE DEF p
  <2>3. CronFromPreset(p) = IF c = Blank THEN FallbackCron ELSE c
    BY <2>1 DEF CronFromPreset
  <2>4. Keeps(p)
    BY <2>1, <2>2, <2>3 DEF Keeps
  <2> QED BY <2>4 DEF p
<1> QED BY <1>1, <1>2, <1>3

CronInv ==
  /\ cron \in Crons
  /\ Keeps(schedule)
  /\ clock \in Nat /\ wait \in Nat
  /\ FiresAtFirstMatch

LEMMA CronStart == ClockExpressions /\ CronInit => CronInv
<1> SUFFICES ASSUME ClockExpressions, CronInit PROVE CronInv
  OBVIOUS
<1>1. cron \in Crons /\ Keeps(schedule)
  BY EditorKeeps DEF CronInit, ClockExpressions, Keeps
<1>2. clock \in Nat /\ wait = MinutesToNext(cron, clock)
  BY DEF CronInit
<1>3. wait \in Nat
  BY <1>2, NextIsFirst
<1> QED BY <1>1, <1>2, <1>3, NextIsFirst DEF CronInv, FiresAtFirstMatch

LEMMA CronKept == ClockExpressions /\ CronInv /\ [CronNext]_cronVars => CronInv'
<1> SUFFICES ASSUME ClockExpressions, CronInv, [CronNext]_cronVars PROVE CronInv'
  OBVIOUS
<1> USE DEF CronInv
<1>1. ASSUME UNCHANGED <<cron, clock, wait>>, Keeps(schedule') PROVE CronInv'
  BY <1>1 DEF FiresAtFirstMatch
<1>2. CASE OpenEditor
  <2>1. schedule' \in {PresetFromCron(cron), Base}
    BY <1>2 DEF OpenEditor
  <2> QED BY <1>1, <1>2, <2>1, EditorKeeps DEF OpenEditor
<1>3. CASE Edit
  <2>1. CASE schedule' \in Pickable
    BY <1>1, <1>3, <2>1, EditorKeeps DEF Edit
  <2>2. CASE schedule' \in Typed
    <3>1. PICK c \in Expressions \union {Blank, CronFromPreset(schedule)} :
            schedule' = [Base EXCEPT !.freq = "Advanced", !.cron = c]
      BY <2>2 DEF Typed
    <3>2. c \in Crons \union {Blank}
      BY DEF Keeps, ClockExpressions
    <3> QED BY <1>1, <1>3, <3>1, <3>2, EditorKeeps DEF Edit
  <2> QED BY <1>3, <2>1, <2>2 DEF Edit
<1>4. CASE Save
  <2>1. cron' \in Crons /\ clock' = clock /\ Keeps(schedule')
    BY <1>4, EditorKeeps DEF Save, Keeps
  <2>2. CASE cron' = cron
    BY <1>1, <1>4, <2>1, <2>2 DEF Save
  <2>3. CASE cron' # cron
    <3>1. wait' = MinutesToNext(cron', clock')
      BY <1>4, <2>1, <2>3 DEF Save
    <3>2. wait' \in Nat
      BY <2>1, <3>1, NextIsFirst
    <3> QED BY <2>1, <3>1, <3>2, NextIsFirst DEF FiresAtFirstMatch
  <2> QED BY <2>2, <2>3
<1>5. CASE Fire
  <2>1. PICK late \in 0..Lag :
          /\ clock' = (clock + wait + late) % Week
          /\ wait' = MinutesToNext(cron, clock')
          /\ UNCHANGED <<cron, schedule>>
    BY <1>5 DEF Fire
  <2>2. clock' \in Nat
    <3>1. clock + wait + late \in Nat
      BY CronConstants
    <3> QED BY <2>1, <3>1, CronNumbers, DivParts
  <2>3. wait' \in Nat
    BY <2>1, <2>2, NextIsFirst
  <2> QED BY <2>1, <2>2, <2>3, NextIsFirst DEF FiresAtFirstMatch
<1>6. CASE UNCHANGED cronVars
  BY <1>1, <1>6 DEF cronVars
<1> QED BY <1>2, <1>3, <1>4, <1>5, <1>6 DEF CronNext

LEMMA CronSays == CronInv => ScheduleSurvivesSave /\ FiresAtFirstMatch
<1> SUFFICES ASSUME CronInv PROVE ScheduleSurvivesSave
  BY DEF CronInv
<1>1. CronFromPreset(PresetFromCron(cron)) = cron
  BY CronComesBack DEF CronInv
<1> QED BY <1>1 DEF CronInv, Keeps, ScheduleSurvivesSave

-----------------------------------------------------------------------------
(* The credentials of models: sign-ins and the default. *)

TabPlaces == {"idle", "begin", "poll", "secret", "open", "wait", "write", "select"}
LoginPlaces == {"none", "asked", "shown", "granted", "failed"}
TabRecords ==
  [at : TabPlaces, flow : {"none", "key", "custom", "device", "default"}, login : Nat, clears : SUBSET Nat, chosen : Nat,
   provider : Providers, left : BOOLEAN]
CredRecords == [provider : Providers, default : BOOLEAN]

SetupTypes ==
  /\ tab \in [Tabs -> TabRecords]
  /\ login \in [Logins -> [at : LoginPlaces, stored : Nat]]
  /\ creds \in Seq(CredRecords)

\* Sign-ins are numbered as they begin; each belongs to one tab, and one that is
\* stored to none.
LoginsInv ==
  /\ \E n \in 0..MaxLogins : Asked = 1..n
  /\ pending \subseteq Asked /\ \A l, m \in pending : l = m
  /\ \A t \in Tabs : tab[t].login \in {NoLogin} \union Asked
  /\ \A t, u \in Tabs : tab[t].login = tab[u].login /\ tab[t].login # NoLogin => t = u
  /\ \A l \in Logins :
       /\ login[l].stored \in {0, 1}
       /\ login[l].stored = 1 =>
            l \in Asked /\ l \notin pending /\ \A t \in Tabs : tab[t].login # l

\* A row that was chosen stays, and there is a default.
ChosenInv ==
  /\ \A t \in Tabs : tab[t].chosen <= Len(creds)
  /\ DefaultStays

SetupInv == SetupTypes /\ LoginsInv /\ ChosenInv

LEMMA IdleRecord ==
  Idle \in TabRecords /\ Idle.login = NoLogin /\ Idle.chosen = 0 /\ NoLogin = 0
<1>1. {} \in SUBSET Nat /\ FALSE \in BOOLEAN /\ "hosted" \in Providers
  BY DEF Providers
<1> QED BY <1>1 DEF Idle, TabRecords, TabPlaces, NoLogin

LEMMA SetupStart == SetupInit => SetupInv
<1> SUFFICES ASSUME SetupInit PROVE SetupInv
  OBVIOUS
<1> USE SetupConstants DEF SetupInit
<1>1. Idle \in TabRecords /\ Idle.login = NoLogin /\ Idle.chosen = 0
  BY IdleRecord
<1>2. Asked = 1..0
  BY DEF Asked
<1>3. SetupTypes
  <2>1. tab \in [Tabs -> TabRecords] /\ creds \in Seq(CredRecords)
    BY <1>1
  <2> QED BY <2>1 DEF SetupTypes, LoginPlaces
<1>4. LoginsInv
  BY <1>1, <1>2 DEF LoginsInv
<1>5. ChosenInv
  BY <1>1 DEF ChosenInv, DefaultStays
<1> QED BY <1>3, <1>4, <1>5 DEF SetupInv

(***************************************************************************)
(* Steps that store nothing and begin no sign-in: each tab keeps the       *)
(* sign-in it has or leaves it.                                            *)
(***************************************************************************)
LEMMA SetupQuiet ==
  ASSUME SetupInv, tab' \in [Tabs -> TabRecords], creds' = creds,
         \A t \in Tabs : /\ tab'[t].login \in {NoLogin, tab[t].login}
                         /\ tab'[t].chosen <= Len(creds),
         pending' \subseteq pending,
         \/ login' = login
         \/ \E l \in Asked, place \in LoginPlaces \ {"none"} : login' = [login EXCEPT ![l].at = place]
  PROVE  SetupInv'
<1> USE DEF SetupInv
<1>1. /\ login' \in [Logins -> [at : LoginPlaces, stored : Nat]]
      /\ \A l \in Logins : /\ login'[l].stored = login[l].stored
                           /\ login'[l].at # "none" <=> login[l].at # "none"
  <2>1. CASE login' = login
    BY <2>1 DEF SetupTypes
  <2>2. ASSUME NEW l \in Asked, NEW place \in LoginPlaces \ {"none"},
               login' = [login EXCEPT ![l].at = place]
        PROVE  /\ login' \in [Logins -> [at : LoginPlaces, stored : Nat]]
               /\ \A m \in Logins : /\ login'[m].stored = login[m].stored
                                    /\ login'[m].at # "none" <=> login[m].at # "none"
    BY <2>2 DEF SetupTypes, Asked
  <2> QED BY <2>1, <2>2
<1>2. Asked' = Asked
  BY <1>1 DEF Asked
<1>3. SetupTypes'
  BY <1>1 DEF SetupTypes
<1>4. LoginsInv'
  <2>1. \A t, u \in Tabs : tab'[t].login = tab'[u].login /\ tab'[t].login # NoLogin => t = u
    BY DEF LoginsInv
  <2>2. /\ \A t \in Tabs : tab'[t].login \in {NoLogin} \union Asked
        /\ pending' \subseteq Asked /\ \A l, m \in pending' : l = m
    BY DEF LoginsInv
  <2>3. ASSUME NEW l \in Logins
        PROVE  /\ login'[l].stored \in {0, 1}
               /\ login'[l].stored = 1 =>
                    l \in Asked /\ l \notin pending' /\ \A t \in Tabs : tab'[t].login # l
    <3>1. l # NoLogin
      BY SetupConstants DEF Logins, NoLogin
    <3> QED BY <1>1, <3>1 DEF LoginsInv
  <2> QED BY <1>2, <2>1, <2>2, <2>3 DEF LoginsInv
<1>5. ChosenInv'
  BY DEF ChosenInv, DefaultStays
<1> QED BY <1>3, <1>4, <1>5

(***************************************************************************)
(* Steps of a tab that store nothing and begin no sign-in.                 *)
(***************************************************************************)
LEMMA TabQuiet ==
  ASSUME SetupInv, NEW t \in Tabs, NEW r \in TabRecords, tab' = [tab EXCEPT ![t] = r],
         r.login \in {NoLogin, tab[t].login}, r.chosen \in 0..Len(creds),
         creds' = creds, login' = login, pending' \subseteq pending
  PROVE  SetupInv'
<1>1. /\ tab' \in [Tabs -> TabRecords] /\ tab'[t] = r
      /\ \A u \in Tabs \ {t} : tab'[u] = tab[u]
  BY DEF SetupInv, SetupTypes
<1>2. \A u \in Tabs : /\ tab'[u].login \in {NoLogin, tab[u].login}
                      /\ tab'[u].chosen <= Len(creds)
  BY <1>1 DEF SetupInv, ChosenInv
<1> QED BY <1>1, <1>2, SetupQuiet

LEMMA StepsQuiet ==
  ASSUME SetupInv, NEW t \in Tabs, creds' = creds, login' = login, pending' \subseteq pending
  PROVE  /\ EndFlow(t) => SetupInv'
         /\ \A place \in TabPlaces : To(t, place) => SetupInv'
<1>1. tab[t] \in TabRecords /\ tab[t].chosen \in 0..Len(creds) /\ Len(creds) \in Nat
  BY DEF SetupInv, SetupTypes, ChosenInv, TabRecords
<1>2. CASE EndFlow(t)
  <2> DEFINE r == Idle
  <2>1. r \in TabRecords /\ r.login \in {NoLogin, tab[t].login} /\ r.chosen \in 0..Len(creds)
    BY <1>1, IdleRecord
  <2>2. tab' = [tab EXCEPT ![t] = r]
    BY <1>2 DEF EndFlow
  <2> HIDE DEF r
  <2> QED BY <2>1, <2>2, TabQuiet
<1>3. ASSUME NEW place \in TabPlaces, To(t, place) PROVE SetupInv'
  <2> DEFINE r == [tab[t] EXCEPT !.at = place]
  <2>1. r \in TabRecords /\ r.login = tab[t].login /\ r.chosen = tab[t].chosen
    BY <1>1 DEF TabRecords
  <2>2. tab' = [tab EXCEPT ![t] = r]
    BY <1>3 DEF To
  <2> HIDE DEF r
  <2> QED BY <1>1, <2>1, <2>2, TabQuiet
<1> QED BY <1>2, <1>3

LEMMA StartQuiet ==
  ASSUME SetupInv, NEW t \in Tabs, NEW place \in TabPlaces,
         NEW flow \in {"key", "custom", "device", "default"}, Start(t, flow, place),
         UNCHANGED <<creds, login, pending>>
  PROVE  SetupInv'
<1>1. PICK provider \in Providers :
        tab' = [tab EXCEPT ![t] = [Idle EXCEPT !.at = place, !.flow = flow, !.provider = provider]]
  BY DEF Start, Providers
<1> DEFINE r == [Idle EXCEPT !.at = place, !.flow = flow, !.provider = provider]
<1>2. r \in TabRecords /\ r.login = NoLogin /\ r.chosen = 0
  BY IdleRecord DEF TabRecords
<1>3. 0 \in 0..Len(creds)
  BY DEF SetupInv, SetupTypes
<1>4. tab' = [tab EXCEPT ![t] = r]
  BY <1>1
<1> HIDE DEF r
<1> QED BY <1>2, <1>3, <1>4, TabQuiet

(***************************************************************************)
(* A sign-in begins: it is the next one, and the others of the user end.   *)
(***************************************************************************)
LEMMA BeginKept == ASSUME SetupInv, NEW t \in Tabs, Begin(t) PROVE SetupInv'
<1> USE SetupConstants DEF SetupInv
<1>1. PICK n \in 0..MaxLogins : Asked = 1..n
  BY DEF LoginsInv
<1> DEFINE l == n + 1
<1>2. /\ Asked # Logins
      /\ login' = [login EXCEPT ![l].at = "asked"]
      /\ pending' = {l}
      /\ tab' = [tab EXCEPT ![t].login = l]
      /\ creds' = creds /\ tab[t].login = NoLogin
  <2>1. Cardinality(Asked) = n
    BY <1>1, FS_Interval
  <2> QED BY <2>1 DEF Begin
<1>3. l \in Logins /\ l \notin Asked /\ l # NoLogin
  BY <1>1, <1>2 DEF Logins, NoLogin
<1> HIDE DEF l
<1>4. /\ login' \in [Logins -> [at : LoginPlaces, stored : Nat]]
      /\ \A m \in Logins : login'[m].stored = login[m].stored
      /\ \A m \in Logins : login'[m].at # "none" <=> login[m].at # "none" \/ m = l
  BY <1>2, <1>3 DEF SetupTypes, LoginPlaces
<1>5. Asked' = Asked \union {l}
  BY <1>3, <1>4 DEF Asked
<1>6. /\ tab' \in [Tabs -> TabRecords]
      /\ tab'[t].login = l /\ tab'[t].chosen = tab[t].chosen
      /\ \A u \in Tabs \ {t} : tab'[u] = tab[u]
  <2>1. l \in Nat
    BY <1>3 DEF Logins
  <2> QED BY <1>2, <2>1 DEF SetupTypes, TabRecords
<1>7. LoginsInv'
  <2>1. Asked' = 1..(n + 1) /\ n + 1 \in 0..MaxLogins
    BY <1>1, <1>3, <1>5 DEF l, Logins
  <2>2. pending' \subseteq Asked' /\ \A m, k \in pending' : m = k
    BY <1>2, <1>5
  <2>3. \A u \in Tabs : tab'[u].login \in {NoLogin} \union Asked'
    BY <1>5, <1>6 DEF LoginsInv
  <2>4. \A u, v \in Tabs : tab'[u].login = tab'[v].login /\ tab'[u].login # NoLogin => u = v
    BY <1>3, <1>6 DEF LoginsInv
  <2>5. ASSUME NEW m \in Logins
        PROVE  /\ login'[m].stored \in {0, 1}
               /\ login'[m].stored = 1 =>
                    m \in Asked' /\ m \notin pending' /\ \A u \in Tabs : tab'[u].login # m
    BY <1>2, <1>3, <1>4, <1>5, <1>6 DEF LoginsInv
  <2> QED BY <2>1, <2>2, <2>3, <2>4, <2>5 DEF LoginsInv
<1>8. ChosenInv'
  BY <1>2, <1>6 DEF ChosenInv, DefaultStays
<1> QED BY <1>2, <1>4, <1>6, <1>7, <1>8 DEF SetupTypes


(***************************************************************************)
(* A transaction commits.                                                  *)
(***************************************************************************)
LEMMA CommitKeeps == ASSUME SetupInv, NEW t \in Tabs, Commit(t) PROVE SetupInv'
<1> USE DEF SetupInv
<1> DEFINE cleared == [i \in 1..Len(creds) |->
                         IF i \in tab[t].clears THEN [creds[i] EXCEPT !.default = FALSE]
                         ELSE creds[i]]
           l == tab[t].login
           c == tab[t].chosen
           new == [provider |-> tab[t].provider, default |-> TRUE]
           r == IF tab[t].flow \in {"key", "default"} \/ tab[t].left THEN Idle
                ELSE [Idle EXCEPT !.at = "select", !.flow = "default"]
<1>1. /\ tab[t] \in TabRecords /\ c \in 0..Len(creds) /\ Len(creds) \in Nat
      /\ l \in {NoLogin} \union Asked
  BY DEF SetupTypes, ChosenInv, LoginsInv, TabRecords
<1>2. /\ IF c # 0 THEN creds' = [cleared EXCEPT ![c].default = TRUE]
         ELSE creds' = Append(cleared, new)
      /\ IF c = 0 /\ l # NoLogin
         THEN login' = [login EXCEPT ![l].stored = @ + 1] /\ pending' = pending \ {l}
         ELSE UNCHANGED <<login, pending>>
      /\ tab' = [tab EXCEPT ![t] = r]
  BY DEF Commit
<1>3. r \in TabRecords /\ r.login = NoLogin /\ r.chosen = 0
  BY IdleRecord DEF TabRecords, TabPlaces
<1>4. cleared \in [1..Len(creds) -> CredRecords]
  <2>1. ASSUME NEW i \in 1..Len(creds) PROVE cleared[i] \in CredRecords
    <3>1. creds[i] \in CredRecords
      BY DEF SetupTypes
    <3>2. [creds[i] EXCEPT !.default = FALSE] \in CredRecords
      BY <3>1 DEF CredRecords
    <3>3. cleared[i] = [creds[i] EXCEPT !.default = FALSE] \/ cleared[i] = creds[i]
      OBVIOUS
    <3> HIDE DEF cleared
    <3> QED BY <3>1, <3>2, <3>3
  <2> QED BY <2>1
<1>5. new \in CredRecords /\ new.default
  BY <1>1 DEF CredRecords, TabRecords
<1> HIDE DEF cleared, new, r
<1>6. /\ creds' \in Seq(CredRecords) /\ Len(creds') >= Len(creds)
      /\ \E i \in 1..Len(creds') : creds'[i].default
  <2>1. CASE c # 0
    <3> DEFINE chosen == [cleared[c] EXCEPT !.default = TRUE]
    <3>1. c \in 1..Len(creds) /\ creds' = [cleared EXCEPT ![c] = chosen]
      BY <1>1, <1>2, <2>1
    <3>2. chosen \in CredRecords /\ chosen.default
      BY <1>4, <3>1 DEF CredRecords
    <3> HIDE DEF chosen
    <3>3. creds' \in [1..Len(creds) -> CredRecords] /\ creds'[c] = chosen
      BY <1>4, <3>1, <3>2
    <3>4. creds' \in Seq(CredRecords) /\ Len(creds') = Len(creds)
      BY <1>1, <3>3
    <3> QED BY <1>1, <3>1, <3>2, <3>3, <3>4
  <2>2. CASE c = 0
    <3>1. cleared \in Seq(CredRecords) /\ Len(cleared) = Len(creds)
      BY <1>1, <1>4
    <3>2. creds' = Append(cleared, new)
      BY <1>2, <2>2
    <3>3. /\ Append(cleared, new) \in Seq(CredRecords)
          /\ Len(Append(cleared, new)) = Len(cleared) + 1
          /\ Append(cleared, new)[Len(cleared) + 1] = new
      BY <1>5, <3>1
    <3> QED BY <1>1, <1>5, <3>1, <3>2, <3>3
  <2> QED BY <2>1, <2>2
<1>7. /\ tab' \in [Tabs -> TabRecords] /\ tab'[t] = r
      /\ \A u \in Tabs \ {t} : tab'[u] = tab[u]
  BY <1>2, <1>3 DEF SetupTypes
<1>8. ChosenInv'
  <2>1. \A u \in Tabs : tab'[u].chosen <= Len(creds')
    <3>1. ASSUME NEW u \in Tabs PROVE tab'[u].chosen <= Len(creds')
      <4>1. Len(creds') \in Nat /\ (u # t => tab[u].chosen \in Nat)
        BY <1>6, <1>7 DEF SetupTypes, TabRecords
      <4> QED BY <1>1, <1>3, <1>6, <1>7, <4>1 DEF ChosenInv
    <3> QED BY <3>1
  <2> QED BY <1>6, <2>1 DEF ChosenInv, DefaultStays
<1>9. /\ login' \in [Logins -> [at : LoginPlaces, stored : Nat]] /\ pending' \subseteq pending
      /\ \A m \in Logins :
           /\ login'[m].at = login[m].at
           /\ \/ login'[m].stored = login[m].stored
              \/ m = l /\ l \notin pending' /\ login[m].stored = 0 /\ login'[m].stored = 1
  <2>1. CASE c = 0 /\ l # NoLogin
    <3>1. l \in Asked /\ l \in Logins /\ login[l].stored = 0
      BY <1>1, <2>1 DEF LoginsInv, Asked
    <3>2. login' = [login EXCEPT ![l].stored = 1] /\ pending' = pending \ {l}
      BY <1>2, <2>1, <3>1 DEF SetupTypes
    <3> QED BY <3>1, <3>2 DEF SetupTypes
  <2>2. CASE ~(c = 0 /\ l # NoLogin)
    <3>1. login' = login /\ pending' = pending
      BY <1>2, <2>2
    <3> QED BY <3>1 DEF SetupTypes
  <2> QED BY <2>1, <2>2
<1>10. Asked' = Asked
  BY <1>9 DEF Asked
<1>11. LoginsInv'
  <2>1. \A u \in Tabs : tab'[u].login \in {NoLogin} \union Asked
    BY <1>3, <1>7 DEF LoginsInv
  <2>2. \A u, v \in Tabs : tab'[u].login = tab'[v].login /\ tab'[u].login # NoLogin => u = v
    BY <1>3, <1>7 DEF LoginsInv
  <2>3. ASSUME NEW m \in Logins
        PROVE  /\ login'[m].stored \in {0, 1}
               /\ login'[m].stored = 1 =>
                    m \in Asked /\ m \notin pending' /\ \A u \in Tabs : tab'[u].login # m
    <3>1. m # NoLogin
      BY SetupConstants DEF Logins, NoLogin
    <3>2. CASE login'[m].stored = login[m].stored
      BY <1>3, <1>7, <1>9, <3>1, <3>2 DEF LoginsInv
    <3>3. CASE m = l /\ l \notin pending' /\ login'[m].stored = 1
      <4>1. m \in Asked /\ \A u \in Tabs \ {t} : tab[u].login # m
        BY <1>1, <3>1, <3>3 DEF LoginsInv
      <4> QED BY <1>3, <1>7, <3>1, <3>3, <4>1
    <3> QED BY <1>9, <3>2, <3>3
  <2>4. pending' \subseteq Asked /\ \A m, k \in pending' : m = k
    BY <1>9 DEF LoginsInv
  <2> QED BY <1>10, <2>1, <2>2, <2>3, <2>4 DEF LoginsInv
<1>12. SetupTypes'
  BY <1>6, <1>7, <1>9 DEF SetupTypes
<1> QED BY <1>8, <1>11, <1>12

(***************************************************************************)
(* The other steps of a tab.                                               *)
(***************************************************************************)
LEMMA WaitsKept ==
  ASSUME SetupInv, NEW t \in Tabs, Leave(t) \/ Select(t) \/ ClearDefaults(t)
  PROVE  SetupInv'
<1>1. tab[t] \in TabRecords /\ tab[t].chosen \in 0..Len(creds) /\ Len(creds) \in Nat
  BY DEF SetupInv, SetupTypes, ChosenInv, TabRecords
<1>2. CASE Leave(t)
  <2> DEFINE r == [tab[t] EXCEPT !.left = TRUE]
  <2>1. /\ r \in TabRecords /\ r.login = tab[t].login /\ r.chosen = tab[t].chosen
        /\ tab' = [tab EXCEPT ![t] = r] /\ UNCHANGED <<creds, login, pending>>
    BY <1>1, <1>2 DEF Leave, TabRecords
  <2> HIDE DEF r
  <2> QED BY <1>1, <2>1, TabQuiet
<1>3. CASE ClearDefaults(t)
  <2> DEFINE place == IF Locked = {} THEN "write" ELSE "wait"
             r == [tab[t] EXCEPT !.at = place, !.clears = 1..Len(creds)]
  <2>1. place \in TabPlaces /\ 1..Len(creds) \in SUBSET Nat
    BY <1>1 DEF TabPlaces
  <2>2. tab' = [tab EXCEPT ![t].at = place, ![t].clears = 1..Len(creds)]
        /\ UNCHANGED <<creds, login, pending>>
    BY <1>3 DEF ClearDefaults
  <2> HIDE DEF place
  <2>3. tab' = [tab EXCEPT ![t] = r]
    BY <2>2
  <2>4. r \in TabRecords /\ r.login = tab[t].login /\ r.chosen = tab[t].chosen
    BY <1>1, <2>1 DEF TabRecords
  <2> HIDE DEF r
  <2> QED BY <1>1, <2>2, <2>3, <2>4, TabQuiet
<1>4. CASE Select(t)
  <2>0. UNCHANGED <<creds, login, pending>>
    BY <1>4 DEF Select
  <2>1. ASSUME NEW i \in 1..Len(creds), tab' = [tab EXCEPT ![t].at = "open", ![t].chosen = i]
        PROVE  SetupInv'
    <3> DEFINE r == [tab[t] EXCEPT !.at = "open", !.chosen = i]
    <3>1. tab' = [tab EXCEPT ![t] = r]
      BY <2>1
    <3>2. i \in Nat /\ i \in 0..Len(creds) /\ "open" \in TabPlaces
      BY <1>1 DEF TabPlaces
    <3>3. r \in TabRecords /\ r.login = tab[t].login /\ r.chosen = i
      BY <1>1, <3>2 DEF TabRecords
    <3> HIDE DEF r
    <3> QED BY <2>0, <3>1, <3>2, <3>3, TabQuiet
  <2>2. CASE To(t, "open") \/ EndFlow(t)
    BY <2>0, <2>2, StepsQuiet DEF TabPlaces
  <2> QED BY <1>4, <2>1, <2>2 DEF Select
<1> QED BY <1>2, <1>3, <1>4

LEMMA TabStepKept == ASSUME SetupInv, NEW t \in Tabs, TabStep(t) PROVE SetupInv'
<1>1. CASE ConnectKey(t) \/ MakeDefault(t) \/ SignIn(t)
  BY <1>1, StartQuiet DEF ConnectKey, MakeDefault, SignIn, TabPlaces
<1>2. CASE GiveUp(t) \/ StoreSecret(t) \/ Waited(t) \/ SetupFails(t)
  BY <1>2, StepsQuiet DEF GiveUp, StoreSecret, Waited, SetupFails, TabPlaces
<1>3. CASE Began(t)
  <2>1. pending' \subseteq pending /\ UNCHANGED <<creds, login>> /\ (To(t, "poll") \/ EndFlow(t))
    BY <1>3 DEF Began
  <2> QED BY <2>1, StepsQuiet DEF TabPlaces
<1>4. CASE Poll(t)
  <2>1. pending' \subseteq pending /\ UNCHANGED <<creds, login>> /\ (To(t, "secret") \/ EndFlow(t))
    BY <1>4 DEF Poll
  <2> QED BY <2>1, StepsQuiet DEF TabPlaces
<1> QED BY <1>1, <1>2, <1>3, <1>4, BeginKept, CommitKeeps, WaitsKept DEF TabStep

LEMMA SetupKept == ASSUME SetupInv, [SetupNext]_setupVars PROVE SetupInv'
<1>1. /\ tab \in [Tabs -> TabRecords]
      /\ \A t \in Tabs : tab[t].chosen <= Len(creds)
  BY DEF SetupInv, SetupTypes, ChosenInv
<1>2. ASSUME NEW l \in Logins, ShowCode(l) \/ Grant(l) \/ Refuse(l) PROVE SetupInv'
  <2>1. l \in Asked
    BY <1>2 DEF ShowCode, Grant, Refuse, Asked
  <2>2. /\ UNCHANGED <<creds, pending, tab>>
        /\ \E place \in LoginPlaces \ {"none"} : login' = [login EXCEPT ![l].at = place]
    BY <1>2 DEF ShowCode, Grant, Refuse, LoginPlaces
  <2> QED BY <1>1, <2>1, <2>2, SetupQuiet
<1>3. CASE RestartApi
  <2>1. /\ UNCHANGED <<creds, login>> /\ pending' \subseteq pending
        /\ tab' = [t \in Tabs |-> IF tab[t].at \in {"idle", "poll"} THEN tab[t] ELSE Idle]
    BY <1>3 DEF RestartApi
  <2>2. Len(creds) \in Nat
    BY DEF SetupInv, SetupTypes
  <2>3. ASSUME NEW t \in Tabs
        PROVE  /\ tab'[t] \in TabRecords /\ tab'[t].login \in {NoLogin, tab[t].login}
               /\ tab'[t].chosen <= Len(creds)
    BY <1>1, <2>1, <2>2, IdleRecord
  <2>4. tab' \in [Tabs -> TabRecords]
    BY <2>1, <2>3
  <2> QED BY <2>1, <2>3, <2>4, SetupQuiet
<1>4. CASE UNCHANGED setupVars
  BY <1>1, <1>4, SetupQuiet DEF setupVars
<1> QED BY <1>2, <1>3, <1>4, TabStepKept DEF SetupNext

LEMMA SetupSays == SetupInv => SignInStoredOnce /\ DefaultStays
<1> SUFFICES ASSUME SetupInv PROVE SignInStoredOnce /\ DefaultStays
  OBVIOUS
<1>1. Cardinality(pending) <= 1
  <2>1. CASE pending = {}
    BY <2>1, FS_EmptySet
  <2>2. CASE pending # {}
    <3>1. PICK l \in pending : TRUE
      BY <2>2
    <3>2. pending = {l}
      BY <3>1 DEF SetupInv, LoginsInv
    <3> QED BY <3>2, FS_Singleton
  <2> QED BY <2>1, <2>2
<1>2. \A l \in Logins : login[l].stored <= 1 /\ (login[l].stored = 1 => l \notin pending)
  BY DEF SetupInv, LoginsInv
<1> QED BY <1>1, <1>2 DEF SetupInv, ChosenInv, SignInStoredOnce

-----------------------------------------------------------------------------
(* The types of the composition: what the variables of each part keep that *)
(* its invariants above do not speak of.                                    *)

(***************************************************************************)
(* What the types of the connections add to what the keys rest on.         *)
(***************************************************************************)
TypedRequests ==
  [op : Operations, at : Places, key : {NoKey} \union Keys, seen : SUBSET Keys,
   row : 0..(MaxRows + MaxKeys)]
ConnectionRest ==
  /\ tabCall \in [PluginTabs -> TypedRequests]
  /\ \A t \in PluginTabs : tabCall[t].at \in {"create", "use"} => tabCall[t].key \in Keys
  /\ status \in [ConnectionRows -> {"none", "pending", "connected", "error", "revoked"}]
  /\ granting \in [ConnectionRows -> {NoKey} \union Keys]
  /\ linked \subseteq Keys
  /\ troubles \in 0..MaxTroubles

LEMMA NoRequestTyped == NoRequest \in TypedRequests /\ NoRequest.at = "none"
BY ConnectionsConstants DEF NoRequest, TypedRequests, Operations, Places, Adapter

LEMMA ConnectionRestStart == ConnectionsInit => ConnectionRest
<1> SUFFICES ASSUME ConnectionsInit PROVE ConnectionRest
  OBVIOUS
<1>1. tabCall \in [PluginTabs -> TypedRequests] /\ \A t \in PluginTabs : tabCall[t].at = "none"
  BY NoRequestTyped DEF ConnectionsInit
<1> QED BY <1>1, ConnectionsConstants DEF ConnectionsInit, ConnectionRest

LEMMA ConnectionRestKept ==
  ASSUME KeysInv, ConnectionRest, [ConnectionsNext]_connectionVars
  PROVE  ConnectionRest'
<1> USE ConnectionsConstants
<1>1. /\ tabCall \in [PluginTabs -> TypedRequests]
      /\ \A t \in PluginTabs : tabCall[t].at \in {"create", "use"} => tabCall[t].key \in Keys
      /\ status \in [ConnectionRows -> {"none", "pending", "connected", "error", "revoked"}]
      /\ granting \in [ConnectionRows -> {NoKey} \union Keys]
      /\ linked \subseteq Keys /\ troubles \in 0..MaxTroubles
      /\ held \in {NoKey} \union Keys /\ session \in {NoKey} \union Keys
      /\ install \in [Installs -> {Unused, Dropped} \union Keys]
      /\ savedKeys \in 0..MaxKeys
  BY DEF KeysInv, RequestTypes, ConnectionRest
<1>2. ASSUME NEW t \in PluginTabs, NEW c \in TypedRequests, tabCall' = [tabCall EXCEPT ![t] = c],
             c.at \in {"create", "use"} => c.key \in Keys,
             status' \in [ConnectionRows -> {"none", "pending", "connected", "error", "revoked"}],
             granting' \in [ConnectionRows -> {NoKey} \union Keys],
             linked' \subseteq Keys, troubles' \in 0..MaxTroubles
      PROVE  ConnectionRest'
  <2>1. /\ tabCall' \in [PluginTabs -> TypedRequests]
        /\ \A u \in PluginTabs : tabCall'[u] = IF u = t THEN c ELSE tabCall[u]
    BY <1>1, <1>2
  <2> QED BY <1>1, <1>2, <2>1 DEF ConnectionRest
<1>3. ASSUME NEW t \in PluginTabs, OverlayStep(t) PROVE ConnectionRest'
  <2> DEFINE Typed1(c) ==
        /\ c \in TypedRequests /\ tabCall' = [tabCall EXCEPT ![t] = c]
        /\ c.at \in {"create", "use"} => c.key \in Keys
  <2>0. tabCall[t] \in TypedRequests
    BY <1>1
  <2>1. ASSUME NEW c, Typed1(c), Links, UNCHANGED troubles PROVE ConnectionRest'
    <3>1. UNCHANGED <<status, granting, linked, troubles>>
      BY <2>1 DEF Links
    <3> QED BY <1>1, <1>2, <2>1, <3>1
  <2>2. ASSUME Ends(t) PROVE Typed1(NoRequest)
    BY <2>2, NoRequestTyped DEF Ends
  <2>3. ASSUME NEW to \in {"pending", "connected", "error", "revoked"}, Writes(t, to)
        PROVE  \E c : Typed1(c)
    <3>1. PICK c : c = [tabCall[t] EXCEPT !.at = to, !.key = NoKey, !.seen = {}]
      OBVIOUS
    <3>2. c \in TypedRequests /\ c.at = to
      BY <2>0, <3>1 DEF TypedRequests, Places
    <3>3. tabCall' = [tabCall EXCEPT ![t] = c]
      BY <2>3, <3>1 DEF Writes
    <3> QED BY <3>2, <3>3
  <2>4. ASSUME NEW o \in Operations, NEW to \in Places \ {"create", "use"},
               NEW own \in 0..(MaxRows + MaxKeys), Opens(t, o, to, own)
        PROVE  \E c : Typed1(c)
    <3>1. PICK c : c = [NoRequest EXCEPT !.op = o, !.at = to, !.row = own]
      OBVIOUS
    <3>2. c \in TypedRequests /\ c.at = to
      BY <3>1, NoRequestTyped DEF TypedRequests
    <3>3. tabCall' = [tabCall EXCEPT ![t] = c]
      BY <2>4, <3>1 DEF Opens
    <3> QED BY <3>2, <3>3
  <2>5. ASSUME NEW to \in Places \ {"create", "use"}, GoTo(t, to)
        PROVE  \E c : Typed1(c)
    <3>1. PICK c : c = [tabCall[t] EXCEPT !.at = to]
      OBVIOUS
    <3>2. c \in TypedRequests /\ c.at = to
      BY <2>0, <3>1 DEF TypedRequests
    <3>3. tabCall' = [tabCall EXCEPT ![t] = c]
      BY <2>5, <3>1 DEF GoTo
    <3> QED BY <3>2, <3>3
  <2>7. \A r \in ConnectionRows : r \in 0..(MaxRows + MaxKeys)
    BY DEF ConnectionRows
  <2>8. \A i \in Installs : i \in 0..(MaxRows + MaxKeys)
    BY DEF Installs
  <2> HIDE DEF Typed1
  <2>9. CASE PutSecret(t)
    <3>1. PICK c : c = [NoRequest EXCEPT !.op = "save", !.at = "find", !.key = savedKeys + 1]
      OBVIOUS
    <3>2. savedKeys + 1 \in Keys
      BY <1>1, <2>9 DEF PutSecret, Keys
    <3>3. "save" \in Operations /\ "find" \in Places
      BY DEF Operations, Places
    <3>4. c \in TypedRequests /\ c.at = "find"
      BY <3>1, <3>2, <3>3, NoRequestTyped DEF TypedRequests
    <3>5. tabCall' = [tabCall EXCEPT ![t] = c] /\ Links /\ UNCHANGED troubles
      BY <2>9, <3>1 DEF PutSecret
    <3> QED BY <2>1, <3>4, <3>5 DEF Typed1
  <2>10. CASE FindInstall(t)
    <3> DEFINE newestRow == IF WithKey = {} THEN 0 ELSE Newest
               newestKeys == IF WithKey = {} THEN {} ELSE {install[Newest]}
    <3>1. WithKey # {} => Newest \in WithKey
      BY NewestIs DEF KeysInv
    <3>2. newestRow \in 0..(MaxRows + MaxKeys) /\ newestKeys \in SUBSET Keys
      <4>1. CASE WithKey = {}
        BY <4>1
      <4>2. CASE WithKey # {}
        <5>1. Newest \in Installs /\ install[Newest] \in Keys
          BY <3>1, <4>2 DEF WithKey
        <5> QED BY <2>8, <4>2, <5>1
      <4> QED BY <4>1, <4>2
    <3>3. /\ tabCall' = [tabCall EXCEPT ![t].at = "write", ![t].row = newestRow, ![t].seen = newestKeys]
          /\ Links /\ UNCHANGED troubles
      BY <2>10 DEF FindInstall
    <3> HIDE DEF newestRow, newestKeys
    <3>4. PICK c : c = [tabCall[t] EXCEPT !.at = "write", !.row = newestRow, !.seen = newestKeys]
      OBVIOUS
    <3>5. c \in TypedRequests /\ c.at = "write"
      BY <2>0, <3>2, <3>4 DEF TypedRequests, Places
    <3>6. Typed1(c)
      BY <3>3, <3>4, <3>5 DEF Typed1
    <3> QED BY <2>1, <3>3, <3>6
  <2>11. CASE WriteInstall(t) \/ DropInstalls(t)
    <3>1. \E c : Typed1(c)
      BY <2>2, <2>5, <2>11 DEF WriteInstall, DropInstalls, Places
    <3> QED BY <2>1, <2>11, <3>1 DEF WriteInstall, DropInstalls
  <2>12. CASE ReadInstalls(t)
    <3> DEFINE seen == {install[i] : i \in WithKey}
    <3>1. EnvironmentKey \in {NoKey} \union Keys /\ seen \in SUBSET Keys
      BY KeyFacts DEF WithKey
    <3>2. "clear" \in Operations /\ "drop" \in Places
      BY DEF Operations, Places
    <3>3. /\ tabCall' = [tabCall EXCEPT ![t] = [NoRequest EXCEPT !.op = "clear", !.at = "drop",
                                                  !.key = EnvironmentKey, !.seen = seen]]
          /\ Links /\ UNCHANGED troubles
      BY <2>12 DEF ReadInstalls
    <3> HIDE DEF seen
    <3>4. PICK c : c = [NoRequest EXCEPT !.op = "clear", !.at = "drop", !.key = EnvironmentKey,
                                         !.seen = seen]
      OBVIOUS
    <3>5. c \in TypedRequests /\ c.at = "drop"
      BY <3>1, <3>2, <3>4, NoRequestTyped DEF TypedRequests
    <3>6. tabCall' = [tabCall EXCEPT ![t] = c]
      BY <3>3, <3>4
    <3> QED BY <2>1, <3>3, <3>5, <3>6 DEF Typed1
  <2>13. CASE DeleteSecrets(t)
    <3>1. PICK c : c = [tabCall[t] EXCEPT !.at = "set", !.seen = {}, !.row = 0]
      OBVIOUS
    <3>2. "set" \in Places /\ {} \in SUBSET Keys /\ 0 \in 0..(MaxRows + MaxKeys)
      BY DEF Places
    <3>3. c \in TypedRequests /\ c.at = "set"
      BY <2>0, <3>1, <3>2 DEF TypedRequests
    <3>4. tabCall' = [tabCall EXCEPT ![t] = c] /\ Links /\ UNCHANGED troubles
      BY <2>13, <3>1 DEF DeleteSecrets
    <3> QED BY <2>1, <3>3, <3>4 DEF Typed1
  <2>14. CASE SetApiKey(t) \/ Executed(t)
    BY <2>1, <2>2, <2>14 DEF SetApiKey, Executed
  <2>15. CASE BeginSession(t)
    <3> DEFINE seen == IF session = NoKey THEN {} ELSE {session}
               to == IF session = NoKey THEN "create" ELSE "use"
    <3>1. /\ tabCall' = [tabCall EXCEPT ![t].key = held, ![t].seen = seen, ![t].at = to]
          /\ Links /\ UNCHANGED troubles /\ held \in Keys
      BY <1>1, <2>15 DEF BeginSession
    <3>2. seen \in SUBSET Keys /\ to \in Places
      BY <1>1 DEF Places, Adapter
    <3> HIDE DEF seen, to
    <3>3. PICK c : c = [tabCall[t] EXCEPT !.key = held, !.seen = seen, !.at = to]
      OBVIOUS
    <3>4. c \in TypedRequests /\ c.key = held
      BY <2>0, <3>1, <3>2, <3>3 DEF TypedRequests
    <3>5. tabCall' = [tabCall EXCEPT ![t] = c]
      BY <3>1, <3>3
    <3> QED BY <2>1, <3>1, <3>4, <3>5 DEF Typed1
  <2>16. ASSUME NEW seen \in SUBSET Keys, NEW to \in {"create", "act"}, tabCall[t].key \in Keys,
                tabCall' = [tabCall EXCEPT ![t].at = to, ![t].seen = seen]
         PROVE  \E c : Typed1(c)
    <3>1. PICK c : c = [tabCall[t] EXCEPT !.at = to, !.seen = seen]
      OBVIOUS
    <3>2. c \in TypedRequests /\ c.key = tabCall[t].key
      BY <2>0, <2>16, <3>1 DEF TypedRequests, Places, Adapter
    <3>3. tabCall' = [tabCall EXCEPT ![t] = c]
      BY <2>16, <3>1
    <3> QED BY <2>16, <3>2, <3>3 DEF Typed1
  <2>17. CASE UseSession(t) \/ CreateSession(t)
    <3>1. tabCall[t].key \in Keys /\ Links /\ UNCHANGED troubles
      BY <1>1, <2>17 DEF UseSession, CreateSession
    <3>2. {} \in SUBSET Keys /\ {tabCall[t].key} \in SUBSET Keys /\ "act" \in Places \ {"create", "use"}
      BY <3>1 DEF Places, Adapter
    <3>3. \E c : Typed1(c)
      BY <2>5, <2>16, <2>17, <3>1, <3>2 DEF UseSession, CreateSession
    <3> QED BY <2>1, <3>1, <3>3
  <2>18. CASE NoClient(t)
    <3>1. \E c : Typed1(c)
      BY <2>2, <2>3, <2>18 DEF NoClient
    <3> QED BY <2>1, <2>18, <3>1 DEF NoClient
  <2>19. /\ {"begin", "complete", "revoke", "execute"} \subseteq Operations
         /\ {"session", "connected", "revoked", "act", "unlink"} \subseteq Places \ {"create", "use"}
         /\ 0 \in 0..(MaxRows + MaxKeys)
    BY DEF Operations, Places, Adapter
  <2>20. CASE Connect(t)
    <3>1. PICK r \in ConnectionRows : /\ status' = [status EXCEPT ![r] = "pending"]
                                      /\ Opens(t, "begin", "session", r)
      BY <2>20 DEF Connect
    <3>2. PICK c : Typed1(c)
      BY <2>4, <2>7, <2>19, <3>1
    <3>3. status' \in [ConnectionRows -> {"none", "pending", "connected", "error", "revoked"}]
      BY <1>1, <3>1
    <3> QED BY <1>1, <1>2, <2>20, <3>2, <3>3 DEF Connect, Typed1
  <2>21. CASE Complete(t) \/ Revoke(t) \/ Execute(t)
    <3>1. \E c : Typed1(c)
      BY <2>4, <2>7, <2>19, <2>21 DEF Complete, Revoke, Execute
    <3> QED BY <2>1, <2>21, <3>1 DEF Complete, Revoke, Execute
  <2>22. CASE Authorize(t)
    <3>1. PICK c : Typed1(c)
      BY <2>3, <2>22 DEF Authorize
    <3>2. granting' \in [ConnectionRows -> {NoKey} \union Keys]
      BY <1>1, <2>0, <2>22 DEF Authorize, TypedRequests
    <3> QED BY <1>1, <1>2, <2>22, <3>1, <3>2 DEF Authorize, Typed1
  <2>23. CASE ConnectionReady(t) \/ FindAccount(t)
    <3>1. \E c : Typed1(c)
      BY <2>2, <2>3, <2>5, <2>19, <2>23 DEF ConnectionReady, FindAccount
    <3> QED BY <2>1, <2>23, <3>1 DEF ConnectionReady, FindAccount
  <2>24. CASE DeleteAccount(t)
    <3>1. PICK c : Typed1(c)
      BY <2>2, <2>3, <2>24 DEF DeleteAccount
    <3>2. linked' \subseteq Keys
      BY <1>1, <2>24 DEF DeleteAccount
    <3> QED BY <1>1, <1>2, <2>24, <3>1, <3>2 DEF DeleteAccount, Typed1
  <2>25. CASE WriteStatus(t)
    <3>1. Typed1(NoRequest)
      BY <2>2, <2>25 DEF WriteStatus
    <3>2. status' \in [ConnectionRows -> {"none", "pending", "connected", "error", "revoked"}]
      BY <1>1, <2>25 DEF WriteStatus
    <3> QED BY <1>1, <1>2, <2>25, <3>1, <3>2 DEF WriteStatus, Typed1
  <2>26. CASE HandlerFails(t)
    <3>1. PICK c : Typed1(c)
      BY <2>2, <2>3, <2>26 DEF HandlerFails
    <3>2. troubles' \in 0..MaxTroubles /\ UNCHANGED <<status, granting, linked>>
      BY <1>1, <2>26 DEF HandlerFails, Links
    <3> QED BY <1>1, <1>2, <3>1, <3>2 DEF Typed1
  <2> QED BY <1>3, <2>9, <2>10, <2>11, <2>12, <2>13, <2>14, <2>15, <2>17, <2>18, <2>20, <2>21,
             <2>22, <2>23, <2>24, <2>25, <2>26 DEF OverlayStep
<1>4. ASSUME NEW r \in ConnectionRows, GrantAccess(r) PROVE ConnectionRest'
  <2>1. /\ granting[r] \in Keys
        /\ linked' = linked \union {granting[r]}
        /\ granting' = [granting EXCEPT ![r] = NoKey]
        /\ UNCHANGED <<tabCall, status, troubles>>
    BY <1>1, <1>4 DEF GrantAccess
  <2> QED BY <1>1, <2>1 DEF ConnectionRest
<1>5. CASE RestartConnector
  <2>1. /\ tabCall' = [t \in PluginTabs |-> NoRequest]
        /\ troubles' \in 0..MaxTroubles /\ UNCHANGED <<status, granting, linked>>
    BY <1>1, <1>5 DEF RestartConnector, NewProcess, Links
  <2> QED BY <1>1, <2>1, NoRequestTyped DEF ConnectionRest
<1>6. CASE UNCHANGED connectionVars
  BY <1>1, <1>6 DEF connectionVars, ConnectionRest
<1> QED BY <1>3, <1>4, <1>5, <1>6 DEF ConnectionsNext

LEMMA ConnectionsTyped == KeysInv /\ ConnectionRest => ConnectionsTypeOK
BY DEF KeysInv, RequestTypes, ConnectionRest, TypedRequests, ConnectionsTypeOK

(***************************************************************************)
(* What the types of the editor and of the credentials add to what the     *)
(* settings rest on.                                                       *)
(***************************************************************************)
CronRest ==
  /\ schedule.freq \in Freqs /\ schedule.unit \in Units
  /\ editing \in BOOLEAN
  /\ clock \in 0..(Week - 1)
  /\ wait \in 1..SearchBound

ShapedPreset(p) == p.freq \in Freqs /\ p.unit \in Units

LEMMA PresetShapes ==
  /\ ShapedPreset(Base) /\ ShapedPreset(Hourly)
  /\ \A n : \A unit \in Units : ShapedPreset(Interval(n, unit))
  /\ \A t : \A freq \in Timed : ShapedPreset(Timely(freq, t))
  /\ \A c : ShapedPreset([Base EXCEPT !.freq = "Advanced", !.cron = c])
BY DEF ShapedPreset, Base, Hourly, Interval, Timely, Freqs, Timed, Units

LEMMA FromCronShaped == \A c : ShapedPreset(PresetFromCron(c))
<1> TAKE c
<1>1. {"minutes", "hours", "days"} \subseteq Units
      /\ {"Weekdays", "Every week", "Every month", "Every day"} \subseteq Timed
  BY DEF Units, Timed
<1>2. /\ \A n : /\ ShapedPreset(Interval(n, "minutes")) /\ ShapedPreset(Interval(n, "hours"))
                /\ ShapedPreset(Interval(n, "days"))
      /\ \A t : /\ ShapedPreset(Timely("Weekdays", t)) /\ ShapedPreset(Timely("Every week", t))
                /\ ShapedPreset(Timely("Every month", t)) /\ ShapedPreset(Timely("Every day", t))
  BY <1>1, PresetShapes
<1>3. ShapedPreset(Hourly) /\ \A d : ShapedPreset([Base EXCEPT !.freq = "Advanced", !.cron = d])
  BY PresetShapes
<1> QED BY <1>2, <1>3, Zenon DEF PresetFromCron

LEMMA CronRestStart == CronInit => CronRest
<1> SUFFICES ASSUME CronInit PROVE CronRest
  OBVIOUS
<1>1. clock = 0 /\ clock \in 0..(Week - 1) /\ wait = MinutesToNext(cron, clock)
  BY CronNumbers DEF CronInit
<1>2. wait \in 1..SearchBound
  BY <1>1, NextIsFirst
<1> QED BY <1>1, <1>2, PresetShapes DEF CronInit, CronRest, ShapedPreset

LEMMA CronRestKept ==
  ASSUME CronRest, [CronNext]_cronVars
  PROVE  CronRest'
<1> USE DEF CronRest
<1>1. ASSUME ShapedPreset(schedule'), editing' \in BOOLEAN, UNCHANGED <<clock, wait>>
      PROVE  CronRest'
  BY <1>1 DEF ShapedPreset
<1>2. CASE OpenEditor
  <2>1. ShapedPreset(schedule')
    BY <1>2, PresetShapes, FromCronShaped DEF OpenEditor
  <2> QED BY <1>1, <1>2, <2>1 DEF OpenEditor
<1>3. CASE Edit
  <2>1. ShapedPreset(schedule')
    <3>1. CASE schedule' \in Pickable
      <4>0. PICK p : p = schedule'
        OBVIOUS
      <4>1. \/ p = Hourly
            \/ \E n \in EditorNumbers : \E unit \in Units : p = Interval(n, unit)
            \/ \E freq \in Timed : \E t \in EditorTimes : p = Timely(freq, t)
        <5>1. p \in Pickable
          BY <3>1, <4>0
        <5> QED BY <5>1 DEF Pickable
      <4>2. ASSUME NEW n, NEW unit \in Units, schedule' = Interval(n, unit)
            PROVE  ShapedPreset(schedule')
        BY <4>2, PresetShapes
      <4>3. ASSUME NEW freq \in Timed, NEW t, schedule' = Timely(freq, t)
            PROVE  ShapedPreset(schedule')
        BY <4>3, PresetShapes
      <4> QED BY <4>0, <4>1, <4>2, <4>3, PresetShapes
    <3>2. CASE schedule' \in Typed
      BY <3>2, PresetShapes DEF Typed
    <3> QED BY <1>3, <3>1, <3>2 DEF Edit
  <2> QED BY <1>1, <1>3, <2>1 DEF Edit
<1>4. CASE Save
  <2>1. ShapedPreset(schedule') /\ editing' \in BOOLEAN /\ clock' = clock /\ clock \in Nat
    <3>1. schedule' = Base /\ editing' = FALSE /\ clock' = clock
      BY <1>4 DEF Save
    <3>2. clock \in Nat
      BY CronNumbers
    <3> QED BY <3>1, <3>2, PresetShapes
  <2>2. wait' \in 1..SearchBound
    <3>1. wait' = wait \/ wait' = MinutesToNext(cron', clock)
      BY <1>4 DEF Save
    <3> QED BY <2>1, <3>1, NextIsFirst
  <2> QED BY <2>1, <2>2 DEF ShapedPreset
<1>5. CASE Fire
  <2>1. PICK late \in 0..Lag :
          /\ clock' = (clock + wait + late) % Week
          /\ wait' = MinutesToNext(cron, clock')
          /\ UNCHANGED <<cron, schedule, editing>>
    BY <1>5 DEF Fire
  <2>2. clock' \in 0..(Week - 1)
    <3>1. clock + wait + late \in Nat
      BY CronNumbers, CronConstants
    <3> QED BY <2>1, <3>1, CronNumbers, DivParts
  <2>3. wait' \in 1..SearchBound
    <3>1. clock' \in Nat
      BY <2>2, CronNumbers
    <3> QED BY <2>1, <3>1, NextIsFirst
  <2> QED BY <2>1, <2>2, <2>3
<1>6. CASE UNCHANGED cronVars
  BY <1>6 DEF cronVars
<1> QED BY <1>2, <1>3, <1>4, <1>5, <1>6 DEF CronNext

LEMMA CronTyped == CronInv /\ CronRest => CronTypeOK
BY DEF CronInv, CronRest, CronTypeOK, Crons

SetupRest ==
  /\ Len(creds) <= MaxCreds
  /\ \A l \in Logins : login[l].stored <= Len(creds)
  /\ \A t \in Tabs : tab[t].clears \subseteq 1..Len(creds)
  /\ setups \in 0..MaxSetups /\ outages \in 0..MaxOutages

LEMMA SetupRestStart == SetupInit => SetupRest
<1> SUFFICES ASSUME SetupInit PROVE SetupRest
  OBVIOUS
<1>1. \A t \in Tabs : tab[t].clears = {}
  BY DEF SetupInit, Idle
<1> QED BY <1>1, SetupConstants DEF SetupInit, SetupRest

LEMMA SetupRestKept ==
  ASSUME SetupInv, SetupRest, [SetupNext]_setupVars
  PROVE  SetupRest'
<1> USE SetupConstants
<1>1. /\ tab \in [Tabs -> TabRecords] /\ creds \in Seq(CredRecords) /\ Len(creds) \in Nat
      /\ login \in [Logins -> [at : LoginPlaces, stored : Nat]]
      /\ \A l \in Logins : login[l].stored \in {0, 1}
  BY DEF SetupInv, SetupTypes, LoginsInv
<1>2. /\ Len(creds) <= MaxCreds
      /\ \A l \in Logins : login[l].stored <= Len(creds)
      /\ \A t \in Tabs : tab[t].clears \subseteq 1..Len(creds)
      /\ setups \in 0..MaxSetups /\ outages \in 0..MaxOutages
  BY DEF SetupRest
<1>3. ASSUME creds' = creds, \A l \in Logins : login'[l].stored = login[l].stored,
             \A t \in Tabs : tab'[t].clears \subseteq 1..Len(creds),
             setups' \in 0..MaxSetups, outages' \in 0..MaxOutages
      PROVE  SetupRest'
  BY <1>2, <1>3 DEF SetupRest
<1>4. ASSUME NEW t \in Tabs, NEW r, tab' = [tab EXCEPT ![t] = r], r.clears \subseteq 1..Len(creds),
             creds' = creds, \A l \in Logins : login'[l].stored = login[l].stored,
             setups' \in 0..MaxSetups, outages' \in 0..MaxOutages
      PROVE  SetupRest'
  <2>1. \A u \in Tabs : tab'[u].clears \subseteq 1..Len(creds)
    BY <1>1, <1>2, <1>4
  <2> QED BY <1>3, <1>4, <2>1
<1>5. Idle.clears \subseteq 1..Len(creds)
  BY DEF Idle
<1>6. ASSUME NEW t \in Tabs, NEW place, To(t, place) \/ EndFlow(t), UNCHANGED <<creds, login>>,
             setups' \in 0..MaxSetups, outages' \in 0..MaxOutages
      PROVE  SetupRest'
  <2>1. CASE EndFlow(t)
    BY <1>4, <1>5, <1>6, <2>1 DEF EndFlow
  <2>2. CASE To(t, place)
    <3>1. PICK r : r = [tab[t] EXCEPT !.at = place]
      OBVIOUS
    <3>2. r.clears = tab[t].clears
      BY <1>1, <3>1 DEF TabRecords
    <3>3. tab' = [tab EXCEPT ![t] = r]
      BY <2>2, <3>1 DEF To
    <3> QED BY <1>2, <1>4, <1>6, <3>2, <3>3
  <2> QED BY <1>6, <2>1, <2>2
<1>7. ASSUME NEW t \in Tabs, TabStep(t) PROVE SetupRest'
  <2>1. CASE ConnectKey(t) \/ MakeDefault(t) \/ SignIn(t)
    <3>1. PICK flow, place : Start(t, flow, place)
      BY <2>1 DEF ConnectKey, MakeDefault, SignIn
    <3>2. PICK provider :
            tab' = [tab EXCEPT ![t] = [Idle EXCEPT !.at = place, !.flow = flow, !.provider = provider]]
      BY <3>1 DEF Start
    <3>3. PICK r : r = [Idle EXCEPT !.at = place, !.flow = flow, !.provider = provider]
      OBVIOUS
    <3>4. r.clears = {}
      BY <3>3 DEF Idle
    <3>5. UNCHANGED <<creds, login, outages>>
      BY <2>1 DEF ConnectKey, MakeDefault, SignIn
    <3>6. setups < MaxSetups /\ setups' = setups + 1
      BY <3>1 DEF Start
    <3>7. setups' \in 0..MaxSetups
      BY <1>2, <3>6
    <3> QED BY <1>2, <1>4, <3>2, <3>3, <3>4, <3>5, <3>7
  <2>2. CASE Leave(t)
    <3>1. PICK r : r = [tab[t] EXCEPT !.left = TRUE]
      OBVIOUS
    <3>2. r.clears = tab[t].clears
      BY <1>1, <3>1 DEF TabRecords
    <3>3. tab' = [tab EXCEPT ![t] = r] /\ UNCHANGED <<creds, login, setups, outages>>
      BY <2>2, <3>1 DEF Leave, ByTab
    <3> QED BY <1>2, <1>4, <3>2, <3>3
  <2>3. CASE GiveUp(t) \/ Began(t) \/ Poll(t) \/ StoreSecret(t) \/ Waited(t)
    BY <1>2, <1>6, <2>3 DEF GiveUp, Began, Poll, StoreSecret, Waited, ByTab
  <2>4. CASE Begin(t)
    <3> DEFINE l == Cardinality(Asked) + 1
    <3>1. /\ login' = [login EXCEPT ![l].at = "asked"]
          /\ tab' = [tab EXCEPT ![t].login = l]
          /\ UNCHANGED <<creds, setups, outages>>
      BY <2>4 DEF Begin, ByTab
    <3> HIDE DEF l
    <3>2. \A m \in Logins : login'[m].stored = login[m].stored
      BY <1>1, <3>1
    <3>3. PICK r : r = [tab[t] EXCEPT !.login = l]
      OBVIOUS
    <3>4. r.clears = tab[t].clears /\ tab' = [tab EXCEPT ![t] = r]
      BY <1>1, <3>1, <3>3 DEF TabRecords
    <3> QED BY <1>2, <1>4, <3>1, <3>2, <3>4
  <2>5. CASE Select(t)
    <3>1. UNCHANGED <<creds, login, setups, outages>>
      BY <2>5 DEF Select, ByTab
    <3>2. ASSUME NEW i, tab' = [tab EXCEPT ![t].at = "open", ![t].chosen = i]
          PROVE  SetupRest'
      <4>1. PICK r : r = [tab[t] EXCEPT !.at = "open", !.chosen = i]
        OBVIOUS
      <4>2. r.clears = tab[t].clears /\ tab' = [tab EXCEPT ![t] = r]
        BY <1>1, <3>2, <4>1 DEF TabRecords
      <4> QED BY <1>2, <1>4, <3>1, <4>2
    <3> QED BY <1>2, <1>6, <2>5, <3>1, <3>2 DEF Select
  <2>6. CASE ClearDefaults(t)
    <3> DEFINE place == IF Locked = {} THEN "write" ELSE "wait"
    <3>1. /\ tab' = [tab EXCEPT ![t].at = place, ![t].clears = 1..Len(creds)]
          /\ UNCHANGED <<creds, login, setups, outages>>
      BY <2>6 DEF ClearDefaults, ByTab
    <3> HIDE DEF place
    <3>2. PICK r : r = [tab[t] EXCEPT !.at = place, !.clears = 1..Len(creds)]
      OBVIOUS
    <3>3. r.clears = 1..Len(creds) /\ tab' = [tab EXCEPT ![t] = r]
      BY <1>1, <3>1, <3>2 DEF TabRecords
    <3> QED BY <1>2, <1>4, <3>1, <3>3
  <2>7. CASE Commit(t)
    <3> DEFINE cleared == [i \in 1..Len(creds) |->
                             IF i \in tab[t].clears THEN [creds[i] EXCEPT !.default = FALSE]
                             ELSE creds[i]]
               l == tab[t].login
               c == tab[t].chosen
               r == IF tab[t].flow \in {"key", "default"} \/ tab[t].left THEN Idle
                    ELSE [Idle EXCEPT !.at = "select", !.flow = "default"]
    <3>1. /\ IF c # 0 THEN creds' = [cleared EXCEPT ![c].default = TRUE]
             ELSE /\ Len(creds) < MaxCreds
                  /\ creds' = Append(cleared, [provider |-> tab[t].provider, default |-> TRUE])
          /\ IF c = 0 /\ l # NoLogin
             THEN login' = [login EXCEPT ![l].stored = @ + 1]
             ELSE UNCHANGED login
          /\ tab' = [tab EXCEPT ![t] = r]
          /\ UNCHANGED <<setups, outages>>
      BY <2>7 DEF Commit, ByTab
    <3>2. cleared \in [1..Len(creds) -> CredRecords]
      <4>1. ASSUME NEW i \in 1..Len(creds) PROVE cleared[i] \in CredRecords
        <5>1. creds[i] \in CredRecords
          BY <1>1
        <5>2. [creds[i] EXCEPT !.default = FALSE] \in CredRecords
          BY <5>1 DEF CredRecords
        <5>3. cleared[i] = [creds[i] EXCEPT !.default = FALSE] \/ cleared[i] = creds[i]
          OBVIOUS
        <5> HIDE DEF cleared
        <5> QED BY <5>1, <5>2, <5>3
      <4> QED BY <4>1
    <3>3. r.clears = {}
      BY DEF Idle
    <3> HIDE DEF cleared, r
    <3>4. /\ Len(creds') \in Nat /\ Len(creds) <= Len(creds') /\ Len(creds') <= MaxCreds
          /\ c = 0 => Len(creds') = Len(creds) + 1
      <4>1. CASE c # 0
        <5>1. [cleared[c] EXCEPT !.default = TRUE] \in CredRecords \/ c \notin 1..Len(creds)
          BY <3>2 DEF CredRecords
        <5>2. creds' \in [1..Len(creds) -> CredRecords]
          BY <3>1, <3>2, <4>1, <5>1
        <5>3. Len(creds') = Len(creds)
          BY <1>1, <5>2
        <5> QED BY <1>1, <1>2, <4>1, <5>3
      <4>2. CASE c = 0
        <5>1. cleared \in Seq(CredRecords) /\ Len(cleared) = Len(creds)
          BY <1>1, <3>2
        <5>2. Len(creds') = Len(cleared) + 1 /\ Len(creds) < MaxCreds
          BY <3>1, <4>2, <5>1
        <5> QED BY <1>1, <5>1, <5>2
      <4> QED BY <4>1, <4>2
    <3>5. \A m \in Logins : login'[m].stored <= Len(creds')
      <4>1. SetupInv'
        BY <2>7, CommitKeeps
      <4>2. \A m \in Logins : login'[m].stored \in {0, 1}
        BY <4>1 DEF SetupInv, LoginsInv
      <4>3. CASE c = 0
        BY <1>1, <3>4, <4>2, <4>3
      <4>4. CASE c # 0
        BY <1>1, <1>2, <3>1, <3>4, <4>4
      <4> QED BY <4>3, <4>4
    <3>6. \A u \in Tabs : tab'[u].clears \subseteq 1..Len(creds')
      <4>1. \A u \in Tabs : tab'[u].clears \subseteq 1..Len(creds)
        BY <1>1, <1>2, <3>1, <3>3
      <4> QED BY <1>1, <3>4, <4>1
    <3> QED BY <1>2, <3>1, <3>4, <3>5, <3>6 DEF SetupRest
  <2>8. CASE SetupFails(t)
    <3>1. outages' \in 0..MaxOutages /\ EndFlow(t) /\ UNCHANGED <<creds, login, setups>>
      BY <1>2, <2>8 DEF SetupFails
    <3> QED BY <1>2, <1>6, <3>1
  <2> QED BY <1>7, <2>1, <2>2, <2>3, <2>4, <2>5, <2>6, <2>7, <2>8 DEF TabStep
<1>8. ASSUME NEW l \in Logins, ShowCode(l) \/ Grant(l) \/ Refuse(l) PROVE SetupRest'
  <2>1. PICK place : login' = [login EXCEPT ![l].at = place]
    BY <1>8 DEF ShowCode, Grant, Refuse
  <2>2. \A m \in Logins : login'[m].stored = login[m].stored
    BY <1>1, <2>1
  <2>3. UNCHANGED <<creds, tab, setups, outages>>
    BY <1>8 DEF ShowCode, Grant, Refuse, ByTab
  <2> QED BY <1>2, <1>3, <2>2, <2>3
<1>9. CASE RestartApi
  <2>1. /\ outages' \in 0..MaxOutages /\ UNCHANGED <<creds, login, setups>>
        /\ tab' = [u \in Tabs |-> IF tab[u].at \in {"idle", "poll"} THEN tab[u] ELSE Idle]
    BY <1>2, <1>9 DEF RestartApi
  <2>2. \A u \in Tabs : tab'[u].clears \subseteq 1..Len(creds)
    BY <1>2, <1>5, <2>1
  <2> QED BY <1>2, <1>3, <2>1, <2>2
<1>10. CASE UNCHANGED setupVars
  BY <1>2, <1>3, <1>10 DEF setupVars
<1> QED BY <1>7, <1>8, <1>9, <1>10 DEF SetupNext

LEMMA SetupTyped == SetupInv /\ SetupRest => SetupTypeOK
<1> SUFFICES ASSUME SetupInv, SetupRest PROVE SetupTypeOK
  OBVIOUS
<1> USE SetupConstants
<1>1. /\ tab \in [Tabs -> TabRecords] /\ creds \in Seq(CredRecords) /\ Len(creds) \in Nat
      /\ login \in [Logins -> [at : LoginPlaces, stored : Nat]]
      /\ pending \subseteq Asked /\ \A t \in Tabs : tab[t].login \in {NoLogin} \union Asked
      /\ \A t \in Tabs : tab[t].chosen <= Len(creds)
  BY DEF SetupInv, SetupTypes, LoginsInv, ChosenInv
<1>2. /\ Len(creds) <= MaxCreds
      /\ \A l \in Logins : login[l].stored <= Len(creds)
      /\ \A t \in Tabs : tab[t].clears \subseteq 1..Len(creds)
      /\ setups \in 0..MaxSetups /\ outages \in 0..MaxOutages
  BY DEF SetupRest
<1>3. creds \in Seq([provider : Providers, default : BOOLEAN])
  BY <1>1 DEF CredRecords
<1>4. login \in [Logins -> [at : {"none", "asked", "shown", "granted", "failed"},
                            stored : 0..MaxCreds]]
  <2>1. \A l \in Logins : login[l].stored \in 0..MaxCreds
    BY <1>1, <1>2
  <2> QED BY <1>1, <2>1 DEF LoginPlaces
<1>5. tab \in [Tabs ->
       [at : {"idle", "begin", "poll", "secret", "open", "wait", "write", "select"},
        flow : {"none", "key", "custom", "device", "default"}, login : {NoLogin} \union Logins,
        clears : SUBSET (1..MaxCreds), chosen : 0..MaxCreds, provider : Providers,
        left : BOOLEAN]]
  <2>1. ASSUME NEW t \in Tabs
        PROVE  /\ tab[t].clears \in SUBSET (1..MaxCreds) /\ tab[t].chosen \in 0..MaxCreds
               /\ tab[t].login \in {NoLogin} \union Logins
    <3>1. tab[t].clears \subseteq 1..Len(creds) /\ 1..Len(creds) \subseteq 1..MaxCreds
      BY <1>1, <1>2
    <3>2. tab[t].chosen \in Nat /\ tab[t].chosen <= Len(creds)
      BY <1>1 DEF TabRecords
    <3>3. tab[t].login \in {NoLogin} \union Asked /\ Asked \subseteq Logins
      BY <1>1 DEF Asked
    <3> QED BY <1>1, <1>2, <3>1, <3>2, <3>3
  <2> QED BY <1>1, <2>1 DEF TabRecords, TabPlaces
<1>6. pending \subseteq Logins
  BY <1>1 DEF Asked
<1> QED BY <1>2, <1>3, <1>4, <1>5, <1>6 DEF SetupTypeOK

(***************************************************************************)
(* What the types of the view add to what its entries rest on: how long    *)
(* the log can get, and that texts are of deltas.                          *)
(***************************************************************************)
ViewEntries == [id : MessageNos, seq : SeqNos]
TypedEvents ==
  {e \in [kind : {"message", "delta", "over", "gone"}, id : SeqNos, run : 0..MaxViewRuns] :
     /\ e.kind = "message" => e.id \in MessageNos
     /\ e.kind = "delta" => e.id \in 1..MaxViewDeltas}
RunEvents == MaxViewDeltas + 1
Written ==
  messages + (IF turn.live THEN (turn.n - 1) * RunEvents + turn.said ELSE turn.n * RunEvents)

ThreadRest ==
  /\ messages \in 0..MaxMessages
  /\ turn \in [n : 0..MaxViewRuns, live : BOOLEAN, said : 0..MaxViewDeltas]
  /\ turn.live => turn.n # 0
  /\ log \in Seq(TypedEvents)
  /\ Len(log) + Cardinality(unsaid) <= Written

FetchRecords ==
  [at : {"idle", "reading", "live", "answer"}, why : {"first", "event", "reconnect"},
   todo : SUBSET {"page", "run", "last"}, top : 0..MaxMessages,
   run : 0..MaxViewRuns, last : Nat, text : Texts]
Views ==
  [shown : BOOLEAN, entries : Seq(ViewEntries), run : 0..MaxViewRuns, text : Texts,
   older : 0..MaxMessages]
ClientRest ==
  /\ view \in Views
  /\ stream \in {"none", "on", "lost"}
  /\ fetch \in [Fetches -> FetchRecords]
  /\ page \in [at : {"idle", "answer"}, before : 0..MaxMessages]
  /\ expanded \in BOOLEAN
  /\ base \in [why : {"none", "first", "event", "reconnect"}, from : Nat]
  /\ breaks \in 0..MaxBreaks

LEMMA ProductsGrow ==
  \A n, k \in Nat :
    /\ n * k \in Nat /\ (n + 1) * k = n * k + k
    /\ \A m \in Nat : n <= m => n * k <= m * k
<1> SUFFICES ASSUME NEW n \in Nat, NEW k \in Nat
             PROVE  /\ n * k \in Nat /\ (n + 1) * k = n * k + k
                    /\ \A m \in Nat : n <= m => n * k <= m * k
  OBVIOUS
<1>1. n * k \in Nat /\ (n + 1) * k = n * k + k
  OBVIOUS
<1>2. ASSUME NEW m \in Nat, n <= m PROVE n * k <= m * k
  <2>1. PICK d \in Nat : m = n + d
    <3>1. m - n \in Nat /\ m = n + (m - n)
      BY <1>2
    <3> QED BY <3>1
  <2>2. m * k = n * k + d * k /\ d * k \in Nat /\ n * k \in Nat
    BY <2>1
  <2> QED BY <2>2
<1> QED BY <1>1, <1>2

LEMMA SeqNosAre ==
  /\ \A n \in Nat : n <= 2 * MaxMessages + MaxViewRuns * RunEvents => n \in SeqNos
  /\ MessageNos \subseteq SeqNos /\ RunEvents \in Nat
  /\ MaxViewRuns # 0 => 1..MaxViewDeltas \subseteq SeqNos
  /\ 0 \in SeqNos /\ SeqNos \subseteq Nat
<1>1. MaxViewDeltas * MaxViewRuns \in Nat /\ MaxMessages \in Nat /\ MaxViewRuns \in Nat
  BY ViewConstants
<1>2. MaxViewRuns * RunEvents = MaxViewDeltas * MaxViewRuns + MaxViewRuns /\ RunEvents \in Nat
  BY ViewConstants DEF RunEvents
<1>3. ASSUME MaxViewRuns # 0 PROVE MaxViewDeltas <= MaxViewDeltas * MaxViewRuns
  <2>1. 1 * MaxViewDeltas <= MaxViewRuns * MaxViewDeltas
    BY <1>1, <1>3, ProductsGrow, ViewConstants
  <2> QED BY <2>1, ViewConstants
<1> DEFINE most == MaxViewDeltas * MaxViewRuns
<1> HIDE DEF most
<1>4. /\ most \in Nat /\ MaxMessages \in Nat /\ MaxViewRuns \in Nat /\ MaxViewDeltas \in Nat
      /\ SeqNos = 0..(2 * MaxMessages + most + MaxViewRuns)
      /\ MaxViewRuns * RunEvents = most + MaxViewRuns
      /\ MaxViewRuns # 0 => MaxViewDeltas <= most
  BY <1>1, <1>2, <1>3, ViewConstants DEF most, SeqNos
<1> QED BY <1>2, <1>4 DEF MessageNos

LEMMA SeqNosDown == \A n \in SeqNos : \A k \in 0..n : k \in SeqNos
<1>1. PICK most \in Nat : SeqNos = 0..most
  <2>1. 2 * MaxMessages + MaxViewDeltas * MaxViewRuns + MaxViewRuns \in Nat
    BY ViewConstants
  <2> QED BY <2>1 DEF SeqNos
<1> QED BY <1>1

\* What the log can hold fits its numbers.
LEMMA LogFits ==
  ASSUME ThreadRest, unsaid \subseteq 1..messages
  PROVE  Len(log) \in SeqNos /\ Cardinality(unsaid) \in Nat
<1>1. /\ messages \in 0..MaxMessages /\ turn.n \in 0..MaxViewRuns /\ turn.said \in 0..MaxViewDeltas
      /\ (turn.live => turn.n # 0) /\ Len(log) \in Nat
      /\ Len(log) + Cardinality(unsaid) <= Written
  BY DEF ThreadRest
<1>2. Cardinality(unsaid) \in Nat
  <2>1. IsFiniteSet(1..messages)
    BY <1>1, ViewConstants, FS_Interval
  <2> QED BY <2>1, FS_Subset, FS_CardinalityType
<1>3. Written \in Nat /\ Written <= MaxMessages + MaxViewRuns * RunEvents
  <2> USE ViewConstants
  <2>1. RunEvents \in Nat /\ turn.said < RunEvents
    BY <1>1 DEF RunEvents
  <2>2. turn.n * RunEvents \in Nat /\ turn.n * RunEvents <= MaxViewRuns * RunEvents
        /\ MaxViewRuns * RunEvents \in Nat
    BY <1>1, <2>1, ProductsGrow
  <2>3. CASE ~turn.live
    BY <1>1, <2>2, <2>3 DEF Written
  <2>4. CASE turn.live
    <3>1. turn.n - 1 \in Nat /\ turn.n = (turn.n - 1) + 1
      BY <1>1, <2>4
    <3>2. turn.n * RunEvents = (turn.n - 1) * RunEvents + RunEvents /\ (turn.n - 1) * RunEvents \in Nat
      BY <2>1, <3>1, ProductsGrow
    <3> DEFINE before == (turn.n - 1) * RunEvents
               all == turn.n * RunEvents
               most == MaxViewRuns * RunEvents
    <3>3. Written = messages + (before + turn.said)
      BY <2>4 DEF Written
    <3>4. before \in Nat /\ all = before + RunEvents /\ all <= most /\ most \in Nat
      BY <2>2, <3>2
    <3> HIDE DEF before, all, most
    <3>5. messages \in 0..MaxMessages /\ turn.said \in Nat
      BY <1>1
    <3>6. Written \in Nat /\ Written <= MaxMessages + most
      BY <2>1, <3>3, <3>4, <3>5
    <3> QED BY <3>6 DEF most
  <2> QED BY <2>3, <2>4
<1>4. Len(log) <= 2 * MaxMessages + MaxViewRuns * RunEvents
  BY <1>1, <1>2, <1>3, ViewConstants, SeqNosAre, ProductsGrow
<1> QED BY <1>1, <1>2, <1>4, SeqNosAre

LEMMA SaidLess ==
  ASSUME messages \in Nat, unsaid \subseteq 1..messages
  PROVE  /\ Cardinality(unsaid) \in Nat
         /\ Cardinality(unsaid \union {messages + 1}) = Cardinality(unsaid) + 1
         /\ \A m \in unsaid : Cardinality(unsaid \ {m}) = Cardinality(unsaid) - 1
<1>1. IsFiniteSet(1..messages)
  BY FS_Interval
<1>2. IsFiniteSet(unsaid)
  BY <1>1, FS_Subset
<1>3. messages + 1 \notin unsaid
  OBVIOUS
<1> QED BY <1>2, <1>3, FS_CardinalityType, FS_AddElement, FS_RemoveElement

LEMMA JoinedSeq ==
  ASSUME NEW S, NEW a \in Seq(S), NEW b \in Seq(S)
  PROVE  a \o b \in Seq(S) /\ Len(a \o b) = Len(a) + Len(b)
OBVIOUS

LEMMA ThreadRestKept ==
  ASSUME ViewTypes, ThreadRest, ThreadStep
  PROVE  ThreadRest'
<1> USE ViewConstants
<1>1. /\ messages \in 0..MaxMessages /\ unsaid \subseteq 1..messages
      /\ turn \in [n : 0..MaxViewRuns, live : BOOLEAN, said : 0..MaxViewDeltas]
      /\ (turn.live => turn.n # 0) /\ log \in Seq(TypedEvents) /\ Len(log) \in Nat
      /\ Len(log) + Cardinality(unsaid) <= Written
  BY DEF ViewTypes, ThreadRest
<1>2. /\ turn.n \in Nat /\ turn.said \in Nat /\ turn.live \in BOOLEAN /\ messages \in Nat
      /\ RunEvents \in Nat /\ RunEvents = MaxViewDeltas + 1
  BY <1>1 DEF RunEvents
<1>3. /\ Cardinality(unsaid) \in Nat
      /\ Cardinality(unsaid \union {messages + 1}) = Cardinality(unsaid) + 1
      /\ \A m \in unsaid : Cardinality(unsaid \ {m}) = Cardinality(unsaid) - 1
  BY <1>1, <1>2, SaidLess
<1> DEFINE before == (turn.n - 1) * RunEvents
           all == turn.n * RunEvents
<1>4. Written = messages + (IF turn.live THEN before + turn.said ELSE all)
  BY DEF Written
<1>5. all \in Nat /\ (turn.live => before \in Nat /\ all = before + RunEvents)
  <2>1. all \in Nat
    BY <1>2, ProductsGrow
  <2>2. ASSUME turn.live PROVE before \in Nat /\ all = before + RunEvents
    <3>1. turn.n - 1 \in Nat /\ turn.n = (turn.n - 1) + 1
      BY <1>1, <1>2, <2>2
    <3> QED BY <1>2, <3>1, ProductsGrow
  <2> QED BY <2>1, <2>2
<1> HIDE DEF before, all
<1>11. Written \in Nat
  BY <1>2, <1>4, <1>5
<1>6. CASE CreateMessage
  <2>1. /\ messages' = messages + 1 /\ messages' \in 0..MaxMessages
        /\ unsaid' = unsaid \union {messages + 1} /\ UNCHANGED <<log, turn>>
    BY <1>1, <1>6 DEF CreateMessage
  <2>2. Written' = Written + 1
    <3>1. Written' = messages' + (IF turn.live THEN before + turn.said ELSE all)
      <4>1. turn' = turn /\ RunEvents' = RunEvents
        BY <2>1 DEF RunEvents
      <4> QED BY <4>1 DEF Written, before, all
    <3>2. CASE turn.live
      BY <1>2, <1>4, <1>5, <2>1, <3>1, <3>2
    <3>3. CASE ~turn.live
      BY <1>2, <1>4, <1>5, <2>1, <3>1, <3>3
    <3> QED BY <3>2, <3>3
  <2>3. Len(log') + Cardinality(unsaid') <= Written'
    <3>1. Len(log') = Len(log) /\ Cardinality(unsaid') = Cardinality(unsaid) + 1
      BY <1>3, <2>1
    <3> QED BY <1>1, <1>3, <1>11, <2>2, <3>1
  <2> QED BY <1>1, <2>1, <2>3 DEF ThreadRest
<1>7. ASSUME NEW m \in unsaid, AppendCreated(m) PROVE ThreadRest'
  <2>1. /\ unsaid' = unsaid \ {m} /\ log' = Append(log, Created(m)) /\ UNCHANGED <<messages, turn>>
    BY <1>7 DEF AppendCreated
  <2>2. m \in MessageNos /\ m \in SeqNos /\ 0 \in 0..MaxViewRuns
    BY <1>1, SeqNosAre DEF MessageNos
  <2>3. Created(m) \in TypedEvents
    BY <2>2 DEF Created, TypedEvents
  <2>4. log' \in Seq(TypedEvents) /\ Len(log') = Len(log) + 1
    BY <1>1, <2>1, <2>3
  <2>5. Written' = Written
    BY <2>1 DEF Written
  <2>6. Len(log') + Cardinality(unsaid') <= Written'
    <3>1. Cardinality(unsaid') = Cardinality(unsaid) - 1
      BY <1>3, <2>1
    <3> QED BY <1>1, <1>3, <1>11, <2>4, <2>5, <3>1
  <2> QED BY <1>1, <2>1, <2>4, <2>6 DEF ThreadRest
<1>8. CASE StartTurn
  <2>1. /\ ~turn.live /\ turn.n < MaxViewRuns
        /\ turn' = [n |-> turn.n + 1, live |-> TRUE, said |-> 0]
        /\ UNCHANGED <<messages, unsaid, log>>
    BY <1>8 DEF StartTurn
  <2>2. /\ turn' \in [n : 0..MaxViewRuns, live : BOOLEAN, said : 0..MaxViewDeltas]
        /\ turn'.live /\ turn'.n = turn.n + 1 /\ turn'.said = 0 /\ turn'.n # 0
    BY <1>1, <2>1
  <2>3. Written' = Written
    <3>1. Written' = messages' + ((turn'.n - 1) * RunEvents + turn'.said)
      BY <2>2 DEF Written, RunEvents
    <3>2. turn'.n - 1 = turn.n
      BY <1>2, <2>2
    <3>3. Written' = messages + (all + 0)
      BY <2>1, <2>2, <3>1, <3>2 DEF all
    <3>4. Written = messages + all
      BY <1>4, <2>1
    <3> QED BY <1>2, <1>5, <3>3, <3>4
  <2> QED BY <1>1, <2>1, <2>2, <2>3 DEF ThreadRest
<1>9. CASE SayDelta
  <2>1. /\ turn.live /\ turn.said < MaxViewDeltas
        /\ turn' = [turn EXCEPT !.said = @ + 1]
        /\ log' = Append(log, TextDelta(turn.said + 1, turn.n))
        /\ UNCHANGED <<messages, unsaid>>
    BY <1>9 DEF SayDelta
  <2>0. turn.said + 1 \in 0..MaxViewDeltas
    BY <1>2, <2>1
  <2>2. /\ turn' \in [n : 0..MaxViewRuns, live : BOOLEAN, said : 0..MaxViewDeltas]
        /\ turn'.live = turn.live /\ turn'.n = turn.n /\ turn'.said = turn.said + 1
    <3>1. turn \in [n : 0..MaxViewRuns, live : BOOLEAN, said : 0..MaxViewDeltas]
      BY <1>1
    <3> QED BY <2>0, <2>1, <3>1
  <2>3. TextDelta(turn.said + 1, turn.n) \in TypedEvents
    <3>0. turn.n \in 0..MaxViewRuns /\ turn.n # 0
      BY <1>1, <2>1
    <3>1. MaxViewRuns # 0 /\ turn.said + 1 \in 1..MaxViewDeltas /\ turn.n \in 0..MaxViewRuns
      BY <1>2, <2>0, <3>0
    <3>2. turn.said + 1 \in SeqNos
      BY <3>1, SeqNosAre
    <3> QED BY <3>1, <3>2 DEF TextDelta, TypedEvents
  <2>4. log' \in Seq(TypedEvents) /\ Len(log') = Len(log) + 1
    BY <1>1, <2>1, <2>3
  <2>5. Written' = messages + (before + turn'.said)
    BY <2>1, <2>2 DEF Written, before, RunEvents
  <2>6. Len(log') + Cardinality(unsaid') <= Written'
    <3>1. Written = messages + (before + turn.said) /\ before \in Nat
      BY <1>4, <1>5, <2>1
    <3>2. Written' = Written + 1
      BY <1>2, <2>2, <2>5, <3>1
    <3>3. Cardinality(unsaid') = Cardinality(unsaid)
      BY <2>1
    <3> QED BY <1>1, <1>3, <1>11, <2>4, <3>2, <3>3
  <2> QED BY <1>1, <2>1, <2>2, <2>4, <2>6 DEF ThreadRest
<1>10. CASE FinishTurn
  <2> DEFINE old == [i \in 1..Len(log) |-> IF log[i].kind = "delta" THEN Gone ELSE log[i]]
             new == <<Created(messages + 1), Over>>
  <2>1. /\ turn.live /\ messages' = messages + 1 /\ messages' \in 0..MaxMessages
        /\ turn' = [turn EXCEPT !.live = FALSE] /\ log' = old \o new /\ unsaid' = unsaid
    BY <1>1, <1>10 DEF FinishTurn
  <2>2. Created(messages + 1) \in TypedEvents /\ Over \in TypedEvents /\ Gone \in TypedEvents
    <3>0. messages + 1 \in MessageNos
      BY <1>2, <2>1 DEF MessageNos
    <3>1. messages + 1 \in MessageNos /\ messages + 1 \in SeqNos /\ 0 \in SeqNos /\ 0 \in 0..MaxViewRuns
      <4>1. MessageNos \subseteq SeqNos /\ 0 \in SeqNos
        BY SeqNosAre, Zenon
      <4> QED BY <3>0, <4>1
    <3> QED BY <3>1 DEF Created, Over, Gone, TypedEvents
  <2>3. old \in Seq(TypedEvents) /\ Len(old) = Len(log)
    BY <1>1, <2>2
  <2>4. new \in Seq(TypedEvents) /\ Len(new) = 2
    BY <2>2
  <2> HIDE DEF old, new
  <2>5. log' \in Seq(TypedEvents) /\ Len(log') = Len(log) + 2
    <3>1. log' = old \o new
      BY <2>1
    <3>2. old \o new \in Seq(TypedEvents) /\ Len(old \o new) = Len(old) + Len(new)
      BY <2>3, <2>4, JoinedSeq, Zenon
    <3> QED BY <2>3, <2>4, <3>1, <3>2
  <2>6. /\ turn' \in [n : 0..MaxViewRuns, live : BOOLEAN, said : 0..MaxViewDeltas]
        /\ ~turn'.live /\ turn'.n = turn.n
    BY <1>1, <2>1
  <2>7. Written' = messages + 1 + all
    BY <2>1, <2>6 DEF Written, all, RunEvents
  <2>8. Len(log') + Cardinality(unsaid') <= Written'
    <3>0. turn.said <= MaxViewDeltas
      BY <1>1
    <3>1. turn.said + 1 <= RunEvents /\ unsaid' = unsaid
      BY <1>2, <2>1, <3>0
    <3>2. /\ Written = messages + (before + turn.said) /\ before \in Nat
          /\ all = before + RunEvents
      BY <1>4, <1>5, <2>1
    <3>3. Written + 2 <= Written'
      BY <1>2, <2>7, <3>1, <3>2
    <3> QED BY <1>1, <1>3, <1>11, <2>5, <3>1, <3>3, <2>7, <1>2, <1>5
  <2> QED BY <1>1, <2>1, <2>5, <2>6, <2>8 DEF ThreadRest
<1> QED BY <1>6, <1>7, <1>8, <1>9, <1>10 DEF ThreadStep

(***************************************************************************)
(* Without keeps members of the sequence that are not in out.              *)
(***************************************************************************)
LEMMA WithoutFrom ==
  ASSUME NEW S, NEW s \in Seq(S), NEW out
  PROVE  Without(s, out) \in Seq(S \ out)
<1>1. PICK f : KeptOf(s, out, Len(s), f) /\ Without(s, out) = f[Len(s)]
  BY WithoutIs
<1>2. f[0] = <<>>
  BY <1>1 DEF KeptOf
<1>3. ASSUME NEW n \in 1..Len(s)
      PROVE  f[n] = IF s[n] \in out THEN f[n - 1] ELSE Append(f[n - 1], s[n])
  <2>1. n \in 0..Len(s) /\ n # 0
    OBVIOUS
  <2> QED BY <1>1, <2>1, Zenon DEF KeptOf
<1> DEFINE T == {n \in 0..Len(s) : f[n] \notin Seq(S \ out)}
<1>4. T = {}
  <2> SUFFICES ASSUME T # {} PROVE FALSE
    OBVIOUS
  <2>1. T \in SUBSET Nat
    OBVIOUS
  <2>2. PICK n \in T : \A m \in T : n <= m
    BY <2>1, LeastNat
  <2>3. n # 0
    <3>1. <<>> \in Seq(S \ out)
      OBVIOUS
    <3>2. f[n] \notin Seq(S \ out)
      BY <2>2
    <3> QED BY <1>2, <3>1, <3>2
  <2>4. n - 1 \in 0..Len(s) /\ n - 1 < n /\ n \in 1..Len(s)
    BY <2>3
  <2>5. f[n - 1] \in Seq(S \ out)
    BY <2>2, <2>4
  <2>6. f[n] \in Seq(S \ out)
    <3>1. s[n] \in S
      BY <2>4
    <3>2. CASE s[n] \in out
      BY <1>3, <2>4, <2>5, <3>2
    <3>3. CASE s[n] \notin out
      <4>1. f[n] = Append(f[n - 1], s[n]) /\ s[n] \in S \ out
        BY <1>3, <2>4, <3>1, <3>3
      <4> QED BY <2>5, <4>1
    <3> QED BY <3>2, <3>3
  <2> QED BY <2>6
<1>5. Len(s) \in 0..Len(s)
  OBVIOUS
<1> QED BY <1>1, <1>4, <1>5

LEMMA MergeFrom ==
  ASSUME NEW S, NEW s \in Seq(S), NEW r \in Seq(S)
  PROVE  MergeById(s, r) \in Seq(S) /\ MergePages(s, r) \in Seq(S)
<1>1. ASSUME NEW out, NEW a \in Seq(S) PROVE Without(a, out) \in Seq(S)
  <2>1. PICK b : b = Without(a, out)
    OBVIOUS
  <2>2. b \in Seq(S \ out)
    BY <2>1, WithoutFrom
  <2> QED BY <2>1, <2>2
<1>2. ASSUME NEW a \in Seq(S), NEW b \in Seq(S) PROVE MergeById(a, b) \in Seq(S)
  <2>1. Without(b, EntriesOf(Ids(a))) \in Seq(S)
    BY <1>1
  <2> QED BY <2>1, JoinedSeq DEF MergeById
<1>3. MergePages(s, r) \in Seq(S)
  <2> DEFINE late == {e \in EntriesOf(MessageNos) : \E i \in 1..Len(r) : r[i].seq <= e.seq}
             early == Without(s, late)
  <2>1. early \in Seq(S)
    BY <1>1
  <2>2. MergePages(s, r) = IF r = <<>> THEN r ELSE MergeById(early, r)
    BY DEF MergePages
  <2> HIDE DEF early
  <2> QED BY <1>2, <2>1, <2>2
<1> QED BY <1>2, <1>3

LEMMA PageTyped ==
  ASSUME NEW top \in 0..MaxMessages
  PROVE  PageOf(top) \in Seq(ViewEntries) /\ OlderOf(top) \in 0..MaxMessages
<1> USE ViewConstants
<1> DEFINE n == top - First(top) + 1
<1>1. First(top) \in Nat \ {0} /\ First(top) <= top + 1 /\ n \in Nat /\ top \in Nat
  BY DEF First
<1>2. PICK f : f = First(top)
  OBVIOUS
<1>3. PageOf(top) = [i \in 1..n |-> [id |-> f + i - 1, seq |-> f + i - 1]]
  BY <1>2 DEF PageOf, Entry
<1>4. n = top - f + 1
  BY <1>2
<1> HIDE DEF n
<1>5. ASSUME NEW i \in 1..n PROVE f + i - 1 \in MessageNos /\ f + i - 1 \in SeqNos
  <2>1. f + i - 1 \in MessageNos
    BY <1>1, <1>2, <1>4 DEF MessageNos
  <2>2. MessageNos \subseteq SeqNos
    BY SeqNosAre, Zenon
  <2> QED BY <2>1, <2>2
<1>6. PageOf(top) \in Seq(ViewEntries)
  BY <1>1, <1>3, <1>5 DEF ViewEntries
<1>7. OlderOf(top) \in 0..MaxMessages
  <2>1. First(top) > 1 => First(top) <= top
    BY DEF First
  <2> QED BY <1>1, <2>1 DEF OlderOf
<1> QED BY <1>6, <1>7

LEMMA UnaskedTyped == Unasked \in FetchRecords /\ <<>> \in Texts
<1>1. <<>> \in Texts
  BY DEF Texts
<1> QED BY <1>1, ViewConstants DEF Unasked, FetchRecords

LEMMA NoViewTyped == NoView \in Views
<1>1. <<>> \in Texts /\ <<>> \in Seq(ViewEntries)
  BY DEF Texts
<1> QED BY <1>1, ViewConstants DEF NoView, Views

LEMMA ViewRestStart == ViewInit => ThreadRest /\ ClientRest
<1> SUFFICES ASSUME ViewInit PROVE ThreadRest /\ ClientRest
  OBVIOUS
<1> USE ViewConstants
<1>1. ThreadRest
  <2>1. /\ messages = 0 /\ unsaid = {} /\ log = <<>>
        /\ turn = [n |-> 0, live |-> FALSE, said |-> 0]
    BY DEF ViewInit
  <2>2. RunEvents \in Nat /\ 0 * RunEvents \in Nat
    BY ProductsGrow DEF RunEvents
  <2>3. Written \in Nat
    <3>1. Written = 0 + 0 * RunEvents
      BY <2>1 DEF Written
    <3> QED BY <2>2, <3>1
  <2>4. log \in Seq(TypedEvents) /\ Len(log) = 0 /\ Cardinality(unsaid) = 0
    BY <2>1, FS_EmptySet
  <2>5. Len(log) + Cardinality(unsaid) <= Written
    BY <2>3, <2>4
  <2> QED BY <2>1, <2>4, <2>5 DEF ThreadRest
<1>2. ClientRest
  <2>1. fetch \in [Fetches -> FetchRecords] /\ view \in Views
    BY UnaskedTyped, NoViewTyped DEF ViewInit
  <2>2. /\ page = [at |-> "idle", before |-> 0] /\ base = [why |-> "none", from |-> 0]
        /\ stream = "none" /\ expanded = FALSE /\ breaks = 0
    BY DEF ViewInit
  <2>3. page \in [at : {"idle", "answer"}, before : 0..MaxMessages]
    BY <2>2
  <2>4. base \in [why : {"none", "first", "event", "reconnect"}, from : Nat]
    BY <2>2
  <2>5. expanded \in BOOLEAN
    BY <2>2, Zenon
  <2>6. stream \in {"none", "on", "lost"} /\ breaks \in 0..MaxBreaks
    BY <2>2
  <2> QED BY <2>1, <2>3, <2>4, <2>5, <2>6 DEF ClientRest
<1> QED BY <1>1, <1>2

\* A text that is read holds deltas of the log.
LEMMA TextTyped ==
  ASSUME log \in Seq(TypedEvents), NEW f, ReadLive(f), fetch[f] \in FetchRecords,
         fetch \in [Fetches -> FetchRecords], f \in Fetches
  PROVE  fetch' \in [Fetches -> FetchRecords]
<1> DEFINE others == {e \in {log[i] : i \in 1..Len(log)} : e.kind # "delta" \/ e.run # fetch[f].run}
           ofRun == Without(log, others)
           text == [i \in 1..Len(ofRun) |-> ofRun[i].id]
<1>1. fetch' = [fetch EXCEPT ![f].at = "answer", ![f].text = text]
  BY DEF ReadLive
<1> DEFINE S == {log[i] : i \in 1..Len(log)}
<1>2. log \in Seq(S)
  BY Z3
<1>3. ofRun \in Seq(S \ others)
  BY <1>2, WithoutFrom
<1>4. \A e \in S \ others : e.id \in 1..MaxViewDeltas
  <2>1. S \subseteq TypedEvents
    OBVIOUS
  <2> QED BY <2>1 DEF TypedEvents
<1> HIDE DEF others, ofRun, S
<1>5. \A i \in 1..Len(ofRun) : ofRun[i] \in S \ others
  BY <1>3
<1>6. text \in Texts
  <2>1. \A i \in 1..Len(ofRun) : ofRun[i].id \in 1..MaxViewDeltas
    BY <1>4, <1>5
  <2>2. Len(ofRun) \in Nat
    BY <1>3
  <2> QED BY <2>1, <2>2 DEF Texts
<1> HIDE DEF text
<1>7. PICK c : c = [fetch[f] EXCEPT !.at = "answer", !.text = text]
  OBVIOUS
<1>8. c \in FetchRecords
  BY <1>6, <1>7 DEF FetchRecords
<1>9. fetch' = [fetch EXCEPT ![f] = c]
  BY <1>1, <1>7
<1> QED BY <1>8, <1>9

LEMMA SnapshotTyped ==
  ASSUME NEW f \in Fetches, fetch \in [Fetches -> FetchRecords], view \in Views
  PROVE  MergeHistory(view, SnapshotOf(f)) \in Views
<1> DEFINE top == fetch[f].top
<1>1. /\ top \in 0..MaxMessages /\ fetch[f].run \in 0..MaxViewRuns /\ fetch[f].text \in Texts
      /\ view.entries \in Seq(ViewEntries) /\ view.older \in 0..MaxMessages
  BY DEF FetchRecords, Views
<1>2. PageOf(top) \in Seq(ViewEntries) /\ OlderOf(top) \in 0..MaxMessages
  BY <1>1, PageTyped
<1>3. PICK s : s = SnapshotOf(f)
  OBVIOUS
<1>4. s \in Views /\ s.entries = PageOf(top)
  BY <1>1, <1>2, <1>3 DEF SnapshotOf, Views
<1>5. CASE view.shown /\ expanded
  <2>1. PICK m : m = MergePages(view.entries, s.entries)
    OBVIOUS
  <2>2. m \in Seq(ViewEntries)
    BY <1>1, <1>2, <1>4, <2>1, MergeFrom
  <2>3. MergeHistory(view, s) = [s EXCEPT !.entries = m, !.older = view.older]
    BY <1>5, <2>1 DEF MergeHistory
  <2> QED BY <1>1, <1>3, <1>4, <2>2, <2>3 DEF Views
<1>6. CASE ~(view.shown /\ expanded)
  BY <1>3, <1>4, <1>6 DEF MergeHistory
<1> QED BY <1>5, <1>6

LEMMA ReducedTyped ==
  ASSUME log \in Seq(TypedEvents), NEW i \in 1..Len(log), Len(log) \in SeqNos, view \in Views
  PROVE  Reduced(log[i], i) \in Views
<1>1. PICK e \in TypedEvents : e = log[i]
  OBVIOUS
<1>2. i \in SeqNos
  BY SeqNosDown
<1>3. /\ view.entries \in Seq(ViewEntries) /\ view.text \in Texts /\ <<>> \in Texts
  BY UnaskedTyped DEF Views
<1>4. CASE ~view.shown
  BY <1>4 DEF Reduced
<1>5. CASE view.shown /\ e.kind = "delta"
  <2>1. PICK text : text = (IF view.run = e.run THEN view.text ELSE <<>>) \o <<e.id>>
    OBVIOUS
  <2>2. text \in Texts
    <3>1. e.id \in 1..MaxViewDeltas
      BY <1>5 DEF TypedEvents
    <3>2. <<e.id>> \in Seq(1..MaxViewDeltas)
      BY <3>1
    <3> QED BY <1>3, <2>1, <3>2, JoinedSeq DEF Texts
  <2>3. Reduced(e, i) = [view EXCEPT !.run = e.run, !.text = text]
    BY <1>5, <2>1 DEF Reduced
  <2>4. e.run \in 0..MaxViewRuns
    BY DEF TypedEvents
  <2> QED BY <1>1, <2>2, <2>3, <2>4 DEF Views
<1>6. CASE view.shown /\ e.kind = "message"
  <2>1. PICK rest : rest = Without(view.entries, EntriesOf({e.id}))
    OBVIOUS
  <2>2. rest \in Seq(ViewEntries \ EntriesOf({e.id}))
    BY <1>3, <2>1, WithoutFrom
  <2>3. rest \in Seq(ViewEntries)
    BY <2>2
  <2>4. Entry(e.id, i) \in ViewEntries
    <3>1. e.id \in MessageNos
      BY <1>6 DEF TypedEvents
    <3> QED BY <1>2, <3>1 DEF Entry, ViewEntries
  <2>5. PICK all : all = Append(rest, Entry(e.id, i))
    OBVIOUS
  <2>6. all \in Seq(ViewEntries)
    BY <2>3, <2>4, <2>5
  <2>7. Reduced(e, i) = [view EXCEPT !.text = <<>>, !.entries = all]
    BY <1>6, <2>1, <2>5 DEF Reduced
  <2> QED BY <1>1, <1>3, <2>6, <2>7 DEF Views
<1>7. CASE view.shown /\ e.kind \notin {"delta", "message"}
  <2>1. Reduced(e, i) = view
    BY <1>7 DEF Reduced
  <2> QED BY <1>1, <2>1
<1> QED BY <1>1, <1>4, <1>5, <1>6, <1>7

LEMMA AskTyped ==
  ASSUME fetch \in [Fetches -> FetchRecords], NEW f \in Fetches,
         NEW why \in {"first", "event", "reconnect"}, AskThread(f, why)
  PROVE  fetch' \in [Fetches -> FetchRecords]
<1>1. PICK c : c = [Unasked EXCEPT !.at = "reading", !.why = why, !.todo = {"page", "run", "last"}]
  OBVIOUS
<1>2. c \in FetchRecords
  BY <1>1, UnaskedTyped DEF FetchRecords
<1>3. fetch' = [fetch EXCEPT ![f] = c]
  BY <1>1 DEF AskThread
<1> QED BY <1>2, <1>3

LEMMA ClientRestKept ==
  ASSUME ViewTypes, ThreadRest, ClientRest, ClientStep
  PROVE  ClientRest'
<1> USE ViewConstants
<1>1. /\ view \in Views /\ stream \in {"none", "on", "lost"} /\ fetch \in [Fetches -> FetchRecords]
      /\ page \in [at : {"idle", "answer"}, before : 0..MaxMessages] /\ expanded \in BOOLEAN
      /\ base \in [why : {"none", "first", "event", "reconnect"}, from : Nat]
      /\ breaks \in 0..MaxBreaks
  BY DEF ClientRest
<1>2. /\ messages \in 0..MaxMessages /\ turn.n \in 0..MaxViewRuns /\ log \in Seq(TypedEvents)
      /\ Len(log) \in Nat /\ Len(log) \in SeqNos
  <2>1. unsaid \subseteq 1..messages
    BY DEF ViewTypes
  <2>2. Len(log) \in SeqNos
    BY <2>1, LogFits
  <2> QED BY <2>2 DEF ThreadRest
<1>3. ASSUME NEW f \in Fetches, NEW c \in FetchRecords, fetch' = [fetch EXCEPT ![f] = c]
      PROVE  fetch' \in [Fetches -> FetchRecords]
  BY <1>1, <1>3
<1>4. ASSUME fetch' \in [Fetches -> FetchRecords], UNCHANGED <<view, page, expanded, base>>,
             stream' \in {"none", "on", "lost"}, breaks' \in 0..MaxBreaks
      PROVE  ClientRest'
  BY <1>1, <1>4 DEF ClientRest
<1>5. CASE AskFirst \/ AskAgain
  <2>1. fetch' \in [Fetches -> FetchRecords]
    BY <1>1, <1>5, AskTyped DEF AskFirst, AskAgain, Fetches
  <2>2. UNCHANGED <<view, page, expanded, base, stream, breaks>>
    BY <1>5 DEF AskFirst, AskAgain
  <2> QED BY <1>1, <1>4, <2>1, <2>2
<1>6. CASE Receive
  <2>1. PICK i \in 1..Len(log) :
          /\ view' = Reduced(log[i], i)
          /\ IF log[i].kind = "over" THEN AskThread("other", "event") ELSE UNCHANGED fetch
    BY <1>6 DEF Receive
  <2>2. view' \in Views
    BY <1>1, <1>2, <2>1, ReducedTyped
  <2>3. fetch' \in [Fetches -> FetchRecords]
    BY <1>1, <2>1, AskTyped DEF Fetches
  <2>4. UNCHANGED <<stream, page, expanded, base, breaks>>
    BY <1>6 DEF Receive
  <2> QED BY <1>1, <2>2, <2>3, <2>4 DEF ClientRest
<1>7. CASE LoseStream
  <2>1. /\ stream' = "lost" /\ breaks' = breaks + 1 /\ breaks < MaxBreaks
        /\ UNCHANGED <<view, fetch, page, expanded, base>>
    BY <1>7 DEF LoseStream
  <2>2. breaks' \in 0..MaxBreaks
    BY <1>1, <2>1
  <2> QED BY <1>1, <1>4, <2>1, <2>2
<1>8. CASE AskOlder
  <2>1. view.older \in 0..MaxMessages
    BY <1>1 DEF Views
  <2>2. /\ page' = [at |-> "answer", before |-> view.older]
        /\ UNCHANGED <<view, stream, fetch, expanded, base, breaks>>
    BY <1>8 DEF AskOlder
  <2> QED BY <1>1, <2>1, <2>2 DEF ClientRest
<1>9. CASE Prepend
  <2> DEFINE top == page.before - 1
  <2>1. /\ view' = [view EXCEPT !.entries = MergeById(PageOf(top), view.entries), !.older = OlderOf(top)]
        /\ expanded' = TRUE /\ page' = [at |-> "idle", before |-> 0] /\ page.at = "answer"
        /\ UNCHANGED <<stream, fetch, base, breaks>>
    BY <1>9 DEF Prepend
  <2>2. top \in 0..MaxMessages
    <3>1. page.before \in Nat \ {0}
      BY <2>1 DEF ViewTypes
    <3> QED BY <1>1, <3>1
  <2> HIDE DEF top
  <2>3. PageOf(top) \in Seq(ViewEntries) /\ OlderOf(top) \in 0..MaxMessages
    BY <2>2, PageTyped
  <2>4. view.entries \in Seq(ViewEntries)
    BY <1>1 DEF Views
  <2>5. PICK all : all = MergeById(PageOf(top), view.entries)
    OBVIOUS
  <2>6. all \in Seq(ViewEntries)
    BY <2>3, <2>4, <2>5, MergeFrom
  <2>7. view' \in Views
    BY <1>1, <2>1, <2>3, <2>5, <2>6 DEF Views
  <2> QED BY <1>1, <2>1, <2>7 DEF ClientRest
<1>10. ASSUME NEW f \in Fetches, ReadPage(f) \/ ReadRun(f) \/ ReadLast(f) PROVE ClientRest'
  <2>1. fetch[f] \in FetchRecords /\ fetch[f].todo \in SUBSET {"page", "run", "last"}
    BY <1>1 DEF FetchRecords
  <2>2. CASE ReadPage(f)
    <3>1. PICK c : c = [fetch[f] EXCEPT !.todo = Rest(f, "page"), !.top = messages]
      OBVIOUS
    <3>2. c \in FetchRecords
      BY <1>2, <2>1, <3>1 DEF FetchRecords, Rest
    <3>3. fetch' = [fetch EXCEPT ![f] = c]
      BY <2>2, <3>1 DEF ReadPage
    <3> QED BY <1>1, <1>3, <1>4, <2>2, <3>2, <3>3 DEF ReadPage, ByServer
  <2>3. CASE ReadRun(f)
    <3>0. PICK run \in 0..MaxViewRuns : run = IF turn.live THEN turn.n ELSE 0
      BY <1>2
    <3>1. PICK c : c = [fetch[f] EXCEPT !.todo = Rest(f, "run"), !.run = run]
      OBVIOUS
    <3>2. c \in FetchRecords
      BY <1>2, <2>1, <3>1 DEF FetchRecords, Rest
    <3>3. fetch' = [fetch EXCEPT ![f] = c]
      BY <2>3, <3>0, <3>1 DEF ReadRun
    <3> QED BY <1>1, <1>3, <1>4, <2>3, <3>2, <3>3 DEF ReadRun, ByServer
  <2>4. CASE ReadLast(f)
    <3>1. PICK c : c = [fetch[f] EXCEPT !.todo = Rest(f, "last"), !.last = Len(log)]
      OBVIOUS
    <3>2. c \in FetchRecords
      BY <1>2, <2>1, <3>1 DEF FetchRecords, Rest
    <3>3. fetch' = [fetch EXCEPT ![f] = c]
      BY <2>4, <3>1 DEF ReadLast
    <3> QED BY <1>1, <1>3, <1>4, <2>4, <3>2, <3>3 DEF ReadLast, ByServer
  <2> QED BY <1>10, <2>2, <2>3, <2>4
<1>11. ASSUME NEW f \in Fetches, ReadLive(f) PROVE ClientRest'
  <2>1. fetch' \in [Fetches -> FetchRecords]
    BY <1>1, <1>2, <1>11, TextTyped
  <2>2. UNCHANGED <<view, page, expanded, base, stream, breaks>>
    BY <1>11 DEF ReadLive, ByServer
  <2> QED BY <1>1, <1>4, <2>1, <2>2
<1>12. ASSUME NEW f \in Fetches, Apply(f) PROVE ClientRest'
  <2>1. /\ view' = MergeHistory(view, SnapshotOf(f))
        /\ base' = [why |-> fetch[f].why, from |-> First(fetch[f].top)]
        /\ stream' = IF f = "loop" THEN "on" ELSE stream
        /\ fetch' = [fetch EXCEPT ![f] = Unasked]
        /\ UNCHANGED <<page, expanded, breaks>>
    BY <1>12 DEF Apply
  <2>2. view' \in Views
    BY <1>1, <2>1, SnapshotTyped
  <2>3. fetch' \in [Fetches -> FetchRecords]
    BY <1>1, <2>1, UnaskedTyped
  <2>4. base' \in [why : {"none", "first", "event", "reconnect"}, from : Nat]
    <3>1. fetch[f].why \in {"first", "event", "reconnect"} /\ fetch[f].top \in 0..MaxMessages
      BY <1>1 DEF FetchRecords
    <3>2. First(fetch[f].top) \in Nat
      <4>1. PICK top \in Nat : top = fetch[f].top
        BY <3>1
      <4> QED BY <4>1 DEF First
    <3> QED BY <2>1, <3>1, <3>2
  <2> QED BY <1>1, <2>1, <2>2, <2>3, <2>4 DEF ClientRest
<1>13. ASSUME NEW f \in Fetches, FailFetch(f) PROVE ClientRest'
  <2>1. /\ breaks < MaxBreaks /\ breaks' = breaks + 1
        /\ stream' = IF f = "loop" THEN "on" ELSE stream
        /\ fetch' = [fetch EXCEPT ![f] = Unasked]
        /\ UNCHANGED <<view, page, expanded, base>>
    BY <1>13 DEF FailFetch
  <2>2. fetch' \in [Fetches -> FetchRecords]
    BY <1>1, <2>1, UnaskedTyped
  <2>3. breaks' \in 0..MaxBreaks
    BY <1>1, <2>1
  <2> QED BY <1>1, <1>4, <2>1, <2>2, <2>3
<1> QED BY <1>5, <1>6, <1>7, <1>8, <1>9, <1>10, <1>11, <1>12, <1>13 DEF ClientStep

LEMMA ViewRestKept ==
  ASSUME ViewInv, ThreadRest, ClientRest, [ViewNext]_viewVars
  PROVE  ThreadRest' /\ ClientRest'
<1>1. ViewTypes
  BY DEF ViewInv
<1>2. CASE ThreadStep
  <2>1. UNCHANGED clientVars
    BY <1>2 DEF ThreadStep, CreateMessage, AppendCreated, StartTurn, SayDelta, FinishTurn
  <2> QED BY <1>1, <1>2, <2>1, ThreadRestKept DEF clientVars, ClientRest
<1>3. CASE ClientStep
  <2>1. UNCHANGED threadVars
    BY <1>3 DEF ClientStep, AskFirst, AskAgain, Receive, LoseStream, AskOlder, Prepend,
                ReadPage, ReadRun, ReadLast, ReadLive, Apply, FailFetch, ByServer
  <2> QED BY <1>1, <1>3, <2>1, ClientRestKept DEF threadVars, ThreadRest, Written
<1>4. CASE UNCHANGED viewVars
  BY <1>4 DEF viewVars, threadVars, clientVars, ThreadRest, Written, ClientRest
<1> QED BY <1>2, <1>3, <1>4 DEF ViewNext

LEMMA ViewTyped == ViewInv /\ ThreadRest /\ ClientRest => ViewTypeOK
<1> SUFFICES ASSUME ViewInv, ThreadRest, ClientRest PROVE ViewTypeOK
  OBVIOUS
<1>1. /\ unsaid \subseteq 1..messages /\ cursor \in 0..Len(log)
      /\ \A f \in Fetches : fetch[f].last \in 0..Len(log)
  BY DEF ViewInv, ViewTypes, FetchTypes
<1>2. Len(log) \in SeqNos /\ Len(log) \in Nat
  BY <1>1, LogFits DEF ThreadRest
<1>3. \A k \in 0..Len(log) : k \in SeqNos
  BY <1>2, SeqNosDown
<1>4. fetch \in [Fetches ->
       [at : {"idle", "reading", "live", "answer"}, why : {"first", "event", "reconnect"},
        todo : SUBSET {"page", "run", "last"}, top : 0..MaxMessages,
        run : 0..MaxViewRuns, last : SeqNos, text : Texts]]
  <2>1. \A f \in Fetches : fetch[f].last \in SeqNos
    BY <1>1, <1>3
  <2> QED BY <2>1 DEF ClientRest, FetchRecords
<1>5. log \in Seq([kind : {"message", "delta", "over", "gone"}, id : SeqNos,
                   run : 0..MaxViewRuns])
  <2> DEFINE E == [kind : {"message", "delta", "over", "gone"}, id : SeqNos, run : 0..MaxViewRuns]
  <2>1. log \in Seq(TypedEvents)
    BY DEF ThreadRest
  <2>2. TypedEvents \subseteq E
    BY DEF TypedEvents
  <2> HIDE DEF E
  <2>3. log \in Seq(E)
    BY <2>1, <2>2
  <2> QED BY <2>3 DEF E
<1> QED BY <1>1, <1>3, <1>4, <1>5 DEF ThreadRest, ClientRest, Views, ViewEntries, ViewTypeOK

-----------------------------------------------------------------------------
(* The composition. *)

(***************************************************************************)
(* A step of the composition is, for each component, one of its own or     *)
(* leaves it alone.                                                        *)
(***************************************************************************)
LEMMA ClientPartsApart ==
  ASSUME [ClientNext]_clientPartVars
  PROVE  /\ [ConnectionsNext]_connectionVars
         /\ [ViewNext]_viewVars
         /\ [ShellNext]_shellVars
         /\ [MobileNext]_mobileVars
         /\ [StudioNext]_studioVars
         /\ [DesktopNext]_desktopVars
         /\ [LiteNext]_liteVars
         /\ [CronNext]_cronVars
         /\ [SetupNext]_setupVars
BY DEF ClientNext, clientPartVars

(***************************************************************************)
(* ConnectionsAreOwn for any keys, tabs and bounds: the key in use has its *)
(* secret, and no session is worked with under another key (router.ts and  *)
(* composio-connector.ts).                                                 *)
(***************************************************************************)
THEOREM ConnectionsStayOwn ==
  ClientSpec => []ConnectionsAreOwn
<1>1. ClientInit => KeysInv
  BY ConnectionsStart DEF ClientInit
<1>2. KeysInv /\ [ClientNext]_clientPartVars => KeysInv'
  BY ClientPartsApart, ConnectionsKept
<1>3. KeysInv => ConnectionsAreOwn
  BY ConnectionsSayAll
<1> QED BY <1>1, <1>2, <1>3, PTL DEF ClientSpec

(***************************************************************************)
(* NothingLost for any length of the page, of the thread and of the runs,  *)
(* and any number of breaks: a reconnect loses no message of the thread    *)
(* and shows none twice (Shell.tsx, app/thread.tsx and thread-service.ts). *)
(***************************************************************************)
THEOREM NothingIsLost ==
  ClientSpec => []NothingLost
<1>1. ClientInit => ViewInv
  BY ViewStart DEF ClientInit
<1>2. ViewInv /\ [ClientNext]_clientPartVars => ViewInv'
  BY ClientPartsApart, ViewKept
<1>3. ViewInv => NothingLost
  BY ViewSaysAll
<1> QED BY <1>1, <1>2, <1>3, PTL DEF ClientSpec

(***************************************************************************)
(* ScreensAreOwn for any bots, boots, sign-ins, tabs and looks: a panel    *)
(* edits what belongs to the bot it shows and waits only for a request of  *)
(* its own (Shell.tsx), a bot never gets a look older than one it had      *)
(* (CreativeRuntimeHost.tsx), and on the phone a signed-out user stays so  *)
(* and no overlay is left (session.ts, computer.tsx).                      *)
(***************************************************************************)
THEOREM ScreensStayOwn ==
  ClientSpec => []ScreensAreOwn
<1> DEFINE Screens == ScreenInv /\ PhoneInv /\ StudioInv
<1>1. ClientInit => Screens
  BY ShellStart, MobileStart, StudioStart DEF ClientInit
<1>2. Screens /\ [ClientNext]_clientPartVars => Screens'
  BY ClientPartsApart, ScreenKept, PhoneKept, StudioKept
<1>3. Screens => ScreensAreOwn
  BY LooksKept DEF ScreensAreOwn, ScreenInv, PhoneInv
<1> QED BY <1>1, <1>2, <1>3, PTL DEF ClientSpec

(***************************************************************************)
(* DesktopIsSound for any calls, windows, runtimes, terminals and          *)
(* migrations: when no call is under way the window shows a page that is   *)
(* alive and trusted, terminals end with their window (runtime-session.ts  *)
(* and main.ts), and the Lite runtime migrates once, closes in order and   *)
(* refuses no session (apps/local-runtime/src/index.ts and app.ts).         *)
(***************************************************************************)
THEOREM DesktopStaysSound ==
  ClientSpec => []DesktopIsSound
<1> DEFINE Desktop == DesktopInv /\ LiteInv
<1>1. ClientInit => Desktop
  BY DesktopStart, LiteStart DEF ClientInit
<1>2. Desktop /\ [ClientNext]_clientPartVars => Desktop'
  BY ClientPartsApart, DesktopKept, LiteKept
<1>3. Desktop => DesktopIsSound
  BY DesktopSaysAll DEF DesktopIsSound, LiteInv
<1> QED BY <1>1, <1>2, <1>3, PTL DEF ClientSpec

(***************************************************************************)
(* SettingsAreKept for any lengths of hour and day, any editor, and any    *)
(* number of sign-ins, rows, tabs and failures: a preset comes back from   *)
(* its cron, and the next time is the first that matches (cron.ts,         *)
(* RoutineSchedule.tsx), when the crons that come from elsewhere give      *)
(* hours and minutes of a clock, which no handler of the API checks; a     *)
(* sign-in is stored once (pi-oauth.ts), and a default stays from the      *)
(* first credential on (router.ts).                                        *)
(***************************************************************************)
THEOREM SettingsStay ==
  ClockExpressions /\ ClientSpec => []SettingsAreKept
<1> SUFFICES ASSUME ClockExpressions PROVE ClientSpec => []SettingsAreKept
  OBVIOUS
<1> DEFINE Settings == CronInv /\ SetupInv
<1>1. ClientInit => Settings
  BY CronStart, SetupStart DEF ClientInit
<1>2. Settings /\ [ClientNext]_clientPartVars => Settings'
  BY ClientPartsApart, CronKept, SetupKept
<1>3. Settings => SettingsAreKept
  BY CronSays, SetupSays DEF SettingsAreKept
<1> QED BY <1>1, <1>2, <1>3, PTL DEF ClientSpec

(***************************************************************************)
(* ClientTypeOK for any bounds, users, tabs, windows and looks: every      *)
(* variable of the clients has its type, the crons that come from          *)
(* elsewhere being those of a clock.  A thread's log holds at most two     *)
(* events of a message, and the deltas and the end of each run; the next   *)
(* time of a routine is within a day and two minutes, at a minute of the   *)
(* week (Shell.tsx, thread-service.ts, cron.ts, pi-oauth.ts, router.ts and *)
(* composio-connector.ts).                                                 *)
(***************************************************************************)
THEOREM ClientStaysTyped ==
  ClockExpressions /\ ClientSpec => []ClientTypeOK
<1> SUFFICES ASSUME ClockExpressions PROVE ClientSpec => []ClientTypeOK
  OBVIOUS
<1> DEFINE Shown1 == ViewInv /\ ThreadRest /\ ClientRest
           Set1 == CronInv /\ CronRest /\ SetupInv /\ SetupRest
           Linked1 == KeysInv /\ ConnectionRest
           Screens == ScreenInv /\ PhoneInv /\ StudioInv /\ DesktopInv /\ LiteInv
           Inv == part \in Parts /\ Shown1 /\ Set1 /\ Linked1 /\ Screens
<1>1. ClientInit => Inv
  <2> SUFFICES ASSUME ClientInit PROVE Inv
    OBVIOUS
  <2>1. part \in Parts
    BY DEF ClientInit
  <2>2. Shown1 /\ Linked1
    BY ViewStart, ViewRestStart, ConnectionsStart, ConnectionRestStart DEF ClientInit
  <2>3. Set1
    BY CronStart, CronRestStart, SetupStart, SetupRestStart DEF ClientInit
  <2>4. Screens
    BY ShellStart, MobileStart, StudioStart, DesktopStart, LiteStart DEF ClientInit
  <2> QED BY <2>1, <2>2, <2>3, <2>4
<1>2. Inv /\ [ClientNext]_clientPartVars => Inv'
  <2> SUFFICES ASSUME Inv, [ClientNext]_clientPartVars PROVE Inv'
    OBVIOUS
  <2>1. part' \in Parts
    BY DEF ClientNext, clientPartVars
  <2>2. Shown1' /\ Linked1'
    BY ClientPartsApart, ViewKept, ViewRestKept, ConnectionsKept, ConnectionRestKept
  <2>3. Set1'
    BY ClientPartsApart, CronKept, CronRestKept, SetupKept, SetupRestKept
  <2>4. Screens'
    BY ClientPartsApart, ScreenKept, PhoneKept, StudioKept, DesktopKept, LiteKept
  <2> QED BY <2>1, <2>2, <2>3, <2>4
<1>3. Inv => ClientTypeOK
  BY ViewTyped, CronTyped, SetupTyped, ConnectionsTyped
  DEF ClientTypeOK, ScreenInv, PhoneInv, StudioInv, DesktopInv, LiteInv
<1> HIDE DEF Inv
<1> QED BY <1>1, <1>2, <1>3, PTL DEF ClientSpec
============================================================================
