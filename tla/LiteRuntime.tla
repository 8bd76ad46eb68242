------------------------------ MODULE LiteRuntime ------------------------------
(***************************************************************************)
(* The Lite runtime of the desktop: an embedded database, its migrations,  *)
(* the application and an HTTP server, all in the process of the desktop.  *)
(* startLocalRuntime opens them one after the other, and stop, or a start  *)
(* that fails, closes them.  The process may stop anywhere: what is on     *)
(* disk stays.  The page signs in by itself, with a password that is       *)
(* derived from a secret on disk.                                          *)
(***************************************************************************)
EXTENDS Naturals, FiniteSets

CONSTANTS
  MaxMigrations, \* bound: migrations, numbered in the order of their names
  Pages,         \* requests for a local session at once
  MaxStarts,     \* bound: starts
  MaxCrashes,    \* bound: ends of the process
  MaxReleases    \* bound: versions of the application that are installed

ASSUME LiteConstants ==
  /\ MaxMigrations \in Nat
  /\ MaxStarts \in Nat /\ MaxCrashes \in Nat /\ MaxReleases \in Nat

VARIABLES
  at,        \* what startLocalRuntime, or stop, is about to do
  open,      \* what this process holds
  secrets,   \* local-runtime-secrets.json
  shipped,   \* the text of each migration in the installed version; 0 is none
  row,       \* _rakazo_lite_migrations: the text that was applied; 0 is none
  ran,       \* how often each migration's statements have taken effect
  tx,        \* the migration whose transaction is open; 0 is none
  account,   \* the local user exists
  localSession,      \* bootstrapLocalSession, for each request
  starts, crashes, releases

liteVars ==
  <<at, open, secrets, shipped, row, ran, tx, account, localSession, starts, crashes, releases>>

Resources == {"db", "socket", "pool", "connector", "jobs", "http"}
Migrations == 1..MaxMigrations
NoTx == 0
MigrationTexts == 0..2

(***************************************************************************)
(* Every variable has its type.                                            *)
(***************************************************************************)
LiteTypeOK ==
  /\ at \in {"down", "secrets", "create", "db", "migrate", "record", "socket", "pool",
             "connector", "jobs", "http", "up", "close", "fail"}
  /\ open \subseteq Resources
  /\ secrets \in {"none", "partial", "whole"}
  /\ shipped \in [Migrations -> MigrationTexts]
  /\ row \in [Migrations -> MigrationTexts]
  /\ ran \in [Migrations -> 0..2]
  /\ tx \in {NoTx} \union Migrations
  /\ account \in BOOLEAN
  /\ localSession \in [Pages -> {"none", "signIn", "signUp", "again", "in", "refused"}]
  /\ starts \in 0..MaxStarts /\ crashes \in 0..MaxCrashes /\ releases \in 0..MaxReleases

LiteInit ==
  /\ at = "down" /\ open = {}
  /\ secrets = "none"
  /\ shipped = [m \in Migrations |-> IF m = 1 THEN 1 ELSE 0]
  /\ row = [m \in Migrations |-> 0]
  /\ ran = [m \in Migrations |-> 0]
  /\ tx = NoTx
  /\ account = FALSE
  /\ localSession = [p \in Pages |-> "none"]
  /\ starts = 0 /\ crashes = 0 /\ releases = 0

OnDisk == UNCHANGED <<secrets, row, ran, account>>
LiteRest == UNCHANGED <<shipped, localSession, starts, crashes, releases>>

-----------------------------------------------------------------------------
(* startLocalRuntime *)

StartLite ==
  /\ at = "down" /\ starts < MaxStarts
  /\ at' = "secrets" /\ starts' = starts + 1
  /\ OnDisk /\ UNCHANGED <<open, tx, shipped, localSession, crashes, releases>>

\* loadOrCreateSecrets: a file that cannot be parsed is an error.
LoadSecrets ==
  /\ at = "secrets"
  /\ at' = CASE secrets = "none" -> "create"
             [] secrets = "whole" -> "db"
             [] secrets = "partial" -> "down"
  /\ OnDisk /\ LiteRest /\ UNCHANGED <<open, tx>>

\* The file is created, then written.
CreateSecrets ==
  /\ at = "create"
  /\ \/ secrets = "none" /\ secrets' = "partial" /\ at' = at
     \/ secrets = "partial" /\ secrets' = "whole" /\ at' = "db"
  /\ LiteRest /\ UNCHANGED <<open, tx, row, ran, account>>

OpenDatabase ==
  /\ at = "db"
  /\ at' = "migrate" /\ open' = {"db"}
  /\ OnDisk /\ LiteRest /\ UNCHANGED tx

\* applyLiteMigrations: those without a row, in order.  One that has changed since
\* it was applied is refused.
Unrecorded(m) == shipped[m] # 0 /\ row[m] = 0
Altered(m) == shipped[m] # 0 /\ row[m] # 0 /\ row[m] # shipped[m]
\* Mutant: the statements commit by themselves.
ExecMigrationAtOnce ==
  /\ at = "migrate"
  /\ \E m \in Migrations :
       /\ Unrecorded(m)
       /\ \A n \in Migrations : n < m => ~Unrecorded(n) /\ ~Altered(n)
       /\ tx' = m /\ ran' = [ran EXCEPT ![m] = IF @ < 2 THEN @ + 1 ELSE @] /\ at' = "record"
  /\ LiteRest /\ UNCHANGED <<open, secrets, row, account>>
\* The statements, in a transaction.
ExecMigration ==
  /\ at = "migrate"
  /\ \E m \in Migrations :
       /\ Unrecorded(m)
       /\ \A n \in Migrations : n < m => ~Unrecorded(n) /\ ~Altered(n)
       /\ tx' = m /\ at' = "record"
  /\ OnDisk /\ LiteRest /\ UNCHANGED open
RefuseAltered ==
  /\ at = "migrate"
  /\ \E m \in Migrations : Altered(m) /\ \A n \in Migrations : n < m => ~Unrecorded(n)
  /\ at' = "fail"
  /\ OnDisk /\ LiteRest /\ UNCHANGED <<open, tx>>

\* The row, and COMMIT; or ROLLBACK.
RecordMigration ==
  /\ at = "record"
  /\ tx' = NoTx
  /\ \/ /\ row' = [row EXCEPT ![tx] = shipped[tx]]
        /\ ran' = [ran EXCEPT ![tx] = IF @ < 2 THEN @ + 1 ELSE @]
        /\ at' = "migrate"
     \/ at' = "fail" /\ UNCHANGED <<row, ran>>
  /\ LiteRest /\ UNCHANGED <<open, secrets, account>>
Migrated ==
  /\ at = "migrate"
  /\ \A m \in Migrations : ~Unrecorded(m) /\ ~Altered(m)
  /\ at' = "socket"
  /\ OnDisk /\ LiteRest /\ UNCHANGED <<open, tx>>

\* The socket, the pool, which does not connect yet, what createApp starts, and the
\* server, whose port another process may have taken.
After == [socket |-> "pool", pool |-> "connector", connector |-> "jobs", jobs |-> "http",
          http |-> "up"]
OpenNext ==
  /\ at \in DOMAIN After
  /\ \/ open' = open \union {at} /\ at' = After[at]
     \/ at \in {"socket", "connector", "http"} /\ at' = "fail" /\ UNCHANGED open
  /\ OnDisk /\ LiteRest /\ UNCHANGED tx

-----------------------------------------------------------------------------
\* stop, and the catch of startLocalRuntime: the server, the application, the pool,
\* the socket and the database, in that order.
CloseOrder == <<{"http"}, {"jobs", "connector"}, {"pool"}, {"socket"}, {"db"}>>
Held == {i \in 1..5 : CloseOrder[i] \intersect open # {}}
StopLite ==
  /\ at = "up"
  /\ at' = "close"
  /\ localSession' = [p \in Pages |-> "none"]
  /\ OnDisk /\ UNCHANGED <<open, tx, shipped, starts, crashes, releases>>

\* Mutant: a start that fails leaves its database to the garbage collector.
CloseAllButDatabase ==
  /\ at \in {"close", "fail"}
  /\ IF open = {} \/ (at = "fail" /\ Held = {5}) THEN at' = "down" /\ UNCHANGED open
     ELSE \E i \in Held : /\ \A j \in Held : i <= j
                          /\ open' = open \ CloseOrder[i] /\ UNCHANGED at
  /\ OnDisk /\ LiteRest /\ UNCHANGED tx
CloseNext ==
  /\ at \in {"close", "fail"}
  /\ IF open = {} THEN at' = "down" /\ UNCHANGED open
     ELSE \E i \in Held : /\ \A j \in Held : i <= j
                          /\ open' = open \ CloseOrder[i] /\ UNCHANGED at
  /\ OnDisk /\ LiteRest /\ UNCHANGED tx

\* The process ends.
CrashLite ==
  /\ at # "down" /\ crashes < MaxCrashes
  /\ crashes' = crashes + 1
  /\ at' = "down" /\ open' = {} /\ tx' = NoTx
  /\ localSession' = [p \in Pages |-> "none"]
  /\ OnDisk /\ UNCHANGED <<shipped, starts, releases>>

\* Another version is installed: a migration more, or one whose text has changed.
Install ==
  /\ at = "down" /\ releases < MaxReleases
  /\ releases' = releases + 1
  /\ \E m \in Migrations :
       /\ \A n \in Migrations : n < m => shipped[n] # 0
       /\ shipped' = [shipped EXCEPT ![m] = IF @ = 0 THEN 1 ELSE 2]
  /\ OnDisk /\ UNCHANGED <<at, open, tx, localSession, starts, crashes>>

-----------------------------------------------------------------------------
(* bootstrapLocalSession: sign in, else sign up, else, when another request has *)
(* signed up in between, sign in again.  The password is that of the secrets.   *)

ToPage(p, place) == localSession' = [localSession EXCEPT ![p] = place]
AskPage(p) ==
  /\ at = "up" /\ localSession[p] = "none"
  /\ ToPage(p, "signIn") /\ UNCHANGED account
TryIn(p) ==
  /\ localSession[p] = "signIn"
  /\ ToPage(p, IF account THEN "in" ELSE "signUp") /\ UNCHANGED account
\* Mutant: a sign-up that is refused is the end.
SignUpOnly(p) ==
  /\ localSession[p] = "signUp"
  /\ ToPage(p, IF account THEN "refused" ELSE "in") /\ account' = TRUE
SignUp(p) ==
  /\ localSession[p] = "signUp"
  /\ ToPage(p, IF account THEN "again" ELSE "in") /\ account' = TRUE
TryAgain(p) ==
  /\ localSession[p] = "again"
  /\ ToPage(p, IF account THEN "in" ELSE "refused") /\ UNCHANGED account
LeavePage(p) ==
  /\ localSession[p] \in {"in", "refused"}
  /\ ToPage(p, "none") /\ UNCHANGED account
PageStep(p) ==
  /\ AskPage(p) \/ TryIn(p) \/ SignUp(p) \/ TryAgain(p) \/ LeavePage(p)
  /\ UNCHANGED <<at, open, secrets, shipped, row, ran, tx, starts, crashes, releases>>

LiteNext ==
  \/ StartLite \/ LoadSecrets \/ CreateSecrets \/ OpenDatabase
  \/ ExecMigration \/ RefuseAltered \/ RecordMigration \/ Migrated \/ OpenNext
  \/ StopLite \/ CloseNext \/ CrashLite \/ Install
  \/ \E p \in Pages : PageStep(p)

LiteSpec == LiteInit /\ [][LiteNext]_liteVars

-----------------------------------------------------------------------------
(***************************************************************************)
(* Wherever a start fails or the process ends, each migration takes effect *)
(* once at most, exactly those with a row have, and a runtime that is up   *)
(* has every migration of its version, with the text it ships.             *)
(***************************************************************************)
MigratedOnce ==
  /\ \A m \in Migrations : ran[m] = (IF row[m] = 0 THEN 0 ELSE 1)
  /\ at = "up" => \A m \in Migrations : shipped[m] # 0 => row[m] = shipped[m]

(***************************************************************************)
(* What a start has opened is closed again when it fails, at whichever     *)
(* step, and when the runtime is stopped, and nothing is closed before     *)
(* what uses it: the database is the last.                                 *)
(***************************************************************************)
ClosedInOrder ==
  /\ at = "down" => open = {}
  /\ {"http", "jobs", "pool", "socket"} \intersect open # {} => "db" \in open
  /\ {"http", "jobs"} \intersect open # {} => "pool" \in open

(***************************************************************************)
(* Requests for the local session that come together all get it: none is   *)
(* refused because another one has made the account.                       *)
(***************************************************************************)
SessionForEvery == \A p \in Pages : localSession[p] # "refused"
=============================================================================
