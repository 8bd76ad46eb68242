------------------------------ MODULE MemoryIndex ------------------------------
(***************************************************************************)
(* The memory of one bot: documents with a revision each, their history,   *)
(* and the semantic index that a search derives from them.  The index is a *)
(* directory with a database and, once it is complete, a manifest with the *)
(* fingerprint of the documents it was built from.  Searches of one        *)
(* process share a rebuild that is under way; commits go on meanwhile, and *)
(* the process may die at any step.                                        *)
(***************************************************************************)
EXTENDS Integers, FiniteSets

CONSTANTS
  Searches,          \* searches under way at once
  Writers,           \* commits under way at once
  MaxDocuments,      \* bound: documents, numbered in the order of their paths
  MaxCommits,        \* bound: commits
  MaxMemoryTroubles  \* bound: commands that fail, and crashes

NoSearch == "none"

ASSUME MemoryConstants ==
  /\ NoSearch \notin Searches
  /\ MaxDocuments \in Nat \ {0} /\ MaxCommits \in Nat /\ MaxMemoryTroubles \in Nat

VARIABLES
  document,  \* MemoryDocument: the revision and the content of each path
  history,   \* MemoryRevision
  commit,    \* what each writer is about to do
  commits,
  database,  \* what the directory's database holds
  manifest,  \* the documents whose fingerprint .rakazo-index.json holds
  pending,   \* rebuilds: the search whose rebuild the others join, or NoSearch
  search,    \* what each search is about to do
  memoryTroubles

memoryVars ==
  <<document, history, commit, commits, database, manifest, pending, search, memoryTroubles>>

Documents == 1..MaxDocuments
Contents == 0..MaxCommits
Absent == [rev |-> 0, content |-> 0]   \* a path without a document
Version == [rev : Contents, content : Contents]
\* memoryFingerprint: two lists of documents have one fingerprint when they are equal.
Snapshots == [Documents -> Version]
NoManifest == [d \in Documents |-> Absent]
NoCommit == [at |-> "idle", path |-> 1, rev |-> 0, content |-> 0]
NoSearching == [at |-> "idle", docs |-> NoManifest, left |-> {}]

\* The places of a search that does the rebuild itself.
Rebuilding == {"manifest", "remove", "removing", "store", "record"}

(***************************************************************************)
(* Every variable has its type.                                            *)
(***************************************************************************)
MemoryTypeOK ==
  /\ document \in Snapshots
  /\ history \subseteq [path : Documents, rev : Contents, content : Contents]
  /\ commit \in [Writers -> [at : {"idle", "write", "record"}, path : Documents,
                             rev : Contents, content : Contents]]
  /\ commits \in Contents
  /\ database \subseteq Documents \X Contents
  /\ manifest \in Snapshots
  /\ pending \in Searches \union {NoSearch}
  /\ search \in [Searches -> [at : {"idle", "ensure", "wait", "recall"} \union Rebuilding,
                              docs : Snapshots, left : SUBSET Documents]]
  /\ memoryTroubles \in 0..MaxMemoryTroubles

MemoryInit ==
  /\ document = [d \in Documents |-> Absent]
  /\ history = {}
  /\ commit = [w \in Writers |-> NoCommit] /\ commits = 0
  /\ database = {} /\ manifest = NoManifest
  /\ pending = NoSearch
  /\ search = [s \in Searches |-> NoSearching]
  /\ memoryTroubles = 0

Markdown == UNCHANGED <<document, history, commit, commits>>
Directory == UNCHANGED <<database, manifest>>
Index == Directory /\ UNCHANGED <<pending, search>>
SearchGoes(s, at) == search' = [search EXCEPT ![s].at = at]

-----------------------------------------------------------------------------
(* MarkdownMemoryStore.commit: find, then write, then record, in no transaction *)

FindDocument(w) ==
  /\ commit[w].at = "idle" /\ commits < MaxCommits
  /\ commits' = commits + 1
  /\ \E d \in Documents :
       commit' = [commit EXCEPT ![w] = [at |-> "write", path |-> d,
                                        rev |-> document[d].rev, content |-> commits + 1]]
  /\ Index /\ UNCHANGED <<document, history, memoryTroubles>>

\* The document is as it was read, or not: only a create notices, by the unique path.
WriteDocument(w) ==
  LET c == commit[w] IN
  /\ c.at = "write"
  /\ IF c.rev = 0 /\ document[c.path] # Absent
     THEN commit' = [commit EXCEPT ![w] = NoCommit] /\ UNCHANGED document
     ELSE /\ document' = [document EXCEPT ![c.path] = [rev |-> c.rev + 1,
                                                       content |-> c.content]]
          /\ commit' = [commit EXCEPT ![w].at = "record", ![w].rev = c.rev + 1]
  /\ Index /\ UNCHANGED <<history, commits, memoryTroubles>>

\* Mutant: the revision of a document is recorded as often as it is written.
RecordAgain(w) ==
  LET c == commit[w] IN
  /\ c.at = "record"
  /\ history' = history \union {[path |-> c.path, rev |-> c.rev, content |-> c.content]}
  /\ commit' = [commit EXCEPT ![w] = NoCommit]
  /\ Index /\ UNCHANGED <<document, commits, memoryTroubles>>
\* A revision that another commit has recorded makes this one throw.
RecordRevision(w) ==
  LET c == commit[w] IN
  /\ c.at = "record"
  /\ history' = IF \E row \in history : row.path = c.path /\ row.rev = c.rev THEN history
                ELSE history \union {[path |-> c.path, rev |-> c.rev, content |-> c.content]}
  /\ commit' = [commit EXCEPT ![w] = NoCommit]
  /\ Index /\ UNCHANGED <<document, commits, memoryTroubles>>

-----------------------------------------------------------------------------
(* HybridMemoryStore.search and MnemosyneSemanticIndex *)

\* The documents of the search are those of one read; without any there is no index.
ReadDocuments(s) ==
  /\ search[s].at = "idle" /\ document # NoManifest
  /\ search' = [search EXCEPT ![s] = [NoSearching EXCEPT !.at = "ensure", !.docs = document]]
  /\ Markdown /\ Directory /\ UNCHANGED <<pending, memoryTroubles>>

\* Mutant: each search sees to the index itself.
EnsureAlone(s) ==
  /\ search[s].at = "ensure"
  /\ SearchGoes(s, "manifest") /\ pending' = s
  /\ Markdown /\ Directory /\ UNCHANGED memoryTroubles
\* ensureIndex: who finds a rebuild under way waits for it, whatever it is of.
EnsureIndex(s) ==
  /\ search[s].at = "ensure"
  /\ IF pending = NoSearch THEN SearchGoes(s, "manifest") /\ pending' = s
     ELSE SearchGoes(s, "wait") /\ UNCHANGED pending
  /\ Markdown /\ Directory /\ UNCHANGED memoryTroubles

\* The rebuild of s is over: those that have joined it go the same way.
Settles(s, next) ==
  /\ search' = [t \in Searches |->
       IF t = s \/ (pending = s /\ search[t].at = "wait")
       THEN IF next = "recall" THEN [search[t] EXCEPT !.at = "recall", !.left = {}]
            ELSE NoSearching
       ELSE search[t]]
  /\ pending' = IF pending = s THEN NoSearch ELSE pending

ReadManifest(s) ==
  /\ search[s].at = "manifest"
  /\ IF manifest = search[s].docs THEN Settles(s, "recall")
     ELSE SearchGoes(s, "remove") /\ UNCHANGED pending
  /\ Markdown /\ Directory /\ UNCHANGED memoryTroubles

\* rm takes the files of the directory one after the other, in any order.
RemoveSome(s) ==
  /\ search[s].at = "remove"
  /\ \/ manifest' = NoManifest /\ UNCHANGED database
     \/ database' = {} /\ UNCHANGED manifest
  /\ SearchGoes(s, "removing")
  /\ Markdown /\ UNCHANGED <<pending, memoryTroubles>>

RemoveRest(s) ==
  /\ search[s].at = "removing"
  /\ manifest' = NoManifest /\ database' = {}
  /\ search' = [search EXCEPT ![s].at = "store",
                              ![s].left = {d \in Documents : search[s].docs[d] # Absent}]
  /\ Markdown /\ UNCHANGED <<pending, memoryTroubles>>

StoreNext(s) ==
  /\ search[s].at = "store"
  /\ IF search[s].left = {} THEN SearchGoes(s, "record") /\ UNCHANGED database
     ELSE \E d \in search[s].left :
            /\ \A e \in search[s].left : d <= e
            /\ database' = database \union {<<d, search[s].docs[d].content>>}
            /\ search' = [search EXCEPT ![s].left = @ \ {d}]
  /\ Markdown /\ UNCHANGED <<manifest, pending, memoryTroubles>>

\* writeManifest: a temporary file, renamed.
WriteManifest(s) ==
  /\ search[s].at = "record"
  /\ manifest' = search[s].docs
  /\ Settles(s, "recall")
  /\ Markdown /\ UNCHANGED <<database, memoryTroubles>>

\* recall asks the database of now, and keeps the paths of the search's own documents.
Recall(s) ==
  /\ search[s].at = "recall"
  /\ search' = [search EXCEPT ![s] = NoSearching]
  /\ Markdown /\ Directory /\ UNCHANGED <<pending, memoryTroubles>>

\* A command is aborted, takes too long, says too much or cannot be run: in the mode
\* "auto" the search answers without the index, and so do those that have joined it.
CommandFails(s) ==
  /\ search[s].at \in {"store", "recall"}
  /\ memoryTroubles < MaxMemoryTroubles /\ memoryTroubles' = memoryTroubles + 1
  /\ Settles(s, "idle")
  /\ Markdown /\ Directory

CrashMemory ==
  /\ memoryTroubles < MaxMemoryTroubles /\ memoryTroubles' = memoryTroubles + 1
  /\ commit' = [w \in Writers |-> NoCommit]
  /\ search' = [s \in Searches |-> NoSearching] /\ pending' = NoSearch
  /\ Directory /\ UNCHANGED <<document, history, commits>>

MemoryNext ==
  \/ \E w \in Writers : FindDocument(w) \/ WriteDocument(w) \/ RecordRevision(w)
  \/ \E s \in Searches :
       \/ ReadDocuments(s) \/ EnsureIndex(s) \/ ReadManifest(s)
       \/ RemoveSome(s) \/ RemoveRest(s) \/ StoreNext(s) \/ WriteManifest(s)
       \/ Recall(s) \/ CommandFails(s)
  \/ CrashMemory

MemorySpec == MemoryInit /\ [][MemoryNext]_memoryVars

-----------------------------------------------------------------------------
(***************************************************************************)
(* A search that finds its own fingerprint in the manifest, and so leaves  *)
(* the database as it is, never finds other documents or a part of its own *)
(* in it: wherever a rebuild has failed or the process has died, and of    *)
(* whichever older documents another search has rebuilt the index.  What   *)
(* is left open is a crash of rm that has taken the database and not yet   *)
(* the manifest: the index is then empty, and stays so.                    *)
(***************************************************************************)
StoredOf(docs) == {<<d, docs[d].content>> : d \in {e \in Documents : docs[e] # Absent}}
SkipsOnlyWhenBuilt ==
  \A s \in Searches :
    search[s].at = "manifest" /\ manifest = search[s].docs =>
      database \in {StoredOf(manifest), {}}

(***************************************************************************)
(* The history says what a commit has written: no revision is recorded     *)
(* twice, and a document whose commits are all over, none cut short, has   *)
(* its revision in the history.                                            *)
(***************************************************************************)
RevisionsAreKept ==
  /\ \A p, q \in history : p.path = q.path /\ p.rev = q.rev => p = q
  /\ \A d \in Documents :
       /\ document[d] # Absent /\ memoryTroubles = 0
       /\ \A w \in Writers : commit[w].at # "idle" => commit[w].path # d
       => \E row \in history : row.path = d /\ row.rev = document[d].rev
=============================================================================
