------------------------------ MODULE Ingestion ------------------------------
(***************************************************************************)
(* The ingestion pipeline of kb_mcp/ingest/pipeline.py: callers (the MCP   *)
(* ingest tools and the auto-ingest thread) scan files under a workspace   *)
(* lock and write every changed document to three stores that know nothing *)
(* of each other: the metadata repository, the vector store and the graph  *)
(* store.  Every call to a store is a step of its own, since each of them  *)
(* can raise and other callers run between any two of them.                *)
(*                                                                         *)
(* Data is abstract.  A file's text is a version; version v cuts into      *)
(* ChunkCount[v] chunks, and a store's entry for chunk number i of a       *)
(* document is the version it was cut from; a chunk of the graph holds the *)
(* versions whose entities it mentions, for upsert_mentions only adds.     *)
(* Entity records and entity vectors, written between ListOld and          *)
(* UpsertVectors, and the relations that follow UpsertMentions are not     *)
(* kept here: a failure at one of them is one at the control point next    *)
(* to it.                                                                  *)
(***************************************************************************)
EXTENDS Naturals, FiniteSets

CONSTANTS
    Workspaces,   \* workspace ids
    Files,        \* source paths
    Versions,     \* texts a file can have that are not blank
    MaxChunks,    \* bound on the chunks of a document
    ChunkCount,   \* ChunkCount[v]: how many chunks chunk_text makes of v
    Rewrites,     \* pairs <<old, new>> of texts: the edits users make
    Processes,    \* operating-system processes with a pipeline of their own
    Callers,      \* threads that call the pipeline
    ProcessOf,    \* ProcessOf[c]: the process thread c runs in
    AutoIngests,  \* <<c, w>>: thread c runs the auto-ingest loop of workspace w
    Durable,      \* the stores that survive a restart of a process
    LegacyDocs,   \* LegacyDocs[f]: row an older release left under the unscoped id
    MaxFaults,    \* bound on failed store calls and crashes
    Blank,        \* the empty text
    Missing,      \* the text of a file that does not exist
    NoVersion, NoDoc, NoCaller, Legacy

Texts == Versions \cup {Blank, Missing}
Stores == {"metadata", "vector", "graph"}
Idx == 1 .. MaxChunks

\* A document URI: the unscoped (legacy) id or the id scoped by workspace.
DocUris == (Workspaces \cup {Legacy}) \X Files

\* What is kept of the row put_doc writes: its owner and the text's checksum.
DocRow == [ws : Workspaces, sum : Versions]

ASSUME NamesAssumption ==
    /\ NoVersion \notin Versions
    /\ Blank \notin Versions
    /\ Missing \notin Versions
    /\ NoDoc \notin DocRow
    /\ NoCaller \notin Callers
    /\ Legacy \notin Workspaces

ASSUME DataAssumption ==
    /\ MaxChunks \in Nat
    /\ MaxFaults \in Nat
    /\ ChunkCount \in [Versions -> 0 .. MaxChunks]
    /\ ProcessOf \in [Callers -> Processes]
    /\ Rewrites \subseteq Texts \X Texts
    /\ Durable \subseteq Stores
    /\ LegacyDocs \in [Files -> DocRow \cup {NoDoc}]
    /\ Workspaces # {} /\ Files # {}

\* Processes share stores that outlive them; what one keeps in memory is its
\* own, and then holds nothing an older release left.
SingleProcess == \A p, q \in Processes : p = q

ASSUME DeploymentAssumption ==
    Durable # Stores => /\ SingleProcess
                        /\ LegacyDocs = [f \in Files |-> NoDoc]

VARIABLES
    disk,    \* disk[f]: the text of file f
    docs,    \* metadata: document rows
    sums,    \* metadata: recorded checksum per workspace and source path
    rows,    \* metadata: chunk rows, rows[u][i]
    vec,     \* vector store: chunk points, vec[u][i]
    graph,   \* graph store: versions the chunk node mentions, graph[u][i]
    lock,    \* lock[<<p, w>>]: holder of the workspace lock of process p
    run,     \* run[c]: the local variables of caller c's ingest_filesystem
    faults   \* failures so far

stores == <<docs, sums, rows, vec, graph>>
vars == <<disk, docs, sums, rows, vec, graph, lock, run, faults>>

-----------------------------------------------------------------------------
(* Control points of ingest_filesystem: each names the call it is about to  *)
(* make.  "scan" is the head of the loop over the documents read.           *)

Rebuilding == {"listOld", "vectors", "chunk", "mentions", "dropVectors",
               "dropGraph", "dropRows", "checksum"}
Working == Rebuilding \cup {"putDoc"}
Pcs == Working \cup {"idle", "scan"}

Run == [pc    : Pcs,
        ws    : Workspaces,
        dry   : BOOLEAN,
        snap  : [Files -> Texts],   \* texts read_documents returned
        left  : SUBSET Files,       \* documents the loop has still to visit
        file  : Files,              \* the document it is at
        uri   : DocUris,            \* doc_uri
        row   : 0 .. MaxChunks + 1, \* chunk the loop over chunks is at
        stale : SUBSET Idx]         \* chunks to delete: listed and not rewritten

\* A caller outside ingest_filesystem has no locals.
IdleRun == [pc    |-> "idle",
            ws    |-> CHOOSE w \in Workspaces : TRUE,
            dry   |-> FALSE,
            snap  |-> [f \in Files |-> Missing],
            left  |-> {},
            file  |-> CHOOSE f \in Files : TRUE,
            uri   |-> CHOOSE u \in DocUris : TRUE,
            row   |-> 0,
            stale |-> {}]

LockOf(c, w) == <<ProcessOf[c], w>>
Text(c) == run[c].snap[run[c].file]
Count(c) == ChunkCount[Text(c)]

\* The entries a store holds for a document that is indexed at version v.
Entries(v) == [i \in Idx |-> IF i <= ChunkCount[v] THEN v ELSE NoVersion]
NoEntries == [i \in Idx |-> NoVersion]
EmptyStore == [u \in DocUris |-> NoEntries]
EmptyGraph == [u \in DocUris |-> [i \in Idx |-> {}]]

\* Mutant: the owner of an unscoped document is not looked at.
DocUri_AnyOwner(w, f) ==
    IF docs[<<Legacy, f>>] # NoDoc THEN <<Legacy, f>> ELSE <<w, f>>

\* An older release keyed documents by path alone; such a document is kept
\* under its id by the workspace that owns it, and by no other.
DocUri(w, f) ==
    LET legacy == docs[<<Legacy, f>>]
    IN IF legacy # NoDoc /\ legacy.ws = w THEN <<Legacy, f>> ELSE <<w, f>>

-----------------------------------------------------------------------------
LegacyEntries ==
    [u \in DocUris |->
        IF u[1] = Legacy /\ LegacyDocs[u[2]] # NoDoc
        THEN Entries(LegacyDocs[u[2]].sum) ELSE NoEntries]

Init ==
    /\ disk = [f \in Files |->
                 IF LegacyDocs[f] = NoDoc THEN Missing ELSE LegacyDocs[f].sum]
    /\ docs = [u \in DocUris |->
                 IF u[1] = Legacy THEN LegacyDocs[u[2]] ELSE NoDoc]
    /\ sums = [k \in Workspaces \X Files |->
                 IF LegacyDocs[k[2]] # NoDoc /\ LegacyDocs[k[2]].ws = k[1]
                 THEN LegacyDocs[k[2]].sum ELSE NoVersion]
    /\ rows = LegacyEntries
    /\ vec = LegacyEntries
    /\ graph = [u \in DocUris |-> [i \in Idx |-> {LegacyEntries[u][i]} \ {NoVersion}]]
    /\ lock = [k \in Processes \X Workspaces |-> NoCaller]
    /\ run = [c \in Callers |-> IdleRun]
    /\ faults = 0

\* A user edits, creates, empties or deletes a file.
Edit(f, t) ==
    /\ <<disk[f], t>> \in Rewrites
    /\ disk' = [disk EXCEPT ![f] = t]
    /\ UNCHANGED <<stores, lock, run, faults>>

\* Mutant: the lock is taken without looking whether it is held.
Start_NoLock(c, w, paths, dry) ==
    /\ run[c].pc = "idle"
    /\ lock' = [lock EXCEPT ![LockOf(c, w)] = c]
    /\ run' = [run EXCEPT ![c] =
                 [IdleRun EXCEPT
                    !.pc = "scan", !.ws = w, !.dry = dry,
                    !.snap = [f \in Files |-> IF f \in paths THEN disk[f] ELSE Missing],
                    !.left = {f \in paths : disk[f] \in Versions}]]
    /\ UNCHANGED <<disk, stores, faults>>

\* Take the workspace lock without waiting (a caller that finds it held gets
\* RuntimeError and changes nothing) and read the files.  paths is Files for
\* a full scan and what git reported, before the lock, for ingest_git_diff.
\* Files that are gone are not read and blank ones are passed over.
Start(c, w, paths, dry) ==
    /\ run[c].pc = "idle"
    /\ lock[LockOf(c, w)] = NoCaller
    /\ lock' = [lock EXCEPT ![LockOf(c, w)] = c]
    /\ run' = [run EXCEPT ![c] =
                 [IdleRun EXCEPT
                    !.pc = "scan", !.ws = w, !.dry = dry,
                    !.snap = [f \in Files |-> IF f \in paths THEN disk[f] ELSE Missing],
                    !.left = {f \in paths : disk[f] \in Versions}]]
    /\ UNCHANGED <<disk, stores, faults>>

\* A document whose checksum is the recorded one is skipped; a dry run only
\* counts the others.
Pass(c, f) ==
    /\ run[c].pc = "scan"
    /\ f \in run[c].left
    /\ run[c].dry \/ sums[<<run[c].ws, f>>] = run[c].snap[f]
    /\ run' = [run EXCEPT ![c].left = @ \ {f}]
    /\ UNCHANGED <<disk, stores, lock, faults>>

\* A document that changed since its recorded checksum is indexed again.
Take(c, f) ==
    /\ run[c].pc = "scan"
    /\ f \in run[c].left
    /\ ~run[c].dry
    /\ sums[<<run[c].ws, f>>] # run[c].snap[f]
    /\ run' = [run EXCEPT ![c].pc = "putDoc", ![c].file = f, ![c].left = @ \ {f}]
    /\ UNCHANGED <<disk, stores, lock, faults>>

\* Mutant: the checksum is recorded together with the document row.
PutDoc_RecordsFirst(c) ==
    LET u == DocUri(run[c].ws, run[c].file) IN
    /\ run[c].pc = "putDoc"
    /\ docs' = [docs EXCEPT ![u] = [ws |-> run[c].ws, sum |-> Text(c)]]
    /\ sums' = [sums EXCEPT ![<<run[c].ws, run[c].file>>] = Text(c)]
    /\ run' = [run EXCEPT ![c].pc = "listOld", ![c].uri = u]
    /\ UNCHANGED <<disk, rows, vec, graph, lock, faults>>

\* Choose the document's identity and write its row, new checksum included.
PutDoc(c) ==
    LET u == DocUri(run[c].ws, run[c].file) IN
    /\ run[c].pc = "putDoc"
    /\ docs' = [docs EXCEPT ![u] = [ws |-> run[c].ws, sum |-> Text(c)]]
    /\ run' = [run EXCEPT ![c].pc = "listOld", ![c].uri = u]
    /\ UNCHANGED <<disk, sums, rows, vec, graph, lock, faults>>

\* Mutant: the first chunk past the new text is not counted as stale.
ListOld_OffByOne(c) ==
    /\ run[c].pc = "listOld"
    /\ run' = [run EXCEPT
                 ![c].pc = "vectors",
                 ![c].stale = {i \in Idx : /\ rows[run[c].uri][i] # NoVersion
                                           /\ i > Count(c) + 1}]
    /\ UNCHANGED <<disk, stores, lock, faults>>

\* List the chunk rows the document has: those past the new text's last
\* chunk will be deleted.
ListOld(c) ==
    /\ run[c].pc = "listOld"
    /\ run' = [run EXCEPT
                 ![c].pc = "vectors",
                 ![c].stale = {i \in Idx : /\ rows[run[c].uri][i] # NoVersion
                                           /\ i > Count(c)}]
    /\ UNCHANGED <<disk, stores, lock, faults>>

\* Mutant: the loop over chunks runs once too often.
AfterChunk_OffByOne(c, i) ==
    IF i <= Count(c) THEN "chunk"
    ELSE IF run[c].stale # {} THEN "dropVectors" ELSE "checksum"

\* Where the loop over chunks goes after chunk number i (0: before the first).
AfterChunk(c, i) ==
    IF i < Count(c) THEN "chunk"
    ELSE IF run[c].stale # {} THEN "dropVectors" ELSE "checksum"

\* One batch writes all chunks of the document to the vector store.
UpsertVectors(c) ==
    /\ run[c].pc = "vectors"
    /\ vec' = [vec EXCEPT ![run[c].uri] =
                 [i \in Idx |-> IF i <= Count(c) THEN Text(c) ELSE @[i]]]
    /\ run' = [run EXCEPT ![c].pc = AfterChunk(c, 0), ![c].row = 1]
    /\ UNCHANGED <<disk, docs, sums, rows, graph, lock, faults>>

PutChunk(c) ==
    /\ run[c].pc = "chunk"
    /\ rows' = [rows EXCEPT ![run[c].uri][run[c].row] = Text(c)]
    /\ run' = [run EXCEPT ![c].pc = "mentions"]
    /\ UNCHANGED <<disk, docs, sums, vec, graph, lock, faults>>

UpsertMentions(c) ==
    /\ run[c].pc = "mentions"
    /\ graph' = [graph EXCEPT ![run[c].uri][run[c].row] = @ \cup {Text(c)}]
    /\ run' = [run EXCEPT ![c].pc = AfterChunk(c, run[c].row), ![c].row = @ + 1]
    /\ UNCHANGED <<disk, docs, sums, rows, vec, lock, faults>>

\* The entries of a document without those of the chunks in S.
Without(entries, S) == [i \in Idx |-> IF i \in S THEN NoVersion ELSE entries[i]]

\* Mutant: every chunk of the document is deleted, rewritten ones included.
DropVectors_All(c) ==
    /\ run[c].pc = "dropVectors"
    /\ vec' = [vec EXCEPT ![run[c].uri] = NoEntries]
    /\ run' = [run EXCEPT ![c].pc = "dropGraph"]
    /\ UNCHANGED <<disk, docs, sums, rows, graph, lock, faults>>

DropVectors(c) ==
    /\ run[c].pc = "dropVectors"
    /\ vec' = [vec EXCEPT ![run[c].uri] = Without(@, run[c].stale)]
    /\ run' = [run EXCEPT ![c].pc = "dropGraph"]
    /\ UNCHANGED <<disk, docs, sums, rows, graph, lock, faults>>

\* Mutant: stale chunks are not deleted from the graph.
DropGraph_Forgotten(c) ==
    /\ run[c].pc = "dropGraph"
    /\ run' = [run EXCEPT ![c].pc = "dropRows"]
    /\ UNCHANGED <<disk, stores, lock, faults>>

DropGraph(c) ==
    /\ run[c].pc = "dropGraph"
    /\ graph' = [graph EXCEPT ![run[c].uri] =
                   [i \in Idx |-> IF i \in run[c].stale THEN {} ELSE @[i]]]
    /\ run' = [run EXCEPT ![c].pc = "dropRows"]
    /\ UNCHANGED <<disk, docs, sums, rows, vec, lock, faults>>

\* delete_chunk is called for one row at a time.
DropRow(c, i) ==
    /\ run[c].pc = "dropRows"
    /\ i \in run[c].stale
    /\ rows' = [rows EXCEPT ![run[c].uri] = Without(@, {i})]
    /\ run' = [run EXCEPT
                 ![c].stale = @ \ {i},
                 ![c].pc = IF run[c].stale = {i} THEN "checksum" ELSE @]
    /\ UNCHANGED <<disk, docs, sums, vec, graph, lock, faults>>

\* The checksum is recorded last, once every store has the document.
SetChecksum(c) ==
    /\ run[c].pc = "checksum"
    /\ sums' = [sums EXCEPT ![<<run[c].ws, run[c].file>>] = Text(c)]
    /\ run' = [run EXCEPT ![c] =
                 [@ EXCEPT !.pc = "scan", !.row = 0, !.file = IdleRun.file,
                           !.uri = IdleRun.uri]]
    /\ UNCHANGED <<disk, docs, rows, vec, graph, lock, faults>>

\* Mutant: an early exit keeps the lock.
Leave_KeepsLock(c) ==
    /\ run' = [run EXCEPT ![c] = IdleRun]
    /\ UNCHANGED <<disk, stores, lock>>

\* Leaving ingest_filesystem, by return or by exception, releases the lock.
Leave(c) ==
    /\ lock' = [lock EXCEPT ![LockOf(c, run[c].ws)] = NoCaller]
    /\ run' = [run EXCEPT ![c] = IdleRun]
    /\ UNCHANGED <<disk, stores>>

Finish(c) ==
    /\ run[c].pc = "scan"
    /\ run[c].left = {}
    /\ Leave(c)
    /\ UNCHANGED faults

\* The store call (or the read of a file) that the caller is at raises.
Fail(c) ==
    /\ run[c].pc # "idle"
    /\ faults < MaxFaults
    /\ Leave(c)
    /\ faults' = faults + 1

\* A process stops and is started again.  Its threads and locks are gone and
\* so is what it kept in memory; stores that are not durable are such.
Crash(p) ==
    /\ faults < MaxFaults
    /\ faults' = faults + 1
    /\ run' = [c \in Callers |-> IF ProcessOf[c] = p THEN IdleRun ELSE run[c]]
    /\ lock' = [k \in Processes \X Workspaces |->
                  IF k[1] = p THEN NoCaller ELSE lock[k]]
    /\ IF "metadata" \in Durable THEN UNCHANGED <<docs, sums, rows>>
       ELSE /\ docs' = [u \in DocUris |-> NoDoc]
            /\ sums' = [k \in Workspaces \X Files |-> NoVersion]
            /\ rows' = EmptyStore
    /\ vec' = IF "vector" \in Durable THEN vec ELSE EmptyStore
    /\ graph' = IF "graph" \in Durable THEN graph ELSE EmptyGraph
    /\ UNCHANGED disk

-----------------------------------------------------------------------------
\* The steps of a call that is under way, faults aside.
Step(c) ==
    \/ \E f \in Files : Pass(c, f) \/ Take(c, f)
    \/ PutDoc(c)
    \/ ListOld(c)
    \/ UpsertVectors(c)
    \/ PutChunk(c)
    \/ UpsertMentions(c)
    \/ DropVectors(c)
    \/ DropGraph(c)
    \/ \E i \in Idx : DropRow(c, i)
    \/ SetChecksum(c)
    \/ Finish(c)

Next ==
    \/ \E f \in Files, t \in Texts : Edit(f, t)
    \/ \E c \in Callers :
         \/ \E w \in Workspaces, paths \in SUBSET Files, dry \in BOOLEAN :
              Start(c, w, paths, dry)
         \/ Step(c)
         \/ Fail(c)
    \/ \E p \in Processes : Crash(p)

Spec == Init /\ [][Next]_vars

\* A call that has begun goes on, and the auto-ingest loop gets to scan all
\* files again and again: every full_interval-th cycle is a full scan, and a
\* cycle that finds the lock held is retried.
Fairness ==
    /\ \A c \in Callers : WF_vars(Step(c))
    /\ \A a \in AutoIngests : SF_vars(Start(a[1], a[2], Files, FALSE))

FairSpec == Spec /\ Fairness

-----------------------------------------------------------------------------
TypeOK ==
    /\ disk \in [Files -> Texts]
    /\ docs \in [DocUris -> DocRow \cup {NoDoc}]
    /\ sums \in [Workspaces \X Files -> Versions \cup {NoVersion}]
    /\ rows \in [DocUris -> [Idx -> Versions \cup {NoVersion}]]
    /\ vec \in [DocUris -> [Idx -> Versions \cup {NoVersion}]]
    /\ graph \in [DocUris -> [Idx -> SUBSET Versions]]
    /\ lock \in [Processes \X Workspaces -> Callers \cup {NoCaller}]
    /\ run \in [Callers -> Run]
    /\ faults \in 0 .. MaxFaults

\* The store holds every chunk of version v for document u (and maybe more).
Covers(store, u, v) == \A i \in Idx : i <= ChunkCount[v] => store[u][i] = v

\* The graph has a node for every chunk of version v, linked to the entities
\* v mentions, and no node for a chunk that v does not have.
GraphShows(u, v) ==
    \A i \in Idx : IF i <= ChunkCount[v] THEN v \in graph[u][i] ELSE graph[u][i] = {}

\* The checksum recorded for the file is the one in its document row: no
\* attempt to index another version has begun since the recorded one ended.
Settled(w, f) ==
    /\ docs[DocUri(w, f)] # NoDoc
    /\ docs[DocUri(w, f)].sum = sums[<<w, f>>]

\* A document whose row and recorded checksum agree is in all three stores,
\* whole, and neither metadata nor the graph has other chunks of it: the
\* order of the calls, checksum last, survives any failure between them.
RecordedIsIndexed ==
    \A w \in Workspaces, f \in Files :
        LET u == DocUri(w, f)
            v == sums[<<w, f>>]
        IN Settled(w, f) => /\ rows[u] = Entries(v)
                            /\ GraphShows(u, v)
                            /\ Covers(vec, u, v)

\* As long as nothing has failed, no store keeps a chunk of an older text
\* once the document is recorded: stale chunks are cleaned out everywhere.
FaultFreeExact ==
    faults = 0 =>
        \A w \in Workspaces, f \in Files :
            Settled(w, f) => vec[DocUri(w, f)] = Entries(sums[<<w, f>>])

\* The graph never names a chunk the metadata store does not have, whatever
\* fails: expansion and explain can resolve every chunk the graph returns,
\* and the next ingest still lists, hence deletes, every stale graph chunk.
GraphChunksHaveRows ==
    \A u \in DocUris, i \in Idx : graph[u][i] # {} => rows[u][i] # NoVersion

\* What a call has been through is recorded: a document that it read and has
\* left behind carries the checksum of the text it read, so a call that
\* returns without error has indexed its whole snapshot.
PassedIsRecorded ==
    \A c \in Callers : \A f \in Files :
        LET r == run[c]
        IN /\ r.pc # "idle"
           /\ ~r.dry
           /\ r.snap[f] \in Versions
           /\ f \notin r.left
           /\ ~(r.pc \in Working /\ f = r.file)
           => sums[<<r.ws, f>>] = r.snap[f]

\* A document row never passes from one workspace to another: the ids of two
\* workspaces that index the same path never meet, old ids included.
DocOwnerIsStable ==
    [][\A u \in DocUris :
          docs[u] # NoDoc /\ docs'[u] # NoDoc => docs'[u].ws = docs[u].ws]_vars

\* The index of every file that has a text is the index of that text.
Current(w, f) ==
    disk[f] \in Versions =>
        LET u == DocUri(w, f)
        IN /\ sums[<<w, f>>] = disk[f]
           /\ rows[u] = Entries(disk[f])
           /\ GraphShows(u, disk[f])
           /\ Covers(vec, u, disk[f])

\* Once users stop editing, auto-ingest brings the index of every file to the
\* file's text and keeps it there, whatever calls failed on the way.
IndexCatchesUp ==
    <>[][disk' = disk]_disk =>
        \A a \in AutoIngests : \A f \in Files : <>[]Current(a[2], f)

=============================================================================
