# A TLA+ verification of memorygraph_mcp

`kb_mcp` is an MCP server that indexes the files of a repository into a vector
store, a metadata store and a graph, answers searches over them, and keeps a
memory of items per subject. This directory holds TLA+ models of the parts of it
where order, failure and concurrency decide what is true, the TLC
configurations that check them on small instances, and proofs of the safety
properties for every size. `src/` in paths below is the root of the repository,
`pipeline.py:146` a line of a file under `src/kb_mcp/`.

## How to run it

    tlc -workers 2 -config MCIngestion_faults.cfg MCIngestion.tla
    tlapm Ingestion_proofs.tla

`PROJECT.json` lists the runs, the mutations each property was seen to catch,
the lines every definition translates, the disagreements found, the hazards and
the theorems. Definitions named `X_Something` are mutants of the definition `X`
after them: plausible bugs, used only to show that a property can fail.

## The system

One server process holds all components (`bootstrap.py` builds and wires them).
FastMCP runs the synchronous tools one at a time on its event loop; the
auto-ingest service is a second thread that calls the ingestion pipeline. The
self-hosted deployment runs a second process, the Swagger API, on the same
SQLite, Qdrant and Neo4j, with a pipeline, locks and confirmation gate of its
own. The stores share no transaction: whatever spans two of them is kept
consistent by the order of calls alone.

| Component | State | Operations | Hard behaviour | What makes it correct |
|---|---|---|---|---|
| ingestion pipeline (`ingest/pipeline.py`) | workspace locks; everything else is in the stores | `ingest_filesystem`, `ingest_git_diff` | some nine store calls per document, each may raise; two threads, two processes; restarts | a recorded checksum vouches for a whole document in all stores; the index follows the files |
| auto-ingest (`ingest/auto_ingest.py`, `connectors/`) | stop event, thread, cycle counter | cycle, retry, start, stop | lock conflicts, missed changes, stopping in a cycle | every change is indexed in the end |
| memory service (`memory/service.py`) | items in three stores, idempotency records | upsert, search, delete | partial failure, retried requests, two processes | an id given to a client is stored; what was deleted stays deleted |
| confirmation gate (`security/confirmation.py`, `server/tools/memory.py`) | pending tokens with a time each | preview, confirm | expiry, stale previews, restart | a token works once, for what it was drawn for |
| circuit breaker (`middleware/circuit_breaker.py`) | state, failure count, time of last change | `allow_request`, `record_*` | recovery, the half-open probe | opens on failures in a row, closes again |
| rate limiter (`middleware/rate_limit.py`) | a token bucket per subject, workspace and tool | `is_allowed` | long call sequences near the limit | bounds what gets through, and does not starve a client |
| tool middleware (`server/helpers.py`) | none | `with_middlewares` | breaker and limiter in turn, exceptions | every call is answered, every result is reported to the breaker |
| graph stores (`storage/in_memory_graph.py`, `neo4j_store.py`) | chunk, entity and memory nodes, edges, mentions, access lists | upserts, `delete_chunks`, expansion, path, explain | nodes shared by workspaces, a dict rebuilt while another thread writes | expansion shows a subject only what it may see |
| vector stores (`in_memory_vector.py`, `qdrant_store.py`) | points with payloads | upsert, search, delete | batches, filters | search returns the nearest points the caller may see |
| metadata stores (`metadata_store.py`, `sql_metadata_store.py`) | documents, chunks, checksums, entities, memory, idempotency | one transaction per call | schema set-up by two processes | reads give what was last written |
| embedding providers (`ingest/embeddings.py`) | LRU cache, lazily loaded model | `embed_texts` | two threads load and evict | a text always gets its own vector |
| chunking (`ingest/chunking.py`) | none | `chunk_text` | windows, overlaps, boundaries, merging | the chunks are the text |
| entity extraction and index (`entity_extract.py`, `entity_index.py`, `backfill_entity_embeddings.py`) | entity rows and vectors | alias merge, backfill | read, merge and write without a lock, failures between three stores | what a chunk names can be found, and keeps its aliases |
| retrieval (`retrieval/`, `server/tools/search.py`) | none | expand, search, fuse, rerank, cite | stores written while a search reads them one after another, a graph that fails, limits | the answer's order is one its signals agree on; what is cited is what was ranked |
| query router (`router.py`, `execution_plan.py`) and route wrapper (`scripts/kb_route_wrapper.py`) | the plan's outputs so far | `kb_route`, then the plan's tools | refused and late calls, empty results, servers without `kb_route` | every step of the plan is done or has a reason, or the wrapper fails |
| access control (`security/acl.py`, `auth.py`, `oidc.py`, `redact.py`) | JWKS cache | resolve, verify, filter | key rotation while cached | unknown key refreshes the cache |
| the rest: configuration, transports, observability, installer, resources | counters, files | start-up and I/O | none of interest here | |

Interactions: tools -> middleware -> (pipeline | memory service | retrieval) ->
stores; auto-ingest thread -> pipeline -> stores; Swagger process -> its own
pipeline and memory service -> the same stores. Nothing calls back.

## What is modelled

### Ingestion (`Ingestion.tla`, `IngestionInv.tla`)

The pipeline, one action per store call. `run[c]` holds the locals of a call of
`ingest_filesystem`, its `pc` names the store call it is about to make.

| Code | Model |
|---|---|
| `ingest_filesystem`, `pipeline.py:122-144`: lock, read files | `Start` |
| `:146` skip an unchanged document; dry run | `Pass`, `Take` |
| `_doc_uri` and `put_doc` | `DocUri`, `PutDoc` |
| `list_chunks`, upsert of all vectors | `ListOld`, `UpsertVectors` |
| loop: `put_chunk`, `upsert_mentions` | `PutChunk`, `UpsertMentions`, `AfterChunk` |
| deletion of stale chunks in three stores | `DropVectors`, `DropGraph`, `DropRow` |
| `set_checksum`, end of the loop | `SetChecksum`, `Finish` |
| any call raising; `finally` releases the lock | `Fail`, `Leave` |
| a process stops; stores in memory are lost | `Crash` (constant `Durable`) |
| users edit files | `Edit` |

A text is a version number that cuts into `ChunkCount[v]` chunks; a store's
entry for a chunk is the version it was cut from. Documents an older release
left under an id without a workspace are in `LegacyDocs`.

Left out: entity rows, entity vectors and relations (they are `EntityIndex`'s), access
lists, and the contents of chunks. A file that is deleted or emptied keeps its
old chunks: the code passes such files over, and no property claims otherwise.

### Auto-ingest (`AutoIngest.tla`)

The thread of `AutoIngestService` and what it runs beside. `pc` is its place in
`_run_loop` ("wait", "woken"), `run_once` ("roots", "next") and `_ingest_root` ("try",
"ingest", "backoff"). `disk` is what the host makes of each root: a directory, none, or
one that cannot be looked at. `run_once` looks outside its `try`
(`auto_ingest.py:88-89`, `ListRoots`, `SkipRoot`, `TakeRoot`) and nothing above it
catches: what `resolve`, `exists` or `is_dir` raises (`LookRaises`) ends the thread
("dead") and the scans of every root, until the process is restarted; `Mount`
changes the disk at any time. A call of the pipeline is three actions here (`TakeLock` or
`FindLockHeld`, then `IngestReturns` or `IngestRaises`): `Ingestion` has what it
does to the stores. The summary's counters appear as each root's `result`.
`_cycle_index` is kept modulo `FullInterval`, all it is used for. `Restart` is the
end of the process, which the daemon thread does not survive, and the start of
the next. `raised`, `gap` and `late` are history. The order of the roots is left
open, and what a scan finds is left to `Ingestion`: a git-diff scan that names
nothing, as when git fails (`connectors/git.py:21-24`), is a call that returns.

### Gateway (`CircuitBreaker.tla`, `RateLimiter.tla`, `Gateway.tla`)

What a tool call passes. Breaker and limiter hold a lock for the whole of each
method, so each method is one step; `allow_request` and `is_allowed` are two
actions each, for the two answers. `Gateway` extends both and adds the calls
(`with_middlewares`) and the stores going down and up. Time is counted in ticks,
in each bucket and in the breaker no further than a comparison can tell
(`Recovery + 1`, `Cap`). Tokens are counted in parts: a call costs `Cost`, a
tick yields `Rate`, so rates are any rational; the code's floating point is not
modelled. `recent[k][d]` is a history variable: the calls admitted in the last
`d` ticks and the current one.

### Memory (`Memory.tla`, `MemoryInv.tla`)

The memory of one subject in one workspace: `MemoryService.upsert` and `delete`,
one action per store call, and the confirmation gate and tool in front of
delete. `call[p]` is the call process `p` handles; `pending[t]` what a gate keeps
for a token. A result is recorded (`Remember`) before it is given (`Reply`): a
process that stops or whose reply is lost between the two leaves a record no
client has seen, and a repeated request is answered with it (`AnswerAgain`).
`acked`, `results`, `overlapped`, `targeted` and `gone` are history: ids returned
to clients, results returned per request, keyed requests that two processes stored
at once (each then records its own result, the later for good), ids a delete has
set out to remove, ids a returned delete has removed. A request stands for its idempotency key and
its items together, as the service's hash does. Search changes no state; what it
can find is stated on `vec` and `meta` directly (it falls back from vectors to
rows).

### Graph store (`KnowledgeGraph.tla`, `GraphStore.tla`)

`KnowledgeGraph` is what the tools rely on: a graph per workspace, in which links
join nodes, to which a call adds or from which it takes documents' chunks or
memory items. `GraphStore` is the stores' calls, one action each
(`upsert_entity_relations` one per relation, as Neo4j runs it): nodes found by key,
`owner` and `acl` their properties, `edge` the edges of each part of the key space.
The refinement mapping is `GraphOf`. A key is a URI and a slot. In Neo4j the slot
is the workspace (`MERGE (e:Entity {uri: ..., workspace_id: ...})`), which
`Scoped` says; the in-memory store has one slot for all, and there an entity goes
to the workspace that stored it last (`in_memory_graph.py:205`), which the
properties exclude: they are claimed for Neo4j, and for the in-memory store with
one workspace. `indexed` is history: what chunks were stored with. `Shown` is the
set of links expansion can follow, whatever its depth, limit and seeds, with
`KB_GRAPH_ENFORCE_OBJECT_ACL` on. Neo4j has no uniqueness constraint on these
keys, so two MERGEs at once can make two nodes of one key; calls are atomic here.

### Search (`Router.tla`, `Search.tla`)

One `kb_search`, a step per call of a store, while ingestion writes the stores.

| Code | Model |
|---|---|
| `search.py:42-70`: limits, memory bonus, route | `Ask`, `MemoryBonus`, `Route` |
| `query_expand.py:27` | `Expand`, `Expands` |
| `qdrant_store.py:122-206`, `acl.py:31`: filters, the `top_k` nearest | `SearchChunks`, `Matches`, `EffectiveFilters`, `Nearest` |
| `hybrid.py:69-85`: graph search, or any exception of it | `SearchGraph`, `GraphFails` |
| `hybrid.py:91-150`, `fusion.py`: both fusions | `Total`, `RrfScore` |
| `rerank.py:53-97`, `hybrid.py:153-176` | `Reranked`, `Ranked` |
| `search.py:91-104`, `evidence.py`: rows, one by one | `Cite`, `Evidence` |
| `pipeline.py:247-316`: point before row, to store and to drop | `StoreVector`, `StoreRow`, `DropVector`, `DropRow` |
| a store call raising, a process stopping between the two | `GivesUp` |

Scores are tenths; reciprocal ranks are counted in parts of `RankUnit`, a multiple
of 61, 62 and 63, so that sums are exact. A text stands for all texts that score
alike; similarity, overlap and relevance are tables of the instance. Equal scores
of the vector store come in any order; the code's own sorts are stable,
and stated as `Arranged`: the k-th member is the one with k - 1 before it. The
writers are threads of any processes (`Writers`), which no lock keeps apart: `work`
has the jobs between point and row, each with its writer and the text this writer
cut, and the row becomes that text whatever the point is by then. So two writers of
one chunk, or one that gives up, can leave a point of one text beside a row of
another for good; such chunks are in `torn`, until one write alone begins again. `visible`
and `disturbed` are history as well: what the vector search chose from, and the
chunks torn or half written then or written since.
The graph is any of the results in `GraphFinds`: what it may find is `GraphStore`'s.

### Route wrapper (`RouteWrapper.tla`)

Extends `Search` by the client that asks `kb_route` for a plan and carries it out.
`wrap` holds the locals of `execute_pipeline`; the stdio version
(`kb_route_wrapper.py:392`) is the same loop behind `Connects`. A call of
`kb_search` is the search above (`CallSearch`, `SearchReplies`); the other tools'
calls are one step (`CallTool`). `FirstNames` is the loop of both `_collect_`
functions: names in the order of their first place, up to a limit. `Raises` is a refused, failed or late call: the
search it gave up goes on in the server.

### Entity index (`EntityIndex.tla`)

Ingestion again, for what `Ingestion` leaves out: extraction from the matches of
the patterns on, which a chunk's text gives in their order with their places
(`EntitiesOf` by first mentions, `AliasesOf`, `RelationOf`: the nearest entity on
either side of a relation word), `GetEntity`, `Merged`, `PutEntity` per entity, `UpsertEntities`,
`PutChunk` and `UpsertRelations` per chunk, `DropStale` per stale row; the migration of the entity table
(`Migrate`), and the backfill (`ListEntities`, `FillBatch`, `EndFill`). `run[<<p, w>>]`
is the run of process `p` for workspace `w`: the pipeline's lock holds within a process
(`pipeline.py:50`), so two processes may read, merge and write one entity row at once,
and the later write drops the aliases the earlier one added. Such rows are in the
history `raced`, for which `AliasesKept` claims nothing. A database may be one of an
earlier release, with entity and chunk rows and no entity vectors; `age` says which
release a chunk row is of. An old chunk's entities have vectors once a backfill has
ended that found their rows (`filled`), not before: an unchanged document is skipped.
Stores in memory belong to one process (`InMemory`, `Alone`) and are empty after
`Restart`; rows that survive one whose vectors do not have the age "lost", and nothing is
claimed of their vectors. Nor are a run's mentions modelled, which `GraphStore` has.
A row stands for its terms, name and aliases. `kind` is the metadata store: SQL keeps a row for
each workspace, the one in memory a row for each URI. `get_entity` asks by URI
alone (`sql_metadata_store.py:184`), so `RowsOf` has the rows of all workspaces: two
workspaces that name one entity merge each other's aliases, and either may drop
its own. No property claims otherwise (`Unshared`).

### Chunking and embeddings (`Chunking.tla`, `Embedder.tla`)

`Embedder` has both providers as two threads use them: the LRU cache, `get` in the
two steps between which another thread can push the entry out (`Lookup`,
`Touch`, which then raises), the model that the first caller loads while others go
on without it (`EnsureModel`, `LoadModel`), batches, and the fallback. A vector is
the text it is of and what it was made by: query and passage vectors of one text
share a cache entry, and so do those of the fallback for a query; the code keeps
no difference, and no property claims one. `set` is `Keep`, `Move` and, for each turn
of its loop, `Trim` and `Pop`: its `move_to_end` can raise as that of `get` does, and
the cache is above its limit by as many entries as there are threads inside `set`.
Texts are sequences of symbols. `Chunking` extends it by a document that is cut and
embedded: where sentences, lines and definitions end is given with a document,
which sentences are unlike is any choice. `Blocks` and `Similarities` set where blocks
may end, `NextBlock` takes the next one, `Window` is one turn of the loop of
`_char_chunks`; `Cut` ends the blocks, and `Merge` and `Merged` join neighbours one
chunk at a time in the semantic and code modes.

## Runs

| Run | Instance | Shows |
|---|---|---|
| `ingest_faults` | 2 workspaces, 1 path left over from an older release, 2 texts of 2 and 1 chunks, 2 callers, 2 faults | a settled document is whole in every store (`RecordedIsIndexed`), exactly so without faults (`FaultFreeExact`); the graph never names a chunk that has no row; a call leaves behind only recorded documents; locals tell the truth (`LocalsTellTruth`, the core of the inductive invariant); a document's owner never changes |
| `ingest_catchup` | 1 workspace, 2 files, 3 texts, auto-ingest and a tool, 1 fault, fair | once edits stop the index of every file becomes and stays that of its text (`IndexCatchesUp`), if no file returns to an older text |
| `ingest_revert` (violated) | 1 file, any edit, auto-ingest, 1 fault, fair | a failed reindex followed by putting the file back is never repaired: the checksum matches, `pipeline.py:146` skips it |
| `ingest_processes` (violated) | 2 processes, no fault | the workspace lock does not reach the Swagger process; interleaved ingests leave an index later scans skip |
| `autoingest_cycles` | 2 roots, one of which never can be ingested, either a directory or not or not to be looked at, 3 attempts, every 3rd cycle full, 2 faults, fair | a root is given up exactly when all attempts raised and none is left out (`CycleAccounts`); a full scan is always due (`FullScanIsDue`); at most one cycle begins after `stop()`; while the root that works is a directory and no look at a root has ended the thread, it is scanned in full again and again (`FullScansGoOn`) |
| `gateway_calls` | 2 tools, 1 call at a time, threshold 2, recovery 2, burst 2, rate 1/2, windows up to 3 | the breaker's state and count agree; nothing is behind an open circuit; the limit holds over every window; waiting pays; once nothing raises the circuit closes for good and every tool that is called is served |
| `gateway_denied` (violated) | the same | a stopped call of a tool whose output has required fields raises instead of returning `RATE_LIMITED` or `UPSTREAM_UNAVAILABLE` |
| `memory_stores` | 2 processes, a keyed request of 1 item and a plain one of 2, 2 ids, 2 tokens, expiry 1, 1 fault | acknowledged items are stored; deleted ones stay gone; listed ones are searchable; results given are on record, a record nobody was given is stored all the same, and unless two processes stored for one key at once a repeated request gets the one result (`AckedIsRemembered`) |
| `graph_neo4j` | 2 workspaces, 2 chunks of 1 document, 1 entity, 2 memory items, 2 subjects | the store is a graph per workspace (`IsGraphPerWorkspace`, the refinement); what a chunk was stored with stays reachable by expansion until that chunk is deleted (`IndexedIsReachable`) |
| `query_flow` | 3 chunks of 2 workspaces and subjects, 2 texts, both fusions, with and without reranker and expansion, 2 writers, 1 write during the search beside work left half done or torn, graph failures, 4 intents, both transports | the answer keeps every order all its signals agree on, through three limits and without the graph when it says so (`AgreedOrderKept`); a result cites the text it was ranked for, or its chunk is being written or was left unsettled (`CitesWhatItRanked`); a plan is carried out, skipped for a reason or given up (`PlanCarriedOut`, `Ends`); the two routings agree (`RouteAndSearchAgree`) |
| `entity_index` | 2 processes, 2 workspaces, 3 entities, documents of 1 and 2 chunks, entity and chunk rows of an older release, batches of 2, 2 ingestions and any failure, restarts of stores in memory, a backfill | an entity a chunk names has its vector and row, whatever failed, one that only an old chunk names after its backfill (`NamedIsFindable`); aliases are kept where one workspace stores an entity and no two processes merged it at once (`AliasesKept`); a finished backfill left no row out (`BackfilledIsIndexed`) |
| `chunk_embed` | 4 documents of 2 to 8 symbols in 4 modes, windows of 3 with an overlap of 1, both providers, a cache of 2 that is empty or full, batches of 2, a query meanwhile, fair | chunks are the text, cut only where it must be (`ChunksTile`); vectors are of their texts, and the cache exceeds its bound only by threads inside `set` (`OwnVectors`); a document is stored or fails (`Finishes`) |

### Bounds

`MaxFaults` bounds failed store calls and crashes together: two are enough for a
failure while the damage of an earlier one is still there, one for each liveness
run, since recovery from one failure is the same from any state it can leave.
`MaxChunks` is 2: a document can grow, shrink and be rewritten in place, and has a
first, a last and a stale chunk. Texts are two or three: the recorded one, the
one being written and one to revert to. Two callers (or processes) are what a
race needs. `Ids` and `Tokens` bound what can be drawn in a behaviour: two items
under way at once, two deletes under way at once. `Horizon` is 3, longer than the
2 ticks that fill a bucket for one call; `Threshold` 2 tells the first
failure from the last, `Recovery` 2 a refused from a probing call. In
`graph_neo4j` every text mentions the entity (`Texts`): two workspaces, chunks,
subjects and memory items share it, which is what the properties are about.
In `query_flow` the corpora it
starts from hold a chunk that is half stored, half dropped or torn, so one write during a
search (`MaxWrites`), by the writer at work or another, meets work under way; three chunks are what two limits
can cut differently. In `entity_index` two runs (`MaxRuns`) are two workspaces at
once, two processes in one workspace, or a run and its repetition; the old rows are
one that a new text names too and one without a term. In `chunk_embed` documents have a repeated
sentence, one longer than a window, and a blank tail; one query (`MaxQueries`)
meets an embedder that is new or has answered `Earlier` ones, so that it can push out
the entry the other thread has just found.
Symmetry is used only in runs of invariants and of action properties, over
values the models do not tell apart.

### Fairness

* `Step(c)` of every caller is weakly fair: a thread inside `ingest_filesystem`
  goes on, every store call returns or raises.
* `Start` of auto-ingest with all files is strongly fair: a lock that is free
  again and again is taken by a full scan at some time. `AutoIngest` shows where
  this comes from and what it rests on: with no more than weak fairness of the
  thread, full scans go on for ever (`FullScansGoOn`), provided that tool calls at
  last leave the workspace alone, that the root stays a directory, and that the
  thread lives: one look at a root that raises ends it for good. A stream of tool calls that holds the lock at
  every attempt would starve them; the code has no queue that prevents it.
* In `AutoIngest` the thread is weakly fair while it lives: it is scheduled, sleeps and waits
  end, calls of the pipeline return or raise.
* In `Gateway` what was begun is worked on, time passes, and clients call every
  tool again and again: `docs/runbook.md` presumes that traffic goes on, and the
  breaker can only recover on a call.

* In `RouteWrapper` the wrapper goes on once it is connected: its HTTP and stdio
  calls have read timeouts. `initialize` and `tools/list` of a stdio child have
  none (`kb_route_wrapper.py:424`), so `Ends` starts after them. Nothing is assumed
  of the server.
* In `Chunking` the ingester's thread is weakly fair: loading a model and encoding
  a batch end or raise. Nothing is assumed of the server's thread.

No fairness is assumed of failures, edits, crashes or of the stores coming back:
`Recovers` and `ServesAgain` presume that calls stop raising.

## What is proved

TLAPS checks these for every value of the constants that the named assumptions
allow.

`Ingestion_proofs`: type correctness, and `RecordedIsIndexed`,
`GraphChunksHaveRows`, `PassedIsRecorded` and `LocalsTellTruth` from `IndexInv`, for
any workspaces, files, texts, callers and failures. Two assumptions carry them: `SingleProcess` (one process ingests; `ingest_processes` shows what two do)
and `SharedFate` (all stores survive a restart, or metadata and graph are lost
together). SQLite beside a graph and vectors in memory is not of that kind: after a
restart the checksums hide that the index is gone (`pipeline.py:146`). None of the
first three is inductive: whether a document is whole when its checksum is recorded depends
on what the call's locals say of the stores. `LocalsTellTruth` says it per
control point (the stale list is the rows past the last chunk, the vectors
written are the text's, the chunks before the loop's are in place), and
`LockHeld` is why no other call can spoil it. `FaultFreeExact` (a settled
document has the vectors of its chunks and no others) needs only `SingleProcess`:
before the first fault no process has stopped, so `SharedFate` is not called upon.
`ExactInv` adds to `IndexInv` that a vector without a row is one whose chunk a call is
about to write (`VectorsHaveRows`), and that a vector past the text's last chunk is
on the call's stale list until it is dropped (`StaleVectors`). `OwnerSafety` needs neither
assumption: a scoped id embeds its workspace, and a legacy id is used only by
its owner.

`AutoIngest_proofs`: type correctness, `CycleAccounts`, `FullScanIsDue` and
`OneLateCycle` for any roots, attempts, interval and number of failures. In
`AutoInv` the calls that raised are one per attempt made, every root of a cycle is
still due, at work or accounted for, and the cycles since the last full scan are
no more than the index, which is below the interval.

`Gateway_proofs`: type correctness, `TrippedIffFailing`, `RateBound` and
`WaitIsPaid` for any threshold, recovery, burst, rate, cost, window and number of
concurrent calls; `OpenMeansNoneInside` for one call at a time (with two it is
false: a success that began before the outage, or a call let through before the
circuit opened, is behind it). `RateBound` follows from `Spent`: what a key got through
and what it has available never exceed the burst and the window's yield together.

`Memory_proofs`: type correctness and all four safety properties for any
processes, requests, ids, tokens and failures. `StoreInv` is the invariant: before
an item's row is written nothing but its own upsert knows the id (`Unknown`), so
no delete can target it and no write can bring back what a delete removed; from
then on a delete removes vectors first and rows last (`Removed`). For keyed
requests it has what is on record (`RecordedIsStored`, `GivenIsRecorded`) and, per
call, that a result is on record before it is given (`CallsRecorded`), whoever is given it.

`GraphStore_proofs`: type correctness; and, under `Scoped`, `IndexedIsReachable` and
the refinement `IsGraphPerWorkspace`, for any workspaces, texts and subjects. The
invariant is that a slot holds nodes of its own workspace only (`OwnSlot`) and
that no edge lacks an end (`NoneDangling`). Every call is first shown to have one
of two shapes, `Grows` or `Shrinks`; the invariant and the refinement follow from
the shape alone.

`EntityIndex_proofs`: `NamedIsFindable`, `AliasesKept` and `BackfilledIsIndexed` for any
processes, workspaces, entities, aliases, texts, old entity and chunk rows, batch size
and number of runs. They need to know what a run has done so far: it is within its
text (`Position`); what it has stored of each chunk is in its batch and, in SQL, in the
rows, with all aliases where nobody else writes the row (`StoredIsKept`); what it
has read of such a row is all there is (`OwnRowFound`); vectors are there before chunk
rows are written (`VectorsFirst`); and what a backfill has behind it has a vector (`FillIndexes`). Relations are shown
to join two different entities of their chunk (`RelationsJoinTwo`) by what
extraction computes, not from the table of texts.

`Chunking_proofs`: `OwnVectors` and `ChunksTile` for any documents, queries, cache
size, batch limit, window and overlap, under `WindowAssumption` (the overlap is
smaller than the window, as the pipeline's 120 of 800 is: otherwise `_char_chunks`
would not move on; one thread ingests, one serves), `DocumentAssumption` (sentences
end in order, the last one at the end) and `EmbedderAssumption`. `CallOK` relates a
call's positions, its misses and the vectors made for them; the cache's bound
counts each thread inside `set` once: between `Keep` and `Move` by the text it has
just put there (`Fresh`), afterwards by itself (`Trimming`). For chunks, `Tile` says
that those so far cover the text so far, and `Whole` that every unit so far that
fits is in one of them; both are kept by windows and by joining.

`RouteWrapper_proofs`: type correctness, `AgreedOrderKept`, `CitesWhatItRanked`,
`PlanCarriedOut` and `RouteAndSearchAgree`, for any finite set of chunks, any texts,
scores from 0 to 10, limits, corpora, graph results, requests, markers and wrapper configurations.
`CorpusAssumption` says what ingestion can have left (a chunk's row is its point's
text unless one writer is between the two or the chunk is torn, and `CorpusOK` stays
true), `ScoreAssumption` that `RankUnit` makes reciprocal
ranks whole numbers, `ConfigAssumption` that the wrapper's limits are at least 1, as
`main()` makes them. The argument about order: a sort that is stated by how many
members come before each is a permutation that respects its scores (`Arranged`), so
fusion and reranking only permute the hits, and each keeps the order of two hits on
which its scores and the one before agree; each limit then takes a prefix, and
`NearestFirst` says that the vector search's own limit left out nothing nearer.
`Current` carries what the rows say from the vector search to the citation, but for
chunks disturbed since. The plan's part is `Progress` (the tools before the current
place are those answered or skipped) and `Outcomes` (what each of them implies).

Only model-checked: all liveness (`IndexCatchesUp`, `FullScansGoOn`, `Recovers`,
`ServesAgain`, `Ends`, `Finishes`), since the prover has no reasoning about fairness or
`ENABLED`; and every violation, which is a behaviour of an instance.

## What the runs disagree with

Three, listed with their quotations in `PROJECT.json` under `findings`: reverted
files after a failed reindex, the lock of one process, and denied calls that
raise.

## Plan

1. The entity index beside the graph store: relations and mentions as `GraphStore`
   keeps them, under the ingestion of `EntityIndex`.
2. `GraphStore` for the in-memory store: a run with one slot for all workspaces,
   and deletion in two steps against a thread that stores.
3. `JwksCache` of `oidc.py`: a key rotated while it is cached.

## What is not modelled, and why

Transports, metrics, tracing, audit, configuration, installer, benchmarks and the
other scripts do I/O or wire objects once. Prompts, resources, `kb_graph_expand`,
`kb_explain` and `kb_health` read stores and lay out what they read. Token
verification and TLS belong to libraries. Patterns, stop words and marker words are
wording: what they match is data of the models. Floating point is not modelled;
scores that differ in the last bit may be ordered otherwise. Stores are modelled
by the effect of one call at a time: SQLite and Neo4j run each in a transaction; the
in-memory graph's `delete_chunks` is not atomic against another thread (the plan
takes it up).
