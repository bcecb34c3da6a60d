------------------------------ MODULE EntityIndex ------------------------------
(***************************************************************************)
(* Entities: how ingestion extracts them from a document's chunks          *)
(* (ingest/entity_extract.py), merges their aliases into the entity rows,  *)
(* and indexes them for search (ingest/pipeline.py, entity_index.py), and  *)
(* the backfill that indexes rows from before there was an index           *)
(* (backfill_entity_embeddings.py).  Runs share the stores.  A process has *)
(* one lock for each workspace, which another process does not see: two    *)
(* processes may ingest one workspace at once.  The backfill is a process  *)
(* of its own and takes no lock.                                           *)
(*                                                                         *)
(* One document per workspace.  The database may be one of an earlier      *)
(* release, with entity and chunk rows and without entity vectors.  Stores *)
(* in memory belong to one process and are empty after a restart.          *)
(*                                                                         *)
(* A row stands for its terms: its name and its aliases.  Patterns, stop   *)
(* words and minimal lengths are left out: a chunk is given by the matches *)
(* that remain, in the order of the text, and by its relation words.       *)
(***************************************************************************)
EXTENDS Integers, Sequences, FiniteSets

CONSTANTS
    Processes, Workspaces, Entities, Aliases,
    NoRow,        \* where there is no row, no vector
    Texts,        \* documents: sequences of chunks
    MaxChunks,    \* the length of the longest
    OldRows,      \* entity rows of an earlier release: workspace -> entity -> row
    OldNames,     \* what its chunk rows name: workspace -> chunk -> entities
    BatchSize,    \* --batch-size
    MaxRuns       \* bound: ingestion runs

Matches == [uri : Entities, alias : Aliases, from : Nat, to : Nat]
Triggers == [rel : STRING, from : Nat, to : Nat]
ChunkTexts == [matches : Seq(Matches), triggers : SUBSET Triggers]

ASSUME EntityAssumption ==
    /\ BatchSize \in Nat \ {0} /\ MaxChunks \in Nat /\ MaxRuns \in Nat
    /\ \A terms \in SUBSET Aliases : NoRow # terms
    /\ OldRows \subseteq [Workspaces -> [Entities -> (SUBSET Aliases) \cup {NoRow}]]
    /\ OldNames \subseteq [Workspaces -> [1..MaxChunks -> SUBSET Entities]]
    /\ IsFiniteSet(Entities)
    /\ Texts \subseteq Seq(ChunkTexts)
    /\ \A t \in Texts : Len(t) \in 1..MaxChunks

VARIABLES
    kind,      \* metadata store: "old" or migrated SQL tables, or "memory"
    volatile,  \* whether the vectors are in memory
    row,       \* row[w][e]: terms of the entity row, or NoRow
    vec,       \* vec[w][e]: terms of the entity's vector, or NoRow
    chunk,     \* chunk[w][i]: the i-th chunk row, see NoChunk
    edge,      \* edge[w]: relations put into the graph, beside these vectors
    run,       \* run[<<p, w>>]: the ingestion of w's document by p, see Idle
    fill,      \* the backfill, see NoFill
    runs,      \* number of runs started
    filled,    \* history: <<w, e>> a finished backfill found a row of
    raced      \* history: <<w, e>> two processes merged at once

vars == <<kind, volatile, row, vec, chunk, edge, run, fill, runs, filled, raced>>

-----------------------------------------------------------------------------
(* Extraction.  A chunk has matches: [uri, alias, from, to], and triggers:  *)
(* [rel, from, to], the words that state a relation.                        *)

Uri(ch, i) == ch.matches[i].uri

\* The matches whose entity is not mentioned before.
FirstMentions(ch) == {i \in DOMAIN ch.matches : \A j \in 1..(i - 1) : Uri(ch, j) # Uri(ch, i)}

\* extract_entities
EntitiesOf(ch) == {Uri(ch, i) : i \in FirstMentions(ch)}

\* extract_entity_aliases
AliasesOf(ch, e) == {ch.matches[i].alias : i \in {j \in DOMAIN ch.matches : Uri(ch, j) = e}}

Abs(n) == IF n < 0 THEN -n ELSE n

\* The entity of the nearest match, among those near enough; the first of
\* equals.
NearestOf(ch, distance, max) ==
    LET near == {i \in DOMAIN distance : distance[i] \in 0..max}
        best(i) == \A j \in near : \/ distance[i] < distance[j]
                                   \/ distance[i] = distance[j] /\ i <= j
    IN {Uri(ch, i) : i \in {j \in near : best(j)}}

\* Distance of a match from the start of a trigger.
Off(match, t) ==
    IF Abs(match.from - t.from) < Abs(match.to - t.from)
    THEN Abs(match.from - t.from) ELSE Abs(match.to - t.from)

\* extract_entity_relations for one trigger: the entities next to it on
\* either side, or else the two nearest ones, if they are different.
RelationOf(ch, t) ==
    LET m == ch.matches
        left == NearestOf(ch, [i \in DOMAIN m |-> t.from - m[i].to], 220)
        right == NearestOf(ch, [i \in DOMAIN m |-> m[i].from - t.to], 220)
        first == NearestOf(ch, [i \in DOMAIN m |-> Off(m[i], t)], 240)
        others == {i \in DOMAIN m : Uri(ch, i) \notin first}
        second == NearestOf(ch, [i \in others |-> Off(m[i], t)], 240)
        pairs == IF left # {} /\ right # {} /\ left # right THEN left \X right
                 ELSE first \X second
    IN {<<p[1], t.rel, p[2]>> : p \in pairs}

RelationsOf(ch) == UNION {RelationOf(ch, t) : t \in ch.triggers}

-----------------------------------------------------------------------------
NoBatch == [e \in Entities |-> NoRow]

\* A chunk row: the aliases it names its entities by; and whether it is of
\* the earlier release, is "new", or is from before the vectors were "lost".
NoChunk == [names |-> [e \in {} |-> {}], age |-> "none"]

OldChunk(named) == [names |-> [e \in named |-> {}], age |-> "old"]

\* stale: the stored chunks that the text no longer has.
Idle == [pc |-> "idle", text |-> <<>>, c |-> 1, todo |-> {}, e |-> NoRow,
         found |-> {}, batch |-> NoBatch, stale |-> {}]

NoFill == [pc |-> "idle", ws |-> NoRow, seen |-> NoBatch, left |-> {}]

Jobs == Processes \X Workspaces

Init ==
    /\ kind \in {"old", "memory"} /\ volatile \in BOOLEAN
    /\ IF kind = "old"
       THEN /\ row \in OldRows
            /\ chunk \in {[w \in Workspaces |-> [i \in 1..MaxChunks |-> OldChunk(named[w][i])]] :
                             named \in OldNames}
       ELSE /\ row = [w \in Workspaces |-> NoBatch]
            /\ chunk = [w \in Workspaces |-> [i \in 1..MaxChunks |-> NoChunk]]
    /\ vec = [w \in Workspaces |-> NoBatch]
    /\ edge = [w \in Workspaces |-> {}]
    /\ run = [j \in Jobs |-> Idle]
    /\ fill = NoFill
    /\ runs = 0
    /\ filled = {} /\ raced = {}

\* SQLMetadataStore.__init__: the entities table gets the workspace in its
\* key; the rows are copied in one transaction.
Migrate ==
    /\ kind = "old"
    /\ kind' = "sql"
    /\ UNCHANGED <<volatile, row, vec, chunk, edge, run, fill, runs, filled, raced>>

StoresUnchanged == UNCHANGED <<kind, volatile, row, vec, chunk, edge, fill, runs, filled, raced>>

InMemory == kind = "memory" \/ volatile

\* No other process has a run: stores in memory belong to one.
Alone(p) == \A k \in Jobs : run[k].pc # "idle" => k[1] = p

\* p takes its lock of w, if no run of its own has it, for a new or changed
\* document, or one whose last run failed; and lists its chunks.
Start(p, w, t) ==
    LET j == <<p, w>>
        stored == {i \in 1..MaxChunks : chunk[w][i].age # "none"}
    IN /\ kind # "old" /\ run[j].pc = "idle" /\ runs < MaxRuns
       /\ InMemory => Alone(p)
       /\ runs' = runs + 1
       /\ run' = [run EXCEPT ![j] = [Idle EXCEPT !.pc = "get", !.text = t,
                       !.todo = FirstMentions(t[1]), !.stale = stored \ DOMAIN t]]
       /\ UNCHANGED <<kind, volatile, row, vec, chunk, edge, fill, filled, raced>>

Chunk(j) == run[j].text[run[j].c]

\* The rows that get_entity can return: it asks for the URI alone, of
\* whichever workspace.
RowsOf(e) == {row[v][e] : v \in {u \in Workspaces : row[u][e] # NoRow}}

\* The chunk's next entity, in the order of their first mentions.
GetEntity(j) ==
    /\ run[j].pc = "get"
    /\ \E i \in run[j].todo :
         /\ \A k \in run[j].todo : i <= k
         /\ \E found \in IF RowsOf(Uri(Chunk(j), i)) = {} THEN {{}} ELSE RowsOf(Uri(Chunk(j), i)) :
              run' = [run EXCEPT ![j].pc = "put", ![j].todo = @ \ {i},
                                 ![j].e = Uri(Chunk(j), i), ![j].found = found]
    /\ StoresUnchanged

\* Mutant: the aliases of the text replace those of the row.
Merged_Replaces(j, e) == AliasesOf(Chunk(j), e)

\* _merge_aliases
Merged(j, e) == run[j].found \cup AliasesOf(Chunk(j), e)

\* Another run has read the row that j is about to write.
Racing(j) ==
    \E k \in Jobs \ {j} : k[2] = j[2] /\ run[k].pc = "put" /\ run[k].e = run[j].e

\* put_entity: SQL keeps a row for each workspace, memory one for the URI.
PutEntity(j) ==
    LET w == j[2]
        e == run[j].e
        batch == [run[j].batch EXCEPT ![e] = Merged(j, e)]
    IN /\ run[j].pc = "put"
       /\ row' = [v \in Workspaces |->
                    IF v = w THEN [row[v] EXCEPT ![e] = Merged(j, e)]
                    ELSE IF kind = "memory" THEN [row[v] EXCEPT ![e] = NoRow]
                    ELSE row[v]]
       /\ run' = [run EXCEPT ![j].pc = "get", ![j].e = NoRow, ![j].found = {},
                             ![j].batch = batch]
       /\ raced' = IF Racing(j) THEN raced \cup {<<w, e>>} ELSE raced
       /\ UNCHANGED <<kind, volatile, vec, chunk, edge, fill, runs, filled>>

\* All entities of a chunk are stored: on to the next chunk.
NextChunk(j) ==
    LET c == run[j].c
        more == c < Len(run[j].text)
    IN /\ run[j].pc = "get" /\ run[j].todo = {}
       /\ run' = [run EXCEPT ![j].pc = IF more THEN "get" ELSE "index",
                    ![j].c = IF more THEN c + 1 ELSE 1,
                    ![j].todo = IF more THEN FirstMentions(run[j].text[c + 1]) ELSE {}]
       /\ StoresUnchanged

\* Mutant: only the last chunk's entities are indexed.
Records_LastChunk(j) ==
    [e \in Entities |->
        IF e \in EntitiesOf(run[j].text[Len(run[j].text)]) THEN run[j].batch[e] ELSE NoRow]

\* entity_vector_records over indexed_entities: all with terms.
Records(j) == [e \in Entities |-> IF run[j].batch[e] = {} THEN NoRow ELSE run[j].batch[e]]

Indexed(old, records) ==
    [e \in Entities |-> IF records[e] = NoRow THEN old[e] ELSE records[e]]

\* upsert_entities, after the chunks' own vectors.
UpsertEntities(j) ==
    /\ run[j].pc = "index"
    /\ vec' = [vec EXCEPT ![j[2]] = Indexed(@, Records(j))]
    /\ run' = [run EXCEPT ![j].pc = "rows"]
    /\ UNCHANGED <<kind, volatile, row, chunk, edge, fill, runs, filled, raced>>

\* put_chunk
PutChunk(j) ==
    /\ run[j].pc = "rows"
    /\ chunk' = [chunk EXCEPT ![j[2]][run[j].c] =
                    [names |-> [e \in EntitiesOf(Chunk(j)) |-> AliasesOf(Chunk(j), e)],
                     age |-> "new"]]
    /\ run' = [run EXCEPT ![j].pc = "edges"]
    /\ UNCHANGED <<kind, volatile, row, vec, edge, fill, runs, filled, raced>>

\* The chunk's mentions (see GraphStore), and upsert_entity_relations.
UpsertRelations(j) ==
    /\ run[j].pc = "edges"
    /\ edge' = [edge EXCEPT ![j[2]] = @ \cup RelationsOf(Chunk(j))]
    /\ run' = [run EXCEPT ![j].c = @ + 1,
                          ![j].pc = IF run[j].c < Len(run[j].text) THEN "rows" ELSE "stale"]
    /\ UNCHANGED <<kind, volatile, row, vec, chunk, fill, runs, filled, raced>>

\* delete_chunk for one that the document no longer has.
DropStale(j) ==
    /\ run[j].pc = "stale"
    /\ \E i \in run[j].stale :
         /\ chunk' = [chunk EXCEPT ![j[2]][i] = NoChunk]
         /\ run' = [run EXCEPT ![j].stale = @ \ {i}]
    /\ UNCHANGED <<kind, volatile, row, vec, edge, fill, runs, filled, raced>>

EndRun(j) ==
    /\ run[j].pc = "stale" /\ run[j].stale = {}
    /\ run' = [run EXCEPT ![j] = Idle]
    /\ StoresUnchanged

\* A store raises, or the process stops: the text is ingested again later.
Fail(j) ==
    /\ run[j].pc # "idle"
    /\ run' = [run EXCEPT ![j] = Idle]
    /\ StoresUnchanged

\* What is in memory is lost, and nothing is under way in the new process.
Restart ==
    /\ InMemory
    /\ run' = [j \in Jobs |-> Idle]
    /\ row' = IF kind = "memory" THEN [w \in Workspaces |-> NoBatch] ELSE row
    /\ vec' = IF volatile THEN [w \in Workspaces |-> NoBatch] ELSE vec
    /\ edge' = IF volatile THEN [w \in Workspaces |-> {}] ELSE edge
    /\ chunk' = [w \in Workspaces |-> [i \in 1..MaxChunks |->
                    IF kind = "memory" THEN NoChunk
                    ELSE IF chunk[w][i].age = "new" THEN [chunk[w][i] EXCEPT !.age = "lost"]
                    ELSE chunk[w][i]]]
    /\ UNCHANGED <<kind, volatile, fill, runs, filled, raced>>

-----------------------------------------------------------------------------
\* The backfill lists the rows of a workspace once.  It cannot reach vectors
\* in the memory of another process.
ListEntities(w) ==
    /\ kind = "sql" /\ ~volatile /\ fill.pc = "idle"
    /\ fill' = [pc |-> "filling", ws |-> w, seen |-> row[w],
                left |-> {e \in Entities : row[w][e] # NoRow}]
    /\ UNCHANGED <<kind, volatile, row, vec, chunk, edge, run, runs, filled, raced>>

\* Mutant: a last batch that is not full is left out.
Batches_Full(left) == {B \in SUBSET left : Cardinality(B) = BatchSize}

\* The batches that can be next, in the order of the list, which can be any.
Batches(left) ==
    {B \in SUBSET left : /\ B # {}
                         /\ \/ Cardinality(B) = BatchSize
                            \/ Cardinality(B) < BatchSize /\ B = left}

\* Rows without terms are skipped.
FillBatch ==
    /\ fill.pc = "filling"
    /\ \E B \in Batches(fill.left) :
         /\ fill' = [fill EXCEPT !.left = @ \ B]
         /\ vec' = [vec EXCEPT ![fill.ws] = [e \in Entities |->
                       IF e \in B /\ fill.seen[e] # {} THEN fill.seen[e] ELSE @[e]]]
    /\ UNCHANGED <<kind, volatile, row, chunk, edge, run, runs, filled, raced>>

EndFill ==
    /\ fill.pc = "filling" /\ Batches(fill.left) = {}
    /\ fill' = NoFill
    /\ filled' = filled \cup {<<fill.ws, e>> : e \in
                    {d \in Entities : fill.seen[d] \notin {NoRow, {}}}}
    /\ UNCHANGED <<kind, volatile, row, vec, chunk, edge, run, runs, raced>>

FillFails ==
    /\ fill.pc = "filling"
    /\ fill' = NoFill
    /\ UNCHANGED <<kind, volatile, row, vec, chunk, edge, run, runs, filled, raced>>

Ingest(p, w) ==
    LET j == <<p, w>>
    IN \/ \E t \in Texts : Start(p, w, t)
       \/ GetEntity(j)
       \/ PutEntity(j)
       \/ NextChunk(j)
       \/ UpsertEntities(j)
       \/ PutChunk(j)
       \/ UpsertRelations(j)
       \/ DropStale(j)
       \/ EndRun(j)
       \/ Fail(j)

Backfill == (\E w \in Workspaces : ListEntities(w)) \/ FillBatch \/ EndFill \/ FillFails

Next == Migrate \/ (\E p \in Processes, w \in Workspaces : Ingest(p, w)) \/ Restart \/ Backfill

Spec == Init /\ [][Next]_vars

-----------------------------------------------------------------------------
\* What the stored chunk rows of these ages name.
Named(w, ages) ==
    UNION {DOMAIN chunk[w][i].names : i \in {k \in 1..MaxChunks : chunk[w][k].age \in ages}}

\* Every entity that a chunk of this release names has a vector in the
\* chunk's workspace, so that searches in it are expanded by it, unless the
\* vectors were in memory and are lost; and with the SQL store a row there,
\* for the backfill to list.  An entity that only a chunk of the earlier
\* release names has a vector once a backfill that found a row of it has
\* ended: unchanged documents are not ingested again.  Relations join two
\* different entities that have one.  All this whatever another process or
\* workspace stores under the same URI, wherever a run fails, and whatever a
\* backfill that started earlier writes.
NamedIsFindable ==
    \A w \in Workspaces :
        /\ \A e \in Named(w, {"new"}) : vec[w][e] # NoRow
        /\ \A e \in Named(w, {"old"}) : <<w, e>> \in filled => vec[w][e] # NoRow
        /\ kind = "sql" => \A e \in Named(w, {"new", "lost"}) : row[w][e] # NoRow
        /\ \A l \in edge[w] : l[1] # l[3] /\ vec[w][l[1]] # NoRow /\ vec[w][l[3]] # NoRow

\* Only workspace w has stored entity e: SQL rows stay.
Unshared(w, e) == kind = "sql" /\ \A v \in Workspaces \ {w} : row[v][e] = NoRow

\* test_graph_schema.py, test_ingestion_merges_entity_aliases...: an entity
\* keeps all aliases the chunks of this release name it by, across chunks,
\* edits, failed runs, restarts and several processes.  Not so when two
\* workspaces store it: get_entity may return the other's row, and the
\* aliases of the own row are dropped; and the memory store has one row for
\* both.  Nor when two processes merged it at once: both go on from the same
\* row, and the later write drops what the earlier one added.
AliasesKept ==
    \A w \in Workspaces, i \in 1..MaxChunks :
        chunk[w][i].age \in {"new", "lost"} =>
            \A e \in DOMAIN chunk[w][i].names :
                Unshared(w, e) /\ <<w, e>> \notin raced => chunk[w][i].names[e] \subseteq row[w][e]

\* A backfill that finished left no row out, the last batch's included: every
\* entity with a row that had terms when it began has a vector with terms.
BackfilledIsIndexed ==
    \A w \in Workspaces, e \in Entities :
        <<w, e>> \in filled => vec[w][e] \notin {NoRow, {}}

===============================================================================
