-------------------------------- MODULE Search --------------------------------
(***************************************************************************)
(* One kb_search (server/tools/search.py) over the stores that ingestion   *)
(* writes at the same time: memory and query expansion, the vector search, *)
(* the graph search that may fail, fusion and reranking                    *)
(* (retrieval/hybrid.py, fusion.py, rerank.py), and the evidence read row  *)
(* by row afterwards (retrieval/evidence.py).  Every call of a store is a  *)
(* step.                                                                   *)
(*                                                                         *)
(* Scores are tenths, so that every sum below is a whole number.  A text   *)
(* stands for all texts that score alike and mention the same entities.    *)
(***************************************************************************)
EXTENDS Router, Integers, FiniteSets, FiniteSetsExt

CONSTANTS
    Chunks, Texts, NoText,
    Writers,       \* ingestions that may be under way, of any process
    Payload,       \* Payload[c]: what the point of chunk c is filtered by
    EntitiesIn,    \* EntitiesIn[t]: the entities of text t, in order
    Similarity,    \* Similarity[x][t]: of t to the query, expanded if x
    Overlap,       \* Overlap[t]: the share of the query's words in t
    Relevance,     \* Relevance[t]: the cross encoder's score for t
    KnownTerms,    \* terms that the query contains
    MinScore,      \* QueryExpander's min_score
    MemoryFinds,   \* what memory search can find: sequences of hits
    EntityFinds,   \* what entity search can find: sequences of hits
    GraphFinds,    \* the chunks that expansion can reach, in its order
    Setups,        \* how retrieval can be configured
    Corpora,       \* what ingestion can have left: vec, row, work, torn
    Requests,      \* the searches clients ask for
    MaxTopK, MaxDepth,
    RankUnit,      \* a multiple of 60 + i for every rank i
    MaxWrites      \* bound: chunks written while the search lasts

ASSUME ScoreAssumption ==
    /\ IsFiniteSet(Chunks)
    /\ MaxTopK \in Nat /\ MaxDepth \in Nat /\ MaxWrites \in Nat
    /\ RankUnit \in Nat \ {0}
    /\ \A i \in 1..Cardinality(Chunks) : RankUnit % (60 + i) = 0
    /\ Similarity \in [BOOLEAN -> [Texts -> 0..10]]
    /\ Overlap \in [Texts -> 0..10] /\ Relevance \in [Texts -> 0..10]
    /\ NoText \notin Texts
    /\ \A t \in Texts : EntitiesIn[t] \in Seq(ToSet(EntitiesIn[t]))
    /\ \A found \in MemoryFinds : found \in Seq([score : 0..10, cites : SUBSET Chunks])
    /\ GraphFinds \subseteq Seq(Chunks)
    /\ Setups \subseteq [fusion : {"linear", "rrf"}, model : BOOLEAN, expansions : Nat]

\* What a writer has made of a chunk's point and has still to make of its row:
\* NoText for one that drops the chunk.
Jobs == [by : Writers, chunk : Chunks, text : Texts \cup {NoText}]

\* Point and row are the same text, or one writer is between the two, or the
\* chunk is torn.
CorpusOK(v, r, jobs, tornChunks) ==
    /\ v \in [Chunks -> Texts \cup {NoText}]
    /\ r \in [Chunks -> Texts \cup {NoText}]
    /\ jobs \subseteq Jobs /\ tornChunks \subseteq Chunks
    /\ \A c \in Chunks \ tornChunks :
         LET atChunk == {x \in jobs : x.chunk = c}
         IN /\ atChunk = {} => r[c] = v[c]
            /\ \A x \in atChunk : v[c] = x.text /\ atChunk = {x}

ASSUME CorpusAssumption ==
    \A corpus \in Corpora : CorpusOK(corpus.vec, corpus.row, corpus.work, corpus.torn)

VARIABLES
    setup,    \* the retriever's configuration: fusion, model, expansions
    vec,      \* vec[c]: text of chunk c's point in the vector store
    row,      \* row[c]: text of its row in the metadata store
    work,     \* jobs of writers that are between the two
    torn,     \* history: chunks whose point and row may differ for good,
              \* for a writer gave up between them or two wrote at once
    writes,   \* number of writes begun
    srch      \* the search: a record, see NoSearch

searchVars == <<setup, vec, row, work, torn, writes, srch>>

-----------------------------------------------------------------------------
Least(a, b) == IF a <= b THEN a ELSE b

FirstN(s, n) == SubSeq(s, 1, Least(n, Len(s)))

\* The members of S in the order R, a set of pairs <<earlier, later>>.
Arranged(S, R) ==
    [k \in 1..Cardinality(S) |->
        CHOOSE x \in S : Cardinality({y \in S : <<y, x>> \in R}) = k - 1]

\* list.sort(key=score, reverse=True), which keeps the order of equals.
Before(s) ==
    {p \in (DOMAIN s) \X (DOMAIN s) :
        \/ s[p[1]].score > s[p[2]].score
        \/ s[p[1]].score = s[p[2]].score /\ p[1] < p[2]}

ByScore(s) ==
    LET order == Arranged(DOMAIN s, Before(s)) IN [k \in DOMAIN s |-> s[order[k]]]

-----------------------------------------------------------------------------
(* Filters.  AclService.apply_filters takes the workspace, the subject and  *)
(* the roles from the caller's identity, whatever the request says.         *)

EffectiveFilters(r) ==
    [workspace |-> r.auth.workspace, allow |-> r.auth.names,
     tags |-> r.tags, sources |-> r.sources, after |-> r.after]

\* _build_filter and _matches_filter: date 0 is no date.
Matches(p, f) ==
    /\ p.workspace = f.workspace
    /\ p.allow \cap f.allow # {}
    /\ f.tags = {} \/ p.tags \cap f.tags # {}
    /\ f.sources = {} \/ p.source \in f.sources
    /\ f.after <= p.updated

Stored(c) == [chunk |-> c, text |-> vec[c]]

\* The points a request may see.
Candidates(r) ==
    {Stored(c) : c \in {d \in Chunks :
        vec[d] # NoText /\ Matches(Payload[d], EffectiveFilters(r))}}

-----------------------------------------------------------------------------
(* Signals. *)

\* kb_search: a chunk's bonus is the best score of a memory item citing it.
MemoryBonus(found) ==
    [c \in Chunks |->
        Max({0} \cup {found[i].score : i \in
                 {j \in DOMAIN found : c \in found[j].cites}})]

\* QueryExpander.expand adds the first new terms of good enough entities, if
\* there are any.
Expands(found, limit) ==
    /\ limit > 0
    /\ \E i \in DOMAIN found :
         found[i].score >= MinScore /\ ToSet(found[i].terms) \ KnownTerms # {}

Vector(s, h) == Similarity[s.expanded][h.text]
Graph(s, h) == IF Contains(s.graph, h.chunk) THEN 10 ELSE 0
MemoryOf(s, h) == s.memory[h.chunk]

\* The k nearest points, best first; equals come in any order.
Nearest(s, points, k) ==
    LET n == Least(k, Cardinality(points))
        isBest(q) ==
            /\ \A i, j \in DOMAIN q : i < j => Vector(s, q[i]) >= Vector(s, q[j])
            /\ \A p \in points \ ToSet(q), i \in DOMAIN q : Vector(s, q[i]) >= Vector(s, p)
    IN {q \in Injection(1..n, points) : isBest(q)}

\* 1 / (k + rank) in a ranking, in units of 1 / RankUnit; nothing outside.
AtRank(ranking, c) ==
    LET at == {i \in DOMAIN ranking : ranking[i] = c}
    IN IF at = {} THEN 0 ELSE RankUnit \div (60 + Min(at))

\* rrf_fuse over the three rankings.  All chunk nodes of the graph are
\* ranked, those that are not hits too, in the order of the expansion.
RrfScore(s, memoryRanking, c) ==
    AtRank([i \in DOMAIN s.hits |-> s.hits[i].chunk], c)
    + AtRank(s.graph, c) + AtRank(memoryRanking, c)

\* What 1.0 is in the units of a total.
One == IF setup.fusion = "rrf" THEN 100 * RankUnit ELSE 1000

\* HybridRetriever.search: 0.6 (0.7 v + 0.2 g + 0.1 m) + 0.4 l, or
\* 0.8 rrf + 0.2 l.
Total(s, memoryRanking, h) ==
    IF setup.fusion = "rrf"
    THEN 80 * RrfScore(s, memoryRanking, h.chunk) + 2 * RankUnit * Overlap[h.text]
    ELSE 6 * (7 * Vector(s, h) + 2 * Graph(s, h) + MemoryOf(s, h))
         + 40 * Overlap[h.text]

\* The reranker's own score: word overlap while it has no model.
Rerank(h) == IF setup.model THEN Relevance[h.text] ELSE Overlap[h.text]

Scored(s, scores) ==
    [i \in DOMAIN s |-> [chunk |-> s[i].chunk, text |-> s[i].text, score |-> scores[i]]]

\* CrossEncoderReranker.rerank: 0.7 of the total, 0.3 of its own score.
Reranked(items, r) ==
    IF ~r.rerank THEN items
    ELSE LET scores == [i \in DOMAIN items |->
                 7 * items[i].score + 3 * Rerank(items[i]) * (One \div 10)]
         IN FirstN(ByScore(Scored(items, scores)), Least(r.topN, r.topK))

Ranked(s, memoryRanking) ==
    LET totals == [i \in DOMAIN s.hits |-> Total(s, memoryRanking, s.hits[i])]
        fused == ByScore(Scored(s.hits, totals))
        best == FirstN(Reranked(fused, s.req), s.req.topK)
    IN [i \in DOMAIN best |-> [chunk |-> best[i].chunk, text |-> best[i].text]]

-----------------------------------------------------------------------------
(* The search. *)

NoRequest ==
    [auth |-> [workspace |-> NoText, names |-> {}], tags |-> {}, sources |-> {},
     after |-> 0, markers |-> {}, mode |-> "hybrid", memory |-> FALSE,
     topK |-> 1, depth |-> 0, rerank |-> FALSE, topN |-> 1]

ASSUME RequestAssumption ==
    \A r \in Requests :
        /\ DOMAIN r = DOMAIN NoRequest
        /\ r.topK \in Nat /\ r.topN \in Nat /\ r.depth \in Nat
        /\ r.mode \in Modes /\ r.memory \in BOOLEAN /\ r.rerank \in BOOLEAN

NoSearch ==
    [pc        |-> "idle",
     req       |-> NoRequest,                       \* as it is carried out
     route     |-> Route({}, "hybrid", FALSE),
     memory    |-> [c \in Chunks |-> 0],            \* memory_bonus_by_uri
     expanded  |-> FALSE,
     hits      |-> <<>>,                            \* vector_hits
     graph     |-> <<>>,                            \* chunks of graph_bonus_by_uri
     fallback  |-> FALSE,                           \* fallback_mode
     ranked    |-> <<>>,
     cited     |-> <<>>,                            \* results
     visible   |-> {},      \* history: what the vector search chose from
     disturbed |-> {}]      \* history: chunks unsettled then or written since

Init ==
    /\ setup \in Setups
    /\ \E corpus \in Corpora :
         /\ vec = corpus.vec /\ row = corpus.row
         /\ work = corpus.work /\ torn = corpus.torn
    /\ writes = 0
    /\ srch = NoSearch

StoresUnchanged == UNCHANGED <<setup, vec, row, work, torn, writes>>

\* Chunks whose point and row may differ now.
Unsettled == torn \cup {x.chunk : x \in work}

\* kb_search up to the retriever: the limits, the route and the memory.
Ask(r) ==
    LET route == Route(r.markers, r.mode, r.memory)
        depth == IF route.mode = "vector" THEN 0 ELSE Least(r.depth, MaxDepth)
    IN /\ srch.pc = "idle"
       /\ \E found \in MemoryFinds :
            srch' = [NoSearch EXCEPT
                !.pc = "expanding", !.route = route,
                !.req = [r EXCEPT !.topK = Least(r.topK, MaxTopK), !.depth = depth],
                !.memory = IF r.memory THEN MemoryBonus(FirstN(found, Least(5, r.topK)))
                           ELSE @]
       /\ StoresUnchanged

\* A failing expansion is an expansion by nothing.
Expand ==
    /\ srch.pc = "expanding"
    /\ \E found \in EntityFinds \cup {<<>>} :
         srch' = [srch EXCEPT !.pc = "vector",
                     !.expanded = Expands(found, setup.expansions)]
    /\ StoresUnchanged

SearchChunks ==
    /\ srch.pc = "vector"
    /\ \E hits \in Nearest(srch, Candidates(srch.req), srch.req.topK) :
         srch' = [srch EXCEPT !.pc = "graph", !.hits = hits,
                     !.visible = Candidates(srch.req),
                     !.disturbed = Unsettled]
    /\ StoresUnchanged

\* The rankings of the cited chunks by memory bonus.
MemoryRankings(s) ==
    {m \in SetToSeqs({c \in Chunks : s.memory[c] > 0}) :
        \A i, j \in DOMAIN m : i < j => s.memory[m[i]] >= s.memory[m[j]]}

RankWith(graph, fallback) ==
    LET s == [srch EXCEPT !.graph = graph, !.fallback = fallback]
    IN \E m \in MemoryRankings(s) :
         srch' = [s EXCEPT !.pc = "citing", !.ranked = Ranked(s, m)]

\* The graph, then fusion and reranking, which touch no store.
SearchGraph ==
    /\ srch.pc = "graph"
    /\ IF srch.req.depth = 0 THEN RankWith(<<>>, FALSE)
       ELSE \E graph \in GraphFinds : RankWith(graph, FALSE)
    /\ StoresUnchanged

\* Mutant: nodes found before the failure keep their bonus.
GraphFails_KeepsNodes ==
    /\ srch.pc = "graph" /\ srch.req.depth > 0
    /\ \E graph \in GraphFinds : RankWith(graph, TRUE)
    /\ StoresUnchanged

\* Any exception of the graph store: the answer says fallback "vector".
GraphFails ==
    /\ srch.pc = "graph" /\ srch.req.depth > 0
    /\ RankWith(<<>>, TRUE)
    /\ StoresUnchanged

\* EvidenceBuilder.build for the next item: the row as it is now.
Evidence(c) ==
    [chunk |-> c, text |-> row[c],
     entities |-> IF row[c] = NoText THEN <<>> ELSE EntitiesIn[row[c]]]

Cite ==
    /\ srch.pc = "citing" /\ Len(srch.cited) < Len(srch.ranked)
    /\ srch' = [srch EXCEPT !.cited =
                   Append(@, Evidence(srch.ranked[Len(@) + 1].chunk))]
    /\ StoresUnchanged

\* Only what the answer says is left of a search that ended.
Answer ==
    /\ srch.pc = "citing" /\ Len(srch.cited) = Len(srch.ranked)
    /\ srch' = [NoSearch EXCEPT !.pc = "answered", !.route = srch.route,
                                !.cited = srch.cited]
    /\ StoresUnchanged

\* A store other than the graph raises: so does the tool.
SearchFails ==
    /\ srch.pc \in {"expanding", "vector", "citing"}
    /\ srch' = [NoSearch EXCEPT !.pc = "failed", !.route = srch.route]
    /\ StoresUnchanged

-----------------------------------------------------------------------------
(* Ingestion meanwhile, by the threads of any number of processes, whose    *)
(* locks hold within a process only: a point before its row, both to store  *)
(* and to drop.                                                             *)

Begins == writes < MaxWrites /\ writes' = writes + 1

\* Writer w starts on chunk c, for the text t.  Who finds another at it may
\* leave a point of one text and a row of another.
StartsOn(w, c, t) ==
    /\ Begins
    /\ \A x \in work : ~(x.by = w /\ x.chunk = c)
    /\ work' = work \cup {[by |-> w, chunk |-> c, text |-> t]}
    /\ torn' = IF \E x \in work : x.chunk = c THEN torn \cup {c} ELSE torn \ {c}
    /\ srch' = [srch EXCEPT !.disturbed = @ \cup {c}]
    /\ UNCHANGED setup

StoreVector(w, c, t) ==
    /\ StartsOn(w, c, t)
    /\ vec' = [vec EXCEPT ![c] = t]
    /\ UNCHANGED row

\* Mutant: the row goes first, and its point stays when the rest fails.
DropVector_RowFirst(w, c) ==
    /\ StartsOn(w, c, NoText)
    /\ row[c] # NoText \/ c \in Unsettled
    /\ row' = [row EXCEPT ![c] = NoText]
    /\ UNCHANGED vec

\* The chunk was listed for the document when the writer looked.
DropVector(w, c) ==
    /\ StartsOn(w, c, NoText)
    /\ row[c] # NoText \/ c \in Unsettled
    /\ vec' = [vec EXCEPT ![c] = NoText]
    /\ UNCHANGED row

\* A job is done with the writer's own text, whatever point and row are now:
\* put_chunk of what it cut, or delete_chunk.
FinishJob(x) ==
    /\ row' = [row EXCEPT ![x.chunk] = x.text]
    /\ work' = work \ {x}
    /\ UNCHANGED <<setup, vec, torn, writes, srch>>

StoreRow(x) == x.text # NoText /\ FinishJob(x)

DropRow(x) == x.text = NoText /\ FinishJob(x)

\* A store call of writer w raises, or its process stops: its jobs are left
\* half done until some later run takes them up.
GivesUp(w) ==
    LET left == {x \in work : x.by = w}
    IN /\ left # {}
       /\ work' = work \ left
       /\ torn' = torn \cup {x.chunk : x \in left}
       /\ UNCHANGED <<setup, vec, row, writes, srch>>

Ingest ==
    \/ \E w \in Writers, c \in Chunks :
         DropVector(w, c) \/ \E t \in Texts : StoreVector(w, c, t)
    \/ \E x \in work : StoreRow(x) \/ DropRow(x)
    \/ \E w \in Writers : GivesUp(w)

SearchStep ==
    Expand \/ SearchChunks \/ SearchGraph \/ GraphFails \/ Cite \/ Answer \/ SearchFails

-----------------------------------------------------------------------------
\* Signals that a fusion compares: by score, or by rank, where equal scores
\* other than none are in no particular order.
AtLeast(a, b) == IF setup.fusion = "rrf" THEN a > b \/ (a = 0 /\ b = 0) ELSE a >= b

\* An answer with a fallback says that the graph had no part in it.
GraphSignal(s, h) == IF s.fallback THEN 0 ELSE Graph(s, h)

\* Point h is better than g for the vector search and no worse for anything
\* else that retrieval looks at.
Outranks(s, h, g) ==
    /\ Vector(s, h) > Vector(s, g)
    /\ AtLeast(GraphSignal(s, h), GraphSignal(s, g))
    /\ AtLeast(MemoryOf(s, h), MemoryOf(s, g))
    /\ Overlap[h.text] >= Overlap[g.text]
    /\ s.req.rerank => Rerank(h) >= Rerank(g)

\* Where all signals agree about two points, so does the answer: the better
\* one is in it, and first, whatever the limits of the vector search and of
\* the reranker leave out, for both fusions, and without the graph when the
\* answer says that it failed.
AgreedOrderKept ==
    \A h \in srch.visible, j \in DOMAIN srch.ranked :
        Outranks(srch, h, srch.ranked[j]) =>
            \E i \in 1..(j - 1) : srch.ranked[i] = h

\* A result cites the text it was ranked for, unless its chunk was written
\* during the search or left unsettled before it; and a result without
\* evidence ("Unknown") is one whose point is gone by now or that is being
\* stored, never one that is only half dropped, unless writers gave the chunk
\* up or were at it at once.
CitesWhatItRanked ==
    [][Len(srch'.cited) > Len(srch.cited) =>
         LET cited == Last(srch'.cited)
             hit == srch.ranked[Len(srch'.cited)]
         IN /\ cited.chunk \notin srch.disturbed => cited.text = hit.text
            /\ cited.text = NoText =>
                 \/ vec[cited.chunk] = NoText \/ cited.chunk \in torn
                 \/ \E x \in work : x.chunk = cited.chunk /\ x.text # NoText
      ]_searchVars

===============================================================================
