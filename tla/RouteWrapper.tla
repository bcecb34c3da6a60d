----------------------------- MODULE RouteWrapper -----------------------------
(***************************************************************************)
(* scripts/kb_route_wrapper.py: a client that asks kb_route for a plan and  *)
(* carries it out call by call, over HTTP or a stdio child process, with    *)
(* the search of module Search as the server's kb_search.  The other tools  *)
(* are calls that are answered, refused or not answered in time.            *)
(***************************************************************************)
EXTENDS Search

CONSTANTS
    WrapperConfigs,   \* what the wrapper can be started with
    NoPlan            \* before a plan is known

\* Limits are at least 1: main() sees to that.
ASSUME ConfigAssumption ==
    \A cfg \in WrapperConfigs :
        /\ cfg.topK \in Nat \ {0} /\ cfg.depth \in Nat
        /\ cfg.maxSeeds \in Nat \ {0} /\ cfg.topUris \in Nat \ {0}
        /\ cfg.mode \in Modes /\ cfg.transport \in {"http", "stdio"}
        /\ {cfg.memory, cfg.allowDelete, cfg.serverRoutes} \subseteq BOOLEAN

VARIABLE wrap         \* the wrapper: a record, see NotStarted

vars == <<searchVars, wrap>>

NoPlanYet == [route |-> NoPlan, plan |-> <<>>]

NotStarted ==
    [pc      |-> "idle",
     cfg     |-> NoPlan,
     routed  |-> NoPlanYet,
     at      |-> 1,          \* the step of the plan it is at
     outputs |-> {},         \* tools in outputs
     skipped |-> {},         \* tools in skipped_steps
     seeds   |-> <<>>,       \* graph_expand_seeds
     uris    |-> <<>>]       \* explain_uris

WrapperInit == Init /\ wrap = NotStarted

-----------------------------------------------------------------------------
NamesIn(lists) == UNION {ToSet(lists[i]) : i \in DOMAIN lists}

\* Names in lists are in the order of the first place that has them.
NamedBefore(lists) ==
    {p \in NamesIn(lists) \X NamesIn(lists) :
        \E i \in DOMAIN lists : \E m \in DOMAIN lists[i] :
            /\ lists[i][m] = p[1]
            /\ \A j \in 1..i : \A n \in DOMAIN lists[j] :
                  j < i \/ n <= m => lists[j][n] # p[2]}

FirstNames(lists, limit) ==
    FirstN(Arranged(NamesIn(lists), NamedBefore(lists)), limit)

EntityLists(results) == [i \in DOMAIN results |-> results[i].entities]

\* Mutant: the loop ends with the first result that names something.
CollectSeedEntities_FirstResult(results, limit) ==
    FirstNames(FirstN(EntityLists(results), 1), limit)

\* _collect_seed_entities
CollectSeedEntities(results, limit) == FirstNames(EntityLists(results), limit)

\* _collect_result_uris
CollectResultUris(results, limit) ==
    FirstNames([i \in DOMAIN results |-> <<results[i].chunk>>], limit)

\* _legacy_route_fallback: the plan for a server that has no kb_route.
LegacyRoute(cfg) ==
    LET plan == IF cfg.memory THEN <<"kb_memory_search", "kb_search">>
                ELSE <<"kb_search">>
    IN [route |-> [intent |-> IF cfg.memory THEN "memory_context" ELSE "fact_lookup",
                   mode |-> cfg.mode, tools |-> plan],
        plan |-> plan]

\* Mutant: memory is asked for by kb_memory_search alone.
SearchPayload_NoMemory(cfg, route) ==
    [NoRequest EXCEPT !.auth = cfg.auth, !.markers = cfg.markers, !.mode = route.mode,
        !.topK = cfg.topK, !.depth = cfg.depth, !.topN = Least(10, cfg.topK)]

\* _search_payload: no filters, no reranking, the mode of the route.
SearchPayload(cfg, route) ==
    [NoRequest EXCEPT !.auth = cfg.auth, !.markers = cfg.markers, !.mode = route.mode,
        !.memory = cfg.memory, !.topK = cfg.topK, !.depth = cfg.depth,
        !.topN = Least(10, cfg.topK)]

-----------------------------------------------------------------------------
Tool == wrap.routed.plan[wrap.at]

AtStep == wrap.pc = "running" /\ wrap.at <= Len(wrap.routed.plan)

SearchOut == IF "kb_search" \in wrap.outputs THEN srch.cited ELSE <<>>

Seeds == CollectSeedEntities(SearchOut, wrap.cfg.maxSeeds)
Uris == CollectResultUris(SearchOut, wrap.cfg.topUris)

\* Why a step is not carried out: nothing to expand or to explain in the
\* search's results or no such results, or a delete that was not allowed.
Skipped ==
    \/ Tool = "kb_graph_expand" /\ Seeds = <<>>
    \/ Tool = "kb_explain" /\ Uris = <<>>
    \/ Tool = "kb_memory_delete" /\ ~wrap.cfg.allowDelete

\* The wrapper and a client of the same server do not search at once here.
Start(cfg) ==
    /\ wrap.pc = "idle" /\ srch.pc = "idle"
    /\ wrap' = [NotStarted EXCEPT !.cfg = cfg,
                   !.pc = IF cfg.transport = "stdio" THEN "connecting" ELSE "routing"]
    /\ UNCHANGED searchVars

\* stdio: the child process answers initialize and tools/list, which have
\* no timeout, or it stops.
Connects ==
    /\ wrap.pc = "connecting"
    /\ wrap' = [wrap EXCEPT !.pc = "routing"]
    /\ UNCHANGED searchVars

ConnectFails ==
    /\ wrap.pc = "connecting"
    /\ wrap' = [wrap EXCEPT !.pc = "failed"]
    /\ UNCHANGED searchVars

Routed ==
    /\ wrap.pc = "routing"
    /\ wrap' = [wrap EXCEPT !.pc = "running",
                   !.routed = IF wrap.cfg.serverRoutes
                              THEN KbRoute(wrap.cfg.markers, wrap.cfg.mode, wrap.cfg.memory)
                              ELSE LegacyRoute(wrap.cfg)]
    /\ UNCHANGED searchVars

Skip ==
    /\ AtStep /\ Skipped
    /\ wrap' = [wrap EXCEPT !.at = @ + 1, !.skipped = @ \cup {Tool}]
    /\ UNCHANGED searchVars

\* A tool other than kb_search answers.
CallTool ==
    /\ AtStep /\ ~Skipped /\ Tool # "kb_search"
    /\ wrap' = [wrap EXCEPT !.at = @ + 1, !.outputs = @ \cup {Tool},
                   !.seeds = IF Tool = "kb_graph_expand" THEN Seeds ELSE @,
                   !.uris = IF Tool = "kb_explain" THEN Uris ELSE @]
    /\ UNCHANGED searchVars

\* Mutant: the step counts as done when the call is made.
CallSearch_Advances ==
    /\ AtStep /\ Tool = "kb_search"
    /\ Ask(SearchPayload(wrap.cfg, wrap.routed.route))
    /\ wrap' = [wrap EXCEPT !.pc = "searching", !.at = @ + 1]

CallSearch ==
    /\ AtStep /\ Tool = "kb_search"
    /\ Ask(SearchPayload(wrap.cfg, wrap.routed.route))
    /\ wrap' = [wrap EXCEPT !.pc = "searching"]

SearchReplies ==
    /\ wrap.pc = "searching" /\ srch.pc = "answered"
    /\ wrap' = [wrap EXCEPT !.pc = "running", !.at = @ + 1,
                   !.outputs = @ \cup {"kb_search"}]
    /\ UNCHANGED searchVars

\* Mutant: only an error that the server reports ends a search.
Raises_NoTimeout ==
    /\ \/ wrap.pc = "routing"
       \/ AtStep /\ ~Skipped /\ Tool # "kb_search"
       \/ wrap.pc = "searching" /\ srch.pc = "failed"
    /\ wrap' = [wrap EXCEPT !.pc = "failed"]
    /\ UNCHANGED searchVars

\* A call is refused, fails or is not answered within timeout_s: the wrapper
\* prints nothing and exits with 1.  A search that it gave up goes on.
Raises ==
    /\ \/ wrap.pc = "routing"
       \/ AtStep /\ ~Skipped /\ Tool # "kb_search"
       \/ wrap.pc = "searching"
    /\ wrap' = [wrap EXCEPT !.pc = "failed"]
    /\ UNCHANGED searchVars

Finish ==
    /\ wrap.pc = "running" /\ wrap.at > Len(wrap.routed.plan)
    /\ wrap' = [wrap EXCEPT !.pc = "done"]
    /\ UNCHANGED searchVars

\* What the wrapper does once it is connected.
WrapperStep ==
    Routed \/ Skip \/ CallTool \/ CallSearch \/ SearchReplies \/ Raises \/ Finish

\* Bound: only writes that a search can meet are looked at.
Searching == {"expanding", "vector", "graph", "citing"}

Next ==
    \/ \E cfg \in WrapperConfigs : Start(cfg)
    \/ Connects
    \/ ConnectFails
    \/ WrapperStep
    \/ \E r \in Requests : wrap.pc = "idle" /\ Ask(r) /\ UNCHANGED wrap
    \/ SearchStep /\ UNCHANGED wrap
    \/ srch.pc \in Searching /\ Ingest /\ UNCHANGED wrap

\* The wrapper goes on while it can; the server may stop answering.
Spec == WrapperInit /\ [][Next]_vars /\ WF_vars(WrapperStep)

-----------------------------------------------------------------------------
TypeOK ==
    /\ setup \in Setups
    /\ vec \in [Chunks -> Texts \cup {NoText}]
    /\ row \in [Chunks -> Texts \cup {NoText}]
    /\ work \subseteq Jobs /\ torn \subseteq Chunks
    /\ writes \in 0..MaxWrites
    /\ srch.pc \in {"idle", "expanding", "vector", "graph", "citing", "answered", "failed"}
    /\ srch.route.intent \in Intents /\ srch.route.mode \in Modes
    /\ srch.memory \in [Chunks -> 0..10]
    /\ srch.hits \in SeqOf([chunk : Chunks, text : Texts], MaxTopK)
    /\ Len(srch.ranked) <= Len(srch.hits)
    /\ srch.ranked # <<>> => Len(srch.cited) <= Len(srch.ranked)
    /\ wrap.pc \in {"idle", "connecting", "routing", "running", "searching", "done", "failed"}
    /\ wrap.outputs \cup wrap.skipped \subseteq Tools
    /\ wrap.at \in 1..(Len(wrap.routed.plan) + 1)

\* The results that mention entity e.
Mentioning(e) == {i \in DOMAIN srch.cited : Contains(srch.cited[i].entities, e)}

Entities == NamesIn(EntityLists(srch.cited))

\* The seeds are the entities of the best results: as many as allowed, each
\* once, and none left out for one that a worse result is the first to name.
SeedsAreBest ==
    /\ Cardinality(ToSet(wrap.seeds)) = Len(wrap.seeds)
    /\ Len(wrap.seeds) = Least(wrap.cfg.maxSeeds, Cardinality(Entities))
    /\ \A e \in ToSet(wrap.seeds), f \in Entities \ ToSet(wrap.seeds) :
          Min(Mentioning(e)) <= Min(Mentioning(f))

\* A wrapper that exits with 0 did what the plan says: every step has an
\* output or a reason, never both; a search was not skipped; expansion was
\* skipped only if no result mentions an entity, else it had the best seeds;
\* an explanation only if there was no result; and memory was deleted only
\* if that was allowed.
PlanCarriedOut ==
    wrap.pc = "done" =>
        LET plan == ToSet(wrap.routed.plan)
        IN /\ wrap.outputs \cup wrap.skipped = plan
           /\ wrap.outputs \cap wrap.skipped = {}
           /\ "kb_search" \notin wrap.skipped
           /\ "kb_graph_expand" \in wrap.skipped => Entities = {}
           /\ "kb_graph_expand" \in wrap.outputs => Entities # {} /\ SeedsAreBest
           /\ "kb_explain" \in plan =>
                 ("kb_explain" \in wrap.skipped <=> srch.cited = <<>>)
           /\ "kb_memory_delete" \in wrap.outputs => wrap.cfg.allowDelete

\* kb_search routes the query again.  What it then reports and does is what
\* kb_route planned: its intent and tools are those of the plan, and the
\* mode is the one the wrapper was asked for, also when the server has no
\* kb_route.
RouteAndSearchAgree ==
    wrap.pc # "idle" /\ srch.pc # "idle" =>
        /\ srch.route.mode = wrap.cfg.mode
        /\ wrap.cfg.serverRoutes =>
             /\ srch.route.intent = wrap.routed.route.intent
             /\ srch.route.tools = wrap.routed.plan

\* Once it is connected, the wrapper ends, whatever the server does.
Ends ==
    wrap.pc \in {"routing", "running", "searching"} ~> wrap.pc \in {"done", "failed"}

===============================================================================
