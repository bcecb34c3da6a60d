-------------------------------- MODULE Router --------------------------------
(***************************************************************************)
(* The query router (retrieval/router.py) and the plans of kb_route        *)
(* (retrieval/execution_plan.py).  A query is abstracted to its markers:   *)
(* the intents one of whose marker words it contains.  The reason for a    *)
(* mode is wording and left out.                                           *)
(***************************************************************************)
EXTENDS Sequences, SequencesExt

Modes == {"vector", "graph", "hybrid"}

\* INTENT_STRATEGIES, in order; fact_lookup is what remains.
Strategies ==
    <<"memory_delete", "explainability", "relation_impact", "memory_context">>

Intents == ToSet(Strategies) \cup {"fact_lookup"}

Tools == {"kb_search", "kb_memory_search", "kb_graph_expand", "kb_explain",
          "kb_memory_delete"}

RecommendedTools ==
    [memory_delete   |-> <<"kb_memory_delete">>,
     explainability  |-> <<"kb_search", "kb_explain">>,
     relation_impact |-> <<"kb_search", "kb_graph_expand">>,
     memory_context  |-> <<"kb_memory_search", "kb_search">>,
     fact_lookup     |-> <<"kb_search">>]

EXECUTION_PLANS ==
    [memory_delete   |-> <<"kb_memory_delete">>,
     memory_context  |-> <<"kb_memory_search", "kb_search">>,
     relation_impact |-> <<"kb_search", "kb_graph_expand">>,
     explainability  |-> <<"kb_search", "kb_explain">>,
     fact_lookup     |-> <<"kb_search">>]

\* A request for memory counts as a marker of memory_context.
MarkersWith(markers, memory) ==
    markers \cup {i \in {"memory_context"} : memory}

\* The first strategy that matches.
DetectIntent(markers, memory) ==
    LET matching == {i \in DOMAIN Strategies : Strategies[i] \in MarkersWith(markers, memory)}
    IN IF matching = {} THEN "fact_lookup" ELSE Strategies[Min(matching)]

\* QueryRouter.route: a mode other than hybrid is kept as requested, and
\* hybrid stays hybrid for structural queries and for all others.
Route(markers, requested, memory) ==
    LET intent == DetectIntent(markers, memory)
    IN [intent |-> intent, mode |-> requested, tools |-> RecommendedTools[intent]]

\* What kb_route answers: the route and the plan to carry out.
KbRoute(markers, requested, memory) ==
    LET r == Route(markers, requested, memory)
    IN [route |-> r, plan |-> EXECUTION_PLANS[r.intent]]

===============================================================================
