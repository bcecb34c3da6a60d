---------------------------- MODULE MCRouteWrapper ----------------------------
(* Small instances of RouteWrapper for TLC. *)
EXTENDS RouteWrapper, TLC

CONSTANTS c1, c2, c3, tA, tB, e1, e2, u1, u2, w1, w2, src1, tag1, wA, wB

\* c1 is not tagged, and u2 does not see c2.
Point(names, tags) ==
    [workspace |-> w1, allow |-> names, tags |-> tags, source |-> src1, updated |-> 1]

MCPayload ==
    c1 :> Point({u1, u2}, {}) @@ c2 :> Point({u1}, {tag1}) @@ c3 :> Point({u1, u2}, {tag1})

MCEntitiesIn == tA :> <<e1, e1>> @@ tB :> <<e2, e1>>

\* An expansion turns the order of the texts round.
MCSimilarity ==
    (FALSE :> (tA :> 8 @@ tB :> 7)) @@ (TRUE :> (tA :> 4 @@ tB :> 9))
MCOverlap == tA :> 5 @@ tB :> 5
MCRelevance == tA :> 3 @@ tB :> 9

MCMemoryFinds == {<<[score |-> 9, cites |-> {c1, c3}], [score |-> 4, cites |-> {c3, c2}]>>}
MCEntityFinds == {<<[score |-> 5, terms |-> <<"q", "x", "x">>], [score |-> 3, terms |-> <<"y">>]>>}
MCGraphFinds == {<<c3>>, <<c3, c1>>}

MCSetups ==
    {[fusion |-> "linear", model |-> FALSE, expansions |-> 1],
     [fusion |-> "linear", model |-> TRUE, expansions |-> 0],
     [fusion |-> "rrf", model |-> TRUE, expansions |-> 0]}

\* c3 is being stored by one writer, is being dropped, or was left with a
\* point of one text and a row of another.
Corpus(vec3, row3, work3, torn3) ==
    [vec |-> c1 :> tA @@ c2 :> tB @@ c3 :> vec3,
     row |-> c1 :> tA @@ c2 :> tB @@ c3 :> row3,
     work |-> work3, torn |-> torn3]
At3(text) == {[by |-> wA, chunk |-> c3, text |-> text]}
MCCorpora ==
    {Corpus(tB, NoText, At3(tB), {}), Corpus(NoText, tB, At3(NoText), {}),
     Corpus(tA, tB, {}, {c3})}

User(w, names) == [workspace |-> w, names |-> names]

\* Clients: no filter, and a tag filter of a user who sees less.
Asked ==
    [NoRequest EXCEPT !.auth = User(w1, {u1}), !.memory = TRUE, !.depth = 1,
        !.topK = 3, !.rerank = TRUE, !.topN = 2]
MCRequests ==
    {Asked, [Asked EXCEPT !.auth = User(w1, {u2}), !.tags = {tag1}]}

Config(markers, mode, memory) ==
    [transport |-> "http", auth |-> User(w1, {u1}), markers |-> markers, mode |-> mode,
     memory |-> memory, topK |-> 2, depth |-> 1, maxSeeds |-> 1, topUris |-> 1,
     allowDelete |-> FALSE, serverRoutes |-> TRUE]
Plain == Config({}, "hybrid", FALSE)
Related == Config({"relation_impact"}, "graph", TRUE)
Forgets == Config({"memory_delete", "relation_impact"}, "hybrid", TRUE)

MCWrapperConfigs ==
    {Plain,
     Config({}, "vector", TRUE),
     Config({"explainability", "relation_impact"}, "hybrid", TRUE),
     Related,
     [Related EXCEPT !.maxSeeds = 2, !.transport = "stdio"],
     [Related EXCEPT !.serverRoutes = FALSE],
     \* a user of a workspace without chunks
     [Related EXCEPT !.auth = User(w2, {u1})],
     [Config({"explainability"}, "hybrid", FALSE) EXCEPT !.auth = User(w2, {u1})],
     Forgets,
     [Forgets EXCEPT !.allowDelete = TRUE]}
===============================================================================
