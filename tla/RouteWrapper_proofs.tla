------------------------- MODULE RouteWrapper_proofs -------------------------
(***************************************************************************)
(* Proofs about the search and the route wrapper.                          *)
(***************************************************************************)
EXTENDS RouteWrapper, FiniteSetTheorems, SequenceTheorems, NaturalsInduction,
        WellFoundedInduction, TLAPS

Points == [chunk : Chunks, text : Texts]

CitedItems ==
    [chunk : Chunks, text : Texts \cup {NoText},
     entities : {<<>>} \cup {EntitiesIn[t] : t \in Texts}]

\* A request as it is carried out.
RequestOK(r) ==
    /\ DOMAIN r = DOMAIN NoRequest
    /\ r.topK \in Nat /\ r.topN \in Nat /\ r.depth \in Nat
    /\ r.rerank \in BOOLEAN

SearchTypeOK(s) ==
    /\ DOMAIN s = DOMAIN NoSearch
    /\ s.pc \in {"idle", "expanding", "vector", "graph", "citing", "answered", "failed"}
    /\ RequestOK(s.req)
    /\ s.pc \in {"expanding", "vector"} => s.req.topK <= MaxTopK
    /\ s.route.intent \in Intents /\ s.route.mode \in Modes
    /\ s.memory \in [Chunks -> 0..10]
    /\ s.expanded \in BOOLEAN /\ s.fallback \in BOOLEAN
    /\ s.hits \in Seq(Points) /\ Len(s.hits) <= MaxTopK
    /\ s.graph \in Seq(Chunks)
    /\ s.ranked \in Seq(Points) /\ Len(s.ranked) <= Len(s.hits)
    /\ s.cited \in Seq(CitedItems)
    /\ s.visible \subseteq Points /\ s.disturbed \subseteq Chunks

StoresOK == setup \in Setups /\ writes \in 0..MaxWrites /\ CorpusOK(vec, row, work, torn)

OneHitPerChunk(s) == \A i, j \in DOMAIN s.hits : s.hits[i].chunk = s.hits[j].chunk => i = j

\* Before each hit comes every point that is nearer.
NearestFirst(s) ==
    \A h \in s.visible, j \in DOMAIN s.hits :
        Vector(s, h) > Vector(s, s.hits[j]) => \E i \in 1..(j - 1) : s.hits[i] = h

\* The rows say what the items do, but for chunks that are written to: the
\* others are not in w, the unsettled ones.
Current(items, disturbed, r, w) ==
    \A i \in DOMAIN items :
        LET c == items[i].chunk
        IN c \notin disturbed => c \notin w /\ r[c] = items[i].text

SearchPhase(s, r, w) ==
    /\ s.pc \in {"idle", "expanding", "vector", "graph", "failed"} => s.cited = <<>>
    /\ s.pc # "citing" => s.ranked = <<>>
    /\ s.pc = "citing" => Len(s.cited) <= Len(s.ranked)
    /\ s.pc = "graph" =>
         OneHitPerChunk(s) /\ NearestFirst(s) /\ Current(s.hits, s.disturbed, r, w)
    /\ s.pc = "citing" => Current(s.ranked, s.disturbed, r, w)

SearchInv ==
    StoresOK /\ SearchTypeOK(srch) /\ SearchPhase(srch, row, Unsettled) /\ AgreedOrderKept

PlanOf(cfg) ==
    IF cfg.serverRoutes THEN KbRoute(cfg.markers, cfg.mode, cfg.memory)
    ELSE LegacyRoute(cfg)

\* No plan is known yet.  A wrapper that has started has the server to itself.
Unrouted(w, s) ==
    /\ DOMAIN w = DOMAIN NotStarted
    /\ w.pc \in {"idle", "connecting", "routing", "failed"}
    /\ w.routed = NoPlanYet /\ w.at = 1 /\ w.outputs = {} /\ w.skipped = {}
    /\ w.pc # "idle" => w.cfg \in WrapperConfigs /\ s.pc = "idle"

\* What follows from each step that is done.
Outcomes(w, s) ==
    /\ "kb_search" \notin w.skipped
    /\ "kb_search" \in w.outputs => s.pc = "answered"
    /\ (w.outputs \cup w.skipped) \cap {"kb_graph_expand", "kb_explain"} # {}
         => "kb_search" \in w.outputs
    /\ "kb_graph_expand" \in w.skipped =>
         CollectSeedEntities(s.cited, w.cfg.maxSeeds) = <<>>
    /\ "kb_graph_expand" \in w.outputs =>
         w.seeds # <<>> /\ w.seeds = CollectSeedEntities(s.cited, w.cfg.maxSeeds)
    /\ "kb_explain" \in w.skipped => CollectResultUris(s.cited, w.cfg.topUris) = <<>>
    /\ "kb_explain" \in w.outputs => CollectResultUris(s.cited, w.cfg.topUris) # <<>>
    /\ "kb_memory_delete" \in w.outputs => w.cfg.allowDelete

Progress(w, s) ==
    /\ DOMAIN w = DOMAIN NotStarted
    /\ w.pc \in {"running", "searching", "done", "failed"}
    /\ w.cfg \in WrapperConfigs /\ w.routed = PlanOf(w.cfg)
    /\ w.at \in 1..(Len(w.routed.plan) + 1)
    /\ w.outputs \cup w.skipped = {w.routed.plan[i] : i \in 1..(w.at - 1)}
    /\ w.outputs \cap w.skipped = {}
    /\ w.pc = "searching" =>
         /\ w.at <= Len(w.routed.plan) /\ w.routed.plan[w.at] = "kb_search"
         /\ s.pc # "idle"
    /\ w.pc = "done" => w.at = Len(w.routed.plan) + 1
    /\ s.pc # "idle" => s.route = Route(w.cfg.markers, w.routed.route.mode, w.cfg.memory)
    /\ Outcomes(w, s)

IInv == SearchInv /\ (Unrouted(wrap, srch) \/ Progress(wrap, srch))

-----------------------------------------------------------------------------
(* Orders and sequences.                                                   *)

\* R orders S: of two members one is before the other, and nothing is before
\* itself.
Orders(R, S) ==
    /\ \A x \in S : <<x, x>> \notin R
    /\ \A x, y \in S : x # y => <<x, y>> \in R \/ <<y, x>> \in R
    /\ \A x, y, z \in S : <<x, y>> \in R /\ <<y, z>> \in R => <<x, z>> \in R

Below(S, R, x) == {y \in S : <<y, x>> \in R}

LEMMA BelowGrows ==
    ASSUME NEW S, IsFiniteSet(S), NEW R, Orders(R, S)
    PROVE  /\ \A x \in S : Cardinality(Below(S, R, x)) \in 0..(Cardinality(S) - 1)
           /\ \A x, y \in S : <<x, y>> \in R =>
                 Cardinality(Below(S, R, x)) < Cardinality(Below(S, R, y))
<1>1. ASSUME NEW x \in S
      PROVE  /\ IsFiniteSet(Below(S, R, x))
             /\ Cardinality(Below(S, R, x)) \in Nat
  BY FS_Subset, FS_CardinalityType DEF Below
<1>2. ASSUME NEW x \in S
      PROVE  Cardinality(Below(S, R, x)) \in 0..(Cardinality(S) - 1)
  <2>1. Below(S, R, x) \subseteq S \ {x}
    BY DEF Below, Orders
  <2>2. IsFiniteSet(S \ {x}) /\ Cardinality(S \ {x}) = Cardinality(S) - 1
    BY FS_RemoveElement
  <2>3. Cardinality(Below(S, R, x)) <= Cardinality(S \ {x})
    BY <2>1, <2>2, FS_Subset
  <2>4. Cardinality(S) \in Nat
    BY FS_CardinalityType
  <2> QED
    BY <1>1, <2>2, <2>3, <2>4
<1>3. ASSUME NEW x \in S, NEW y \in S, <<x, y>> \in R
      PROVE  Cardinality(Below(S, R, x)) < Cardinality(Below(S, R, y))
  <2>1. Below(S, R, x) \subseteq Below(S, R, y)
    BY <1>3 DEF Below, Orders
  <2>2. x \in Below(S, R, y) /\ x \notin Below(S, R, x)
    BY <1>3 DEF Below, Orders
  <2>3. /\ Cardinality(Below(S, R, x)) <= Cardinality(Below(S, R, y))
        /\ Cardinality(Below(S, R, x)) # Cardinality(Below(S, R, y))
    BY <1>1, <2>1, <2>2, FS_Subset
  <2> QED
    BY <1>1, <2>3
<1> QED
  BY <1>2, <1>3

\* Arranged lists every member of the set once, in the order.
LEMMA ArrangedIsOrder ==
    ASSUME NEW S, IsFiniteSet(S), NEW R, Orders(R, S),
           NEW a, a = Arranged(S, R)
    PROVE  /\ Cardinality(S) \in Nat
           /\ a \in [1..Cardinality(S) -> S]
           /\ \A x \in S : \E k \in 1..Cardinality(S) : a[k] = x
           /\ \A k, l \in 1..Cardinality(S) : <<a[k], a[l]>> \in R <=> k < l
<1> DEFINE n == Cardinality(S)
           place(x) == Cardinality(Below(S, R, x)) + 1
           f == [x \in S |-> place(x)]
<1>1. n \in Nat
  BY FS_CardinalityType
<1>2. \A x \in S : place(x) \in 1..n
  BY <1>1, BelowGrows
<1>3. \A x, y \in S : <<x, y>> \in R => place(x) < place(y)
  <2>1. \A x \in S : Cardinality(Below(S, R, x)) \in Int
    BY <1>1, BelowGrows
  <2> QED
    BY <2>1, BelowGrows
<1> HIDE DEF place
<1>4. \A x, y \in S : place(x) = place(y) => x = y
  <2> SUFFICES ASSUME NEW x \in S, NEW y \in S, place(x) = place(y), x # y
               PROVE  FALSE
    OBVIOUS
  <2>1. place(x) < place(y) \/ place(y) < place(x)
    BY <1>3 DEF Orders
  <2>2. place(x) \in Int
    BY <1>1, <1>2
  <2> QED
    BY <2>1, <2>2
<1>5. f \in Injection(S, 1..n)
  BY <1>2, <1>4 DEF Injection, IsInjective
<1>6. f \in Surjection(S, 1..n)
  BY <1>1, <1>5, FS_Interval, FS_Injection
<1>7. \A k \in 1..n : \E x \in S : place(x) = k
  BY <1>6 DEF Surjection
<1>8. \A k \in 1..n : a[k] = CHOOSE x \in S : place(x) = k
  <2> SUFFICES ASSUME NEW k \in 1..n
               PROVE  a[k] = CHOOSE x \in S : place(x) = k
    OBVIOUS
  <2>1. \A x \in S : Cardinality({y \in S : <<y, x>> \in R}) = k - 1 <=> place(x) = k
    <3>1. \A x \in S : Cardinality(Below(S, R, x)) \in Int
      BY <1>1, BelowGrows
    <3> QED
      BY <3>1 DEF place, Below
  <2>2. a[k] = CHOOSE x \in S : Cardinality({y \in S : <<y, x>> \in R}) = k - 1
    BY DEF Arranged
  <2> QED
    BY <2>1, <2>2, Zenon
<1>9. \A k \in 1..n : a[k] \in S /\ place(a[k]) = k
  BY <1>7, <1>8
<1>10. a \in [1..n -> S]
  BY <1>9 DEF Arranged
<1>11. \A x \in S : \E k \in 1..n : a[k] = x
  BY <1>2, <1>4, <1>9
<1>12. \A k, l \in 1..n : <<a[k], a[l]>> \in R <=> k < l
  <2> SUFFICES ASSUME NEW k \in 1..n, NEW l \in 1..n
               PROVE  <<a[k], a[l]>> \in R <=> k < l
    OBVIOUS
  <2>1. <<a[k], a[l]>> \in R => k < l
    BY <1>3, <1>9
  <2>2. <<a[l], a[k]>> \in R => l < k
    BY <1>3, <1>9
  <2>3. a[k] # a[l] => <<a[k], a[l]>> \in R \/ <<a[l], a[k]>> \in R
    BY <1>9 DEF Orders
  <2>4. a[k] = a[l] => k = l
    BY <1>9
  <2>5. a[k] = a[l] => <<a[k], a[l]>> \notin R
    BY <1>9 DEF Orders
  <2> QED
    BY <2>1, <2>2, <2>3, <2>4, <2>5
<1> QED
  BY <1>1, <1>10, <1>11, <1>12

LEMMA FirstNFacts ==
    ASSUME NEW T, NEW s \in Seq(T), NEW n \in Nat
    PROVE  /\ FirstN(s, n) \in Seq(T)
           /\ Len(FirstN(s, n)) = Least(n, Len(s))
           /\ Len(FirstN(s, n)) \in Nat
           /\ Len(FirstN(s, n)) <= Len(s)
           /\ DOMAIN FirstN(s, n) = 1..Len(FirstN(s, n))
           /\ \A i \in 1..Len(FirstN(s, n)) : FirstN(s, n)[i] = s[i]
<1> DEFINE m == Least(n, Len(s))
<1>1. Len(s) \in Nat
  BY LenProperties
<1>2. m \in Nat /\ m <= Len(s)
  BY <1>1 DEF Least
<1>3. \A i \in 1..m : s[i] \in T
  BY <1>1, <1>2, ElementOfSeq
<1> HIDE DEF m
<1>4. /\ SubSeq(s, 1, m) \in Seq(T)
      /\ Len(SubSeq(s, 1, m)) = IF 1 <= m THEN m - 1 + 1 ELSE 0
      /\ \A i \in 1..(m - 1 + 1) : SubSeq(s, 1, m)[i] = s[1 + i - 1]
  BY <1>2, <1>3, SubSeqProperties
<1>5. Len(SubSeq(s, 1, m)) = m
  BY <1>2, <1>4
<1>6. \A i \in 1..m : SubSeq(s, 1, m)[i] = s[i]
  BY <1>2, <1>4, <1>1
<1>7. FirstN(s, n) = SubSeq(s, 1, m)
  BY DEF FirstN, m
<1>8. DOMAIN SubSeq(s, 1, m) = 1..m
  BY <1>4, <1>5, LenProperties
<1> QED
  BY <1>2, <1>4, <1>5, <1>6, <1>7, <1>8 DEF m

\* Functions on 1..n are sequences.
LEMMA FunctionSeq ==
    ASSUME NEW n \in Nat, NEW T, NEW f \in [1..n -> T]
    PROVE  f \in Seq(T) /\ Len(f) = n /\ DOMAIN f = 1..n
<1>1. f \in Seq(T)
  BY SeqDef
<1> QED
  BY <1>1, LenProperties

-----------------------------------------------------------------------------
(* Scores, and what ranking makes of them.                                 *)

LEMMA MinIsLeast ==
    ASSUME NEW S \in SUBSET Nat, S # {}
    PROVE  Min(S) \in S /\ \A y \in S : Min(S) <= y
<1>1. PICK x \in S : \A y \in S : ~(<<y, x>> \in OpToRel(<, Nat))
  <2>1. IsWellFoundedOn(OpToRel(<, Nat), Nat)
    BY NatLessThanWellFounded
  <2> QED
    BY <2>1, WFMin
<1>2. \A y \in S : ~(y < x)
  BY <1>1 DEF OpToRel
<1>3. \A y \in S : x =< y
  BY <1>2
<1> QED
  BY <1>3 DEF Min

\* Sorting by score is a permutation that puts higher scores first.
LEMMA ByScoreSorts ==
    ASSUME NEW n \in Nat, NEW s, DOMAIN s = 1..n, \A i \in 1..n : s[i].score \in Int
    PROVE  \E o \in [1..n -> 1..n] :
               /\ ByScore(s) = [k \in 1..n |-> s[o[k]]]
               /\ \A i \in 1..n : \E k \in 1..n : o[k] = i
               /\ \A k, l \in 1..n : s[o[k]].score > s[o[l]].score => k < l
<1> DEFINE o == Arranged(1..n, Before(s))
           sc == [i \in 1..n |-> s[i].score]
<1>1. sc \in [1..n -> Int] /\ \A i \in 1..n : s[i].score = sc[i]
  OBVIOUS
<1> HIDE DEF sc
<1>2. \A i, j \in 1..n : <<i, j>> \in Before(s) <=> sc[i] > sc[j] \/ (sc[i] = sc[j] /\ i < j)
  <2> SUFFICES ASSUME NEW i \in 1..n, NEW j \in 1..n
               PROVE  <<i, j>> \in Before(s) <=> sc[i] > sc[j] \/ (sc[i] = sc[j] /\ i < j)
    OBVIOUS
  <2> DEFINE p == <<i, j>>
  <2>1. p \in (1..n) \X (1..n) /\ p[1] = i /\ p[2] = j
    OBVIOUS
  <2> HIDE DEF p
  <2>2. p \in Before(s) <=>
            \/ s[p[1]].score > s[p[2]].score
            \/ s[p[1]].score = s[p[2]].score /\ p[1] < p[2]
    BY <2>1, Zenon DEF Before
  <2>3. p \in Before(s) <=> sc[i] > sc[j] \/ (sc[i] = sc[j] /\ i < j)
    BY <1>1, <2>1, <2>2
  <2> QED
    BY <2>3 DEF p
<1>3. Orders(Before(s), 1..n)
  <2>1. \A i \in 1..n : <<i, i>> \notin Before(s)
    BY <1>1, <1>2
  <2>2. ASSUME NEW i \in 1..n, NEW j \in 1..n, i # j
        PROVE  <<i, j>> \in Before(s) \/ <<j, i>> \in Before(s)
    <3>1. sc[i] \in Int /\ sc[j] \in Int
      BY <1>1
    <3>2. \/ sc[i] > sc[j] \/ (sc[i] = sc[j] /\ i < j)
          \/ sc[j] > sc[i] \/ (sc[j] = sc[i] /\ j < i)
      BY <2>2, <3>1
    <3> QED
      BY <1>2, <3>2, Zenon
  <2>3. \A i, j, k \in 1..n : <<i, j>> \in Before(s) /\ <<j, k>> \in Before(s)
                               => <<i, k>> \in Before(s)
    BY <1>1, <1>2
  <2> QED
    BY <2>1, <2>2, <2>3, Zenon DEF Orders
<1>4. IsFiniteSet(1..n) /\ Cardinality(1..n) = n
  BY FS_Interval
<1>5. /\ o \in [1..n -> 1..n]
      /\ \A i \in 1..n : \E k \in 1..n : o[k] = i
      /\ \A k, l \in 1..n : <<o[k], o[l]>> \in Before(s) <=> k < l
  <2> HIDE DEF o
  <2>1. o = Arranged(1..n, Before(s))
    BY DEF o
  <2> DEFINE D == 1..n
             R == Before(s)
  <2>2. IsFiniteSet(D) /\ Orders(R, D) /\ o = Arranged(D, R)
    BY <1>3, <1>4, <2>1, Zenon
  <2> HIDE DEF D, R
  <2>3. /\ o \in [1..Cardinality(D) -> D]
        /\ \A i \in D : \E k \in 1..Cardinality(D) : o[k] = i
        /\ \A k, l \in 1..Cardinality(D) : <<o[k], o[l]>> \in R <=> k < l
    BY <2>2, ArrangedIsOrder
  <2> QED
    BY <1>4, <2>3, Zenon DEF D, R
<1>6. ByScore(s) = [k \in 1..n |-> s[o[k]]]
  BY DEF ByScore
<1> HIDE DEF o
<1>7. \A k, l \in 1..n : s[o[k]].score > s[o[l]].score => k < l
  <2> SUFFICES ASSUME NEW k \in 1..n, NEW l \in 1..n, s[o[k]].score > s[o[l]].score
               PROVE  k < l
    OBVIOUS
  <2>1. o[k] \in 1..n /\ o[l] \in 1..n
    BY <1>5
  <2>2. sc[o[k]] > sc[o[l]]
    BY <1>1, <2>1
  <2>3. <<o[k], o[l]>> \in Before(s)
    BY <1>2, <2>1, <2>2, Zenon
  <2> QED
    BY <1>5, <2>3, Zenon
<1> QED
  BY <1>5, <1>6, <1>7

LEMMA Division ==
    ASSUME NEW x \in Nat, NEW y \in Nat, y > 0
    PROVE  x \div y \in Nat /\ x = y * (x \div y) + (x % y) /\ x % y \in 0..(y - 1)
<1>1. x \div y \in Nat
  OBVIOUS
<1>2. x = y * (x \div y) + (x % y)
  OBVIOUS
<1>3. x % y \in 0..(y - 1)
  OBVIOUS
<1> QED
  BY <1>1, <1>2, <1>3, Zenon

\* What a reciprocal rank is worth is less at later ranks.
LEMMA RankFalls ==
    ASSUME NEW i \in Nat, NEW j \in Nat, 0 < i, i < j
    PROVE  /\ RankUnit \div (60 + j) <= RankUnit \div (60 + i)
           /\ RankUnit \div (60 + j) \in Nat
           /\ RankUnit % (60 + i) = 0 => RankUnit \div (60 + j) < RankUnit \div (60 + i)
<1> DEFINE u == RankUnit  a == 60 + i  b == 60 + j
           q == u \div a  r == u \div b
<1>1. u \in Nat /\ u > 0
  BY ScoreAssumption
<1>2. a \in Nat /\ b \in Nat /\ 0 < a /\ a < b
  OBVIOUS
<1> HIDE DEF u, a, b
<1>3. /\ q \in Nat /\ u = a * q + (u % a) /\ u % a \in 0..(a - 1)
      /\ r \in Nat /\ u = b * r + (u % b) /\ u % b \in 0..(b - 1)
  <2>2. u \in Nat /\ a \in Nat /\ b \in Nat /\ a > 0 /\ b > 0
    BY <1>1, <1>2
  <2> QED
    BY <2>2, Division
<1> HIDE DEF q, r
<1>4. \A x, y, z \in Nat : x <= y => z * x <= z * y
  OBVIOUS
<1>5. a * r <= b * r
  <2>1. b * r = a * r + (b - a) * r
    BY <1>2, <1>3
  <2>2. (b - a) * r >= 0
    BY <1>2, <1>3
  <2>3. a * r \in Nat /\ b * r \in Nat /\ (b - a) * r \in Int
    BY <1>2, <1>3
  <2> QED
    BY <2>1, <2>2, <2>3
<1>6. r <= q
  <2> SUFFICES ASSUME q + 1 <= r
               PROVE  FALSE
    BY <1>3
  <2>1. a * (q + 1) <= a * r
    BY <1>2, <1>3
  <2>2. a * (q + 1) = a * q + a
    BY <1>2, <1>3
  <2>3. u >= a * q + a
    <3> DEFINE aq == a * q  ar == a * r  br == b * r
    <3>1. aq \in Nat /\ ar \in Nat /\ br \in Nat
      BY <1>2, <1>3
    <3>2. u = br + (u % b) /\ u % b \in Nat /\ ar <= br /\ aq + a <= ar
      BY <1>2, <1>3, <1>5, <2>1, <2>2
    <3> HIDE DEF aq, ar, br
    <3>3. u >= aq + a
      <4> DEFINE ub == u % b
      <4>1. u = br + ub /\ ub \in Nat
        BY <3>2, Zenon
      <4> HIDE DEF ub
      <4> QED
        BY <1>1, <1>2, <3>1, <3>2, <4>1
    <3> QED
      BY <3>3 DEF aq
  <2> QED
    <3>1. a * q \in Nat
      BY <1>2, <1>3
    <3> QED
      BY <1>1, <1>2, <1>3, <2>3, <3>1
<1>7. u % a = 0 => r # q
  <2> SUFFICES ASSUME u % a = 0, r = q
               PROVE  FALSE
    BY Zenon
  <2>1. u = a * r
    <3>1. u = a * r + 0
      <4>1. u = a * q + (u % a)
        BY <1>3, Zenon
      <4> QED
        BY <4>1, Zenon
    <3>2. a * r \in Nat
      BY <1>2, <1>3
    <3> QED
      BY <3>1, <3>2
  <2>2. b * r = a * r + (b - a) * r
    BY <1>2, <1>3
  <2>3. a * r \in Nat /\ b * r \in Nat
    BY <1>2, <1>3
  <2>4. r > 0
    <3> SUFFICES ASSUME r = 0 PROVE FALSE
      BY <1>3
    <3> QED
      BY <1>1, <1>2, <2>1
  <2>5. (b - a) * r > 0
    BY <1>2, <1>3, <2>4
  <2>6. (b - a) * r \in Int
    BY <1>2, <1>3
  <2> QED
    BY <1>1, <1>2, <1>3, <2>1, <2>2, <2>3, <2>5, <2>6
<1> QED
  <2>1. r <= q /\ r \in Nat /\ (u % a = 0 => r < q)
    BY <1>3, <1>6, <1>7
  <2> QED
    BY <2>1, Zenon DEF u, a, b, q, r

LEMMA AtRankFacts ==
    ASSUME NEW ranking, DOMAIN ranking \subseteq Nat \ {0}, NEW c
    PROVE  /\ AtRank(ranking, c) \in Nat
           /\ (\A i \in DOMAIN ranking : ranking[i] # c) => AtRank(ranking, c) = 0
           /\ \A i \in DOMAIN ranking :
                 ranking[i] = c /\ (\A j \in DOMAIN ranking : ranking[j] = c => i = j)
                     => AtRank(ranking, c) = RankUnit \div (60 + i)
<1> DEFINE at == {i \in DOMAIN ranking : ranking[i] = c}
<1>1. AtRank(ranking, c) = IF at = {} THEN 0 ELSE RankUnit \div (60 + Min(at))
  BY DEF AtRank
<1>2. at # {} => Min(at) \in at
  <2>1. at \in SUBSET Nat
    OBVIOUS
  <2> QED
    BY <2>1, MinIsLeast, Zenon
<1>3. \A i \in Nat : RankUnit \div (60 + i) \in Nat
  <2>1. \A u \in Nat, i \in Nat \ {0} : u \div i \in Nat
    OBVIOUS
  <2>2. RankUnit \in Nat
    BY ScoreAssumption
  <2> QED
    BY <2>1, <2>2
<1>4. AtRank(ranking, c) \in Nat
  BY <1>1, <1>2, <1>3
<1>5. (\A i \in DOMAIN ranking : ranking[i] # c) => AtRank(ranking, c) = 0
  BY <1>1
<1>6. ASSUME NEW i \in DOMAIN ranking, ranking[i] = c,
             \A j \in DOMAIN ranking : ranking[j] = c => i = j
      PROVE  AtRank(ranking, c) = RankUnit \div (60 + i)
  <2>1. i \in at
    BY <1>6
  <2>2. Min(at) = i
    BY <1>2, <1>6, <2>1
  <2> QED
    BY <1>1, <2>1, <2>2, Zenon
<1> QED
  BY <1>4, <1>5, <1>6

LEMMA AtRankPlace ==
    ASSUME NEW ranking, DOMAIN ranking \subseteq Nat \ {0}, NEW c,
           NEW i \in DOMAIN ranking, ranking[i] = c,
           \A j \in DOMAIN ranking : ranking[j] = c => i = j
    PROVE  AtRank(ranking, c) = RankUnit \div (60 + i)
<1>1. \A x \in DOMAIN ranking :
          ranking[x] = c /\ (\A j \in DOMAIN ranking : ranking[j] = c => x = j)
              => AtRank(ranking, c) = RankUnit \div (60 + x)
  BY AtRankFacts
<1> QED
  BY <1>1, Zenon

\* What the lemmas on ranking need of a search.
Rankable(s, m) ==
    /\ setup \in Setups
    /\ s.expanded \in BOOLEAN
    /\ s.memory \in [Chunks -> 0..10]
    /\ s.hits \in Seq(Points)
    /\ s.graph \in Seq(Chunks)
    /\ m \in Seq(Chunks)
    /\ RequestOK(s.req)

LEMMA Signals ==
    ASSUME NEW s, s.expanded \in BOOLEAN, s.memory \in [Chunks -> 0..10],
           NEW h \in Points
    PROVE  /\ h.chunk \in Chunks /\ h.text \in Texts
           /\ Vector(s, h) \in 0..10 /\ Graph(s, h) \in {0, 10}
           /\ MemoryOf(s, h) \in 0..10 /\ Overlap[h.text] \in 0..10
           /\ Rerank(h) \in 0..10
<1>1. h.chunk \in Chunks /\ h.text \in Texts
  BY DEF Points
<1>2. /\ Similarity \in [BOOLEAN -> [Texts -> 0..10]]
      /\ Overlap \in [Texts -> 0..10] /\ Relevance \in [Texts -> 0..10]
  BY ScoreAssumption
<1>3. Vector(s, h) \in 0..10 /\ Overlap[h.text] \in 0..10 /\ Relevance[h.text] \in 0..10
  BY <1>1, <1>2 DEF Vector
<1>4. MemoryOf(s, h) \in 0..10
  BY <1>1 DEF MemoryOf
<1>5. Graph(s, h) \in {0, 10}
  BY DEF Graph
<1> QED
  BY <1>1, <1>3, <1>4, <1>5 DEF Rerank

LEMMA RankingDomains ==
    ASSUME NEW s, NEW m, Rankable(s, m)
    PROVE  /\ DOMAIN [i \in DOMAIN s.hits |-> s.hits[i].chunk] \subseteq Nat \ {0}
           /\ DOMAIN s.graph \subseteq Nat \ {0} /\ DOMAIN m \subseteq Nat \ {0}
<1>1. \A T : \A r \in Seq(T) : DOMAIN r = 1..Len(r) /\ Len(r) \in Nat
  BY LenProperties
<1>2. /\ DOMAIN s.hits = 1..Len(s.hits) /\ Len(s.hits) \in Nat
      /\ DOMAIN s.graph = 1..Len(s.graph) /\ Len(s.graph) \in Nat
      /\ DOMAIN m = 1..Len(m) /\ Len(m) \in Nat
  BY <1>1 DEF Rankable
<1> QED
  BY <1>2

LEMMA RrfScoreType ==
    ASSUME NEW s, NEW m, Rankable(s, m), NEW c
    PROVE  RrfScore(s, m, c) \in Nat
<1>1. /\ AtRank([i \in DOMAIN s.hits |-> s.hits[i].chunk], c) \in Nat
      /\ AtRank(s.graph, c) \in Nat /\ AtRank(m, c) \in Nat
  BY RankingDomains, AtRankFacts
<1> QED
  BY <1>1 DEF RrfScore

LEMMA TotalType ==
    ASSUME NEW s, NEW m, Rankable(s, m), NEW h \in Points
    PROVE  Total(s, m, h) \in Nat
<1> DEFINE v == Vector(s, h)  g == Graph(s, h)  w == MemoryOf(s, h)
           o == Overlap[h.text]  f == RrfScore(s, m, h.chunk)
<1>1. v \in Nat /\ g \in Nat /\ w \in Nat /\ o \in Nat
  <2>1. v \in 0..10 /\ g \in {0, 10} /\ w \in 0..10 /\ o \in 0..10
    <3>1. s.expanded \in BOOLEAN /\ s.memory \in [Chunks -> 0..10]
      BY DEF Rankable
    <3> QED
      BY <3>1, Signals
  <2> QED
    BY <2>1
<1>2. f \in Nat
  BY RrfScoreType
<1>3. RankUnit \in Nat
  BY ScoreAssumption
<1>4. Total(s, m, h) = IF setup.fusion = "rrf" THEN 80 * f + 2 * RankUnit * o
                       ELSE 6 * (7 * v + 2 * g + w) + 40 * o
  BY DEF Total
<1> HIDE DEF v, g, w, o, f
<1>5. 2 * RankUnit * o \in Nat
  BY <1>1, <1>3
<1> QED
  BY <1>1, <1>2, <1>4, <1>5

\* One point scores more than another, and the reranker does not mind.
Better(s, m, h, g) ==
    Total(s, m, h) > Total(s, m, g) /\ (s.req.rerank => Rerank(h) >= Rerank(g))

Items == [chunk : Chunks, text : Texts, score : Nat]

Fused(s, m) == ByScore(Scored(s.hits, [i \in DOMAIN s.hits |-> Total(s, m, s.hits[i])]))

\* The k-th of the n fused items is hit o[k].
FusedBy(s, m, n, fused, o) ==
    /\ fused \in [1..n -> Items]
    /\ \A k \in 1..n :
          fused[k] = [chunk |-> s.hits[o[k]].chunk, text |-> s.hits[o[k]].text,
                      score |-> Total(s, m, s.hits[o[k]])]
    /\ \A i \in 1..n : \E k \in 1..n : o[k] = i
    /\ \A k, l \in 1..n :
          Total(s, m, s.hits[o[k]]) > Total(s, m, s.hits[o[l]]) => k < l

\* Sorting the hits by their totals.
LEMMA FusedSorts ==
    ASSUME NEW s, NEW m, Rankable(s, m), NEW n, n = Len(s.hits),
           NEW fused, fused = Fused(s, m)
    PROVE  \E o \in [1..n -> 1..n] : FusedBy(s, m, n, fused, o)
<1> DEFINE tot == [i \in 1..n |-> Total(s, m, s.hits[i])]
           sc == Scored(s.hits, tot)
<1>1. n \in Nat /\ DOMAIN s.hits = 1..n
  BY LenProperties DEF Rankable
<1>2. \A i \in 1..n : s.hits[i] \in Points
  BY <1>1, ElementOfSeq DEF Rankable
<1>3. \A i \in 1..n : tot[i] = Total(s, m, s.hits[i]) /\ tot[i] \in Nat
  BY <1>2, TotalType
<1> HIDE DEF tot
<1>4. /\ DOMAIN sc = 1..n
      /\ \A i \in 1..n : sc[i] = [chunk |-> s.hits[i].chunk, text |-> s.hits[i].text,
                                  score |-> tot[i]]
  BY <1>1 DEF Scored
<1> HIDE DEF sc
<1>5. \A i \in 1..n : sc[i].score = tot[i] /\ sc[i].score \in Int
  <2>1. ASSUME NEW i \in 1..n
        PROVE  sc[i].score = tot[i]
    <3>1. sc[i] = [chunk |-> s.hits[i].chunk, text |-> s.hits[i].text, score |-> tot[i]]
      BY <1>4
    <3> QED
      BY <3>1
  <2> QED
    BY <1>3, <2>1
<1>6. PICK o \in [1..n -> 1..n] :
          /\ ByScore(sc) = [k \in 1..n |-> sc[o[k]]]
          /\ \A i \in 1..n : \E k \in 1..n : o[k] = i
          /\ \A k, l \in 1..n : sc[o[k]].score > sc[o[l]].score => k < l
  BY <1>1, <1>4, <1>5, ByScoreSorts
<1>7. fused = [k \in 1..n |-> sc[o[k]]]
  BY <1>1, <1>6, Zenon DEF sc, tot, Fused
<1>8. \A k \in 1..n : o[k] \in 1..n
  OBVIOUS
<1>9. \A k \in 1..n :
          fused[k] = [chunk |-> s.hits[o[k]].chunk, text |-> s.hits[o[k]].text,
                      score |-> Total(s, m, s.hits[o[k]])]
  <2>1. ASSUME NEW k \in 1..n, NEW i, i = o[k]
        PROVE  fused[k] = [chunk |-> s.hits[i].chunk, text |-> s.hits[i].text,
                           score |-> Total(s, m, s.hits[i])]
    <3>1. i \in 1..n /\ fused[k] = sc[i]
      BY <1>7, <1>8, <2>1
    <3>2. sc[i] = [chunk |-> s.hits[i].chunk, text |-> s.hits[i].text, score |-> tot[i]]
      BY <1>4, <3>1
    <3>3. tot[i] = Total(s, m, s.hits[i])
      BY <1>3, <3>1
    <3> QED
      BY <3>1, <3>2, <3>3
  <2> QED
    BY <2>1
<1>10. \A i \in 1..n : [chunk |-> s.hits[i].chunk, text |-> s.hits[i].text, score |-> tot[i]]
                          \in Items
  <2>1. \A i \in 1..n : s.hits[i].chunk \in Chunks /\ s.hits[i].text \in Texts
    BY <1>2 DEF Points
  <2> QED
    BY <1>3, <2>1 DEF Items
<1>11. fused \in [1..n -> Items]
  <2>1. \A i \in 1..n : sc[i] \in Items
    BY <1>4, <1>10, Zenon
  <2> HIDE DEF sc
  <2> QED
    BY <1>7, <1>8, <2>1
<1>12. \A k, l \in 1..n :
           Total(s, m, s.hits[o[k]]) > Total(s, m, s.hits[o[l]]) => k < l
  <2> SUFFICES ASSUME NEW k \in 1..n, NEW l \in 1..n,
                      Total(s, m, s.hits[o[k]]) > Total(s, m, s.hits[o[l]])
               PROVE  k < l
    OBVIOUS
  <2>1. o[k] \in 1..n /\ o[l] \in 1..n
    BY <1>8
  <2>2. /\ sc[o[k]].score = Total(s, m, s.hits[o[k]])
        /\ sc[o[l]].score = Total(s, m, s.hits[o[l]])
    BY <1>3, <1>5, <2>1, Zenon
  <2>3. sc[o[k]].score > sc[o[l]].score
    BY <2>2
  <2> QED
    BY <1>6, <2>3, Zenon
<1>13. FusedBy(s, m, n, fused, o)
  BY <1>6, <1>9, <1>11, <1>12 DEF FusedBy
<1> QED
  BY <1>13

Rescored(items) ==
    ByScore(Scored(items, [i \in DOMAIN items |->
        7 * items[i].score + 3 * Rerank(items[i]) * (One \div 10)]))

\* The k-th of the n items is item o[k].
RescoredBy(items, n, q, o) ==
    /\ q \in [1..n -> Items]
    /\ \A k \in 1..n : q[k].chunk = items[o[k]].chunk /\ q[k].text = items[o[k]].text
    /\ \A i \in 1..n : \E k \in 1..n : o[k] = i
    /\ \A k, l \in 1..n :
          /\ items[o[k]].score > items[o[l]].score
          /\ Rerank(items[o[k]]) >= Rerank(items[o[l]])
          => k < l

\* The reranker sorts by a score that grows with the total and with its own.
LEMMA RerankedSorts ==
    ASSUME NEW n \in Nat, NEW items \in [1..n -> Items], setup \in Setups,
           NEW q, q = Rescored(items)
    PROVE  \E o \in [1..n -> 1..n] : RescoredBy(items, n, q, o)
<1> DEFINE d == One \div 10
           re == [i \in 1..n |-> Rerank(items[i])]
           to == [i \in 1..n |-> items[i].score]
           new == [i \in 1..n |-> 7 * items[i].score + 3 * Rerank(items[i]) * d]
           sc == Scored(items, new)
<1>1. d \in Nat
  <2>1. RankUnit \in Nat
    BY ScoreAssumption
  <2>2. One \in Nat
    BY <2>1 DEF One
  <2> QED
    BY <2>2, Division
<1> HIDE DEF d
<1>2. \A i \in 1..n : /\ items[i].chunk \in Chunks /\ items[i].text \in Texts
                      /\ items[i].score \in Nat
  BY DEF Items
<1>3. \A i \in 1..n : re[i] = Rerank(items[i]) /\ re[i] \in Nat
  <2>1. \A t \in Texts : Overlap[t] \in Nat /\ Relevance[t] \in Nat
    <3>1. Overlap \in [Texts -> 0..10] /\ Relevance \in [Texts -> 0..10]
      BY ScoreAssumption
    <3> QED
      BY <3>1
  <2> QED
    BY <1>2, <2>1 DEF Rerank
<1>4. \A i \in 1..n : to[i] = items[i].score /\ to[i] \in Nat
  BY <1>2
<1>5. \A i \in 1..n : new[i] = 7 * to[i] + 3 * re[i] * d
  BY <1>3, <1>4
<1> HIDE DEF new, re, to
<1>6. \A x, y \in Nat : 7 * x + 3 * y * d \in Nat
  BY <1>1
<1>7. \A i \in 1..n : new[i] \in Nat
  BY <1>3, <1>4, <1>5, <1>6
<1>8. \A i, j \in 1..n : to[i] > to[j] /\ re[i] >= re[j] => new[i] > new[j]
  <2> SUFFICES ASSUME NEW i \in 1..n, NEW j \in 1..n, to[i] > to[j], re[i] >= re[j]
               PROVE  new[i] > new[j]
    OBVIOUS
  <2> DEFINE a == to[i]  b == to[j]  x == re[i]  y == re[j]
  <2>1. a \in Nat /\ b \in Nat /\ x \in Nat /\ y \in Nat /\ a > b /\ x >= y
    BY <1>3, <1>4
  <2>2. new[i] = 7 * a + 3 * x * d /\ new[j] = 7 * b + 3 * y * d
    BY <1>5
  <2> HIDE DEF a, b, x, y
  <2>3. 3 * x * d = 3 * y * d + 3 * (x - y) * d
    BY <1>1, <2>1
  <2>4. 3 * (x - y) * d >= 0 /\ 3 * (x - y) * d \in Int /\ 3 * y * d \in Int
    BY <1>1, <2>1
  <2> QED
    BY <2>1, <2>2, <2>3, <2>4
<1>9. /\ DOMAIN sc = 1..n
      /\ \A i \in 1..n : sc[i] = [chunk |-> items[i].chunk, text |-> items[i].text,
                                  score |-> new[i]]
  BY DEF Scored
<1>10. q = ByScore(sc)
  BY Zenon DEF sc, new, d, Rescored
<1> HIDE DEF sc
<1>11. ASSUME NEW i \in 1..n
       PROVE  /\ sc[i].score = new[i] /\ sc[i].score \in Int
              /\ sc[i].chunk = items[i].chunk /\ sc[i].text = items[i].text
              /\ sc[i] \in Items
  <2>1. sc[i] = [chunk |-> items[i].chunk, text |-> items[i].text, score |-> new[i]]
    BY <1>9
  <2>2. sc[i].score = new[i] /\ sc[i].chunk = items[i].chunk /\ sc[i].text = items[i].text
    BY <2>1
  <2>3. sc[i] \in Items
    BY <1>2, <1>7, <2>1 DEF Items
  <2> QED
    BY <1>7, <2>2, <2>3
<1>12. PICK o \in [1..n -> 1..n] :
          /\ ByScore(sc) = [k \in 1..n |-> sc[o[k]]]
          /\ \A i \in 1..n : \E k \in 1..n : o[k] = i
          /\ \A k, l \in 1..n : sc[o[k]].score > sc[o[l]].score => k < l
  BY <1>9, <1>11, ByScoreSorts
<1>13. \A k \in 1..n : o[k] \in 1..n
  OBVIOUS
<1>14. q = [k \in 1..n |-> sc[o[k]]]
  BY <1>10, <1>12, Zenon
<1>17. q \in [1..n -> Items]
  <2>1. \A i \in 1..n : sc[i] \in Items
    BY <1>11
  <2> QED
    BY <1>13, <1>14, <2>1
<1>15. \A k \in 1..n : q[k].chunk = items[o[k]].chunk /\ q[k].text = items[o[k]].text
  <2>1. \A i \in 1..n : sc[i].chunk = items[i].chunk /\ sc[i].text = items[i].text
    BY <1>11
  <2> QED
    BY <1>13, <1>14, <2>1
<1>16. ASSUME NEW k \in 1..n, NEW l \in 1..n,
              items[o[k]].score > items[o[l]].score,
              Rerank(items[o[k]]) >= Rerank(items[o[l]])
       PROVE  k < l
  <2>1. to[o[k]] > to[o[l]] /\ re[o[k]] >= re[o[l]]
    BY <1>3, <1>4, <1>13, <1>16
  <2>2. new[o[k]] > new[o[l]]
    BY <1>8, <1>13, <2>1
  <2>3. sc[o[k]].score > sc[o[l]].score
    BY <1>11, <1>13, <2>2
  <2> QED
    BY <1>12, <2>3
<1>18. RescoredBy(items, n, q, o)
  BY <1>12, <1>15, <1>16, <1>17 DEF RescoredBy
<1> QED
  BY <1>18

\* The k-th of n items is hit o[k], and better hits come before.
InOrder(s, m, n, q, o) ==
    /\ \A k \in 1..n : q[k].chunk = s.hits[o[k]].chunk /\ q[k].text = s.hits[o[k]].text
    /\ \A i \in 1..n : \E k \in 1..n : o[k] = i
    /\ \A k, l \in 1..n : Better(s, m, s.hits[o[k]], s.hits[o[l]]) => k < l

\* What is ranked is hits, with a better hit before every one.
RankedBy(s, m, n, ranked, o) ==
    /\ \A k \in 1..Len(ranked) : ranked[k] = s.hits[o[k]]
    /\ \A i \in 1..n, k \in 1..Len(ranked) :
          Better(s, m, s.hits[i], s.hits[o[k]]) => \E l \in 1..(k - 1) : o[l] = i

LEMMA RankedKeeps ==
    ASSUME NEW s, NEW m, Rankable(s, m), NEW n, n = Len(s.hits),
           NEW ranked, ranked = Ranked(s, m)
    PROVE  /\ ranked \in Seq(Points) /\ Len(ranked) <= n
           /\ DOMAIN ranked = 1..Len(ranked) /\ Len(ranked) \in Nat
           /\ \E o \in [1..n -> 1..n] : RankedBy(s, m, n, ranked, o)
<1>0. PICK fused : fused = Fused(s, m)
  OBVIOUS
<1> DEFINE best == FirstN(Reranked(fused, s.req), s.req.topK)
<1>1. ranked = [i \in DOMAIN best |-> [chunk |-> best[i].chunk, text |-> best[i].text]]
  BY <1>0, Zenon DEF Ranked, Fused
<1>2. n \in Nat /\ \A i \in 1..n : s.hits[i] \in Points /\ Total(s, m, s.hits[i]) \in Nat
  <2>1. n \in Nat /\ s.hits \in [1..n -> Points]
    BY LenProperties DEF Rankable
  <2> QED
    BY <2>1, TotalType
<1>2a. PICK f \in [1..n -> 1..n] : FusedBy(s, m, n, fused, f)
  BY <1>0, FusedSorts
<1>3. /\ fused \in [1..n -> Items]
      /\ \A k \in 1..n :
            fused[k] = [chunk |-> s.hits[f[k]].chunk, text |-> s.hits[f[k]].text,
                        score |-> Total(s, m, s.hits[f[k]])]
      /\ \A i \in 1..n : \E k \in 1..n : f[k] = i
      /\ \A k, l \in 1..n :
            Total(s, m, s.hits[f[k]]) > Total(s, m, s.hits[f[l]]) => k < l
  BY <1>2a DEF FusedBy
<1>4. ASSUME NEW k \in 1..n
      PROVE  /\ f[k] \in 1..n
             /\ fused[k].score = Total(s, m, s.hits[f[k]])
             /\ fused[k].chunk = s.hits[f[k]].chunk /\ fused[k].text = s.hits[f[k]].text
             /\ Rerank(fused[k]) = Rerank(s.hits[f[k]])
  <2>1. fused[k] = [chunk |-> s.hits[f[k]].chunk, text |-> s.hits[f[k]].text,
                    score |-> Total(s, m, s.hits[f[k]])]
    BY <1>3
  <2>2. /\ fused[k].score = Total(s, m, s.hits[f[k]])
        /\ fused[k].chunk = s.hits[f[k]].chunk /\ fused[k].text = s.hits[f[k]].text
    BY <2>1
  <2> QED
    BY <2>2 DEF Rerank
<1>5. s.req.topK \in Nat /\ s.req.topN \in Nat /\ s.req.rerank \in BOOLEAN /\ setup \in Setups
  BY DEF Rankable, RequestOK
<1>6. \E o \in [1..n -> 1..n], q \in [1..n -> Items], c \in Nat :
          Reranked(fused, s.req) \in {q, FirstN(q, c)} /\ InOrder(s, m, n, q, o)
  <2>1. CASE ~s.req.rerank
    <3>1. Reranked(fused, s.req) = fused
      BY <2>1 DEF Reranked
    <3>2. \A k, l \in 1..n : Better(s, m, s.hits[f[k]], s.hits[f[l]]) => k < l
      BY <1>3 DEF Better
    <3>3. \A k \in 1..n : fused[k].chunk = s.hits[f[k]].chunk /\ fused[k].text = s.hits[f[k]].text
      BY <1>4
    <3>4. InOrder(s, m, n, fused, f)
      BY <1>3, <3>2, <3>3 DEF InOrder
    <3> QED
      BY <1>3, <3>1, <3>4
  <2>2. CASE s.req.rerank
    <3>0. PICK q : q = Rescored(fused)
      OBVIOUS
    <3> DEFINE c == Least(s.req.topN, s.req.topK)
    <3>1. Reranked(fused, s.req) = FirstN(q, c)
      BY <2>2, <3>0, Zenon DEF Reranked, Rescored
    <3>2. c \in Nat
      BY <1>5 DEF Least
    <3>2a. PICK g \in [1..n -> 1..n] : RescoredBy(fused, n, q, g)
      BY <1>2, <1>3, <1>5, <3>0, RerankedSorts
    <3>3. /\ q \in [1..n -> Items]
          /\ \A k \in 1..n : q[k].chunk = fused[g[k]].chunk /\ q[k].text = fused[g[k]].text
          /\ \A i \in 1..n : \E k \in 1..n : g[k] = i
          /\ \A k, l \in 1..n :
                /\ fused[g[k]].score > fused[g[l]].score
                /\ Rerank(fused[g[k]]) >= Rerank(fused[g[l]])
                => k < l
      BY <3>2a DEF RescoredBy
    <3> HIDE DEF c
    <3> DEFINE o == [k \in 1..n |-> f[g[k]]]
    <3>4. \A k \in 1..n : g[k] \in 1..n /\ o[k] = f[g[k]] /\ o[k] \in 1..n
      OBVIOUS
    <3>5. o \in [1..n -> 1..n]
      BY <3>4
    <3> HIDE DEF o
    <3>9. ASSUME NEW k \in 1..n
          PROVE  /\ fused[g[k]].score = Total(s, m, s.hits[o[k]])
                 /\ fused[g[k]].chunk = s.hits[o[k]].chunk
                 /\ fused[g[k]].text = s.hits[o[k]].text
                 /\ Rerank(fused[g[k]]) = Rerank(s.hits[o[k]])
      <4>1. g[k] \in 1..n /\ o[k] = f[g[k]]
        BY <3>4
      <4> QED
        BY <1>4, <4>1, Zenon
    <3>6. ASSUME NEW k \in 1..n
          PROVE  q[k].chunk = s.hits[o[k]].chunk /\ q[k].text = s.hits[o[k]].text
      <4>1. q[k].chunk = fused[g[k]].chunk /\ q[k].text = fused[g[k]].text
        BY <3>3, Zenon
      <4> QED
        BY <3>9, <4>1
    <3>7. \A i \in 1..n : \E k \in 1..n : o[k] = i
      <4> SUFFICES ASSUME NEW i \in 1..n
                   PROVE  \E k \in 1..n : o[k] = i
        OBVIOUS
      <4>1. PICK j \in 1..n : f[j] = i
        BY <1>3, Zenon
      <4>2. PICK k \in 1..n : g[k] = j
        BY <3>3, Zenon
      <4> QED
        BY <3>4, <4>1, <4>2
    <3>8. ASSUME NEW k \in 1..n, NEW l \in 1..n, Better(s, m, s.hits[o[k]], s.hits[o[l]])
          PROVE  k < l
      <4>1. fused[g[k]].score > fused[g[l]].score
        BY <3>8, <3>9, Zenon DEF Better
      <4>2. Rerank(fused[g[k]]) >= Rerank(fused[g[l]])
        BY <2>2, <3>8, <3>9, Zenon DEF Better
      <4> QED
        BY <3>3, <4>1, <4>2, Zenon
    <3>10. q \in [1..n -> Items]
      BY <3>3
    <3>11. InOrder(s, m, n, q, o)
      BY <3>6, <3>7, <3>8, Zenon DEF InOrder
    <3> QED
      BY <3>1, <3>2, <3>5, <3>10, <3>11
  <2> QED
    BY <2>1, <2>2
<1>7. PICK o \in [1..n -> 1..n], q \in [1..n -> Items], c \in Nat :
          Reranked(fused, s.req) \in {q, FirstN(q, c)} /\ InOrder(s, m, n, q, o)
  BY <1>6
<1>7a. /\ \A k \in 1..n : q[k].chunk = s.hits[o[k]].chunk /\ q[k].text = s.hits[o[k]].text
       /\ \A i \in 1..n : \E k \in 1..n : o[k] = i
       /\ \A k, l \in 1..n : Better(s, m, s.hits[o[k]], s.hits[o[l]]) => k < l
  BY <1>7 DEF InOrder
<1>8. q \in Seq(Items) /\ Len(q) = n
  BY <1>2, FunctionSeq
<1>9. /\ Reranked(fused, s.req) \in Seq(Items) /\ Len(Reranked(fused, s.req)) \in Nat
      /\ Len(Reranked(fused, s.req)) <= n
      /\ \A k \in 1..Len(Reranked(fused, s.req)) : Reranked(fused, s.req)[k] = q[k]
  <2>1. CASE Reranked(fused, s.req) = q
    BY <1>2, <1>8, <2>1
  <2>2. CASE Reranked(fused, s.req) = FirstN(q, c)
    BY <1>2, <1>8, <2>2, FirstNFacts
  <2> QED
    BY <1>7, <2>1, <2>2
<1>10. /\ best \in Seq(Items) /\ Len(best) \in Nat /\ Len(best) <= n
       /\ DOMAIN best = 1..Len(best)
       /\ \A k \in 1..Len(best) : best[k] = q[k]
  <2>1. /\ best \in Seq(Items) /\ Len(best) \in Nat
        /\ Len(best) <= Len(Reranked(fused, s.req))
        /\ DOMAIN best = 1..Len(best)
        /\ \A k \in 1..Len(best) : best[k] = Reranked(fused, s.req)[k]
    BY <1>5, <1>9, FirstNFacts
  <2>2. ASSUME NEW z, z = Reranked(fused, s.req), NEW b, b = best
        PROVE  /\ Len(b) <= n
               /\ \A k \in 1..Len(b) : b[k] = q[k]
    <3>1. z = Reranked(fused, s.req) /\ b = best
      BY <2>2
    <3> HIDE DEF best
    <3>2. /\ Len(z) \in Nat /\ Len(z) <= n
          /\ \A k \in 1..Len(z) : z[k] = q[k]
      BY <1>9, <3>1, Zenon
    <3>3. /\ Len(b) \in Nat /\ Len(b) <= Len(z)
          /\ \A k \in 1..Len(b) : b[k] = z[k]
      BY <2>1, <3>1, Zenon
    <3>4. n \in Nat
      BY <1>2
    <3>5. Len(b) <= n
      BY <3>2, <3>3, <3>4
    <3>6. \A k \in 1..Len(b) : k \in 1..Len(z)
      BY <3>2, <3>3
    <3> QED
      BY <3>2, <3>3, <3>5, <3>6, Zenon
  <2>3. /\ Len(best) <= n
        /\ \A k \in 1..Len(best) : best[k] = q[k]
    BY <2>2, Zenon
  <2> QED
    BY <2>1, <2>3, Zenon
<1> HIDE DEF best
<1>11. \A k \in 1..Len(best) : k \in 1..n /\ o[k] \in 1..n
  <2>1. \A k \in 1..Len(best) : k \in 1..n
    BY <1>2, <1>10
  <2> QED
    BY <1>2, <2>1
<1>12. ASSUME NEW k \in 1..Len(best)
       PROVE  ranked[k] = s.hits[o[k]]
  <2>1. ranked[k] = [chunk |-> s.hits[o[k]].chunk, text |-> s.hits[o[k]].text]
    <3>1. ranked[k] = [chunk |-> best[k].chunk, text |-> best[k].text]
      BY <1>1, <1>10
    <3>2. best[k].chunk = s.hits[o[k]].chunk /\ best[k].text = s.hits[o[k]].text
      BY <1>7a, <1>10, <1>11
    <3> QED
      BY <3>1, <3>2
  <2>2. s.hits[o[k]] = [chunk |-> s.hits[o[k]].chunk, text |-> s.hits[o[k]].text]
    BY <1>2, <1>11 DEF Points
  <2> QED
    BY <2>1, <2>2
<1>13. /\ ranked \in Seq(Points) /\ Len(ranked) = Len(best)
       /\ DOMAIN ranked = 1..Len(ranked)
  <2>1. ranked \in [1..Len(best) -> Points]
    BY <1>1, <1>2, <1>10, <1>11, <1>12
  <2> QED
    BY <1>10, <2>1, FunctionSeq
<1>14. ASSUME NEW i \in 1..n, NEW k \in 1..Len(ranked), Better(s, m, s.hits[i], s.hits[o[k]])
       PROVE  \E l \in 1..(k - 1) : o[l] = i
  <2>1. PICK l \in 1..n : o[l] = i
    BY <1>7a
  <2>2. l < k
    BY <1>7a, <1>11, <1>13, <1>14, <2>1
  <2>3. l \in 1..(k - 1)
    BY <1>2, <1>10, <1>13, <2>2
  <2> QED
    BY <2>1, <2>3
<1>15. RankedBy(s, m, n, ranked, o)
  BY <1>12, <1>13, <1>14, Zenon DEF RankedBy
<1> QED
  BY <1>10, <1>13, <1>15

-----------------------------------------------------------------------------
(* Where the signals agree, so do the totals.                              *)

\* Of two hits the earlier one has the better rank among the hits.
LEMMA EarlierHit ==
    ASSUME NEW s, NEW m, Rankable(s, m), OneHitPerChunk(s),
           NEW i \in 1..Len(s.hits), NEW j \in 1..Len(s.hits), i < j,
           NEW ranking, DOMAIN ranking = DOMAIN s.hits,
           \A k \in DOMAIN s.hits : ranking[k] = s.hits[k].chunk
    PROVE  AtRank(ranking, s.hits[i].chunk) > AtRank(ranking, s.hits[j].chunk)
<1> DEFINE n == Len(s.hits)
<1>1. n \in Nat /\ DOMAIN s.hits = 1..n /\ DOMAIN ranking = 1..n
  BY LenProperties DEF Rankable
<1>2. \A k \in 1..n : ranking[k] = s.hits[k].chunk /\ ranking[k] \in Chunks
  <2>1. \A k \in 1..n : s.hits[k] \in Points
    BY <1>1, ElementOfSeq DEF Rankable
  <2> QED
    BY <1>1, <2>1 DEF Points
<1>3. \A k, l \in 1..n : ranking[k] = ranking[l] => k = l
  BY <1>1, <1>2 DEF OneHitPerChunk
<1>4. n <= Cardinality(Chunks) /\ Cardinality(Chunks) \in Nat
  <2> DEFINE D == 1..n
             f == [k \in D |-> ranking[k]]
  <2>1. f \in [D -> Chunks] /\ IsInjective(f)
    BY <1>1, <1>2, <1>3 DEF IsInjective
  <2>3. f \in Injection(D, Chunks)
    BY <2>1 DEF Injection
  <2>4. Cardinality(D) = n
    BY <1>1, FS_Interval
  <2> HIDE DEF D, f
  <2>5. IsFiniteSet(Chunks)
    BY ScoreAssumption
  <2>6. Cardinality(D) <= Cardinality(Chunks)
    BY <2>3, <2>5, FS_Injection
  <2> QED
    BY <2>4, <2>5, <2>6, FS_CardinalityType
<1>5. \A k \in 1..n : AtRank(ranking, s.hits[k].chunk) = RankUnit \div (60 + k)
  <2> SUFFICES ASSUME NEW k \in 1..n
               PROVE  AtRank(ranking, s.hits[k].chunk) = RankUnit \div (60 + k)
    OBVIOUS
  <2>1. DOMAIN ranking \subseteq Nat \ {0}
    BY <1>1
  <2>0. PICK c : c = s.hits[k].chunk
    OBVIOUS
  <2>2. k \in DOMAIN ranking /\ ranking[k] = c
    BY <1>1, <1>2, <2>0
  <2>3. \A l \in DOMAIN ranking : ranking[l] = c => k = l
    BY <1>1, <1>3, <2>2
  <2>4. AtRank(ranking, c) = RankUnit \div (60 + k)
    BY <2>1, <2>2, <2>3, AtRankPlace
  <2> QED
    BY <2>0, <2>4
<1>6. RankUnit % (60 + i) = 0
  <2>1. i \in 1..Cardinality(Chunks)
    BY <1>1, <1>4
  <2> QED
    BY <2>1, ScoreAssumption
<1>7. RankUnit \div (60 + j) < RankUnit \div (60 + i)
  <2>1. i \in Nat /\ j \in Nat /\ 0 < i /\ i < j
    BY <1>1
  <2> QED
    BY <1>6, <2>1, RankFalls
<1>8. RankUnit \div (60 + j) \in Int /\ RankUnit \div (60 + i) \in Int
  BY <1>1, ScoreAssumption
<1> QED
  BY <1>5, <1>7, <1>8

\* A ranking of the cited chunks has each of them once.
LEMMA MemoryRankingFacts ==
    ASSUME NEW s, s.memory \in [Chunks -> 0..10], NEW m \in MemoryRankings(s)
    PROVE  /\ m \in Seq(Chunks)
           /\ \A i, j \in DOMAIN m : m[i] = m[j] => i = j
           /\ \A i \in DOMAIN m : m[i] \in Chunks /\ s.memory[m[i]] > 0
           /\ \A c \in Chunks : s.memory[c] > 0 => \E i \in DOMAIN m : m[i] = c
           /\ \A i, j \in DOMAIN m : i < j => s.memory[m[i]] >= s.memory[m[j]]
<1> DEFINE C == {c \in Chunks : s.memory[c] > 0}
           n == Cardinality(C)
           D == 1..n
<1>1. IsFiniteSet(C) /\ n \in Nat
  <2>1. IsFiniteSet(Chunks)
    BY ScoreAssumption
  <2> QED
    BY <2>1, FS_Subset, FS_CardinalityType
<1>2. /\ m \in SetToSeqs(C)
      /\ \A i, j \in DOMAIN m : i < j => s.memory[m[i]] >= s.memory[m[j]]
  BY DEF MemoryRankings
<1>3. m \in [D -> C] /\ (\A i, j \in D : i # j => m[i] # m[j])
  BY <1>2 DEF SetToSeqs
<1>4. m \in Seq(Chunks)
  <2>1. m \in [1..n -> Chunks]
    BY <1>3
  <2> HIDE DEF n
  <2> QED
    BY <1>1, <2>1, FunctionSeq
<1>5. \A i, j \in DOMAIN m : m[i] = m[j] => i = j
  BY <1>3
<1>6. Cardinality(D) = n
  BY <1>1, FS_Interval
<1>7. \A c \in C : \E i \in D : m[i] = c
  <2> HIDE DEF D, C
  <2>1. m \in Injection(D, C)
    BY <1>3, <1>5 DEF Injection, IsInjective
  <2>2. m \in Surjection(D, C)
    BY <1>1, <1>6, <2>1, FS_Injection
  <2> QED
    BY <2>2 DEF Surjection
<1>8. DOMAIN m = D
  BY <1>3
<1>9. \A i \in DOMAIN m : m[i] \in Chunks /\ s.memory[m[i]] > 0
  <2>1. \A i \in DOMAIN m : m[i] \in C
    BY <1>3, <1>8
  <2> QED
    BY <2>1
<1> QED
  BY <1>2, <1>4, <1>5, <1>7, <1>8, <1>9

\* A chunk with the higher bonus has no worse a rank.
LEMMA HigherBonus ==
    ASSUME NEW s, s.memory \in [Chunks -> 0..10], NEW m \in MemoryRankings(s),
           NEW c \in Chunks, NEW d \in Chunks,
           s.memory[c] > s.memory[d] \/ (s.memory[c] = 0 /\ s.memory[d] = 0)
    PROVE  AtRank(m, c) >= AtRank(m, d)
<1>1. /\ m \in Seq(Chunks)
      /\ \A i, j \in DOMAIN m : m[i] = m[j] => i = j
      /\ \A i \in DOMAIN m : m[i] \in Chunks /\ s.memory[m[i]] > 0
      /\ \A x \in Chunks : s.memory[x] > 0 => \E i \in DOMAIN m : m[i] = x
      /\ \A i, j \in DOMAIN m : i < j => s.memory[m[i]] >= s.memory[m[j]]
  BY MemoryRankingFacts
<1>2. DOMAIN m \subseteq Nat \ {0}
  <2>1. DOMAIN m = 1..Len(m) /\ Len(m) \in Nat
    BY <1>1, LenProperties
  <2> QED
    BY <2>1
<1>3. s.memory[c] \in Nat /\ s.memory[d] \in Nat
  OBVIOUS
<1>4. AtRank(m, c) \in Nat /\ AtRank(m, d) \in Nat
  BY <1>2, AtRankFacts
<1>5. CASE \A i \in DOMAIN m : m[i] # d
  <2>1. AtRank(m, d) = 0
    BY <1>2, <1>5, AtRankFacts
  <2> QED
    BY <1>4, <2>1
<1>6. ASSUME NEW q \in DOMAIN m, m[q] = d
      PROVE  AtRank(m, c) >= AtRank(m, d)
  <2>1. s.memory[d] > 0 /\ s.memory[c] > s.memory[d]
    BY <1>1, <1>3, <1>6
  <2>2. PICK p \in DOMAIN m : m[p] = c
    BY <1>1, <1>3, <2>1
  <2>3. p \in Nat /\ q \in Nat /\ 0 < p /\ p < q
    <3>1. p \in Nat /\ q \in Nat /\ 0 < p
      BY <1>2
    <3>2. p # q
      BY <1>3, <1>6, <2>1, <2>2
    <3>3. ~(q < p)
      BY <1>1, <1>3, <1>6, <2>1, <2>2
    <3> QED
      BY <3>1, <3>2, <3>3
  <2>4. AtRank(m, c) = RankUnit \div (60 + p)
    BY <1>1, <1>2, <2>2, AtRankFacts
  <2>5. AtRank(m, d) = RankUnit \div (60 + q)
    BY <1>1, <1>2, <1>6, AtRankFacts
  <2>6. RankUnit \div (60 + q) <= RankUnit \div (60 + p)
    BY <2>3, RankFalls
  <2> QED
    BY <1>4, <2>4, <2>5, <2>6
<1> QED
  BY <1>5, <1>6

\* A chunk that the graph finds has no worse a rank than one it does not.
LEMMA GraphRank ==
    ASSUME NEW s, s.graph \in Seq(Chunks), NEW h, NEW g,
           Graph(s, h) > Graph(s, g) \/ (Graph(s, h) = 0 /\ Graph(s, g) = 0)
    PROVE  AtRank(s.graph, h.chunk) >= AtRank(s.graph, g.chunk)
<1>1. DOMAIN s.graph = 1..Len(s.graph) /\ Len(s.graph) \in Nat
  BY LenProperties
<1>2. DOMAIN s.graph \subseteq Nat \ {0}
  BY <1>1
<1>3. \A i \in DOMAIN s.graph : s.graph[i] # g.chunk
  BY <1>1 DEF Graph, Contains
<1> DEFINE c == h.chunk  d == g.chunk  ranking == s.graph
<1> HIDE DEF c, d, ranking
<1>4. AtRank(ranking, c) \in Nat /\ AtRank(ranking, d) = 0
  BY <1>2, <1>3, AtRankFacts DEF d, ranking
<1> QED
  BY <1>4 DEF c, d, ranking

\* What counts for the answer, for hits that the vector search returned in
\* this order.
LEMMA OutranksBetter ==
    ASSUME NEW s, NEW m, Rankable(s, m), OneHitPerChunk(s), m \in MemoryRankings(s),
           s.fallback => s.graph = <<>>,
           NEW i \in 1..Len(s.hits), NEW j \in 1..Len(s.hits), i < j,
           Outranks(s, s.hits[i], s.hits[j])
    PROVE  Better(s, m, s.hits[i], s.hits[j])
<1>0. PICK h, g : h = s.hits[i] /\ g = s.hits[j]
  OBVIOUS
<1>1. h \in Points /\ g \in Points
  BY <1>0, ElementOfSeq DEF Rankable
<1>2. s.expanded \in BOOLEAN /\ s.memory \in [Chunks -> 0..10] /\ s.graph \in Seq(Chunks)
  BY DEF Rankable
<1>3. /\ Vector(s, h) > Vector(s, g)
      /\ AtLeast(GraphSignal(s, h), GraphSignal(s, g))
      /\ AtLeast(MemoryOf(s, h), MemoryOf(s, g))
      /\ Overlap[h.text] >= Overlap[g.text]
      /\ s.req.rerank => Rerank(h) >= Rerank(g)
  BY <1>0 DEF Outranks
<1>4. /\ Vector(s, h) \in Nat /\ Graph(s, h) \in {0, 10} /\ MemoryOf(s, h) \in Nat
      /\ Overlap[h.text] \in Nat /\ h.chunk \in Chunks
  <2>1. /\ h.chunk \in Chunks /\ h.text \in Texts
        /\ Vector(s, h) \in 0..10 /\ Graph(s, h) \in {0, 10}
        /\ MemoryOf(s, h) \in 0..10 /\ Overlap[h.text] \in 0..10
        /\ Rerank(h) \in 0..10
    BY <1>1, <1>2, Signals
  <2>2. 0..10 \subseteq Nat
    OBVIOUS
  <2> QED
    BY <2>1, <2>2
<1>5. /\ Vector(s, g) \in Nat /\ Graph(s, g) \in {0, 10} /\ MemoryOf(s, g) \in Nat
      /\ Overlap[g.text] \in Nat /\ g.chunk \in Chunks
  <2>1. /\ g.chunk \in Chunks /\ g.text \in Texts
        /\ Vector(s, g) \in 0..10 /\ Graph(s, g) \in {0, 10}
        /\ MemoryOf(s, g) \in 0..10 /\ Overlap[g.text] \in 0..10
        /\ Rerank(g) \in 0..10
    BY <1>1, <1>2, Signals
  <2>2. 0..10 \subseteq Nat
    OBVIOUS
  <2> QED
    BY <2>1, <2>2
<1>6. AtLeast(Graph(s, h), Graph(s, g))
  <2>1. CASE s.fallback
    <3>1. Graph(s, h) = 0 /\ Graph(s, g) = 0
      BY <2>1 DEF Graph, Contains
    <3> QED
      BY <3>1 DEF AtLeast
  <2>2. CASE ~s.fallback
    BY <1>3, <2>2 DEF GraphSignal
  <2> QED
    BY <2>1, <2>2
<1>7. Total(s, m, h) > Total(s, m, g)
  <2>1. CASE setup.fusion = "rrf"
    <3> DEFINE ranking == [k \in DOMAIN s.hits |-> s.hits[k].chunk]
               a == AtRank(ranking, h.chunk)  b == AtRank(ranking, g.chunk)
               x == AtRank(s.graph, h.chunk)  y == AtRank(s.graph, g.chunk)
               p == AtRank(m, h.chunk)  q == AtRank(m, g.chunk)
               v == Overlap[h.text]  w == Overlap[g.text]  u == RankUnit
    <3>1. a > b
      <4>1. DOMAIN ranking = DOMAIN s.hits /\ \A k \in DOMAIN s.hits : ranking[k] = s.hits[k].chunk
        OBVIOUS
      <4> HIDE DEF ranking
      <4>2. AtRank(ranking, s.hits[i].chunk) > AtRank(ranking, s.hits[j].chunk)
        BY <4>1, EarlierHit
      <4> QED
        BY <1>0, <4>2
    <3>2. x >= y
      <4>1. Graph(s, h) > Graph(s, g) \/ (Graph(s, h) = 0 /\ Graph(s, g) = 0)
        BY <1>6, <2>1 DEF AtLeast
      <4> QED
        BY <1>2, <4>1, GraphRank
    <3>3. p >= q
      <4>1. \/ s.memory[h.chunk] > s.memory[g.chunk]
            \/ s.memory[h.chunk] = 0 /\ s.memory[g.chunk] = 0
        BY <1>3, <2>1 DEF AtLeast, MemoryOf
      <4> QED
        BY <1>2, <1>4, <1>5, <4>1, HigherBonus
    <3>4. a \in Nat /\ b \in Nat /\ x \in Nat /\ y \in Nat /\ p \in Nat /\ q \in Nat
      BY RankingDomains, AtRankFacts
    <3>5. v \in Nat /\ w \in Nat /\ v >= w /\ u \in Nat
      BY <1>3, <1>4, <1>5, ScoreAssumption
    <3>6. /\ Total(s, m, h) = 80 * (a + x + p) + 2 * u * v
          /\ Total(s, m, g) = 80 * (b + y + q) + 2 * u * w
      BY <2>1 DEF Total, RrfScore
    <3> HIDE DEF ranking, a, b, x, y, p, q, v, w, u
    <3>7. 2 * u * v = 2 * u * w + 2 * u * (v - w) /\ 2 * u * (v - w) >= 0
      BY <3>5
    <3>8. 2 * u * v \in Int /\ 2 * u * w \in Int /\ 2 * u * v >= 2 * u * w
      BY <3>5, <3>7
    <3> DEFINE e == 2 * u * v  f == 2 * u * w
    <3> HIDE DEF e, f
    <3>9. 80 * (a + x + p) + e > 80 * (b + y + q) + f
      BY <3>1, <3>2, <3>3, <3>4, <3>8 DEF e, f
    <3> QED
      BY <3>6, <3>9 DEF e, f
  <2>2. CASE setup.fusion # "rrf"
    <3>1. Graph(s, h) >= Graph(s, g) /\ MemoryOf(s, h) >= MemoryOf(s, g)
      BY <1>3, <1>6, <2>2 DEF AtLeast
    <3> DEFINE a == Vector(s, h)  b == Vector(s, g)  x == Graph(s, h)  y == Graph(s, g)
               p == MemoryOf(s, h)  q == MemoryOf(s, g)
               v == Overlap[h.text]  w == Overlap[g.text]
    <3>2. /\ Total(s, m, h) = 6 * (7 * a + 2 * x + p) + 40 * v
          /\ Total(s, m, g) = 6 * (7 * b + 2 * y + q) + 40 * w
      BY <2>2 DEF Total
    <3>3. /\ a \in Nat /\ b \in Nat /\ x \in Nat /\ y \in Nat /\ p \in Nat /\ q \in Nat
          /\ v \in Nat /\ w \in Nat
      BY <1>4, <1>5
    <3>4. a > b /\ x >= y /\ p >= q /\ v >= w
      BY <1>3, <3>1
    <3> HIDE DEF a, b, x, y, p, q, v, w
    <3> QED
      BY <3>2, <3>3, <3>4
  <2> QED
    BY <2>1, <2>2
<1> QED
  BY <1>0, <1>3, <1>7 DEF Better

-----------------------------------------------------------------------------
(* The steps of a search.                                                  *)

\* CorpusOK, job by job.
LEMMA CorpusIs ==
    ASSUME NEW v, NEW r, NEW jobs, NEW tornChunks
    PROVE  CorpusOK(v, r, jobs, tornChunks) <=>
             /\ v \in [Chunks -> Texts \cup {NoText}]
             /\ r \in [Chunks -> Texts \cup {NoText}]
             /\ jobs \subseteq Jobs /\ tornChunks \subseteq Chunks
             /\ \A c \in Chunks \ tornChunks :
                  /\ (\A x \in jobs : x.chunk # c) => r[c] = v[c]
                  /\ \A x \in jobs : x.chunk = c =>
                       v[c] = x.text /\ \A y \in jobs : y.chunk = c => y = x
<1>1. ASSUME NEW c
      PROVE  /\ {x \in jobs : x.chunk = c} = {} <=> \A x \in jobs : x.chunk # c
             /\ (\A x \in {y \in jobs : y.chunk = c} :
                    v[c] = x.text /\ {y \in jobs : y.chunk = c} = {x})
                <=> \A x \in jobs : x.chunk = c =>
                       v[c] = x.text /\ \A y \in jobs : y.chunk = c => y = x
  <2>1. ASSUME NEW x \in jobs, x.chunk = c
        PROVE  {y \in jobs : y.chunk = c} = {x} <=> \A y \in jobs : y.chunk = c => y = x
    BY <2>1
  <2> QED BY <2>1
<1> QED BY <1>1 DEF CorpusOK

\* What the stores and the work on them say of a chunk.
LEMMA CorpusFacts ==
    ASSUME CorpusOK(vec, row, work, torn)
    PROVE  /\ Unsettled \subseteq Chunks
           /\ \A c \in Chunks : c \notin Unsettled => row[c] = vec[c]
           /\ \A c \in Chunks : row[c] = NoText =>
                \/ vec[c] = NoText \/ c \in torn
                \/ \E x \in work : x.chunk = c /\ x.text # NoText
<1>1. /\ work \subseteq Jobs /\ torn \subseteq Chunks
      /\ \A c \in Chunks \ torn :
           /\ (\A x \in work : x.chunk # c) => row[c] = vec[c]
           /\ \A x \in work : x.chunk = c => vec[c] = x.text
  BY CorpusIs
<1>2. \A x \in work : x.chunk \in Chunks
  BY <1>1 DEF Jobs
<1>3. Unsettled \subseteq Chunks
  BY <1>1, <1>2 DEF Unsettled
<1>4. \A c \in Chunks : c \notin Unsettled => row[c] = vec[c]
  BY <1>1 DEF Unsettled
<1>5. \A c \in Chunks : row[c] = NoText =>
          \/ vec[c] = NoText \/ c \in torn
          \/ \E x \in work : x.chunk = c /\ x.text # NoText
  BY <1>1
<1> QED BY <1>3, <1>4, <1>5

LEMMA CandidateFacts ==
    ASSUME NEW r, CorpusOK(vec, row, work, torn)
    PROVE  /\ Candidates(r) \subseteq Points
           /\ IsFiniteSet(Candidates(r)) /\ Cardinality(Candidates(r)) \in Nat
           /\ \A p, q \in Candidates(r) : p.chunk = q.chunk => p = q
           /\ \A p \in Candidates(r) : p.chunk \notin Unsettled => row[p.chunk] = p.text
<1> DEFINE P == Candidates(r)
           f == [p \in P |-> p.chunk]
<1>1. \A p \in P : \E c \in Chunks : p = [chunk |-> c, text |-> vec[c]] /\ vec[c] # NoText
  BY DEF Candidates, Stored
<1>2. ASSUME NEW p \in P
      PROVE  p.chunk \in Chunks /\ p.text = vec[p.chunk] /\ p.text # NoText
             /\ p = [chunk |-> p.chunk, text |-> vec[p.chunk]]
  <2>1. PICK c \in Chunks : p = [chunk |-> c, text |-> vec[c]] /\ vec[c] # NoText
    BY <1>1
  <2>2. p.chunk = c /\ p.text = vec[c]
    BY <2>1
  <2> QED
    BY <2>1, <2>2
<1>3. \A c \in Chunks : /\ vec[c] \in Texts \cup {NoText}
                        /\ c \notin Unsettled => row[c] = vec[c]
  BY CorpusFacts DEF CorpusOK
<1>4. P \subseteq Points
  BY <1>2, <1>3 DEF Points
<1>5. \A p, q \in P : p.chunk = q.chunk => p = q
  BY <1>2, Zenon
<1>6. IsFiniteSet(P)
  <2>1. f \in Injection(P, Chunks)
    <3>1. f \in [P -> Chunks]
      BY <1>2
    <3>2. IsInjective(f)
      BY <1>5 DEF IsInjective
    <3> QED
      BY <3>1, <3>2 DEF Injection
  <2> HIDE DEF P, f
  <2>2. IsFiniteSet(Chunks)
    BY ScoreAssumption
  <2> QED
    BY <2>1, <2>2, FS_Injection
<1>7. \A p \in P : p.chunk \notin Unsettled => row[p.chunk] = p.text
  BY <1>2, <1>3
<1> QED
  BY <1>4, <1>5, <1>6, <1>7, FS_CardinalityType

\* What the vector search returns.
LEMMA NearestFacts ==
    ASSUME NEW s, s.expanded \in BOOLEAN, NEW P, P \subseteq Points,
           Cardinality(P) \in Nat, \A p, q \in P : p.chunk = q.chunk => p = q,
           NEW k \in Nat, NEW hits \in Nearest(s, P, k)
    PROVE  /\ hits \in Seq(Points) /\ Len(hits) <= k
           /\ \A i \in DOMAIN hits : hits[i] \in P
           /\ \A i, j \in DOMAIN hits : hits[i].chunk = hits[j].chunk => i = j
           /\ \A h \in P, j \in DOMAIN hits :
                 Vector(s, h) > Vector(s, hits[j]) => \E i \in 1..(j - 1) : hits[i] = h
<1> DEFINE n == Least(k, Cardinality(P))
<1>1. n \in Nat /\ n <= k
  BY DEF Least
<1>2. /\ hits \in [1..n -> P] /\ IsInjective(hits)
      /\ \A i, j \in DOMAIN hits : i < j => Vector(s, hits[i]) >= Vector(s, hits[j])
      /\ \A p \in P \ ToSet(hits), i \in DOMAIN hits : Vector(s, hits[i]) >= Vector(s, p)
  BY DEF Nearest, Injection
<1> HIDE DEF n
<1>3. hits \in Seq(Points) /\ Len(hits) = n /\ DOMAIN hits = 1..n
  <2>1. hits \in [1..n -> Points]
    BY <1>2
  <2> QED
    BY <1>1, <2>1, FunctionSeq
<1>4. \A i \in DOMAIN hits : hits[i] \in P
  BY <1>2
<1>5. \A i, j \in DOMAIN hits : hits[i].chunk = hits[j].chunk => i = j
  BY <1>2, <1>4 DEF IsInjective
<1>6. \A p \in P : Vector(s, p) \in Int
  <2>1. Similarity \in [BOOLEAN -> [Texts -> 0..10]]
    BY ScoreAssumption
  <2>2. \A p \in P : p.text \in Texts
    BY DEF Points
  <2>3. \A t \in Texts : Similarity[s.expanded][t] \in 0..10
    BY <2>1
  <2> QED
    BY <2>2, <2>3 DEF Vector
<1>7. ASSUME NEW h \in P, NEW j \in DOMAIN hits, Vector(s, h) > Vector(s, hits[j])
      PROVE  \E i \in 1..(j - 1) : hits[i] = h
  <2>1. h \in ToSet(hits)
    BY <1>2, <1>4, <1>6, <1>7
  <2>2. PICK i \in DOMAIN hits : hits[i] = h
    BY <2>1 DEF ToSet
  <2>3. i # j
    BY <1>4, <1>6, <1>7, <2>2
  <2>4. ~(j < i)
    BY <1>2, <1>4, <1>6, <1>7, <2>2
  <2>5. i \in 1..(j - 1)
    BY <1>1, <1>3, <2>3, <2>4
  <2> QED
    BY <2>2, <2>5
<1> QED
  BY <1>1, <1>3, <1>4, <1>5, <1>7

\* AgreedOrderKept of a search.
OrderKept(s) ==
    \A h \in s.visible, j \in DOMAIN s.ranked :
        Outranks(s, h, s.ranked[j]) => \E i \in 1..(j - 1) : s.ranked[i] = h

\* Outranking looks at five parts of a search.
LEMMA SameOutranks ==
    ASSUME NEW s, NEW t, s.expanded = t.expanded, s.graph = t.graph, s.req = t.req,
           s.memory = t.memory, s.fallback = t.fallback, NEW h, NEW g
    PROVE  Outranks(s, h, g) <=> Outranks(t, h, g)
BY DEF Outranks, GraphSignal, Graph, MemoryOf, Vector

\* Fusion and reranking keep the order in which signals agree.
LEMMA RankingKeepsOrder ==
    ASSUME NEW s, NEW m, Rankable(s, m), m \in MemoryRankings(s),
           OneHitPerChunk(s), NearestFirst(s), s.fallback => s.graph = <<>>,
           NEW ranked, ranked = Ranked(s, m),
           NEW h \in s.visible, NEW j \in DOMAIN ranked, Outranks(s, h, ranked[j])
    PROVE  \E i \in 1..(j - 1) : ranked[i] = h
<1>1. PICK n : n = Len(s.hits)
  OBVIOUS
<1>2. /\ ranked \in Seq(Points) /\ Len(ranked) <= n
      /\ DOMAIN ranked = 1..Len(ranked) /\ Len(ranked) \in Nat
      /\ \E o \in [1..n -> 1..n] : RankedBy(s, m, n, ranked, o)
  BY <1>1, RankedKeeps
<1>2a. PICK o \in [1..n -> 1..n] : RankedBy(s, m, n, ranked, o)
  BY <1>2
<1>3. /\ \A k \in 1..Len(ranked) : ranked[k] = s.hits[o[k]]
      /\ \A i \in 1..n, k \in 1..Len(ranked) :
            Better(s, m, s.hits[i], s.hits[o[k]]) => \E l \in 1..(k - 1) : o[l] = i
  BY <1>2a DEF RankedBy
<1>4. n \in Nat /\ DOMAIN s.hits = 1..n
  BY <1>1, LenProperties DEF Rankable
<1>5. DOMAIN ranked = 1..Len(ranked) /\ Len(ranked) \in Nat
  BY <1>2
<1>6. j \in 1..n /\ o[j] \in 1..n /\ ranked[j] = s.hits[o[j]]
  <2>1. j \in 1..Len(ranked)
    BY <1>5, Zenon
  <2>2. \A a, b \in Nat : a <= b => \A x \in 1..a : x \in 1..b
    OBVIOUS
  <2>3. j \in 1..n
    BY <1>2, <1>4, <2>1, <2>2
  <2>4. o[j] \in 1..n
    BY <2>3
  <2> QED
    BY <1>3, <2>1, <2>3, <2>4, Zenon
<1>7. Vector(s, h) > Vector(s, s.hits[o[j]])
  BY <1>6 DEF Outranks
<1>8. PICK i \in 1..(o[j] - 1) : s.hits[i] = h
  BY <1>4, <1>6, <1>7 DEF NearestFirst
<1>9. i \in 1..n /\ i < o[j]
  BY <1>4, <1>6
<1>10. Outranks(s, s.hits[i], s.hits[o[j]])
  BY <1>6, <1>8
<1>11. Better(s, m, s.hits[i], s.hits[o[j]])
  BY <1>1, <1>6, <1>9, <1>10, OutranksBetter
<1>12. PICK l \in 1..(j - 1) : o[l] = i
  BY <1>3, <1>5, <1>9, <1>11
<1>13. ranked[l] = h
  <2>1. l \in 1..Len(ranked)
    BY <1>5
  <2> QED
    BY <1>3, <1>8, <1>12, <2>1
<1> QED
  BY <1>13

LEMMA SearchFields ==
    DOMAIN NoSearch = {"pc", "req", "route", "memory", "expanded", "hits", "graph",
                       "fallback", "ranked", "cited", "visible", "disturbed"}
BY DEF NoSearch

\* AgreedOrderKept looks at the configuration and the search.
LEMMA OrderStays ==
    ASSUME setup' = setup, OrderKept(srch')
    PROVE  AgreedOrderKept'
BY DEF AgreedOrderKept, OrderKept, Outranks, AtLeast, GraphSignal, Graph, MemoryOf, Vector,
       Rerank

\* A step of the search leaves the stores as they are.
LEMMA SearchStepKeeps ==
    ASSUME SearchInv, StoresUnchanged,
           SearchTypeOK(srch'), SearchPhase(srch', row, Unsettled), OrderKept(srch')
    PROVE  SearchInv'
<1>1. /\ setup' = setup /\ vec' = vec /\ row' = row /\ work' = work /\ torn' = torn
      /\ writes' = writes /\ Unsettled' = Unsettled
  BY DEF StoresUnchanged, Unsettled
<1>2. AgreedOrderKept'
  BY <1>1, OrderStays
<1>3. StoresOK'
  BY <1>1 DEF SearchInv, StoresOK
<1>4. SearchTypeOK(srch)'
  BY DEF SearchTypeOK, RequestOK
<1>5. SearchPhase(srch, row, Unsettled)'
  BY <1>1 DEF SearchPhase, OneHitPerChunk, NearestFirst, Current, Vector
<1> QED
  BY <1>2, <1>3, <1>4, <1>5 DEF SearchInv

\* s is search r with what the graph found.
Found(s, r, graph, fallback) ==
    /\ s.graph = graph /\ s.fallback = fallback /\ DOMAIN s = DOMAIN NoSearch
    /\ s.req = r.req /\ s.route = r.route /\ s.memory = r.memory
    /\ s.expanded = r.expanded /\ s.hits = r.hits /\ s.cited = r.cited
    /\ s.visible = r.visible /\ s.disturbed = r.disturbed

\* A search that was ranked.
LEMMA RankedSearch ==
    ASSUME SearchInv, srch.pc = "graph", NEW graph \in Seq(Chunks),
           NEW fallback \in BOOLEAN, fallback => graph = <<>>,
           NEW s, Found(s, srch, graph, fallback), NEW m \in MemoryRankings(s),
           NEW t, Found(t, srch, graph, fallback), t.pc = "citing",
           t.ranked = Ranked(s, m)
    PROVE  SearchTypeOK(t) /\ SearchPhase(t, row, Unsettled) /\ OrderKept(t)
<1>0. PICK ranked : ranked = Ranked(s, m)
  OBVIOUS
<1>1. SearchTypeOK(srch) /\ SearchPhase(srch, row, Unsettled) /\ setup \in Setups
  BY DEF SearchInv, StoresOK
<1>2. /\ s.graph = graph /\ s.fallback = fallback /\ DOMAIN s = DOMAIN NoSearch
      /\ s.req = srch.req /\ s.route = srch.route /\ s.memory = srch.memory
      /\ s.expanded = srch.expanded /\ s.hits = srch.hits /\ s.cited = srch.cited
      /\ s.visible = srch.visible /\ s.disturbed = srch.disturbed
  BY DEF Found
<1>3. /\ t.pc = "citing" /\ t.ranked = ranked /\ DOMAIN t = DOMAIN NoSearch
      /\ t.graph = graph /\ t.fallback = fallback
      /\ t.req = srch.req /\ t.route = srch.route /\ t.memory = srch.memory
      /\ t.expanded = srch.expanded /\ t.hits = srch.hits /\ t.cited = srch.cited
      /\ t.visible = srch.visible /\ t.disturbed = srch.disturbed
  BY <1>0 DEF Found
<1>4. m \in Seq(Chunks)
  <2>1. s.memory \in [Chunks -> 0..10]
    BY <1>1, <1>2 DEF SearchTypeOK
  <2> QED
    BY <2>1, MemoryRankingFacts
<1>5. Rankable(s, m)
  BY <1>1, <1>2, <1>4 DEF Rankable, SearchTypeOK
<1>6. PICK n : n = Len(s.hits)
  OBVIOUS
<1>7. /\ ranked \in Seq(Points) /\ Len(ranked) <= n
      /\ DOMAIN ranked = 1..Len(ranked) /\ Len(ranked) \in Nat
      /\ \E o \in [1..n -> 1..n] : RankedBy(s, m, n, ranked, o)
  BY <1>0, <1>5, <1>6, RankedKeeps
<1>8. SearchTypeOK(t)
  BY <1>1, <1>2, <1>3, <1>6, <1>7 DEF SearchTypeOK
<1>9. OneHitPerChunk(srch) /\ NearestFirst(srch) /\ Current(srch.hits, srch.disturbed, row, Unsettled)
      /\ srch.cited = <<>>
  BY <1>1 DEF SearchPhase
<1>10. Current(ranked, t.disturbed, row, Unsettled)
  <2>1. PICK o \in [1..n -> 1..n] : RankedBy(s, m, n, ranked, o)
    BY <1>7
  <2>2. n \in Nat /\ DOMAIN srch.hits = 1..n
    BY <1>1, <1>2, <1>6, LenProperties DEF SearchTypeOK
  <2> SUFFICES ASSUME NEW i \in DOMAIN ranked, ranked[i].chunk \notin t.disturbed
               PROVE  /\ ranked[i].chunk \notin Unsettled
                      /\ row[ranked[i].chunk] = ranked[i].text
    BY DEF Current
  <2>3. i \in 1..Len(ranked)
    BY <1>7, Zenon
  <2>4. i \in 1..n
    BY <1>7, <2>2, <2>3
  <2>5. o[i] \in 1..n
    BY <2>4
  <2>6. ranked[i] = srch.hits[o[i]]
    BY <1>2, <2>1, <2>3 DEF RankedBy
  <2>7. \A k \in 1..n : srch.hits[k].chunk \notin srch.disturbed =>
            srch.hits[k].chunk \notin Unsettled /\ row[srch.hits[k].chunk] = srch.hits[k].text
    BY <1>9, <2>2 DEF Current
  <2>8. PICK p : p = srch.hits[o[i]]
    OBVIOUS
  <2>9. p.chunk \notin srch.disturbed => p.chunk \notin Unsettled /\ row[p.chunk] = p.text
    BY <2>5, <2>7, <2>8
  <2>10. ranked[i] = p
    BY <2>6, <2>8
  <2> QED
    BY <1>3, <2>9, <2>10
<1>11. SearchPhase(t, row, Unsettled)
  <2>1. Len(t.cited) = 0
    BY <1>3, <1>9
  <2> QED
    BY <1>3, <1>7, <1>10, <2>1 DEF SearchPhase
<1>12. OrderKept(t)
  <2> SUFFICES ASSUME NEW h \in t.visible, NEW j \in DOMAIN t.ranked,
                      Outranks(t, h, t.ranked[j])
               PROVE  \E i \in 1..(j - 1) : t.ranked[i] = h
    BY DEF OrderKept
  <2>1. OneHitPerChunk(s) /\ NearestFirst(s)
    BY <1>2, <1>9 DEF OneHitPerChunk, NearestFirst, Vector
  <2>2. /\ s.expanded = t.expanded /\ s.graph = t.graph /\ s.req = t.req
        /\ s.memory = t.memory /\ s.fallback = t.fallback
    BY <1>2, <1>3
  <2>3. Outranks(s, h, ranked[j])
    BY <1>3, <2>2, SameOutranks
  <2>4. h \in s.visible /\ j \in DOMAIN ranked /\ (s.fallback => s.graph = <<>>)
    BY <1>2, <1>3
  <2>5. \E i \in 1..(j - 1) : ranked[i] = h
    BY <1>0, <1>5, <2>1, <2>3, <2>4, RankingKeepsOrder
  <2> QED
    BY <1>3, <2>5
<1> QED
  BY <1>8, <1>11, <1>12

LEMMA RankWithKeeps ==
    ASSUME SearchInv, srch.pc = "graph", NEW graph \in Seq(Chunks),
           NEW fallback \in BOOLEAN, fallback => graph = <<>>,
           RankWith(graph, fallback), StoresUnchanged
    PROVE  SearchInv' /\ srch'.pc = "citing" /\ srch'.cited = <<>> /\ srch'.route = srch.route
<1>1. PICK s : s = [srch EXCEPT !.graph = graph, !.fallback = fallback]
  OBVIOUS
<1>2. PICK m \in MemoryRankings(s) : srch' = [s EXCEPT !.pc = "citing", !.ranked = Ranked(s, m)]
  BY <1>1, Zenon DEF RankWith
<1>3. PICK ranked : ranked = Ranked(s, m)
  OBVIOUS
<1>4. PICK t : t = [s EXCEPT !.pc = "citing", !.ranked = ranked]
  OBVIOUS
<1>5. srch' = t
  BY <1>2, <1>3, <1>4
<1>6. DOMAIN srch = DOMAIN NoSearch /\ srch.cited = <<>>
  BY DEF SearchInv, SearchTypeOK, SearchPhase
<1>7. Found(s, srch, graph, fallback)
  BY <1>1, <1>6, SearchFields DEF Found
<1>8. Found(t, srch, graph, fallback) /\ t.pc = "citing" /\ t.ranked = ranked
  BY <1>4, <1>7, SearchFields DEF Found
<1>9. SearchTypeOK(t) /\ SearchPhase(t, row, Unsettled) /\ OrderKept(t)
  <2>1. t.ranked = Ranked(s, m) /\ t.pc = "citing"
    BY <1>3, <1>8
  <2> QED
    BY <1>7, <1>8, <2>1, RankedSearch
<1>10. SearchInv'
  BY <1>5, <1>9, SearchStepKeeps
<1>11. t.pc = "citing" /\ t.cited = <<>> /\ t.route = srch.route
  BY <1>6, <1>8 DEF Found
<1> QED
  BY <1>5, <1>10, <1>11

LEMMA IntentType ==
    ASSUME NEW markers, NEW memory
    PROVE  DetectIntent(markers, memory) \in Intents
<1> DEFINE M == {i \in DOMAIN Strategies : Strategies[i] \in MarkersWith(markers, memory)}
<1>1. DetectIntent(markers, memory) = IF M = {} THEN "fact_lookup" ELSE Strategies[Min(M)]
  BY DEF DetectIntent
<1>2. DOMAIN Strategies \subseteq Nat
  BY DEF Strategies
<1>3. M \in SUBSET Nat
  BY <1>2
<1>4. M # {} => Min(M) \in DOMAIN Strategies
  BY <1>3, MinIsLeast, Zenon
<1>5. M # {} => Strategies[Min(M)] \in ToSet(Strategies)
  BY <1>4, Zenon DEF ToSet
<1> QED
  BY <1>1, <1>5, Zenon DEF Intents

LEMMA RouteType ==
    ASSUME NEW markers, NEW mode \in Modes, NEW memory
    PROVE  /\ Route(markers, mode, memory).intent \in Intents
           /\ Route(markers, mode, memory).mode = mode
           /\ Route(markers, mode, memory).intent = DetectIntent(markers, memory)
           /\ Route(markers, mode, memory).tools = RecommendedTools[DetectIntent(markers, memory)]
<1>1. PICK intent : intent = DetectIntent(markers, memory)
  OBVIOUS
<1>2. intent \in Intents
  BY <1>1, IntentType
<1>3. Route(markers, mode, memory) =
          [intent |-> intent, mode |-> mode, tools |-> RecommendedTools[intent]]
  BY <1>1, Zenon DEF Route
<1> QED
  BY <1>1, <1>2, <1>3

LEMMA MaxIsMember ==
    ASSUME NEW S \in SUBSET (0..10), S # {}
    PROVE  Max(S) \in S
<1> DEFINE T == {i \in Nat : \E x \in S : i = 10 - x}
<1>1. T \in SUBSET Nat /\ T # {}
  <2>1. PICK x \in S : TRUE
    OBVIOUS
  <2>2. 10 - x \in Nat
    OBVIOUS
  <2> QED
    BY <2>2
<1>2. Min(T) \in T /\ \A i \in T : Min(T) <= i
  BY <1>1, MinIsLeast, Zenon
<1>3. PICK x \in S : Min(T) = 10 - x
  BY <1>2
<1>4. \A y \in S : x >= y
  <2> SUFFICES ASSUME NEW y \in S
               PROVE  x >= y
    OBVIOUS
  <2>1. 10 - y \in T
    OBVIOUS
  <2>2. 10 - x <= 10 - y
    BY <1>2, <1>3, <2>1
  <2> QED
    BY <2>2
<1> HIDE DEF T
<1> QED
  BY <1>4, Zenon DEF Max

LEMMA BonusType ==
    ASSUME NEW found \in Seq([score : 0..10, cites : SUBSET Chunks])
    PROVE  MemoryBonus(found) \in [Chunks -> 0..10]
<1> DEFINE S(c) == {0} \cup {found[i].score : i \in {j \in DOMAIN found : c \in found[j].cites}}
<1>1. ASSUME NEW c \in Chunks
      PROVE  Max(S(c)) \in 0..10
  <2>1. \A i \in DOMAIN found : found[i].score \in 0..10
    <3>1. DOMAIN found = 1..Len(found)
      BY LenProperties
    <3>2. ASSUME NEW i \in DOMAIN found
          PROVE  found[i].score \in 0..10
      <4>1. found[i] \in [score : 0..10, cites : SUBSET Chunks]
        BY <3>1, ElementOfSeq
      <4> QED
        BY <4>1
    <3> QED
      BY <3>2
  <2>2. S(c) \in SUBSET (0..10) /\ S(c) # {}
    BY <2>1
  <2> HIDE DEF S
  <2> QED
    BY <2>2, MaxIsMember
<1>2. MemoryBonus(found) = [c \in Chunks |-> Max(S(c))]
  BY DEF MemoryBonus
<1> HIDE DEF S
<1> QED
  BY <1>1, <1>2

LEMMA NoSearchType ==
    SearchTypeOK(NoSearch)
<1>1. /\ Route({}, "hybrid", FALSE).intent \in Intents
      /\ Route({}, "hybrid", FALSE).mode = "hybrid"
  BY RouteType DEF Modes
<1>2. /\ NoSearch.pc = "idle" /\ NoSearch.req = NoRequest
      /\ NoSearch.route = Route({}, "hybrid", FALSE)
      /\ NoSearch.memory = [c \in Chunks |-> 0] /\ NoSearch.expanded = FALSE
      /\ NoSearch.hits = <<>> /\ NoSearch.graph = <<>> /\ NoSearch.fallback = FALSE
      /\ NoSearch.ranked = <<>> /\ NoSearch.cited = <<>>
      /\ NoSearch.visible = {} /\ NoSearch.disturbed = {}
  BY DEF NoSearch
<1>3. \A T : <<>> \in Seq(T) /\ Len(<<>>) = 0
  OBVIOUS
<1>4. RequestOK(NoRequest)
  BY DEF RequestOK, NoRequest
<1>5. [c \in Chunks |-> 0] \in [Chunks -> 0..10]
  OBVIOUS
<1>6. MaxTopK \in Nat
  BY ScoreAssumption
<1> DEFINE s == NoSearch
<1> HIDE DEF s
<1>7. /\ s.pc = "idle" /\ RequestOK(s.req)
      /\ s.route.intent \in Intents /\ s.route.mode \in Modes
      /\ s.memory \in [Chunks -> 0..10] /\ s.expanded \in BOOLEAN /\ s.fallback \in BOOLEAN
  BY <1>1, <1>2, <1>4, <1>5 DEF s, Modes
<1>8. /\ s.hits \in Seq(Points) /\ Len(s.hits) = 0 /\ s.graph \in Seq(Chunks)
      /\ s.ranked \in Seq(Points) /\ Len(s.ranked) = 0 /\ s.cited \in Seq(CitedItems)
      /\ s.visible = {} /\ s.disturbed = {}
  BY <1>2, <1>3 DEF s
<1>9. SearchTypeOK(s)
  BY <1>6, <1>7, <1>8 DEF SearchTypeOK, s
<1> QED
  BY <1>9 DEF s

\* The search has not begun.
LEMMA SearchBegins ==
    ASSUME Init
    PROVE  SearchInv
<1>1. setup \in Setups /\ writes \in 0..MaxWrites /\ srch = NoSearch
  <2>1. MaxWrites \in Nat
    BY ScoreAssumption
  <2> QED
    BY <2>1 DEF Init
<1>2. PICK corpus \in Corpora : /\ vec = corpus.vec /\ row = corpus.row
                               /\ work = corpus.work /\ torn = corpus.torn
  BY DEF Init
<1>3. CorpusOK(vec, row, work, torn)
  BY <1>2, CorpusAssumption
<1>4. SearchTypeOK(srch)
  BY <1>1, NoSearchType
<1>5. srch.pc = "idle" /\ srch.cited = <<>> /\ srch.ranked = <<>> /\ srch.visible = {}
  BY <1>1 DEF NoSearch
<1>6. SearchPhase(srch, row, Unsettled) /\ AgreedOrderKept
  BY <1>5 DEF SearchPhase, AgreedOrderKept
<1> QED
  BY <1>1, <1>3, <1>4, <1>6 DEF SearchInv, StoresOK

\* A search that has ranked nothing has the order kept.
LEMMA NothingRanked ==
    ASSUME NEW s, s.ranked = <<>>
    PROVE  OrderKept(s)
BY DEF OrderKept

LEMMA AskKeeps ==
    ASSUME SearchInv, NEW r, RequestOK(r), r.mode \in Modes, r.memory \in BOOLEAN, Ask(r)
    PROVE  /\ SearchInv' /\ StoresUnchanged /\ srch.pc = "idle" /\ srch'.pc = "expanding"
           /\ srch'.cited = <<>> /\ srch'.route = Route(r.markers, r.mode, r.memory)
<1>1. PICK route : route = Route(r.markers, r.mode, r.memory)
  OBVIOUS
<1>2. route.intent \in Intents /\ route.mode \in Modes
  BY <1>1, RouteType
<1>3. PICK depth : depth = IF route.mode = "vector" THEN 0 ELSE Least(r.depth, MaxDepth)
  OBVIOUS
<1>4. PICK found \in MemoryFinds :
          srch' = [NoSearch EXCEPT
              !.pc = "expanding", !.route = route,
              !.req = [r EXCEPT !.topK = Least(r.topK, MaxTopK), !.depth = depth],
              !.memory = IF r.memory THEN MemoryBonus(FirstN(found, Least(5, r.topK))) ELSE @]
  BY <1>1, <1>3, Zenon DEF Ask
<1>5. PICK req : req = [r EXCEPT !.topK = Least(r.topK, MaxTopK), !.depth = depth]
  OBVIOUS
<1>6. PICK memory : memory = IF r.memory THEN MemoryBonus(FirstN(found, Least(5, r.topK)))
                             ELSE NoSearch.memory
  OBVIOUS
<1>7. memory \in [Chunks -> 0..10]
  <2>1. NoSearch.memory \in [Chunks -> 0..10]
    BY DEF NoSearch
  <2>2. r.memory => memory \in [Chunks -> 0..10]
    <3>1. found \in Seq([score : 0..10, cites : SUBSET Chunks])
      BY ScoreAssumption
    <3>2. Least(5, r.topK) \in Nat
      BY DEF Least, RequestOK
    <3>3. FirstN(found, Least(5, r.topK)) \in Seq([score : 0..10, cites : SUBSET Chunks])
      BY <3>1, <3>2, FirstNFacts
    <3> QED
      BY <1>6, <3>3, BonusType
  <2> QED
    BY <1>6, <2>1, <2>2
<1>8. RequestOK(req) /\ req.topK <= MaxTopK
  <2>1. /\ Least(r.topK, MaxTopK) \in Nat /\ Least(r.topK, MaxTopK) <= MaxTopK
        /\ depth \in Nat
    BY <1>3, ScoreAssumption DEF Least, RequestOK
  <2>2. {"topK", "topN", "depth", "rerank"} \subseteq DOMAIN NoRequest
    BY DEF NoRequest
  <2> QED
    BY <1>5, <2>1, <2>2 DEF RequestOK
<1>9. /\ DOMAIN srch' = DOMAIN NoSearch
      /\ srch'.pc = "expanding" /\ srch'.req = req /\ srch'.route = route
      /\ srch'.memory = memory /\ srch'.expanded = NoSearch.expanded
      /\ srch'.hits = NoSearch.hits /\ srch'.graph = NoSearch.graph
      /\ srch'.fallback = NoSearch.fallback /\ srch'.ranked = NoSearch.ranked
      /\ srch'.cited = NoSearch.cited /\ srch'.visible = NoSearch.visible
      /\ srch'.disturbed = NoSearch.disturbed
  BY <1>4, <1>5, <1>6, SearchFields
<1>10. NoSearch.ranked = <<>> /\ NoSearch.cited = <<>>
  BY DEF NoSearch
<1>11. SearchTypeOK(srch')
  <2>1. SearchTypeOK(NoSearch)
    BY NoSearchType
  <2> QED
    BY <1>2, <1>7, <1>8, <1>9, <2>1 DEF SearchTypeOK
<1>12. SearchPhase(srch', row, Unsettled) /\ OrderKept(srch')
  BY <1>9, <1>10, NothingRanked DEF SearchPhase
<1>13. StoresUnchanged /\ srch.pc = "idle"
  BY DEF Ask
<1> QED
  BY <1>1, <1>9, <1>10, <1>11, <1>12, <1>13, SearchStepKeeps

LEMMA ExpandKeeps ==
    ASSUME SearchInv, Expand
    PROVE  /\ SearchInv' /\ srch.pc = "expanding" /\ srch'.pc = "vector"
           /\ srch'.cited = <<>> /\ srch'.route = srch.route
<1>1. PICK found \in EntityFinds \cup {<<>>} :
          srch' = [srch EXCEPT !.pc = "vector", !.expanded = Expands(found, setup.expansions)]
  BY DEF Expand
<1>2. PICK x : x = Expands(found, setup.expansions)
  OBVIOUS
<1>3. x \in BOOLEAN
  BY <1>2 DEF Expands
<1>4. SearchTypeOK(srch) /\ SearchPhase(srch, row, Unsettled) /\ srch.pc = "expanding"
      /\ StoresUnchanged
  BY DEF SearchInv, Expand
<1>5. DOMAIN srch = DOMAIN NoSearch
  BY <1>4 DEF SearchTypeOK
<1>6. /\ DOMAIN srch' = DOMAIN NoSearch
      /\ srch'.pc = "vector" /\ srch'.req = srch.req /\ srch'.route = srch.route
      /\ srch'.memory = srch.memory /\ srch'.expanded = x
      /\ srch'.hits = srch.hits /\ srch'.graph = srch.graph
      /\ srch'.fallback = srch.fallback /\ srch'.ranked = srch.ranked
      /\ srch'.cited = srch.cited /\ srch'.visible = srch.visible
      /\ srch'.disturbed = srch.disturbed
  BY <1>1, <1>2, <1>5, SearchFields
<1>7. srch.ranked = <<>> /\ srch.cited = <<>>
  BY <1>4 DEF SearchPhase
<1>8. SearchTypeOK(srch')
  BY <1>3, <1>4, <1>6 DEF SearchTypeOK
<1>9. SearchPhase(srch', row, Unsettled) /\ OrderKept(srch')
  BY <1>6, <1>7, NothingRanked DEF SearchPhase
<1> QED
  BY <1>4, <1>6, <1>7, <1>8, <1>9, SearchStepKeeps

LEMMA SearchChunksKeeps ==
    ASSUME SearchInv, SearchChunks
    PROVE  /\ SearchInv' /\ srch.pc = "vector" /\ srch'.pc = "graph"
           /\ srch'.cited = <<>> /\ srch'.route = srch.route
<1>1. SearchTypeOK(srch) /\ SearchPhase(srch, row, Unsettled) /\ srch.pc = "vector"
      /\ StoresUnchanged /\ CorpusOK(vec, row, work, torn)
  BY DEF SearchInv, StoresOK, SearchChunks
<1>2. PICK P : P = Candidates(srch.req)
  OBVIOUS
<1>3. PICK W : W = Unsettled
  OBVIOUS
<1>4. PICK hits \in Nearest(srch, P, srch.req.topK) :
          srch' = [srch EXCEPT !.pc = "graph", !.hits = hits, !.visible = P, !.disturbed = W]
  BY <1>2, <1>3, Zenon DEF SearchChunks
<1>5. DOMAIN srch = DOMAIN NoSearch
  BY <1>1 DEF SearchTypeOK
<1>6. /\ DOMAIN srch' = DOMAIN NoSearch
      /\ srch'.pc = "graph" /\ srch'.req = srch.req /\ srch'.route = srch.route
      /\ srch'.memory = srch.memory /\ srch'.expanded = srch.expanded
      /\ srch'.hits = hits /\ srch'.graph = srch.graph
      /\ srch'.fallback = srch.fallback /\ srch'.ranked = srch.ranked
      /\ srch'.cited = srch.cited /\ srch'.visible = P
      /\ srch'.disturbed = W
  BY <1>4, <1>5, SearchFields
<1>7. srch.ranked = <<>> /\ srch.cited = <<>>
  BY <1>1 DEF SearchPhase
<1>8. /\ P \subseteq Points /\ Cardinality(P) \in Nat
      /\ \A p, q \in P : p.chunk = q.chunk => p = q
      /\ \A p \in P : p.chunk \notin Unsettled => row[p.chunk] = p.text
  BY <1>1, <1>2, CandidateFacts
<1>9. srch.expanded \in BOOLEAN /\ srch.req.topK \in Nat /\ srch.req.topK <= MaxTopK
      /\ srch.hits \in Seq(Points) /\ MaxTopK \in Nat
  BY <1>1, ScoreAssumption DEF SearchTypeOK, RequestOK
<1>10. /\ hits \in Seq(Points) /\ Len(hits) <= srch.req.topK
       /\ \A i \in DOMAIN hits : hits[i] \in P
       /\ \A i, j \in DOMAIN hits : hits[i].chunk = hits[j].chunk => i = j
       /\ \A h \in P, j \in DOMAIN hits :
             Vector(srch, h) > Vector(srch, hits[j]) => \E i \in 1..(j - 1) : hits[i] = h
  BY <1>8, <1>9, NearestFacts
<1>11. Len(hits) \in Nat /\ Len(hits) <= MaxTopK
  BY <1>9, <1>10, LenProperties
<1>12. SearchTypeOK(srch')
  <2>1. Len(<<>>) <= Len(hits)
    BY <1>11
  <2>2. W \subseteq Chunks
    BY <1>1, <1>3, CorpusFacts
  <2> QED
    BY <1>1, <1>6, <1>7, <1>8, <1>10, <1>11, <2>1, <2>2 DEF SearchTypeOK
<1>13. Current(hits, W, row, Unsettled)
  <2> SUFFICES ASSUME NEW i \in DOMAIN hits, hits[i].chunk \notin W
               PROVE  hits[i].chunk \notin Unsettled /\ row[hits[i].chunk] = hits[i].text
    BY DEF Current
  <2>1. PICK p \in P : p = hits[i]
    BY <1>10
  <2>2. p.chunk \in Chunks
    BY <1>8 DEF Points
  <2> QED
    BY <1>3, <1>8, <2>1, <2>2
<1>14. OneHitPerChunk(srch') /\ NearestFirst(srch')
  BY <1>6, <1>10 DEF OneHitPerChunk, NearestFirst, Vector
<1>15. SearchPhase(srch', row, Unsettled)
  BY <1>6, <1>7, <1>13, <1>14 DEF SearchPhase
<1>16. OrderKept(srch')
  BY <1>6, <1>7, NothingRanked
<1> QED
  BY <1>1, <1>6, <1>7, <1>12, <1>15, <1>16, SearchStepKeeps

LEMMA SearchGraphKeeps ==
    ASSUME SearchInv, SearchGraph \/ GraphFails
    PROVE  /\ SearchInv' /\ srch.pc = "graph" /\ srch'.pc = "citing"
           /\ srch'.cited = <<>> /\ srch'.route = srch.route
<1>1. srch.pc = "graph" /\ StoresUnchanged
  BY DEF SearchGraph, GraphFails
<1>2. <<>> \in Seq(Chunks)
  OBVIOUS
<1>3. \E graph \in Seq(Chunks), fallback \in BOOLEAN :
          RankWith(graph, fallback) /\ (fallback => graph = <<>>)
  <2>1. CASE SearchGraph
    <3>1. CASE srch.req.depth = 0
      BY <1>2, <2>1, <3>1, Zenon DEF SearchGraph
    <3>2. CASE srch.req.depth # 0
      <4>1. PICK graph \in GraphFinds : RankWith(graph, FALSE)
        BY <2>1, <3>2, Zenon DEF SearchGraph
      <4>2. graph \in Seq(Chunks)
        BY ScoreAssumption
      <4> QED
        BY <4>1, <4>2
    <3> QED
      BY <3>1, <3>2
  <2>2. CASE GraphFails
    BY <1>2, <2>2 DEF GraphFails
  <2> QED
    BY <2>1, <2>2
<1>4. PICK graph \in Seq(Chunks), fallback \in BOOLEAN :
          RankWith(graph, fallback) /\ (fallback => graph = <<>>)
  BY <1>3
<1> QED
  BY <1>1, <1>4, RankWithKeeps

\* What Cite adds.
LEMMA EvidenceFacts ==
    ASSUME SearchInv, srch.pc = "citing", NEW i \in DOMAIN srch.ranked,
           NEW e, e = Evidence(srch.ranked[i].chunk)
    PROVE  /\ e \in CitedItems /\ e.chunk = srch.ranked[i].chunk
           /\ e.chunk \notin srch.disturbed => e.text = srch.ranked[i].text
           /\ e.text = NoText =>
                \/ vec[e.chunk] = NoText \/ e.chunk \in torn
                \/ \E x \in work : x.chunk = e.chunk /\ x.text # NoText
<1>1. SearchTypeOK(srch) /\ SearchPhase(srch, row, Unsettled) /\ CorpusOK(vec, row, work, torn)
  BY DEF SearchInv, StoresOK
<1>2. PICK p : p = srch.ranked[i]
  OBVIOUS
<1>3. p \in Points
  <2>1. srch.ranked \in Seq(Points) /\ DOMAIN srch.ranked = 1..Len(srch.ranked)
    BY <1>1, LenProperties DEF SearchTypeOK
  <2> QED
    BY <1>2, <2>1, ElementOfSeq
<1>4. PICK c \in Chunks : c = p.chunk
  BY <1>3 DEF Points
<1>5. e = [chunk |-> c, text |-> row[c],
           entities |-> IF row[c] = NoText THEN <<>> ELSE EntitiesIn[row[c]]]
  BY <1>2, <1>4, Zenon DEF Evidence
<1>6. row[c] \in Texts \cup {NoText}
  BY <1>1 DEF CorpusOK
<1>7. PICK entities : entities = IF row[c] = NoText THEN <<>> ELSE EntitiesIn[row[c]]
  OBVIOUS
<1>8. entities \in {<<>>} \cup {EntitiesIn[t] : t \in Texts}
  BY <1>6, <1>7
<1>9. e = [chunk |-> c, text |-> row[c], entities |-> entities]
  BY <1>5, <1>7
<1>10. e \in CitedItems
  BY <1>6, <1>8, <1>9 DEF CitedItems
<1>11. e.chunk = c /\ e.text = row[c]
  BY <1>9
<1>12. c \notin srch.disturbed => row[c] = p.text
  BY <1>1, <1>2, <1>4 DEF SearchPhase, Current
<1>13. row[c] = NoText =>
          \/ vec[c] = NoText \/ c \in torn
          \/ \E x \in work : x.chunk = c /\ x.text # NoText
  BY <1>1, CorpusFacts
<1> QED
  BY <1>2, <1>4, <1>10, <1>11, <1>12, <1>13

LEMMA CiteKeeps ==
    ASSUME SearchInv, Cite
    PROVE  /\ SearchInv' /\ srch.pc = "citing" /\ srch'.pc = "citing"
           /\ srch'.route = srch.route
           /\ Len(srch'.cited) = Len(srch.cited) + 1
           /\ Len(srch'.cited) \in DOMAIN srch.ranked
           /\ Last(srch'.cited) = Evidence(srch.ranked[Len(srch'.cited)].chunk)
<1>1. SearchTypeOK(srch) /\ SearchPhase(srch, row, Unsettled) /\ AgreedOrderKept
      /\ srch.pc = "citing" /\ StoresUnchanged
  BY DEF SearchInv, Cite
<1>2. PICK n : n = Len(srch.cited) + 1
  OBVIOUS
<1>3. PICK e : e = Evidence(srch.ranked[n].chunk)
  OBVIOUS
<1>4. PICK cited : cited = Append(srch.cited, e)
  OBVIOUS
<1>5. srch' = [srch EXCEPT !.cited = cited]
  BY <1>2, <1>3, <1>4, Zenon DEF Cite
<1>6. DOMAIN srch = DOMAIN NoSearch
  BY <1>1 DEF SearchTypeOK
<1>7. /\ DOMAIN srch' = DOMAIN NoSearch
      /\ srch'.pc = srch.pc /\ srch'.req = srch.req /\ srch'.route = srch.route
      /\ srch'.memory = srch.memory /\ srch'.expanded = srch.expanded
      /\ srch'.hits = srch.hits /\ srch'.graph = srch.graph
      /\ srch'.fallback = srch.fallback /\ srch'.ranked = srch.ranked
      /\ srch'.cited = cited /\ srch'.visible = srch.visible
      /\ srch'.disturbed = srch.disturbed
  BY <1>5, <1>6, SearchFields
<1>8. /\ srch.cited \in Seq(CitedItems) /\ Len(srch.cited) \in Nat
      /\ DOMAIN srch.ranked = 1..Len(srch.ranked) /\ Len(srch.ranked) \in Nat
      /\ Len(srch.cited) < Len(srch.ranked)
  BY <1>1, LenProperties DEF SearchTypeOK, Cite
<1>9. n \in DOMAIN srch.ranked
  BY <1>2, <1>8
<1>10. e \in CitedItems
  BY <1>1, <1>3, <1>9, EvidenceFacts
<1>11. cited \in Seq(CitedItems) /\ Len(cited) = n /\ cited[n] = e
  BY <1>2, <1>4, <1>8, <1>10, AppendProperties
<1>12. SearchTypeOK(srch')
  BY <1>1, <1>7, <1>11 DEF SearchTypeOK
<1>13. SearchPhase(srch', row, Unsettled)
  <2>1. n <= Len(srch.ranked)
    BY <1>2, <1>8
  <2> QED
    BY <1>1, <1>7, <1>11, <2>1 DEF SearchPhase
<1>14. OrderKept(srch')
  <2>1. OrderKept(srch)
    BY <1>1 DEF OrderKept, AgreedOrderKept
  <2> SUFFICES ASSUME NEW h \in srch'.visible, NEW j \in DOMAIN srch'.ranked,
                      Outranks(srch', h, srch'.ranked[j])
               PROVE  \E i \in 1..(j - 1) : srch'.ranked[i] = h
    BY DEF OrderKept
  <2>2. Outranks(srch, h, srch.ranked[j])
    BY <1>7, SameOutranks
  <2> QED
    BY <1>7, <2>1, <2>2 DEF OrderKept
<1>15. SearchInv'
  BY <1>1, <1>12, <1>13, <1>14, SearchStepKeeps
<1>16. Len(srch'.cited) = n /\ Last(srch'.cited) = e
  BY <1>7, <1>11 DEF Last
<1> QED
  BY <1>1, <1>2, <1>3, <1>7, <1>9, <1>15, <1>16

LEMMA AnswerKeeps ==
    ASSUME SearchInv, Answer
    PROVE  /\ SearchInv' /\ srch.pc = "citing" /\ srch'.pc = "answered"
           /\ srch'.cited = srch.cited /\ srch'.route = srch.route
<1>1. SearchTypeOK(srch) /\ srch.pc = "citing" /\ StoresUnchanged
  BY DEF SearchInv, Answer
<1>2. srch' = [NoSearch EXCEPT !.pc = "answered", !.route = srch.route, !.cited = srch.cited]
  BY DEF Answer
<1>3. /\ DOMAIN srch' = DOMAIN NoSearch
      /\ srch'.pc = "answered" /\ srch'.req = NoSearch.req /\ srch'.route = srch.route
      /\ srch'.memory = NoSearch.memory /\ srch'.expanded = NoSearch.expanded
      /\ srch'.hits = NoSearch.hits /\ srch'.graph = NoSearch.graph
      /\ srch'.fallback = NoSearch.fallback /\ srch'.ranked = NoSearch.ranked
      /\ srch'.cited = srch.cited /\ srch'.visible = NoSearch.visible
      /\ srch'.disturbed = NoSearch.disturbed
  BY <1>2, SearchFields
<1>4. NoSearch.ranked = <<>> /\ NoSearch.cited = <<>>
  BY DEF NoSearch
<1>5. SearchTypeOK(srch')
  BY <1>1, <1>3, NoSearchType DEF SearchTypeOK
<1>6. SearchPhase(srch', row, Unsettled) /\ OrderKept(srch')
  BY <1>3, <1>4, NothingRanked DEF SearchPhase
<1> QED
  BY <1>1, <1>3, <1>5, <1>6, SearchStepKeeps

LEMMA SearchFailsKeeps ==
    ASSUME SearchInv, SearchFails
    PROVE  /\ SearchInv' /\ srch.pc \in {"expanding", "vector", "citing"}
           /\ srch'.pc = "failed" /\ srch'.cited = <<>> /\ srch'.route = srch.route
<1>1. SearchTypeOK(srch) /\ srch.pc \in {"expanding", "vector", "citing"} /\ StoresUnchanged
  BY DEF SearchInv, SearchFails
<1>2. srch' = [NoSearch EXCEPT !.pc = "failed", !.route = srch.route]
  BY DEF SearchFails
<1>3. /\ DOMAIN srch' = DOMAIN NoSearch
      /\ srch'.pc = "failed" /\ srch'.req = NoSearch.req /\ srch'.route = srch.route
      /\ srch'.memory = NoSearch.memory /\ srch'.expanded = NoSearch.expanded
      /\ srch'.hits = NoSearch.hits /\ srch'.graph = NoSearch.graph
      /\ srch'.fallback = NoSearch.fallback /\ srch'.ranked = NoSearch.ranked
      /\ srch'.cited = NoSearch.cited /\ srch'.visible = NoSearch.visible
      /\ srch'.disturbed = NoSearch.disturbed
  BY <1>2, SearchFields
<1>4. NoSearch.ranked = <<>> /\ NoSearch.cited = <<>>
  BY DEF NoSearch
<1>5. SearchTypeOK(srch')
  BY <1>1, <1>3, NoSearchType DEF SearchTypeOK
<1>6. SearchPhase(srch', row, Unsettled) /\ OrderKept(srch')
  BY <1>3, <1>4, NothingRanked DEF SearchPhase
<1> QED
  BY <1>1, <1>3, <1>4, <1>5, <1>6, SearchStepKeeps

\* What is left alone stays as the rows say.
LEMMA CurrentStays ==
    ASSUME NEW items \in Seq(Points), NEW d, NEW e, d \subseteq e,
           Current(items, d, row, Unsettled),
           \A c \in Chunks \ e : c \notin Unsettled => row'[c] = row[c] /\ c \notin Unsettled'
    PROVE  Current(items, e, row', Unsettled')
<1> SUFFICES ASSUME NEW i \in DOMAIN items, items[i].chunk \notin e
             PROVE  /\ items[i].chunk \notin Unsettled'
                    /\ row'[items[i].chunk] = items[i].text
  BY DEF Current
<1>1. items[i] \in Points
  BY LenProperties, ElementOfSeq
<1>2. PICK p : p = items[i]
  OBVIOUS
<1>3. p.chunk \in Chunks
  BY <1>1, <1>2 DEF Points
<1>4. p.chunk \notin Unsettled /\ row[p.chunk] = p.text
  BY <1>2 DEF Current
<1> QED
  BY <1>2, <1>3, <1>4

\* A write that is begun or ended leaves the search in order.
LEMMA WriteKeeps ==
    ASSUME SearchInv, setup' = setup, writes' \in 0..MaxWrites,
           CorpusOK(vec', row', work', torn'),
           NEW e \in SUBSET Chunks, srch.disturbed \subseteq e,
           \A c \in Chunks \ e : c \notin Unsettled => row'[c] = row[c] /\ c \notin Unsettled',
           \/ srch' = [srch EXCEPT !.disturbed = e]
           \/ srch' = srch /\ e = srch.disturbed
    PROVE  /\ SearchInv' /\ srch'.pc = srch.pc /\ srch'.cited = srch.cited
           /\ srch'.route = srch.route
<1>1. SearchTypeOK(srch) /\ SearchPhase(srch, row, Unsettled) /\ AgreedOrderKept /\ StoresOK
  BY DEF SearchInv
<1>2. DOMAIN srch = DOMAIN NoSearch
  BY <1>1 DEF SearchTypeOK
<1>3. /\ DOMAIN srch' = DOMAIN NoSearch
      /\ srch'.pc = srch.pc /\ srch'.req = srch.req /\ srch'.route = srch.route
      /\ srch'.memory = srch.memory /\ srch'.expanded = srch.expanded
      /\ srch'.hits = srch.hits /\ srch'.graph = srch.graph
      /\ srch'.fallback = srch.fallback /\ srch'.ranked = srch.ranked
      /\ srch'.cited = srch.cited /\ srch'.visible = srch.visible
      /\ srch'.disturbed = e
  BY <1>2, SearchFields
<1>4. SearchTypeOK(srch')
  BY <1>1, <1>3 DEF SearchTypeOK
<1>5. SearchPhase(srch', row', Unsettled')
  <2>1. srch.pc = "graph" => Current(srch.hits, e, row', Unsettled')
    <3>1. srch.hits \in Seq(Points)
      BY <1>1 DEF SearchTypeOK
    <3>2. srch.pc = "graph" => Current(srch.hits, srch.disturbed, row, Unsettled)
      BY <1>1 DEF SearchPhase
    <3> QED
      BY <3>1, <3>2, CurrentStays
  <2>2. srch.pc = "citing" => Current(srch.ranked, e, row', Unsettled')
    <3>1. srch.ranked \in Seq(Points)
      BY <1>1 DEF SearchTypeOK
    <3>2. srch.pc = "citing" => Current(srch.ranked, srch.disturbed, row, Unsettled)
      BY <1>1 DEF SearchPhase
    <3> QED
      BY <3>1, <3>2, CurrentStays
  <2>3. srch.pc = "graph" => OneHitPerChunk(srch') /\ NearestFirst(srch')
    BY <1>1, <1>3 DEF SearchPhase, OneHitPerChunk, NearestFirst, Vector
  <2> QED
    BY <1>1, <1>3, <2>1, <2>2, <2>3 DEF SearchPhase
<1>6. OrderKept(srch')
  <2>1. OrderKept(srch)
    BY <1>1 DEF OrderKept, AgreedOrderKept
  <2> SUFFICES ASSUME NEW h \in srch'.visible, NEW j \in DOMAIN srch'.ranked,
                      Outranks(srch', h, srch'.ranked[j])
               PROVE  \E i \in 1..(j - 1) : srch'.ranked[i] = h
    BY DEF OrderKept
  <2>2. Outranks(srch, h, srch.ranked[j])
    BY <1>3, SameOutranks
  <2> QED
    BY <1>3, <2>1, <2>2 DEF OrderKept
<1>7. AgreedOrderKept'
  BY <1>6, OrderStays
<1>8. StoresOK'
  BY <1>1 DEF StoresOK, CorpusOK
<1>9. SearchTypeOK(srch)' /\ SearchPhase(srch, row, Unsettled)'
  BY <1>4, <1>5 DEF SearchTypeOK, SearchPhase, RequestOK, OneHitPerChunk, NearestFirst,
     Current, Vector
<1> QED
  BY <1>3, <1>7, <1>8, <1>9 DEF SearchInv

\* A writer starts on a chunk: the point is its own, and a job of another
\* writer tears the chunk.
LEMMA StartsOnKeeps ==
    ASSUME SearchInv, NEW w \in Writers, NEW c \in Chunks,
           NEW t \in Texts \cup {NoText}, StartsOn(w, c, t),
           vec' = [vec EXCEPT ![c] = t], row' = row
    PROVE  /\ SearchInv' /\ srch'.pc = srch.pc /\ srch'.cited = srch.cited
           /\ srch'.route = srch.route
<1>1. /\ CorpusOK(vec, row, work, torn) /\ writes \in 0..MaxWrites /\ MaxWrites \in Nat
      /\ srch.disturbed \in SUBSET Chunks
  BY ScoreAssumption DEF SearchInv, StoresOK, SearchTypeOK
<1>2. /\ vec \in [Chunks -> Texts \cup {NoText}] /\ row \in [Chunks -> Texts \cup {NoText}]
      /\ work \subseteq Jobs /\ torn \subseteq Chunks
      /\ \A d \in Chunks \ torn :
           /\ (\A x \in work : x.chunk # d) => row[d] = vec[d]
           /\ \A x \in work : x.chunk = d =>
                vec[d] = x.text /\ \A y \in work : y.chunk = d => y = x
  BY <1>1, CorpusIs
<1>3. PICK job \in Jobs : job = [by |-> w, chunk |-> c, text |-> t]
  BY DEF Jobs
<1>4. job.chunk = c /\ job.text = t
  BY <1>3
<1>5. /\ writes' = writes + 1 /\ writes < MaxWrites /\ setup' = setup
      /\ work' = work \cup {job}
      /\ torn' = IF \E x \in work : x.chunk = c THEN torn \cup {c} ELSE torn \ {c}
      /\ srch' = [srch EXCEPT !.disturbed = srch.disturbed \cup {c}]
  BY <1>3 DEF StartsOn, Begins
<1>6. CorpusOK(vec', row', work', torn')
  <2>1. /\ vec' \in [Chunks -> Texts \cup {NoText}] /\ row' \in [Chunks -> Texts \cup {NoText}]
        /\ work' \subseteq Jobs /\ torn' \subseteq Chunks
    BY <1>2, <1>5
  <2>2. ASSUME NEW d \in Chunks \ torn'
        PROVE  /\ (\A x \in work' : x.chunk # d) => row'[d] = vec'[d]
               /\ \A x \in work' : x.chunk = d =>
                    vec'[d] = x.text /\ \A y \in work' : y.chunk = d => y = x
    <3>1. CASE d = c
      <4>1. \A x \in work : x.chunk # c
        BY <1>5, <3>1
      <4>2. vec'[c] = t
        BY <1>2
      <4> QED
        BY <1>4, <1>5, <3>1, <4>1, <4>2
    <3>2. CASE d # c
      <4>1. d \notin torn
        BY <1>5, <3>2
      <4>2. vec'[d] = vec[d] /\ row'[d] = row[d]
        BY <1>2, <3>2
      <4> QED
        BY <1>2, <1>4, <1>5, <3>2, <4>1, <4>2
    <3> QED BY <3>1, <3>2
  <2> QED BY <2>1, <2>2, CorpusIs
<1>7. PICK e : e = srch.disturbed \cup {c}
  OBVIOUS
<1>8. \A d \in Chunks \ e : d \notin Unsettled => row'[d] = row[d] /\ d \notin Unsettled'
  BY <1>4, <1>5, <1>7 DEF Unsettled
<1>9. e \in SUBSET Chunks /\ srch.disturbed \subseteq e /\ srch' = [srch EXCEPT !.disturbed = e]
  BY <1>1, <1>5, <1>7
<1>10. writes' \in 0..MaxWrites /\ setup' = setup
  BY <1>1, <1>5
<1> QED
  BY <1>6, <1>8, <1>9, <1>10, WriteKeeps

\* Jobs are done, or given up: what they leave is settled, or torn.
LEMMA EndKeeps ==
    ASSUME SearchInv, (\E x \in work : FinishJob(x)) \/ (\E w \in Writers : GivesUp(w))
    PROVE  /\ SearchInv' /\ srch'.pc = srch.pc /\ srch'.cited = srch.cited
           /\ srch'.route = srch.route
<1>1. /\ CorpusOK(vec, row, work, torn) /\ writes \in 0..MaxWrites
      /\ srch.disturbed \in SUBSET Chunks
  BY DEF SearchInv, StoresOK, SearchTypeOK
<1>2. /\ vec \in [Chunks -> Texts \cup {NoText}] /\ row \in [Chunks -> Texts \cup {NoText}]
      /\ work \subseteq Jobs /\ torn \subseteq Chunks
      /\ \A d \in Chunks \ torn :
           /\ (\A x \in work : x.chunk # d) => row[d] = vec[d]
           /\ \A x \in work : x.chunk = d =>
                vec[d] = x.text /\ \A y \in work : y.chunk = d => y = x
  BY <1>1, CorpusIs
<1>3. vec' = vec /\ setup' = setup /\ writes' = writes /\ srch' = srch
  BY DEF FinishJob, GivesUp
<1>4. ASSUME NEW x \in work, FinishJob(x)
      PROVE  /\ CorpusOK(vec', row', work', torn')
             /\ \A d \in Chunks : d \notin Unsettled => row'[d] = row[d] /\ d \notin Unsettled'
  <2>1. x.chunk \in Chunks /\ x.text \in Texts \cup {NoText}
    BY <1>2 DEF Jobs
  <2>2. /\ row' = [row EXCEPT ![x.chunk] = x.text] /\ work' = work \ {x} /\ torn' = torn
    BY <1>4 DEF FinishJob
  <2>3. row' \in [Chunks -> Texts \cup {NoText}]
    BY <1>2, <2>1, <2>2
  <2>4. row'[x.chunk] = x.text /\ \A d \in Chunks : d # x.chunk => row'[d] = row[d]
    BY <1>2, <2>1, <2>2
  <2>5. ASSUME NEW d \in Chunks \ torn
        PROVE  /\ (\A y \in work' : y.chunk # d) => row'[d] = vec[d]
               /\ \A y \in work' : y.chunk = d =>
                    vec[d] = y.text /\ \A z \in work' : z.chunk = d => z = y
    <3>1. CASE d = x.chunk
      BY <1>2, <2>2, <2>4, <3>1
    <3>2. CASE d # x.chunk
      BY <1>2, <2>2, <2>4, <3>2
    <3> QED BY <3>1, <3>2
  <2>6. CorpusOK(vec', row', work', torn')
    BY <1>2, <1>3, <2>2, <2>3, <2>5, CorpusIs
  <2>7. \A d \in Chunks : d \notin Unsettled => row'[d] = row[d] /\ d \notin Unsettled'
    BY <2>2, <2>4 DEF Unsettled
  <2> QED BY <2>6, <2>7
<1>5. ASSUME NEW w \in Writers, GivesUp(w)
      PROVE  /\ CorpusOK(vec', row', work', torn')
             /\ \A d \in Chunks : d \notin Unsettled => row'[d] = row[d] /\ d \notin Unsettled'
  <2>1. PICK left : left = {x \in work : x.by = w}
    OBVIOUS
  <2>2. row' = row /\ work' = work \ left /\ torn' = torn \cup {x.chunk : x \in left}
    BY <1>5, <2>1 DEF GivesUp
  <2>3. torn' \subseteq Chunks
    BY <1>2, <2>1, <2>2 DEF Jobs
  <2>4. ASSUME NEW d \in Chunks \ torn'
        PROVE  /\ (\A y \in work' : y.chunk # d) => row[d] = vec[d]
               /\ \A y \in work' : y.chunk = d =>
                    vec[d] = y.text /\ \A z \in work' : z.chunk = d => z = y
    BY <1>2, <2>2
  <2>5. CorpusOK(vec', row', work', torn')
    BY <1>2, <1>3, <2>2, <2>3, <2>4, CorpusIs
  <2>6. \A d \in Chunks : d \notin Unsettled => row'[d] = row[d] /\ d \notin Unsettled'
    BY <2>1, <2>2 DEF Unsettled
  <2> QED BY <2>5, <2>6
<1>6. /\ CorpusOK(vec', row', work', torn')
      /\ \A d \in Chunks \ srch.disturbed :
            d \notin Unsettled => row'[d] = row[d] /\ d \notin Unsettled'
  BY <1>4, <1>5
<1> QED
  BY <1>1, <1>3, <1>6, WriteKeeps

LEMMA IngestKeeps ==
    ASSUME SearchInv, Ingest
    PROVE  /\ SearchInv' /\ srch'.pc = srch.pc /\ srch'.cited = srch.cited
           /\ srch'.route = srch.route
<1>1. ASSUME NEW w \in Writers, NEW c \in Chunks,
             DropVector(w, c) \/ \E t \in Texts : StoreVector(w, c, t)
      PROVE  \E t \in Texts \cup {NoText} :
                StartsOn(w, c, t) /\ vec' = [vec EXCEPT ![c] = t] /\ row' = row
  BY <1>1 DEF DropVector, StoreVector
<1>2. CASE \E w \in Writers, c \in Chunks :
              DropVector(w, c) \/ \E t \in Texts : StoreVector(w, c, t)
  BY <1>1, <1>2, StartsOnKeeps
<1>3. CASE \E x \in work : StoreRow(x) \/ DropRow(x)
  BY <1>3, EndKeeps DEF StoreRow, DropRow
<1>4. CASE \E w \in Writers : GivesUp(w)
  BY <1>4, EndKeeps
<1> QED
  BY <1>2, <1>3, <1>4 DEF Ingest

\* A step of the search, and what the wrapper sees of it.
LEMMA SearchStepFacts ==
    ASSUME SearchInv, SearchStep
    PROVE  /\ SearchInv' /\ srch.pc \in Searching /\ srch'.pc # "idle"
           /\ srch'.route = srch.route
<1>1. CASE Expand
  BY <1>1, ExpandKeeps DEF Searching
<1>2. CASE SearchChunks
  BY <1>2, SearchChunksKeeps DEF Searching
<1>3. CASE SearchGraph \/ GraphFails
  BY <1>3, SearchGraphKeeps DEF Searching
<1>4. CASE Cite
  BY <1>4, CiteKeeps DEF Searching
<1>5. CASE Answer
  BY <1>5, AnswerKeeps DEF Searching
<1>6. CASE SearchFails
  BY <1>6, SearchFailsKeeps DEF Searching
<1> QED
  BY <1>1, <1>2, <1>3, <1>4, <1>5, <1>6 DEF SearchStep

-----------------------------------------------------------------------------
(* The names in the results.                                               *)

\* Lists of names, as sequences.
Lists(lists) ==
    /\ DOMAIN lists = 1..Len(lists) /\ Len(lists) \in Nat
    /\ \A i \in DOMAIN lists : DOMAIN lists[i] = 1..Len(lists[i]) /\ Len(lists[i]) \in Nat

\* The lists that have a name, and its places in one of them.
With(lists, x) == {i \in DOMAIN lists : \E m \in DOMAIN lists[i] : lists[i][m] = x}

Places(list, x) == {m \in DOMAIN list : list[m] = x}

FirstList(lists, x) == Min(With(lists, x))
FirstSpot(lists, x) == Min(Places(lists[FirstList(lists, x)], x))

LEMMA FirstPlace ==
    ASSUME NEW lists, Lists(lists), NEW x \in NamesIn(lists)
    PROVE  /\ FirstList(lists, x) \in DOMAIN lists /\ FirstList(lists, x) \in Nat
           /\ \A i \in With(lists, x) : FirstList(lists, x) <= i
           /\ FirstSpot(lists, x) \in Places(lists[FirstList(lists, x)], x)
           /\ FirstSpot(lists, x) \in Nat
           /\ \A m \in Places(lists[FirstList(lists, x)], x) : FirstSpot(lists, x) <= m
<1>1. With(lists, x) # {}
  <2>1. PICK i \in DOMAIN lists : x \in ToSet(lists[i])
    BY DEF NamesIn
  <2> QED
    BY <2>1 DEF With, ToSet
<1>2. With(lists, x) \in SUBSET Nat
  BY DEF With, Lists
<1>3. PICK i : i = Min(With(lists, x))
  OBVIOUS
<1>4. i \in With(lists, x) /\ i \in Nat /\ \A j \in With(lists, x) : i <= j
  BY <1>1, <1>2, <1>3, MinIsLeast
<1>5. Places(lists[i], x) # {} /\ Places(lists[i], x) \in SUBSET Nat /\ i \in DOMAIN lists
  BY <1>4 DEF With, Places, Lists
<1>6. PICK m : m = Min(Places(lists[i], x))
  OBVIOUS
<1>7. m \in Places(lists[i], x) /\ m \in Nat /\ \A k \in Places(lists[i], x) : m <= k
  BY <1>5, <1>6, MinIsLeast
<1> QED
  BY <1>3, <1>4, <1>5, <1>6, <1>7 DEF FirstList, FirstSpot

\* Names are in the order of their first places.
LEMMA NamedBeforeIs ==
    ASSUME NEW lists, Lists(lists), NEW x \in NamesIn(lists), NEW y \in NamesIn(lists)
    PROVE  <<x, y>> \in NamedBefore(lists)
               <=> \/ FirstList(lists, x) < FirstList(lists, y)
                   \/ /\ FirstList(lists, x) = FirstList(lists, y)
                      /\ FirstSpot(lists, x) < FirstSpot(lists, y)
<1>0. PICK i, m, j, n : /\ i = FirstList(lists, x) /\ m = FirstSpot(lists, x)
                        /\ j = FirstList(lists, y) /\ n = FirstSpot(lists, y)
  OBVIOUS
<1>1. /\ i \in DOMAIN lists /\ i \in Nat /\ \A k \in With(lists, x) : i <= k
      /\ m \in Places(lists[i], x) /\ m \in Nat /\ \A k \in Places(lists[i], x) : m <= k
  BY <1>0, FirstPlace
<1>2. /\ j \in DOMAIN lists /\ j \in Nat /\ \A k \in With(lists, y) : j <= k
      /\ n \in Places(lists[j], y) /\ n \in Nat /\ \A k \in Places(lists[j], y) : n <= k
  BY <1>0, FirstPlace
<1>3. ASSUME <<x, y>> \in NamedBefore(lists)
      PROVE  i < j \/ (i = j /\ m < n)
  <2>1. PICK k \in DOMAIN lists : \E p \in DOMAIN lists[k] :
            /\ lists[k][p] = x
            /\ \A l \in 1..k : \A q \in DOMAIN lists[l] : l < k \/ q <= p => lists[l][q] # y
    BY <1>3 DEF NamedBefore
  <2>2. PICK p \in DOMAIN lists[k] :
            /\ lists[k][p] = x
            /\ \A l \in 1..k : \A q \in DOMAIN lists[l] : l < k \/ q <= p => lists[l][q] # y
    BY <2>1
  <2>3. k \in Nat /\ p \in Nat /\ 1 <= j
    BY <1>2, <2>1, <2>2 DEF Lists
  <2>4. i <= k
    BY <1>1, <2>1, <2>2 DEF With
  <2>5. n \in DOMAIN lists[j] /\ lists[j][n] = y
    BY <1>2 DEF Places
  <2>6. k <= j /\ (k = j => p < n)
    BY <1>2, <2>2, <2>3, <2>5
  <2>7. i = k => m <= p
    BY <1>1, <2>2 DEF Places
  <2> QED
    BY <1>1, <1>2, <2>3, <2>4, <2>6, <2>7
<1>4. ASSUME i < j \/ (i = j /\ m < n)
      PROVE  <<x, y>> \in NamedBefore(lists)
  <2>1. m \in DOMAIN lists[i] /\ lists[i][m] = x
    BY <1>1 DEF Places
  <2>2. ASSUME NEW l \in 1..i, NEW q \in DOMAIN lists[l], l < i \/ q <= m, lists[l][q] = y
        PROVE  FALSE
    <3>1. l \in DOMAIN lists
      BY <1>1 DEF Lists
    <3>2. l \in Nat /\ q \in Nat
      BY <1>1, <2>2, <3>1 DEF Lists
    <3>3. j <= l
      BY <1>2, <2>2, <3>1 DEF With
    <3>4. l = i /\ j = i
      BY <1>1, <1>2, <1>4, <2>2, <3>2, <3>3
    <3>5. n <= q
      BY <1>2, <2>2, <3>4 DEF Places
    <3> QED
      BY <1>1, <1>2, <1>4, <2>2, <3>2, <3>4, <3>5
  <2> QED
    BY <1>1, <2>1, <2>2 DEF NamedBefore
<1> QED
  BY <1>0, <1>3, <1>4

LEMMA NamesOrder ==
    ASSUME NEW lists, Lists(lists)
    PROVE  Orders(NamedBefore(lists), NamesIn(lists))
<1> DEFINE S == NamesIn(lists)
           first(x) == FirstList(lists, x)
           place(x) == FirstSpot(lists, x)
<1>1. ASSUME NEW x \in S
      PROVE  /\ first(x) \in Nat /\ place(x) \in Nat
             /\ lists[first(x)][place(x)] = x
  <2>1. place(x) \in Places(lists[first(x)], x) /\ first(x) \in Nat /\ place(x) \in Nat
    BY FirstPlace
  <2> QED
    BY <2>1 DEF Places
<1>2. ASSUME NEW x \in S, NEW y \in S
      PROVE  <<x, y>> \in NamedBefore(lists)
                 <=> first(x) < first(y) \/ (first(x) = first(y) /\ place(x) < place(y))
  BY NamedBeforeIs, Zenon
<1> HIDE DEF S, first, place
<1>3. \A x \in S : <<x, x>> \notin NamedBefore(lists)
  BY <1>1, <1>2
<1>4. \A x, y \in S : x # y => \/ <<x, y>> \in NamedBefore(lists)
                               \/ <<y, x>> \in NamedBefore(lists)
  <2> SUFFICES ASSUME NEW x \in S, NEW y \in S, x # y
               PROVE  \/ <<x, y>> \in NamedBefore(lists)
                      \/ <<y, x>> \in NamedBefore(lists)
    OBVIOUS
  <2>1. first(x) # first(y) \/ place(x) # place(y)
    BY <1>1, Zenon
  <2> QED
    BY <1>1, <1>2, <2>1
<1>5. \A x, y, z \in S : <<x, y>> \in NamedBefore(lists) /\ <<y, z>> \in NamedBefore(lists)
                             => <<x, z>> \in NamedBefore(lists)
  <2> SUFFICES ASSUME NEW x \in S, NEW y \in S, NEW z \in S,
                      <<x, y>> \in NamedBefore(lists), <<y, z>> \in NamedBefore(lists)
               PROVE  <<x, z>> \in NamedBefore(lists)
    OBVIOUS
  <2>1. /\ first(x) < first(y) \/ (first(x) = first(y) /\ place(x) < place(y))
        /\ first(y) < first(z) \/ (first(y) = first(z) /\ place(y) < place(z))
    BY <1>2
  <2>2. first(x) < first(z) \/ (first(x) = first(z) /\ place(x) < place(z))
    BY <1>1, <2>1
  <2> QED
    BY <1>2, <2>2
<1> QED
  BY <1>3, <1>4, <1>5 DEF Orders, S

LEMMA RangeIsFinite ==
    ASSUME NEW s, NEW n \in Nat, DOMAIN s = 1..n
    PROVE  IsFiniteSet(ToSet(s))
<1> DEFINE D == 1..n
           f == [i \in D |-> s[i]]
<1>1. ToSet(s) = {s[i] : i \in D}
  BY DEF ToSet
<1>2. IsFiniteSet(D)
  BY FS_Interval
<1>3. f \in Surjection(D, ToSet(s))
  BY <1>1 DEF Surjection
<1> HIDE DEF D, f
<1> QED
  BY <1>2, <1>3, FS_Surjection

LEMMA NamesAreFinite ==
    ASSUME NEW lists, Lists(lists)
    PROVE  IsFiniteSet(NamesIn(lists))
<1> DEFINE n == Len(lists)
           sets == [i \in 1..n |-> ToSet(lists[i])]
<1>1. n \in Nat /\ DOMAIN lists = 1..n
  BY DEF Lists
<1>2. DOMAIN sets = 1..n
  OBVIOUS
<1>3. NamesIn(lists) = UNION ToSet(sets)
  <2>1. ToSet(sets) = {ToSet(lists[i]) : i \in DOMAIN lists}
    BY <1>1 DEF ToSet
  <2> QED
    BY <2>1 DEF NamesIn
<1>4. \A T \in ToSet(sets) : IsFiniteSet(T)
  <2> SUFFICES ASSUME NEW T \in ToSet(sets)
               PROVE  IsFiniteSet(T)
    OBVIOUS
  <2>1. PICK i \in DOMAIN lists : T = ToSet(lists[i])
    BY <1>1 DEF ToSet
  <2>2. DOMAIN lists[i] = 1..Len(lists[i]) /\ Len(lists[i]) \in Nat
    BY DEF Lists
  <2> QED
    BY <2>1, <2>2, RangeIsFinite
<1> HIDE DEF sets, n
<1>5. IsFiniteSet(ToSet(sets))
  BY <1>1, <1>2, RangeIsFinite
<1> QED
  BY <1>3, <1>4, <1>5, FS_UNION

\* The first names are as many as allowed, each once, and those that are
\* named first.
LEMMA FirstNamesFacts ==
    ASSUME NEW lists, Lists(lists), NEW limit \in Nat,
           NEW names, names = FirstNames(lists, limit)
    PROVE  /\ names \in Seq(NamesIn(lists)) /\ Cardinality(NamesIn(lists)) \in Nat
           /\ Len(names) = Least(limit, Cardinality(NamesIn(lists)))
           /\ Cardinality(ToSet(names)) = Len(names)
           /\ \A x \in ToSet(names), y \in NamesIn(lists) \ ToSet(names) :
                 FirstList(lists, x) <= FirstList(lists, y)
<1> DEFINE S == NamesIn(lists)
           R == NamedBefore(lists)
           c == Cardinality(S)
<1>1. IsFiniteSet(S) /\ Orders(R, S)
  BY NamesAreFinite, NamesOrder
<1>2. PICK a : a = Arranged(S, R)
  OBVIOUS
<1>3. names = FirstN(a, limit)
  BY <1>2, Zenon DEF FirstNames
<1> HIDE DEF S, R
<1>4. /\ c \in Nat /\ a \in [1..c -> S]
      /\ \A x \in S : \E k \in 1..c : a[k] = x
      /\ \A k, l \in 1..c : <<a[k], a[l]>> \in R <=> k < l
  BY <1>1, <1>2, ArrangedIsOrder
<1> HIDE DEF c
<1>5. a \in Seq(S) /\ Len(a) = c
  BY <1>4, FunctionSeq
<1>6. /\ FirstN(a, limit) \in Seq(S) /\ Len(FirstN(a, limit)) = Least(limit, Len(a))
      /\ Len(FirstN(a, limit)) \in Nat /\ Len(FirstN(a, limit)) <= Len(a)
      /\ DOMAIN FirstN(a, limit) = 1..Len(FirstN(a, limit))
      /\ \A i \in 1..Len(FirstN(a, limit)) : FirstN(a, limit)[i] = a[i]
  BY <1>5, FirstNFacts
<1>7. PICK n : n = Len(names)
  OBVIOUS
<1>8. /\ names \in Seq(S) /\ n = Least(limit, c) /\ n \in Nat /\ n <= c
      /\ DOMAIN names = 1..n /\ \A i \in 1..n : names[i] = a[i]
  BY <1>3, <1>5, <1>6, <1>7, Zenon
<1>9. \A i \in 1..n : i \in 1..c
  BY <1>4, <1>8
<1>10. \A i, j \in 1..n : names[i] = names[j] => i = j
  <2> SUFFICES ASSUME NEW i \in 1..n, NEW j \in 1..n, names[i] = names[j], i # j
               PROVE  FALSE
    OBVIOUS
  <2>1. i < j \/ j < i
    OBVIOUS
  <2>2. <<a[i], a[i]>> \in R
    BY <1>4, <1>8, <1>9, <2>1
  <2>3. i < i
    BY <1>4, <1>9, <2>2
  <2> QED
    BY <2>3
<1>11. Cardinality(ToSet(names)) = n
  <2> DEFINE D == 1..n
             f == [i \in D |-> names[i]]
  <2>1. ToSet(names) = {names[i] : i \in D}
    BY <1>8 DEF ToSet
  <2>2. f \in Surjection(D, ToSet(names))
    BY <2>1 DEF Surjection
  <2>3. f \in Injection(D, ToSet(names))
    BY <1>10, <2>1 DEF Injection, IsInjective
  <2>4. IsFiniteSet(D) /\ Cardinality(D) = n
    BY <1>8, FS_Interval
  <2> HIDE DEF D, f
  <2> QED
    BY <2>2, <2>3, <2>4, FS_Surjection
<1>12. ASSUME NEW x \in ToSet(names), NEW y \in S \ ToSet(names)
       PROVE  FirstList(lists, x) <= FirstList(lists, y)
  <2>1. PICK k \in 1..n : names[k] = x
    BY <1>8 DEF ToSet
  <2>2. PICK l \in 1..c : a[l] = y
    BY <1>4
  <2>3. l \notin 1..n
    BY <1>8, <2>2 DEF ToSet
  <2>4. k < l
    BY <1>4, <1>8, <2>3
  <2>5. <<x, y>> \in R /\ x \in S /\ y \in S
    BY <1>4, <1>8, <1>9, <2>1, <2>2, <2>4
  <2>6. \/ FirstList(lists, x) < FirstList(lists, y)
        \/ FirstList(lists, x) = FirstList(lists, y)
    BY <2>5, NamedBeforeIs, Zenon DEF S, R
  <2>7. FirstList(lists, x) \in Nat /\ FirstList(lists, y) \in Nat
    BY <2>5, FirstPlace DEF S
  <2> QED
    BY <2>6, <2>7
<1> QED
  BY <1>4, <1>7, <1>8, <1>11, <1>12 DEF S, c

LEMMA CitedLists ==
    ASSUME NEW cited \in Seq(CitedItems)
    PROVE  Lists(EntityLists(cited))
<1> DEFINE lists == EntityLists(cited)
<1>1. DOMAIN cited = 1..Len(cited) /\ Len(cited) \in Nat
  BY LenProperties
<1>2. lists = [i \in 1..Len(cited) |-> cited[i].entities]
  BY <1>1 DEF EntityLists
<1>3. DOMAIN lists = 1..Len(lists) /\ Len(lists) \in Nat
  <2> DEFINE T == {cited[i].entities : i \in 1..Len(cited)}
  <2>1. lists \in [1..Len(cited) -> T]
    BY <1>2
  <2> HIDE DEF T, lists
  <2> QED
    BY <1>1, <2>1, FunctionSeq
<1>4. ASSUME NEW i \in DOMAIN lists
      PROVE  DOMAIN lists[i] = 1..Len(lists[i]) /\ Len(lists[i]) \in Nat
  <2>1. cited[i] \in CitedItems
    BY <1>1, <1>2, ElementOfSeq
  <2>2. PICK e : e = cited[i].entities
    OBVIOUS
  <2>3. e = <<>> \/ \E t \in Texts : e = EntitiesIn[t]
    BY <2>1, <2>2 DEF CitedItems
  <2>4. ASSUME NEW T, e \in Seq(T)
        PROVE  DOMAIN e = 1..Len(e) /\ Len(e) \in Nat
    BY <2>4, LenProperties
  <2>5. DOMAIN e = 1..Len(e) /\ Len(e) \in Nat
    <3>1. CASE e = <<>>
      BY <3>1
    <3>2. ASSUME NEW t \in Texts, e = EntitiesIn[t]
          PROVE  DOMAIN e = 1..Len(e) /\ Len(e) \in Nat
      <4>1. e \in Seq(ToSet(e))
        BY <3>2, ScoreAssumption
      <4> QED
        BY <2>4, <4>1
    <3> QED
      BY <2>3, <3>1, <3>2
  <2> QED
    BY <1>2, <2>2, <2>5
<1> QED
  BY <1>3, <1>4 DEF Lists

LEMMA NoNames ==
    ASSUME NEW lists, Lists(lists), NEW limit \in Nat \ {0}
    PROVE  FirstNames(lists, limit) = <<>> <=> NamesIn(lists) = {}
<1>1. PICK names : names = FirstNames(lists, limit)
  OBVIOUS
<1>2. /\ names \in Seq(NamesIn(lists)) /\ Cardinality(NamesIn(lists)) \in Nat
      /\ Len(names) = Least(limit, Cardinality(NamesIn(lists)))
  BY <1>1, FirstNamesFacts
<1>3. Len(names) = 0 <=> Cardinality(NamesIn(lists)) = 0
  BY <1>2 DEF Least
<1>4. names = <<>> <=> Len(names) = 0
  BY <1>2, EmptySeq
<1>5. Cardinality(NamesIn(lists)) = 0 <=> NamesIn(lists) = {}
  BY NamesAreFinite, FS_EmptySet
<1> QED
  BY <1>1, <1>3, <1>4, <1>5

\* There are results to explain if there are results.
LEMMA NoUris ==
    ASSUME NEW cited \in Seq(CitedItems), NEW limit \in Nat \ {0}
    PROVE  CollectResultUris(cited, limit) = <<>> <=> cited = <<>>
<1>1. DOMAIN cited = 1..Len(cited) /\ Len(cited) \in Nat
  BY LenProperties
<1>2. PICK lists : lists = [i \in DOMAIN cited |-> <<cited[i].chunk>>]
  OBVIOUS
<1>3. DOMAIN lists = 1..Len(lists) /\ Len(lists) = Len(cited)
  <2> DEFINE T == {<<cited[i].chunk>> : i \in 1..Len(cited)}
  <2>1. lists \in [1..Len(cited) -> T]
    BY <1>1, <1>2
  <2> HIDE DEF T
  <2> QED
    BY <1>1, <2>1, FunctionSeq
<1>4. ASSUME NEW i \in DOMAIN lists
      PROVE  /\ DOMAIN lists[i] = 1..Len(lists[i]) /\ Len(lists[i]) \in Nat
             /\ lists[i][1] \in ToSet(lists[i])
  <2>1. lists[i] = <<cited[i].chunk>>
    BY <1>2
  <2> QED
    BY <2>1 DEF ToSet
<1>5. Lists(lists)
  BY <1>1, <1>3, <1>4 DEF Lists
<1>6. NamesIn(lists) = {} <=> cited = <<>>
  <2>1. CASE cited = <<>>
    BY <1>2, <2>1 DEF NamesIn
  <2>2. CASE cited # <<>>
    <3>1. 1 \in DOMAIN lists
      BY <1>1, <1>3, <2>2, EmptySeq
    <3> QED
      BY <1>4, <2>2, <3>1 DEF NamesIn
  <2> QED
    BY <2>1, <2>2
<1>7. CollectResultUris(cited, limit) = FirstNames(lists, limit)
  BY <1>2, Zenon DEF CollectResultUris
<1> QED
  BY <1>5, <1>6, <1>7, NoNames

-----------------------------------------------------------------------------
(* Plans.                                                                  *)

Plans ==
    {<<"kb_memory_delete">>, <<"kb_memory_search", "kb_search">>,
     <<"kb_search", "kb_graph_expand">>, <<"kb_search", "kb_explain">>, <<"kb_search">>}

\* The tools of a plan are distinct, and what needs the results of a search
\* comes after it.
LEMMA PlanFacts ==
    ASSUME NEW p \in Plans
    PROVE  /\ Len(p) \in {1, 2} /\ DOMAIN p = 1..Len(p)
           /\ \A i \in 1..Len(p) : p[i] \in Tools
           /\ \A i, j \in 1..Len(p) : p[i] = p[j] => i = j
           /\ \A i \in 1..Len(p) : p[i] \in {"kb_graph_expand", "kb_explain"} =>
                 i = 2 /\ p[1] = "kb_search"
BY DEF Plans, Tools

LEMMA IntentPlans ==
    ASSUME NEW intent \in Intents
    PROVE  EXECUTION_PLANS[intent] \in Plans /\ RecommendedTools[intent] = EXECUTION_PLANS[intent]
<1>1. intent \in {"memory_delete", "explainability", "relation_impact", "memory_context",
                  "fact_lookup"}
  BY DEF Intents, Strategies, ToSet
<1> QED
  BY <1>1 DEF EXECUTION_PLANS, RecommendedTools, Plans

LEMMA PlanOfFacts ==
    ASSUME NEW cfg \in WrapperConfigs
    PROVE  /\ PlanOf(cfg).plan \in Plans /\ PlanOf(cfg).route.mode = cfg.mode
           /\ cfg.serverRoutes =>
                /\ PlanOf(cfg).route.intent = DetectIntent(cfg.markers, cfg.memory)
                /\ PlanOf(cfg).plan = RecommendedTools[DetectIntent(cfg.markers, cfg.memory)]
<1>1. cfg.mode \in Modes
  BY ConfigAssumption
<1>2. CASE cfg.serverRoutes
  <2>1. PICK r : r = Route(cfg.markers, cfg.mode, cfg.memory)
    OBVIOUS
  <2>2. r.intent \in Intents /\ r.mode = cfg.mode
        /\ r.intent = DetectIntent(cfg.markers, cfg.memory)
    BY <1>1, <2>1, RouteType
  <2>3. PlanOf(cfg) = [route |-> r, plan |-> EXECUTION_PLANS[r.intent]]
    BY <1>2, <2>1, Zenon DEF PlanOf, KbRoute
  <2>4. PlanOf(cfg).route = r /\ PlanOf(cfg).plan = EXECUTION_PLANS[r.intent]
    BY <2>3
  <2> QED
    BY <2>2, <2>4, IntentPlans
<1>3. CASE ~cfg.serverRoutes
  <2>1. PICK plan : plan = IF cfg.memory THEN <<"kb_memory_search", "kb_search">>
                           ELSE <<"kb_search">>
    OBVIOUS
  <2>2. PlanOf(cfg) =
            [route |-> [intent |-> IF cfg.memory THEN "memory_context" ELSE "fact_lookup",
                        mode |-> cfg.mode, tools |-> plan],
             plan |-> plan]
    BY <1>3, <2>1, Zenon DEF PlanOf, LegacyRoute
  <2>3. PlanOf(cfg).plan = plan /\ PlanOf(cfg).route.mode = cfg.mode
    BY <2>2
  <2>4. plan \in Plans
    BY <2>1 DEF Plans
  <2> QED
    BY <1>3, <2>3, <2>4
<1> QED
  BY <1>2, <1>3

-----------------------------------------------------------------------------
(* The steps of the wrapper.                                               *)

LEMMA WrapFields ==
    /\ DOMAIN NotStarted = {"pc", "cfg", "routed", "at", "outputs", "skipped", "seeds", "uris"}
    /\ NotStarted.pc = "idle" /\ NotStarted.routed = NoPlanYet /\ NotStarted.at = 1
    /\ NotStarted.outputs = {} /\ NotStarted.skipped = {}
BY DEF NotStarted

LEMMA StepIsNext ==
    ASSUME Progress(wrap, srch), wrap.at <= Len(wrap.routed.plan)
    PROVE  /\ Tool \in Tools /\ Tool \notin wrap.outputs \cup wrap.skipped
           /\ wrap.at + 1 \in 1..(Len(wrap.routed.plan) + 1) /\ wrap.at \in Nat
           /\ {wrap.routed.plan[i] : i \in 1..wrap.at} = (wrap.outputs \cup wrap.skipped) \cup {Tool}
           /\ Tool \in {"kb_graph_expand", "kb_explain"} => "kb_search" \in wrap.outputs
<1>1. PICK p : p = wrap.routed.plan
  OBVIOUS
<1>2. PICK at : at = wrap.at
  OBVIOUS
<1>3. p \in Plans
  BY <1>1, PlanOfFacts DEF Progress
<1>4. /\ Len(p) \in {1, 2} /\ \A i \in 1..Len(p) : p[i] \in Tools
      /\ \A i, j \in 1..Len(p) : p[i] = p[j] => i = j
      /\ \A i \in 1..Len(p) : p[i] \in {"kb_graph_expand", "kb_explain"} =>
            i = 2 /\ p[1] = "kb_search"
  BY <1>3, PlanFacts
<1>5. /\ at \in 1..(Len(p) + 1) /\ at <= Len(p) /\ Tool = p[at]
      /\ wrap.outputs \cup wrap.skipped = {p[i] : i \in 1..(at - 1)}
      /\ "kb_search" \notin wrap.skipped
  BY <1>1, <1>2 DEF Progress, Outcomes, Tool
<1>6. at \in 1..Len(p) /\ at \in Nat /\ at + 1 \in 1..(Len(p) + 1)
  BY <1>4, <1>5
<1>7. Tool \in Tools
  BY <1>4, <1>5, <1>6
<1>8. Tool \notin wrap.outputs \cup wrap.skipped
  <2> SUFFICES ASSUME NEW i \in 1..(at - 1), p[i] = p[at]
               PROVE  FALSE
    BY <1>5
  <2>1. i \in 1..Len(p) /\ i # at
    BY <1>4, <1>6
  <2> QED
    BY <1>4, <1>6, <2>1
<1>9. {p[i] : i \in 1..at} = {p[i] : i \in 1..(at - 1)} \cup {p[at]}
  <2>1. \A i : i \in 1..at <=> i \in 1..(at - 1) \/ i = at
    BY <1>6
  <2> QED
    BY <2>1
<1>10. Tool \in {"kb_graph_expand", "kb_explain"} => "kb_search" \in wrap.outputs
  <2> SUFFICES ASSUME Tool \in {"kb_graph_expand", "kb_explain"}
               PROVE  "kb_search" \in wrap.outputs
    OBVIOUS
  <2>1. at = 2 /\ p[1] = "kb_search"
    BY <1>4, <1>5, <1>6
  <2>2. 1 \in 1..(at - 1)
    BY <2>1
  <2>3. p[1] \in wrap.outputs \cup wrap.skipped
    BY <1>5, <2>2
  <2> QED
    BY <1>5, <2>1, <2>3
<1>11. at + 1 \in 1..(Len(p) + 1) /\ at \in Nat
  BY <1>6
<1>12. {p[i] : i \in 1..at} = (wrap.outputs \cup wrap.skipped) \cup {Tool}
  BY <1>5, <1>9, Zenon
<1> QED
  BY <1>1, <1>2, <1>7, <1>8, <1>10, <1>11, <1>12, Zenon

\* One step of the plan is done.
LEMMA Advances ==
    ASSUME Progress(wrap, srch), wrap.at <= Len(wrap.routed.plan),
           NEW w, DOMAIN w = DOMAIN NotStarted, w.pc = "running", w.cfg = wrap.cfg,
           w.routed = wrap.routed, w.at = wrap.at + 1,
           w.outputs \cup w.skipped = (wrap.outputs \cup wrap.skipped) \cup {Tool},
           w.outputs \cap w.skipped = {}, Outcomes(w, srch)
    PROVE  Progress(w, srch)
<1>1. /\ wrap.at + 1 \in 1..(Len(wrap.routed.plan) + 1) /\ wrap.at \in Nat
      /\ {wrap.routed.plan[i] : i \in 1..wrap.at} = (wrap.outputs \cup wrap.skipped) \cup {Tool}
  BY StepIsNext
<1>2. w.at - 1 = wrap.at
  BY <1>1
<1>3. w.at \in 1..(Len(w.routed.plan) + 1)
  BY <1>1
<1>4. w.outputs \cup w.skipped = {w.routed.plan[i] : i \in 1..(w.at - 1)}
  BY <1>1, <1>2
<1>5. w.cfg \in WrapperConfigs /\ w.routed = PlanOf(w.cfg)
  BY DEF Progress
<1>6. srch.pc # "idle" => srch.route = Route(w.cfg.markers, w.routed.route.mode, w.cfg.memory)
  BY DEF Progress
<1> QED
  BY <1>3, <1>4, <1>5, <1>6 DEF Progress

\* A search meanwhile is the wrapper's own, or the wrapper has not begun.
LEMMA SearchMoves ==
    ASSUME Unrouted(wrap, srch) \/ Progress(wrap, srch), wrap' = wrap,
           srch.pc \in Searching, srch'.pc # "idle", srch'.route = srch.route
    PROVE  Unrouted(wrap', srch') \/ Progress(wrap', srch')
<1>1. srch.pc # "idle" /\ srch.pc # "answered"
  BY DEF Searching
<1>2. CASE Unrouted(wrap, srch)
  BY <1>1, <1>2 DEF Unrouted
<1>3. CASE Progress(wrap, srch)
  <2>1. Outcomes(wrap', srch')
    BY <1>1, <1>3 DEF Progress, Outcomes
  <2> QED
    BY <1>1, <1>3, <2>1 DEF Progress
<1> QED
  BY <1>2, <1>3

LEMMA StartKeeps ==
    ASSUME NEW cfg \in WrapperConfigs, Start(cfg)
    PROVE  Unrouted(wrap', srch')
BY WrapFields DEF Start, Unrouted, searchVars

LEMMA ConnectKeeps ==
    ASSUME Unrouted(wrap, srch) \/ Progress(wrap, srch), Connects \/ ConnectFails
    PROVE  Unrouted(wrap', srch')
<1>1. Unrouted(wrap, srch)
  BY DEF Progress, Connects, ConnectFails
<1> QED
  BY <1>1, WrapFields DEF Unrouted, Connects, ConnectFails, searchVars

LEMMA RoutedKeeps ==
    ASSUME Unrouted(wrap, srch) \/ Progress(wrap, srch), Routed
    PROVE  Progress(wrap', srch')
<1>1. Unrouted(wrap, srch) /\ wrap.pc = "routing"
  BY DEF Progress, Routed
<1>2. DOMAIN wrap = DOMAIN NotStarted /\ wrap.at = 1 /\ wrap.outputs = {} /\ wrap.skipped = {}
      /\ wrap.cfg \in WrapperConfigs /\ srch.pc = "idle"
  BY <1>1 DEF Unrouted
<1>3. srch' = srch /\ wrap' = [wrap EXCEPT !.pc = "running", !.routed = PlanOf(wrap.cfg)]
  BY DEF Routed, PlanOf, searchVars
<1>4. PICK routed : routed = PlanOf(wrap.cfg)
  OBVIOUS
<1>5. /\ DOMAIN wrap' = DOMAIN NotStarted /\ wrap'.pc = "running" /\ wrap'.cfg = wrap.cfg
      /\ wrap'.routed = routed /\ wrap'.at = 1 /\ wrap'.outputs = {} /\ wrap'.skipped = {}
  BY <1>2, <1>3, <1>4, WrapFields
<1>6. Len(routed.plan) \in {1, 2}
  BY <1>2, <1>4, PlanOfFacts, PlanFacts
<1>7. Outcomes(wrap', srch')
  BY <1>5 DEF Outcomes
<1>8. 1 \in 1..(Len(routed.plan) + 1) /\ {routed.plan[i] : i \in 1..(1 - 1)} = {}
  BY <1>6
<1> QED
  BY <1>2, <1>3, <1>4, <1>5, <1>7, <1>8 DEF Progress

LEMMA SkipKeeps ==
    ASSUME Unrouted(wrap, srch) \/ Progress(wrap, srch), Skip
    PROVE  Progress(wrap', srch')
<1>1. Progress(wrap, srch) /\ wrap.pc = "running" /\ wrap.at <= Len(wrap.routed.plan)
  BY DEF Unrouted, Skip, AtStep
<1>2. PICK tool : tool = Tool
  OBVIOUS
<1>3. /\ tool \notin wrap.outputs \cup wrap.skipped
      /\ wrap.at + 1 \in 1..(Len(wrap.routed.plan) + 1) /\ wrap.at \in Nat
      /\ {wrap.routed.plan[i] : i \in 1..wrap.at} = (wrap.outputs \cup wrap.skipped) \cup {tool}
      /\ tool \in {"kb_graph_expand", "kb_explain"} => "kb_search" \in wrap.outputs
  BY <1>1, <1>2, StepIsNext
<1>4. DOMAIN wrap = DOMAIN NotStarted /\ Outcomes(wrap, srch)
  BY <1>1 DEF Progress
<1>5. srch' = srch /\ wrap' = [wrap EXCEPT !.at = @ + 1, !.skipped = @ \cup {tool}]
  BY <1>2 DEF Skip, searchVars
<1>6. /\ DOMAIN wrap' = DOMAIN NotStarted /\ wrap'.pc = "running" /\ wrap'.cfg = wrap.cfg
      /\ wrap'.routed = wrap.routed /\ wrap'.at = wrap.at + 1
      /\ wrap'.outputs = wrap.outputs /\ wrap'.skipped = wrap.skipped \cup {tool}
      /\ wrap'.seeds = wrap.seeds
  BY <1>1, <1>4, <1>5, WrapFields
<1>7. \/ tool = "kb_graph_expand" /\ Seeds = <<>>
      \/ tool = "kb_explain" /\ Uris = <<>>
      \/ tool = "kb_memory_delete"
  BY <1>2 DEF Skip, Skipped
<1>8. "kb_search" \in wrap.outputs =>
          /\ Seeds = CollectSeedEntities(srch.cited, wrap.cfg.maxSeeds)
          /\ Uris = CollectResultUris(srch.cited, wrap.cfg.topUris)
  BY DEF Seeds, Uris, SearchOut
<1>9. Outcomes(wrap', srch')
  BY <1>3, <1>4, <1>5, <1>6, <1>7, <1>8 DEF Outcomes
<1>10. wrap'.outputs \cup wrap'.skipped = (wrap.outputs \cup wrap.skipped) \cup {Tool}
  BY <1>2, <1>6
<1>11. wrap'.outputs \cap wrap'.skipped = {}
  BY <1>1, <1>3, <1>6 DEF Progress
<1>12. Outcomes(wrap', srch)
  BY <1>5, <1>9
<1>13. Progress(wrap', srch)
  BY <1>1, <1>6, <1>10, <1>11, <1>12, Advances
<1> QED
  BY <1>5, <1>13

LEMMA CallToolKeeps ==
    ASSUME Unrouted(wrap, srch) \/ Progress(wrap, srch), CallTool
    PROVE  Progress(wrap', srch')
<1>1. Progress(wrap, srch) /\ wrap.pc = "running" /\ wrap.at <= Len(wrap.routed.plan)
  BY DEF Unrouted, CallTool, AtStep
<1>2. PICK tool : tool = Tool
  OBVIOUS
<1>3. /\ tool \notin wrap.outputs \cup wrap.skipped
      /\ wrap.at + 1 \in 1..(Len(wrap.routed.plan) + 1) /\ wrap.at \in Nat
      /\ {wrap.routed.plan[i] : i \in 1..wrap.at} = (wrap.outputs \cup wrap.skipped) \cup {tool}
      /\ tool \in {"kb_graph_expand", "kb_explain"} => "kb_search" \in wrap.outputs
  BY <1>1, <1>2, StepIsNext
<1>4. DOMAIN wrap = DOMAIN NotStarted /\ Outcomes(wrap, srch)
  BY <1>1 DEF Progress
<1>5. PICK seeds, uris :
          /\ seeds = IF tool = "kb_graph_expand" THEN Seeds ELSE wrap.seeds
          /\ uris = IF tool = "kb_explain" THEN Uris ELSE wrap.uris
  OBVIOUS
<1>6. srch' = srch /\ wrap' = [wrap EXCEPT !.at = @ + 1, !.outputs = @ \cup {tool},
                                           !.seeds = seeds, !.uris = uris]
  BY <1>2, <1>5 DEF CallTool, searchVars
<1>7. /\ DOMAIN wrap' = DOMAIN NotStarted /\ wrap'.pc = "running" /\ wrap'.cfg = wrap.cfg
      /\ wrap'.routed = wrap.routed /\ wrap'.at = wrap.at + 1
      /\ wrap'.outputs = wrap.outputs \cup {tool} /\ wrap'.skipped = wrap.skipped
      /\ wrap'.seeds = seeds
  BY <1>1, <1>4, <1>6, WrapFields
<1>8. /\ tool # "kb_search"
      /\ tool = "kb_graph_expand" => Seeds # <<>>
      /\ tool = "kb_explain" => Uris # <<>>
      /\ tool = "kb_memory_delete" => wrap.cfg.allowDelete
  BY <1>2 DEF CallTool, Skipped
<1>9. "kb_search" \in wrap.outputs =>
          /\ Seeds = CollectSeedEntities(srch.cited, wrap.cfg.maxSeeds)
          /\ Uris = CollectResultUris(srch.cited, wrap.cfg.topUris)
  BY DEF Seeds, Uris, SearchOut
<1>10. Outcomes(wrap', srch')
  BY <1>3, <1>4, <1>5, <1>6, <1>7, <1>8, <1>9 DEF Outcomes
<1>11. wrap'.outputs \cup wrap'.skipped = (wrap.outputs \cup wrap.skipped) \cup {Tool}
  BY <1>2, <1>7
<1>12. wrap'.outputs \cap wrap'.skipped = {}
  BY <1>1, <1>3, <1>7 DEF Progress
<1>13. Outcomes(wrap', srch)
  BY <1>6, <1>10
<1>14. Progress(wrap', srch)
  BY <1>1, <1>7, <1>11, <1>12, <1>13, Advances
<1> QED
  BY <1>6, <1>14

LEMMA CallSearchKeeps ==
    ASSUME SearchInv, Unrouted(wrap, srch) \/ Progress(wrap, srch), CallSearch
    PROVE  SearchInv' /\ Progress(wrap', srch') /\ srch'.cited = <<>>
<1>1. Progress(wrap, srch) /\ wrap.pc = "running" /\ wrap.at <= Len(wrap.routed.plan)
      /\ Tool = "kb_search"
  BY DEF Unrouted, CallSearch, AtStep
<1>2. DOMAIN wrap = DOMAIN NotStarted /\ Outcomes(wrap, srch) /\ wrap.cfg \in WrapperConfigs
      /\ wrap.routed = PlanOf(wrap.cfg)
  BY <1>1 DEF Progress
<1>3. PICK cfg \in WrapperConfigs : cfg = wrap.cfg
  BY <1>2
<1>4. PICK mode : mode = wrap.routed.route.mode
  OBVIOUS
<1>5. mode \in Modes /\ cfg.topK \in Nat /\ cfg.depth \in Nat /\ cfg.memory \in BOOLEAN
  BY <1>2, <1>3, <1>4, ConfigAssumption, PlanOfFacts
<1>6. PICK r : r = SearchPayload(wrap.cfg, wrap.routed.route)
  OBVIOUS
<1>7. /\ DOMAIN r = DOMAIN NoRequest /\ r.markers = cfg.markers /\ r.mode = mode
      /\ r.memory = cfg.memory /\ r.topK = cfg.topK /\ r.depth = cfg.depth
      /\ r.topN = Least(10, cfg.topK) /\ r.rerank = FALSE
  <2>1. {"markers", "mode", "memory", "topK", "depth", "topN", "rerank"} \subseteq DOMAIN NoRequest
        /\ NoRequest.rerank = FALSE
    BY DEF NoRequest
  <2>2. DOMAIN NoRequest = {"auth", "tags", "sources", "after", "markers", "mode", "memory",
                            "topK", "depth", "rerank", "topN"}
    BY DEF NoRequest
  <2>3. r = [NoRequest EXCEPT !.auth = cfg.auth, !.markers = cfg.markers, !.mode = mode,
                 !.memory = cfg.memory, !.topK = cfg.topK, !.depth = cfg.depth,
                 !.topN = Least(10, cfg.topK)]
    BY <1>3, <1>4, <1>6, Zenon DEF SearchPayload
  <2>4. DOMAIN r = DOMAIN NoRequest
    BY <2>3
  <2>5. r.markers = cfg.markers /\ r.mode = mode /\ r.memory = cfg.memory
    BY <2>2, <2>3
  <2>6. r.topK = cfg.topK /\ r.depth = cfg.depth /\ r.topN = Least(10, cfg.topK)
    BY <2>2, <2>3
  <2>7. r.rerank = FALSE
    BY <2>1, <2>2, <2>3
  <2> QED
    BY <2>4, <2>5, <2>6, <2>7
<1>8. RequestOK(r) /\ r.mode \in Modes /\ r.memory \in BOOLEAN
  <2>1. Least(10, cfg.topK) \in Nat
    BY <1>5 DEF Least
  <2>2. r.topK \in Nat /\ r.topN \in Nat /\ r.depth \in Nat /\ r.rerank \in BOOLEAN
    BY <1>5, <1>7, <2>1
  <2>3. RequestOK(r)
    BY <1>7, <2>2, Zenon DEF RequestOK
  <2> QED
    BY <1>5, <1>7, <2>3, Zenon
<1>9. Ask(r) /\ wrap' = [wrap EXCEPT !.pc = "searching"]
  BY <1>6 DEF CallSearch
<1>10. /\ SearchInv' /\ srch.pc = "idle" /\ srch'.pc = "expanding" /\ srch'.cited = <<>>
       /\ srch'.route = Route(r.markers, r.mode, r.memory)
  BY <1>8, <1>9, AskKeeps
<1>11. srch'.route = Route(wrap.cfg.markers, wrap.routed.route.mode, wrap.cfg.memory)
  BY <1>3, <1>4, <1>7, <1>10
<1>12. /\ DOMAIN wrap' = DOMAIN NotStarted /\ wrap'.pc = "searching" /\ wrap'.cfg = wrap.cfg
       /\ wrap'.routed = wrap.routed /\ wrap'.at = wrap.at
       /\ wrap'.outputs = wrap.outputs /\ wrap'.skipped = wrap.skipped
       /\ wrap'.seeds = wrap.seeds
  BY <1>2, <1>9, WrapFields
<1>13. Outcomes(wrap', srch')
  BY <1>2, <1>10, <1>12 DEF Outcomes
<1>14. wrap.routed.plan[wrap.at] = "kb_search"
  BY <1>1 DEF Tool
<1>15. Progress(wrap', srch')
  BY <1>1, <1>10, <1>11, <1>12, <1>13, <1>14 DEF Progress
<1> QED
  BY <1>10, <1>15

LEMMA SearchRepliesKeeps ==
    ASSUME Unrouted(wrap, srch) \/ Progress(wrap, srch), SearchReplies
    PROVE  Progress(wrap', srch')
<1>1. Progress(wrap, srch) /\ wrap.pc = "searching" /\ srch.pc = "answered"
  BY DEF Unrouted, SearchReplies
<1>2. wrap.at <= Len(wrap.routed.plan) /\ Tool = "kb_search"
  BY <1>1 DEF Progress, Tool
<1>3. /\ "kb_search" \notin wrap.outputs \cup wrap.skipped
      /\ wrap.at + 1 \in 1..(Len(wrap.routed.plan) + 1) /\ wrap.at \in Nat
      /\ {wrap.routed.plan[i] : i \in 1..wrap.at}
             = (wrap.outputs \cup wrap.skipped) \cup {"kb_search"}
  BY <1>1, <1>2, StepIsNext
<1>4. DOMAIN wrap = DOMAIN NotStarted /\ Outcomes(wrap, srch)
  BY <1>1 DEF Progress
<1>5. srch' = srch /\ wrap' = [wrap EXCEPT !.pc = "running", !.at = @ + 1,
                                           !.outputs = @ \cup {"kb_search"}]
  BY DEF SearchReplies, searchVars
<1>6. /\ DOMAIN wrap' = DOMAIN NotStarted /\ wrap'.pc = "running" /\ wrap'.cfg = wrap.cfg
      /\ wrap'.routed = wrap.routed /\ wrap'.at = wrap.at + 1
      /\ wrap'.outputs = wrap.outputs \cup {"kb_search"} /\ wrap'.skipped = wrap.skipped
      /\ wrap'.seeds = wrap.seeds
  BY <1>4, <1>5, WrapFields
<1>7. Outcomes(wrap', srch')
  BY <1>1, <1>4, <1>5, <1>6 DEF Outcomes
<1>8. wrap'.outputs \cup wrap'.skipped = (wrap.outputs \cup wrap.skipped) \cup {Tool}
  BY <1>2, <1>6
<1>9. wrap'.outputs \cap wrap'.skipped = {}
  BY <1>1, <1>3, <1>6 DEF Progress
<1>10. Outcomes(wrap', srch)
  BY <1>5, <1>7
<1>11. Progress(wrap', srch)
  BY <1>1, <1>2, <1>6, <1>8, <1>9, <1>10, Advances
<1> QED
  BY <1>5, <1>11

LEMMA RaisesKeeps ==
    ASSUME Unrouted(wrap, srch) \/ Progress(wrap, srch), Raises
    PROVE  Unrouted(wrap', srch') \/ Progress(wrap', srch')
<1>1. srch' = srch /\ wrap' = [wrap EXCEPT !.pc = "failed"] /\ wrap.pc # "idle"
  BY DEF Raises, AtStep, searchVars
<1>2. DOMAIN wrap = DOMAIN NotStarted
  BY DEF Unrouted, Progress
<1>3. /\ DOMAIN wrap' = DOMAIN NotStarted /\ wrap'.pc = "failed" /\ wrap'.cfg = wrap.cfg
      /\ wrap'.routed = wrap.routed /\ wrap'.at = wrap.at
      /\ wrap'.outputs = wrap.outputs /\ wrap'.skipped = wrap.skipped
      /\ wrap'.seeds = wrap.seeds
  BY <1>1, <1>2, WrapFields
<1>4. CASE Unrouted(wrap, srch)
  BY <1>1, <1>3, <1>4 DEF Unrouted
<1>5. CASE Progress(wrap, srch)
  <2>1. Outcomes(wrap', srch')
    BY <1>1, <1>3, <1>5 DEF Outcomes, Progress
  <2> QED
    BY <1>1, <1>3, <1>5, <2>1 DEF Progress
<1> QED
  BY <1>4, <1>5

LEMMA FinishKeeps ==
    ASSUME Unrouted(wrap, srch) \/ Progress(wrap, srch), Finish
    PROVE  Progress(wrap', srch')
<1>1. srch' = srch /\ wrap' = [wrap EXCEPT !.pc = "done"] /\ wrap.pc = "running"
      /\ wrap.at > Len(wrap.routed.plan)
  BY DEF Finish, searchVars
<1>2. Progress(wrap, srch)
  BY <1>1 DEF Unrouted
<1>3. DOMAIN wrap = DOMAIN NotStarted
  BY <1>2 DEF Progress
<1>4. /\ DOMAIN wrap' = DOMAIN NotStarted /\ wrap'.pc = "done" /\ wrap'.cfg = wrap.cfg
      /\ wrap'.routed = wrap.routed /\ wrap'.at = wrap.at
      /\ wrap'.outputs = wrap.outputs /\ wrap'.skipped = wrap.skipped
      /\ wrap'.seeds = wrap.seeds
  BY <1>1, <1>3, WrapFields
<1>5. Outcomes(wrap', srch')
  BY <1>1, <1>2, <1>4 DEF Outcomes, Progress
<1>6. wrap.at = Len(wrap.routed.plan) + 1
  <2>1. Len(wrap.routed.plan) \in {1, 2}
    BY <1>2, PlanOfFacts, PlanFacts DEF Progress
  <2>2. wrap.at \in 1..(Len(wrap.routed.plan) + 1)
    BY <1>2 DEF Progress
  <2> QED
    BY <1>1, <2>1, <2>2
<1> QED
  BY <1>1, <1>2, <1>4, <1>5, <1>6 DEF Progress

-----------------------------------------------------------------------------
(* The invariant and what follows from it.                                 *)

\* In every reachable state the search holds what its step says (the rows are
\* those ranked but for disturbed chunks, the hits are the nearest), and the
\* steps of the plan before the current one are answered or skipped
\* (HybridRetriever.search, execute_pipeline).
THEOREM RouteWrapperInvariant == Spec => []IInv
<1>1. WrapperInit => IInv
  <2> SUFFICES ASSUME WrapperInit
               PROVE  IInv
    OBVIOUS
  <2>1. SearchInv
    BY SearchBegins DEF WrapperInit
  <2>2. Unrouted(wrap, srch)
    BY WrapFields DEF WrapperInit, Unrouted
  <2> QED
    BY <2>1, <2>2 DEF IInv
<1>2. IInv /\ [Next]_vars => IInv'
  <2> SUFFICES ASSUME IInv, [Next]_vars
               PROVE  IInv'
    OBVIOUS
  <2>1. SearchInv /\ (Unrouted(wrap, srch) \/ Progress(wrap, srch))
    BY DEF IInv
  <2>2. ASSUME SearchInv', Unrouted(wrap', srch') \/ Progress(wrap', srch')
        PROVE  IInv'
    BY <2>2 DEF IInv, Unrouted, Progress, Outcomes
  <2>3. ASSUME UNCHANGED searchVars
        PROVE  SearchInv'
    <3>1. StoresUnchanged /\ srch' = srch
      BY <2>3 DEF StoresUnchanged, searchVars
    <3>2. SearchTypeOK(srch') /\ SearchPhase(srch', row, Unsettled) /\ OrderKept(srch')
      BY <2>1, <3>1 DEF SearchInv, AgreedOrderKept, OrderKept
    <3> QED
      BY <2>1, <3>1, <3>2, SearchStepKeeps
  <2>4. CASE \E cfg \in WrapperConfigs : Start(cfg)
    <3>1. UNCHANGED searchVars
      BY <2>4 DEF Start
    <3> QED
      BY <2>2, <2>3, <2>4, <3>1, StartKeeps
  <2>5. CASE Connects \/ ConnectFails
    <3>1. UNCHANGED searchVars
      BY <2>5 DEF Connects, ConnectFails
    <3> QED
      BY <2>1, <2>2, <2>3, <2>5, <3>1, ConnectKeeps
  <2>6. CASE WrapperStep
    <3>1. CASE CallSearch
      BY <2>1, <2>2, <3>1, CallSearchKeeps
    <3>2. CASE Routed
      BY <2>1, <2>2, <2>3, <3>2, RoutedKeeps DEF Routed
    <3>3. CASE Skip
      BY <2>1, <2>2, <2>3, <3>3, SkipKeeps DEF Skip
    <3>4. CASE CallTool
      BY <2>1, <2>2, <2>3, <3>4, CallToolKeeps DEF CallTool
    <3>5. CASE SearchReplies
      BY <2>1, <2>2, <2>3, <3>5, SearchRepliesKeeps DEF SearchReplies
    <3>6. CASE Raises
      BY <2>1, <2>2, <2>3, <3>6, RaisesKeeps DEF Raises
    <3>7. CASE Finish
      BY <2>1, <2>2, <2>3, <3>7, FinishKeeps DEF Finish
    <3> QED
      BY <2>6, <3>1, <3>2, <3>3, <3>4, <3>5, <3>6, <3>7 DEF WrapperStep
  <2>7. CASE \E r \in Requests : wrap.pc = "idle" /\ Ask(r) /\ UNCHANGED wrap
    <3>1. PICK r \in Requests : wrap.pc = "idle" /\ Ask(r) /\ wrap' = wrap
      BY <2>7
    <3>2. RequestOK(r) /\ r.mode \in Modes /\ r.memory \in BOOLEAN
      BY RequestAssumption DEF RequestOK
    <3>3. SearchInv'
      BY <2>1, <3>1, <3>2, AskKeeps
    <3>4. Unrouted(wrap', srch')
      BY <2>1, <3>1 DEF Unrouted, Progress
    <3> QED
      BY <2>2, <3>3, <3>4
  <2>8. CASE SearchStep /\ UNCHANGED wrap
    <3>1. /\ SearchInv' /\ srch.pc \in Searching /\ srch'.pc # "idle"
          /\ srch'.route = srch.route
      BY <2>1, <2>8, SearchStepFacts
    <3>2. Unrouted(wrap', srch') \/ Progress(wrap', srch')
      BY <2>1, <2>8, <3>1, SearchMoves
    <3> QED
      BY <2>2, <3>1, <3>2
  <2>9. CASE srch.pc \in Searching /\ Ingest /\ UNCHANGED wrap
    <3>1. srch.pc \in Searching /\ Ingest /\ wrap' = wrap
      BY <2>9
    <3>2. SearchInv' /\ srch'.pc = srch.pc /\ srch'.route = srch.route
      BY <2>1, <3>1, IngestKeeps
    <3>3. srch'.pc # "idle"
      BY <3>1, <3>2 DEF Searching
    <3>4. Unrouted(wrap', srch') \/ Progress(wrap', srch')
      BY <2>1, <3>1, <3>2, <3>3, SearchMoves
    <3> QED
      BY <2>2, <3>2, <3>4
  <2>10. CASE UNCHANGED vars
    <3>1. UNCHANGED searchVars /\ wrap' = wrap /\ srch' = srch
      BY <2>10 DEF vars, searchVars
    <3> QED
      BY <2>1, <2>2, <2>3, <3>1
  <2> QED
    BY <2>4, <2>5, <2>6, <2>7, <2>8, <2>9, <2>10 DEF Next
<1> QED
  BY <1>1, <1>2, PTL DEF Spec

\* The variables of search and wrapper have their types: a route is one of the
\* router's, a plan's place is in the plan.
THEOREM TypeCorrect == Spec => []TypeOK
<1>1. IInv => TypeOK
  <2> SUFFICES ASSUME IInv
               PROVE  TypeOK
    OBVIOUS
  <2>1. StoresOK /\ SearchTypeOK(srch) /\ SearchPhase(srch, row, Unsettled)
    BY DEF IInv, SearchInv
  <2>2. srch.hits \in SeqOf([chunk : Chunks, text : Texts], MaxTopK)
    <3>1. srch.hits \in Seq(Points) /\ Len(srch.hits) <= MaxTopK /\ MaxTopK \in Nat
      BY <2>1, ScoreAssumption DEF SearchTypeOK
    <3>2. PICK n : n = Len(srch.hits)
      OBVIOUS
    <3>3. srch.hits \in [1..n -> Points] /\ n \in 0..MaxTopK
      BY <3>1, <3>2, LenProperties
    <3> QED
      BY <3>3 DEF SeqOf, Points
  <2>3. srch.ranked # <<>> => Len(srch.cited) <= Len(srch.ranked)
    BY <2>1 DEF SearchPhase
  <2>4. CASE Unrouted(wrap, srch)
    <3>1. Len(NoPlanYet.plan) = 0
      BY DEF NoPlanYet
    <3>2. wrap.at \in 1..(Len(wrap.routed.plan) + 1)
      BY <2>4, <3>1 DEF Unrouted
    <3> QED
      BY <2>1, <2>2, <2>3, <2>4, <3>2 DEF Unrouted, TypeOK, StoresOK, CorpusOK, SearchTypeOK
  <2>5. CASE Progress(wrap, srch)
    <3>1. wrap.routed.plan \in Plans
      BY <2>5, PlanOfFacts DEF Progress
    <3>2. wrap.outputs \cup wrap.skipped \subseteq Tools
      <4>1. \A i \in 1..Len(wrap.routed.plan) : wrap.routed.plan[i] \in Tools
        BY <3>1, PlanFacts
      <4>2. Len(wrap.routed.plan) \in Nat
        BY <3>1, PlanFacts
      <4>3. wrap.at \in 1..(Len(wrap.routed.plan) + 1)
        BY <2>5 DEF Progress
      <4>4. \A i \in 1..(wrap.at - 1) : i \in 1..Len(wrap.routed.plan)
        BY <4>2, <4>3
      <4> QED
        BY <2>5, <4>1, <4>4 DEF Progress
    <3> QED
      BY <2>1, <2>2, <2>3, <2>5, <3>2 DEF Progress, TypeOK, StoresOK, CorpusOK, SearchTypeOK
  <2> QED
    BY <2>4, <2>5 DEF IInv
<1> QED
  BY <1>1, RouteWrapperInvariant, PTL

\* For any corpus, scores and limits: where all signals agree about two points
\* so does the answer of HybridRetriever.search, with either fusion and either
\* reranker, and without the graph if it failed.
THEOREM OrderSafety == Spec => []AgreedOrderKept
<1>1. IInv => AgreedOrderKept
  BY DEF IInv, SearchInv
<1> QED
  BY <1>1, RouteWrapperInvariant, PTL

\* kb_search routes in the mode the wrapper was asked for and, where kb_route
\* made the plan, with the intent and the tools of that plan.
THEOREM RouteAgreement == Spec => []RouteAndSearchAgree
<1>1. IInv => RouteAndSearchAgree
  <2> SUFFICES ASSUME IInv, wrap.pc # "idle", srch.pc # "idle"
               PROVE  /\ srch.route.mode = wrap.cfg.mode
                      /\ wrap.cfg.serverRoutes =>
                           /\ srch.route.intent = wrap.routed.route.intent
                           /\ srch.route.tools = wrap.routed.plan
    BY DEF RouteAndSearchAgree
  <2>1. Progress(wrap, srch)
    BY DEF IInv, Unrouted
  <2>2. PICK cfg \in WrapperConfigs : cfg = wrap.cfg
    BY <2>1 DEF Progress
  <2>3. /\ wrap.routed = PlanOf(cfg)
        /\ srch.route = Route(cfg.markers, wrap.routed.route.mode, cfg.memory)
    BY <2>1, <2>2 DEF Progress
  <2>4. /\ PlanOf(cfg).route.mode = cfg.mode
        /\ cfg.serverRoutes =>
             /\ PlanOf(cfg).route.intent = DetectIntent(cfg.markers, cfg.memory)
             /\ PlanOf(cfg).plan = RecommendedTools[DetectIntent(cfg.markers, cfg.memory)]
    BY PlanOfFacts
  <2>5. cfg.mode \in Modes
    BY ConfigAssumption
  <2>6. srch.route = Route(cfg.markers, cfg.mode, cfg.memory)
    BY <2>3, <2>4
  <2>7. /\ Route(cfg.markers, cfg.mode, cfg.memory).mode = cfg.mode
        /\ Route(cfg.markers, cfg.mode, cfg.memory).intent
               = DetectIntent(cfg.markers, cfg.memory)
        /\ Route(cfg.markers, cfg.mode, cfg.memory).tools
               = RecommendedTools[DetectIntent(cfg.markers, cfg.memory)]
    BY <2>5, RouteType
  <2> QED
    BY <2>2, <2>3, <2>4, <2>6, <2>7, Zenon
<1> QED
  BY <1>1, RouteWrapperInvariant, PTL

\* Seeds that were collected from the results are the best ones.
LEMMA SeedsAreTheBest ==
    ASSUME srch.cited \in Seq(CitedItems), wrap.cfg.maxSeeds \in Nat,
           wrap.seeds = CollectSeedEntities(srch.cited, wrap.cfg.maxSeeds)
    PROVE  SeedsAreBest
<1>1. PICK lists : lists = EntityLists(srch.cited)
  OBVIOUS
<1>2. PICK names : names = FirstNames(lists, wrap.cfg.maxSeeds)
  OBVIOUS
<1>3. Lists(lists)
  BY <1>1, CitedLists
<1>4. /\ Len(names) = Least(wrap.cfg.maxSeeds, Cardinality(NamesIn(lists)))
      /\ Cardinality(ToSet(names)) = Len(names)
      /\ names \in Seq(NamesIn(lists))
      /\ \A x \in ToSet(names), y \in NamesIn(lists) \ ToSet(names) :
            FirstList(lists, x) <= FirstList(lists, y)
  BY <1>2, <1>3, FirstNamesFacts
<1>5. wrap.seeds = names
  BY <1>1, <1>2 DEF CollectSeedEntities
<1>6. Entities = NamesIn(lists)
  BY <1>1 DEF Entities
<1>7. \A e : Mentioning(e) = With(lists, e)
  <2>1. DOMAIN lists = DOMAIN srch.cited /\ \A i \in DOMAIN lists : lists[i] = srch.cited[i].entities
    BY <1>1 DEF EntityLists
  <2>2. \A i \in DOMAIN lists : DOMAIN lists[i] = 1..Len(lists[i])
    BY <1>3 DEF Lists
  <2> SUFFICES ASSUME NEW e, NEW i \in DOMAIN lists
               PROVE  Contains(srch.cited[i].entities, e)
                          <=> \E m \in DOMAIN lists[i] : lists[i][m] = e
    BY <2>1 DEF Mentioning, With
  <2> QED
    BY <2>1, <2>2 DEF Contains
<1>8. \A e : Min(Mentioning(e)) = FirstList(lists, e)
  BY <1>7 DEF FirstList
<1> QED
  BY <1>4, <1>5, <1>6, <1>8 DEF SeedsAreBest

\* A wrapper that ends well called every tool of the plan or had a reason to
\* skip it, and expanded the entities named first in what the search found
\* (execute_pipeline, _collect_seed_entities).
THEOREM PlanSafety == Spec => []PlanCarriedOut
<1>1. IInv => PlanCarriedOut
  <2> SUFFICES ASSUME IInv, wrap.pc = "done"
               PROVE  LET plan == ToSet(wrap.routed.plan)
                      IN /\ wrap.outputs \cup wrap.skipped = plan
                         /\ wrap.outputs \cap wrap.skipped = {}
                         /\ "kb_search" \notin wrap.skipped
                         /\ "kb_graph_expand" \in wrap.skipped => Entities = {}
                         /\ "kb_graph_expand" \in wrap.outputs => Entities # {} /\ SeedsAreBest
                         /\ "kb_explain" \in plan =>
                               ("kb_explain" \in wrap.skipped <=> srch.cited = <<>>)
                         /\ "kb_memory_delete" \in wrap.outputs => wrap.cfg.allowDelete
    BY DEF PlanCarriedOut
  <2>1. Progress(wrap, srch) /\ srch.cited \in Seq(CitedItems)
    BY DEF IInv, Unrouted, SearchInv, SearchTypeOK
  <2>2. PICK plan : plan = ToSet(wrap.routed.plan)
    OBVIOUS
  <2>3. wrap.cfg.maxSeeds \in Nat \ {0} /\ wrap.cfg.topUris \in Nat \ {0}
    BY <2>1, ConfigAssumption DEF Progress
  <2>4. wrap.outputs \cup wrap.skipped = plan
    <3>1. wrap.routed.plan \in Plans
      BY <2>1, PlanOfFacts DEF Progress
    <3>2. DOMAIN wrap.routed.plan = 1..Len(wrap.routed.plan) /\ Len(wrap.routed.plan) \in Nat
      BY <3>1, PlanFacts
    <3>3. wrap.at - 1 = Len(wrap.routed.plan)
      BY <2>1, <3>2 DEF Progress
    <3>4. wrap.outputs \cup wrap.skipped
              = {wrap.routed.plan[i] : i \in DOMAIN wrap.routed.plan}
      BY <2>1, <3>2, <3>3 DEF Progress
    <3> QED
      BY <2>2, <3>4 DEF ToSet
  <2>5. Outcomes(wrap, srch) /\ wrap.outputs \cap wrap.skipped = {}
    BY <2>1 DEF Progress
  <2>6. CollectSeedEntities(srch.cited, wrap.cfg.maxSeeds) = <<>> <=> Entities = {}
    BY <2>1, <2>3, CitedLists, NoNames DEF CollectSeedEntities, Entities
  <2>7. CollectResultUris(srch.cited, wrap.cfg.topUris) = <<>> <=> srch.cited = <<>>
    BY <2>1, <2>3, NoUris
  <2>8. "kb_graph_expand" \in wrap.outputs => SeedsAreBest
    BY <2>1, <2>3, <2>5, SeedsAreTheBest DEF Outcomes
  <2> QED
    BY <2>2, <2>4, <2>5, <2>6, <2>7, <2>8 DEF Outcomes
<1> QED
  BY <1>1, RouteWrapperInvariant, PTL

\* A result that kb_search cites shows the text it was ranked for, for any
\* number of writers of any processes, unless one wrote that chunk meanwhile
\* or left it unsettled before.
THEOREM CitationSafety == Spec => CitesWhatItRanked
<1> DEFINE Cites ==
        Len(srch'.cited) > Len(srch.cited) =>
            LET cited == Last(srch'.cited)
                hit == srch.ranked[Len(srch'.cited)]
            IN /\ cited.chunk \notin srch.disturbed => cited.text = hit.text
               /\ cited.text = NoText =>
                    \/ vec[cited.chunk] = NoText \/ cited.chunk \in torn
                    \/ \E x \in work : x.chunk = cited.chunk /\ x.text # NoText
<1>1. IInv /\ [Next]_vars => [Cites]_searchVars
  <2> SUFFICES ASSUME IInv, [Next]_vars
               PROVE  Cites
    OBVIOUS
  <2>1. SearchInv /\ Len(srch.cited) \in Nat
    BY LenProperties DEF IInv, SearchInv, SearchTypeOK
  <2>2. ASSUME srch'.cited = srch.cited \/ srch'.cited = <<>>
        PROVE  Cites
    BY <2>1, <2>2
  <2>3. ASSUME NEW r, RequestOK(r), r.mode \in Modes, r.memory \in BOOLEAN, Ask(r)
        PROVE  Cites
    BY <2>1, <2>2, <2>3, AskKeeps
  <2>4. ASSUME srch' = srch
        PROVE  Cites
    BY <2>2, <2>4
  <2>5. CASE Cite
    <3>1. PICK n : n = Len(srch'.cited)
      OBVIOUS
    <3>2. /\ srch.pc = "citing" /\ n \in DOMAIN srch.ranked
          /\ Last(srch'.cited) = Evidence(srch.ranked[n].chunk)
      BY <2>1, <2>5, <3>1, CiteKeeps
    <3>3. PICK e : e = Evidence(srch.ranked[n].chunk)
      OBVIOUS
    <3>4. /\ e.chunk = srch.ranked[n].chunk
          /\ e.chunk \notin srch.disturbed => e.text = srch.ranked[n].text
          /\ e.text = NoText =>
               \/ vec[e.chunk] = NoText \/ e.chunk \in torn
               \/ \E x \in work : x.chunk = e.chunk /\ x.text # NoText
      BY <2>1, <3>2, <3>3, EvidenceFacts
    <3> QED
      BY <3>1, <3>2, <3>3, <3>4
  <2>6. CASE SearchStep /\ ~Cite
    <3>1. srch'.cited = srch.cited \/ srch'.cited = <<>>
      BY <2>1, <2>6, ExpandKeeps, SearchChunksKeeps, SearchGraphKeeps, AnswerKeeps,
         SearchFailsKeeps DEF SearchStep
    <3> QED
      BY <2>2, <3>1
  <2>7. CASE Ingest
    BY <2>1, <2>2, <2>7, IngestKeeps
  <2>8. CASE CallSearch
    <3>1. srch'.cited = <<>>
      BY <2>8, CallSearchKeeps DEF IInv
    <3> QED
      BY <2>2, <3>1
  <2>9. CASE \E r \in Requests : Ask(r)
    BY <2>3, <2>9, RequestAssumption DEF RequestOK
  <2>10. CASE srch' = srch
    BY <2>4, <2>10
  <2> QED
    BY <2>5, <2>6, <2>7, <2>8, <2>9, <2>10
       DEF Next, WrapperStep, Start, Connects, ConnectFails, Routed, Skip, CallTool,
           SearchReplies, Raises, Finish, searchVars, vars
<1>2. Spec => [][Cites]_searchVars
  BY <1>1, RouteWrapperInvariant, PTL DEF Spec
<1> QED
  BY <1>2 DEF CitesWhatItRanked
=============================================================================
