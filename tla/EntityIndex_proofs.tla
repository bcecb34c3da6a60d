-------------------------- MODULE EntityIndex_proofs --------------------------
(***************************************************************************)
(* Proofs about EntityIndex: what extraction returns for a chunk, and that *)
(* rows, vectors, chunks and relations agree in every reachable state, for *)
(* any number of processes, workspaces, entities, texts and runs.          *)
(***************************************************************************)
EXTENDS EntityIndex, FiniteSetTheorems, WellFoundedInduction, TLAPS

Terms == SUBSET Aliases

Rows == [Entities -> Terms \cup {NoRow}]

Vectors == [Entities -> (Terms \ {{}}) \cup {NoRow}]

Names == UNION {[D -> Terms] : D \in SUBSET Entities}

ChunkRows == [names : Names, age : {"none", "old", "lost", "new"}]

Relations == SUBSET (Entities \X STRING \X Entities)

Runs == [pc : {"idle", "get", "put", "index", "rows", "edges", "stale"},
         text : Texts \cup {<<>>}, c : Nat, todo : SUBSET Nat,
         e : Entities \cup {NoRow}, found : Terms, batch : Rows,
         stale : SUBSET (1..MaxChunks)]

Fills == [pc : {"idle", "filling"}, ws : Workspaces \cup {NoRow}, seen : Rows,
          left : SUBSET Entities]

TypeOK ==
    /\ kind \in {"old", "sql", "memory"} /\ volatile \in BOOLEAN
    /\ row \in [Workspaces -> Rows]
    /\ vec \in [Workspaces -> Vectors]
    /\ chunk \in [Workspaces -> [1..MaxChunks -> ChunkRows]]
    /\ edge \in [Workspaces -> Relations]
    /\ run \in [Jobs -> Runs]
    /\ fill \in Fills
    /\ runs \in Nat
    /\ filled \in SUBSET (Workspaces \X Entities)
    /\ raced \in SUBSET (Workspaces \X Entities)

\* Where a run is in its text.
Position(j) ==
    LET r == run[j]
    IN /\ r.pc = "idle" <=> r.text = <<>>
       /\ r.pc \in {"get", "put", "index", "rows", "edges"} => r.c \in 1..Len(r.text)
       /\ r.pc \in {"get", "put"} => r.todo \subseteq FirstMentions(r.text[r.c])
       /\ r.pc = "put" => r.e \in EntitiesOf(r.text[r.c])

\* The run has stored the entity e of its i-th chunk.
Stored(j, i, e) ==
    LET r == run[j]
    IN \/ r.pc \in {"index", "rows", "edges", "stale"}
       \/ r.pc \in {"get", "put"} /\ i < r.c
       \/ /\ r.pc \in {"get", "put"} /\ i = r.c
          /\ \A k \in r.todo : Uri(r.text[i], k) # e
          /\ r.pc = "put" => e # r.e

\* No other workspace has e, and no two processes merged it at once.
OwnRow(w, e) == Unshared(w, e) /\ <<w, e>> \notin raced

\* What a run has stored is in its batch, and in SQL stays in the rows.
StoredIsKept(j) ==
    \A i \in DOMAIN run[j].text : \A e \in EntitiesOf(run[j].text[i]) :
        Stored(j, i, e) =>
            /\ run[j].batch[e] \notin {NoRow, {}}
            /\ kind = "sql" => row[j[2]][e] # NoRow
            /\ OwnRow(j[2], e) => AliasesOf(run[j].text[i], e) \subseteq row[j[2]][e]

\* Chunk rows are stored after the vectors of what they name.
VectorsFirst(j) ==
    run[j].pc \in {"rows", "edges", "stale"} =>
        \A i \in DOMAIN run[j].text : \A e \in EntitiesOf(run[j].text[i]) : vec[j[2]][e] # NoRow

\* An entity that no other workspace and no other process stores meanwhile is
\* found by its own row, and goes on from all of it.
OwnRowFound(j) ==
    LET w == j[2]
        e == run[j].e
    IN run[j].pc = "put" /\ OwnRow(w, e) /\ row[w][e] # NoRow => row[w][e] \subseteq run[j].found

RunOK(j) == Position(j) /\ StoredIsKept(j) /\ VectorsFirst(j) /\ OwnRowFound(j)

RunInv == \A j \in Jobs : RunOK(j)

\* Before the migration there is only what the earlier release left.
OldIsOld ==
    kind = "old" =>
        /\ \A j \in Jobs : run[j].pc = "idle"
        /\ \A w \in Workspaces : /\ edge[w] = {}
                                 /\ \A i \in 1..MaxChunks : chunk[w][i].age \in {"none", "old"}

\* What the backfill has behind it has a vector.
FillIndexes ==
    /\ volatile => fill.pc = "idle" /\ filled = {}
    /\ fill.pc = "filling" =>
        /\ fill.ws \in Workspaces
        /\ \A e \in Entities \ fill.left :
              fill.seen[e] \notin {NoRow, {}} => vec[fill.ws][e] # NoRow
        /\ \A e \in fill.left : fill.seen[e] # NoRow

\* The parts of NamedIsFindable.
NewIndexed == \A w \in Workspaces : \A e \in Named(w, {"new"}) : vec[w][e] # NoRow

RowsThere ==
    kind = "sql" => \A w \in Workspaces : \A e \in Named(w, {"new", "lost"}) : row[w][e] # NoRow

Related ==
    \A w \in Workspaces : \A l \in edge[w] :
        l[1] # l[3] /\ vec[w][l[1]] # NoRow /\ vec[w][l[3]] # NoRow

StoresAgree == NewIndexed /\ RowsThere /\ Related /\ AliasesKept

IInv ==
    /\ TypeOK
    /\ RunInv
    /\ OldIsOld
    /\ FillIndexes
    /\ StoresAgree
    /\ BackfilledIsIndexed

-----------------------------------------------------------------------------
(* What extraction returns.                                                *)

\* Every match's entity has a first mention.
LEMMA EntityMentioned ==
    ASSUME NEW ch \in ChunkTexts, NEW i \in DOMAIN ch.matches
    PROVE  Uri(ch, i) \in EntitiesOf(ch)
<1> DEFINE same == {j \in DOMAIN ch.matches : Uri(ch, j) = Uri(ch, i)}
<1>1. DOMAIN ch.matches = 1..Len(ch.matches) /\ Len(ch.matches) \in Nat
  BY DEF ChunkTexts
<1>2. same \subseteq Nat /\ same # {}
  BY <1>1
<1>3. PICK j \in same : \A k \in same : ~(<<k, j>> \in OpToRel(<, Nat))
  <2>1. IsWellFoundedOn(OpToRel(<, Nat), Nat)
    BY NatLessThanWellFounded
  <2> QED
    BY <1>2, <2>1, WFMin
<1>4. \A k \in same : ~(k < j)
  BY <1>2, <1>3 DEF OpToRel
<1>5. j \in FirstMentions(ch)
  BY <1>1, <1>4 DEF FirstMentions
<1> QED
  BY <1>5 DEF EntitiesOf

\* The entities of a chunk are entities, each with an alias in the chunk.
LEMMA ExtractedType ==
    ASSUME NEW ch \in ChunkTexts
    PROVE  /\ FirstMentions(ch) \subseteq Nat
           /\ EntitiesOf(ch) \subseteq Entities
           /\ \A i \in FirstMentions(ch) : Uri(ch, i) \in EntitiesOf(ch)
           /\ \A e \in Entities : AliasesOf(ch, e) \subseteq Aliases
           /\ \A e \in EntitiesOf(ch) : AliasesOf(ch, e) # {}
<1>1. DOMAIN ch.matches = 1..Len(ch.matches) /\ Len(ch.matches) \in Nat
  BY DEF ChunkTexts
<1>2. \A i \in DOMAIN ch.matches : ch.matches[i] \in Matches
  BY DEF ChunkTexts
<1>3. \A i \in DOMAIN ch.matches : Uri(ch, i) \in Entities /\ ch.matches[i].alias \in Aliases
  BY <1>2 DEF Matches, Uri
<1>4. FirstMentions(ch) \subseteq DOMAIN ch.matches
  BY DEF FirstMentions
<1>5. ASSUME NEW e \in EntitiesOf(ch) PROVE AliasesOf(ch, e) # {}
  <2>1. PICK i \in DOMAIN ch.matches : Uri(ch, i) = e
    BY <1>4 DEF EntitiesOf
  <2>2. ch.matches[i].alias \in AliasesOf(ch, e)
    BY <2>1 DEF AliasesOf
  <2> QED
    BY <2>2
<1>6. \A e \in Entities : AliasesOf(ch, e) \subseteq Aliases
  BY <1>3 DEF AliasesOf
<1>7. EntitiesOf(ch) \subseteq Entities /\ \A i \in FirstMentions(ch) : Uri(ch, i) \in EntitiesOf(ch)
  BY <1>3, <1>4 DEF EntitiesOf
<1> QED
  BY <1>1, <1>4, <1>5, <1>6, <1>7

\* There is at most one nearest entity, that of a match.
LEMMA NearestIsOne ==
    ASSUME NEW ch \in ChunkTexts, NEW D \in SUBSET DOMAIN ch.matches,
           NEW distance \in [D -> Int], NEW max \in Nat
    PROVE  /\ NearestOf(ch, distance, max) \subseteq {Uri(ch, i) : i \in D}
           /\ \A x, y \in NearestOf(ch, distance, max) : x = y
<1> DEFINE near == {i \in D : distance[i] \in 0..max}
           best(i) == \A j \in near : \/ distance[i] < distance[j]
                                      \/ distance[i] = distance[j] /\ i <= j
<1>1. NearestOf(ch, distance, max) = {Uri(ch, i) : i \in {j \in near : best(j)}}
  BY DEF NearestOf
<1>2. D \subseteq Nat
  BY DEF ChunkTexts
<1>3. ASSUME NEW i \in near, best(i), NEW j \in near, best(j) PROVE i = j
  BY <1>2, <1>3
<1> HIDE DEF best
<1> QED
  BY <1>1, <1>3

\* A relation joins two different entities of its chunk.
LEMMA RelationsJoinTwo ==
    ASSUME NEW ch \in ChunkTexts, NEW l \in RelationsOf(ch)
    PROVE  /\ l \in Entities \X STRING \X Entities
           /\ l[1] \in EntitiesOf(ch) /\ l[3] \in EntitiesOf(ch)
           /\ l[1] # l[3]
<1>1. PICK t \in ch.triggers : l \in RelationOf(ch, t)
  BY DEF RelationsOf
<1> DEFINE m == ch.matches
           all == DOMAIN m
           toLeft == [i \in all |-> t.from - m[i].to]
           toRight == [i \in all |-> m[i].from - t.to]
           left == NearestOf(ch, toLeft, 220)
           right == NearestOf(ch, toRight, 220)
           off == [i \in all |-> Off(m[i], t)]
           first == NearestOf(ch, off, 240)
           others == {i \in all : Uri(ch, i) \notin first}
           offOthers == [i \in others |-> Off(m[i], t)]
           second == NearestOf(ch, offOthers, 240)
           pairs == IF left # {} /\ right # {} /\ left # right THEN left \X right
                    ELSE first \X second
<1>2. PICK p \in pairs : l = <<p[1], t.rel, p[2]>>
  BY <1>1 DEF RelationOf
<1>3. t.rel \in STRING /\ t.from \in Nat /\ t.to \in Nat
  <2>1. t \in Triggers
    BY DEF ChunkTexts
  <2> QED
    BY <2>1 DEF Triggers
<1>4. \A i \in all : m[i].from \in Nat /\ m[i].to \in Nat
  <2>1. \A i \in all : m[i] \in Matches
    BY DEF ChunkTexts
  <2> QED
    BY <2>1 DEF Matches
<1>5. /\ toLeft \in [all -> Int] /\ toRight \in [all -> Int]
      /\ off \in [all -> Int] /\ offOthers \in [others -> Int]
  <2>1. \A i \in all : t.from - m[i].to \in Int /\ m[i].from - t.to \in Int
    BY <1>3, <1>4
  <2>2. \A i \in all : Off(m[i], t) \in Int
    BY <1>3, <1>4 DEF Off, Abs
  <2> QED
    BY <2>1, <2>2
<1> HIDE DEF toLeft, toRight, off, offOthers
<1>6. /\ left \subseteq {Uri(ch, i) : i \in all} /\ \A x, y \in left : x = y
      /\ right \subseteq {Uri(ch, i) : i \in all} /\ \A x, y \in right : x = y
  <2>1. left \subseteq {Uri(ch, i) : i \in all} /\ \A x, y \in left : x = y
    BY <1>5, NearestIsOne
  <2>2. right \subseteq {Uri(ch, i) : i \in all} /\ \A x, y \in right : x = y
    BY <1>5, NearestIsOne
  <2> QED
    BY <2>1, <2>2
<1>7. first \subseteq {Uri(ch, i) : i \in all}
  <2>1. all \in SUBSET DOMAIN ch.matches /\ off \in [all -> Int] /\ 240 \in Nat
    BY <1>5
  <2> HIDE DEF all
  <2> QED
    BY <2>1, NearestIsOne
<1>8. second \subseteq {Uri(ch, i) : i \in others}
  BY <1>5, NearestIsOne
<1> HIDE DEF left, right, first, second
<1>9. {Uri(ch, i) : i \in all} \subseteq EntitiesOf(ch)
  BY EntityMentioned
<1>10. p[1] \in EntitiesOf(ch) /\ p[2] \in EntitiesOf(ch) /\ p[1] # p[2]
  <2>1. CASE left # {} /\ right # {} /\ left # right
    BY <1>2, <1>6, <1>9, <2>1
  <2>2. CASE ~(left # {} /\ right # {} /\ left # right)
    BY <1>2, <1>7, <1>8, <1>9, <2>2
  <2> QED
    BY <2>1, <2>2
<1> QED
  BY <1>2, <1>3, <1>10, ExtractedType

\* While entities are left to index there is a next batch of them.
LEMMA NextBatch ==
    ASSUME EntityAssumption, NEW left \in SUBSET Entities, left # {}
    PROVE  Batches(left) # {}
<1> DEFINE n == Cardinality(left)
<1>1. IsFiniteSet(left) /\ n \in Nat /\ ExistsBijection(1..n, left)
  BY FS_Subset, FS_CardinalityType DEF EntityAssumption
<1>2. BatchSize \in Nat /\ BatchSize # 0
  BY DEF EntityAssumption
<1>3. CASE n < BatchSize
  <2>1. left \in Batches(left)
    BY <1>3 DEF Batches
  <2> QED
    BY <2>1
<1>4. CASE ~(n < BatchSize)
  <2>1. PICK f : f \in Bijection(1..n, left)
    BY <1>1 DEF ExistsBijection
  <2> DEFINE B == {f[i] : i \in 1..BatchSize}
             g == [i \in 1..BatchSize |-> f[i]]
  <2>2. 1..BatchSize \subseteq 1..n
    BY <1>1, <1>2, <1>4
  <2>3. B \in SUBSET left /\ B # {}
    <3>1. \A i \in 1..n : f[i] \in left
      BY <2>1 DEF Bijection, Injection
    <3>2. 1 \in 1..BatchSize
      BY <1>2
    <3> QED
      BY <2>2, <3>1, <3>2
  <2>4. g \in Bijection(1..BatchSize, B)
    BY <2>1, <2>2 DEF Bijection, Injection, Surjection, IsInjective
  <2>5. IsFiniteSet(1..BatchSize) /\ Cardinality(1..BatchSize) = BatchSize
    BY <1>2, FS_Interval
  <2>6. Cardinality(B) = BatchSize
    <3>1. ExistsBijection(1..BatchSize, B)
      BY <2>4 DEF ExistsBijection
    <3> HIDE DEF B
    <3> QED
      BY <2>5, <3>1, FS_Bijection
  <2> QED
    BY <2>3, <2>6 DEF Batches
<1> QED
  BY <1>3, <1>4

-----------------------------------------------------------------------------
(* What the steps have in common.                                          *)

LEMMA TextsAreChunks ==
    ASSUME EntityAssumption, NEW t \in Texts
    PROVE  /\ t # <<>> /\ Len(t) \in 1..MaxChunks /\ DOMAIN t = 1..Len(t)
           /\ Len(t) \in Nat
           /\ \A i \in 1..Len(t) : t[i] \in ChunkTexts
<1>1. t \in Seq(ChunkTexts) /\ Len(t) \in 1..MaxChunks /\ MaxChunks \in Nat
  BY DEF EntityAssumption
<1> QED
  BY <1>1

\* A run that is in its text has a chunk in hand.
LEMMA InItsText ==
    ASSUME EntityAssumption, TypeOK, NEW j \in Jobs, Position(j),
           run[j].pc \in {"get", "put", "index", "rows", "edges"}
    PROVE  /\ run[j].text \in Texts
           /\ run[j].c \in 1..Len(run[j].text) /\ run[j].c \in 1..MaxChunks
           /\ Chunk(j) = run[j].text[run[j].c]
           /\ Chunk(j) \in ChunkTexts
<1>1. run[j].text \in Texts \cup {<<>>}
  BY DEF TypeOK, Runs
<1>2. run[j].text \in Texts /\ run[j].c \in 1..Len(run[j].text)
  BY <1>1 DEF Position
<1> QED
  BY <1>2, TextsAreChunks DEF Chunk, EntityAssumption

\* What a run's text names are entities.
LEMMA TextNames ==
    ASSUME EntityAssumption, TypeOK, NEW j \in Jobs,
           NEW i \in DOMAIN run[j].text, NEW e \in EntitiesOf(run[j].text[i])
    PROVE  e \in Entities
<1>1. run[j].text \in Texts \cup {<<>>}
  BY DEF TypeOK, Runs
<1>2. run[j].text \in Texts
  BY <1>1
<1> QED
  BY <1>2, TextsAreChunks, ExtractedType

LEMMA JobType == \A j \in Jobs : j[2] \in Workspaces
BY DEF Jobs

\* What a chunk row names are entities.
LEMMA RowNames ==
    ASSUME TypeOK, NEW w \in Workspaces, NEW ages
    PROVE  /\ Named(w, ages) \subseteq Entities
           /\ \A i \in 1..MaxChunks : /\ chunk[w][i] \in ChunkRows
                                      /\ DOMAIN chunk[w][i].names \subseteq Entities
<1>1. ASSUME NEW i \in 1..MaxChunks
      PROVE  chunk[w][i] \in ChunkRows /\ DOMAIN chunk[w][i].names \subseteq Entities
  <2>1. chunk[w][i] \in ChunkRows
    BY DEF TypeOK
  <2>2. chunk[w][i].names \in Names
    BY <2>1 DEF ChunkRows
  <2> QED
    BY <2>1, <2>2 DEF Names
<1> QED
  BY <1>1 DEF Named

VectorsStay == \A w \in Workspaces : \A e \in Entities : vec[w][e] # NoRow => vec'[w][e] # NoRow

RowsStay == kind = "sql" => \A w \in Workspaces : \A e \in Entities :
                row[w][e] # NoRow => row'[w][e] # NoRow

RowsGrow == \A w \in Workspaces : \A e \in Entities :
                OwnRow(w, e)' => /\ OwnRow(w, e)
                                 /\ row[w][e] # NoRow => row[w][e] \subseteq row'[w][e]

\* Rows that are left alone stay and grow.
LEMMA SameRows ==
    ASSUME UNCHANGED <<kind, row, raced>>
    PROVE  RowsStay /\ RowsGrow /\ \A w, e : OwnRow(w, e)' = OwnRow(w, e)
BY DEF RowsStay, RowsGrow, OwnRow, Unshared

\* A run that does not step keeps what it relies on, while vectors and rows
\* stay and the row it has read is not written.
LEMMA RunStays ==
    ASSUME EntityAssumption, TypeOK, NEW j \in Jobs, RunOK(j),
           run'[j] = run[j], kind' = kind, VectorsStay, RowsStay, RowsGrow, OwnRowFound(j)'
    PROVE  RunOK(j)'
<1> DEFINE w == j[2]
<1>1. w \in Workspaces
  BY JobType
<1>2. Position(j)'
  BY DEF RunOK, Position
<1>3. StoredIsKept(j)'
  <2> SUFFICES ASSUME NEW i \in DOMAIN run[j].text, NEW e \in EntitiesOf(run[j].text[i]),
                      Stored(j, i, e)
               PROVE  /\ run[j].batch[e] \notin {NoRow, {}}
                      /\ kind = "sql" => row'[w][e] # NoRow
                      /\ OwnRow(w, e)' => AliasesOf(run[j].text[i], e) \subseteq row'[w][e]
    BY DEF StoredIsKept, Stored
  <2>1. e \in Entities
    BY TextNames
  <2>2. /\ run[j].batch[e] \notin {NoRow, {}}
        /\ kind = "sql" => row[w][e] # NoRow
        /\ OwnRow(w, e) => AliasesOf(run[j].text[i], e) \subseteq row[w][e]
    BY DEF RunOK, StoredIsKept
  <2>3. kind = "sql" => row'[w][e] # NoRow
    BY <1>1, <2>1, <2>2 DEF RowsStay
  <2>4. ASSUME OwnRow(w, e)' PROVE AliasesOf(run[j].text[i], e) \subseteq row'[w][e]
    <3>1. OwnRow(w, e) /\ (row[w][e] # NoRow => row[w][e] \subseteq row'[w][e])
      BY <1>1, <2>1, <2>4 DEF RowsGrow
    <3>2. kind = "sql"
      BY <3>1 DEF OwnRow, Unshared
    <3> QED
      BY <2>2, <3>1, <3>2
  <2> QED
    BY <2>2, <2>3, <2>4
<1>4. VectorsFirst(j)'
  BY <1>1, TextNames DEF RunOK, VectorsFirst, VectorsStay
<1> QED
  BY <1>2, <1>3, <1>4 DEF RunOK

\* The parts make the whole: for chunks of the earlier release by what the
\* backfill promises.
LEMMA FindableParts ==
    ASSUME TypeOK, StoresAgree, BackfilledIsIndexed
    PROVE  NamedIsFindable
<1>1. ASSUME NEW w \in Workspaces, NEW e \in Named(w, {"old"}), <<w, e>> \in filled
      PROVE  vec[w][e] # NoRow
  BY <1>1, RowNames DEF BackfilledIsIndexed
<1> QED
  BY <1>1 DEF NamedIsFindable, StoresAgree, NewIndexed, RowsThere, Related

\* What the chunks and relations name stays findable while vectors and rows
\* stay.
LEMMA AgreementStays ==
    ASSUME TypeOK, StoresAgree, chunk' = chunk, edge' = edge, kind' = kind,
           VectorsStay, RowsStay, RowsGrow
    PROVE  StoresAgree'
<1>1. \A w, ages : Named(w, ages)' = Named(w, ages)
  BY DEF Named
<1>2. \A w \in Workspaces : \A ages : Named(w, ages) \subseteq Entities
  BY RowNames
<1>3. NewIndexed'
  BY <1>1, <1>2 DEF StoresAgree, NewIndexed, VectorsStay
<1>4. RowsThere'
  BY <1>1, <1>2 DEF StoresAgree, RowsThere, RowsStay
<1>5. Related'
  <2>1. \A w \in Workspaces : \A l \in edge[w] : l[1] \in Entities /\ l[3] \in Entities
    BY DEF TypeOK, Relations
  <2> QED
    BY <2>1 DEF StoresAgree, Related, VectorsStay
<1>6. AliasesKept'
  <2> SUFFICES ASSUME NEW w \in Workspaces, NEW i \in 1..MaxChunks,
                      chunk[w][i].age \in {"new", "lost"},
                      NEW e \in DOMAIN chunk[w][i].names, OwnRow(w, e)'
               PROVE  chunk[w][i].names[e] \subseteq row'[w][e]
    BY DEF AliasesKept, OwnRow
  <2>1. e \in Entities /\ e \in Named(w, {"new", "lost"})
    BY RowNames DEF Named
  <2>2. OwnRow(w, e) /\ (row[w][e] # NoRow => row[w][e] \subseteq row'[w][e])
    BY <2>1 DEF RowsGrow
  <2>3. kind = "sql"
    BY <2>2 DEF OwnRow, Unshared
  <2>4. row[w][e] # NoRow
    BY <2>1, <2>3 DEF StoresAgree, RowsThere
  <2>5. chunk[w][i].names[e] \subseteq row[w][e]
    BY <2>2 DEF StoresAgree, AliasesKept, OwnRow
  <2> QED
    BY <2>2, <2>4, <2>5
<1> QED
  BY <1>3, <1>4, <1>5, <1>6 DEF StoresAgree

LEMMA BackfilledStays ==
    ASSUME TypeOK, TypeOK', BackfilledIsIndexed, filled' = filled, VectorsStay, EntityAssumption
    PROVE  BackfilledIsIndexed'
<1> SUFFICES ASSUME NEW w \in Workspaces, NEW e \in Entities, <<w, e>> \in filled
             PROVE  vec'[w][e] \notin {NoRow, {}}
  BY DEF BackfilledIsIndexed
<1>1. vec[w][e] # NoRow
  BY DEF BackfilledIsIndexed
<1>2. vec'[w][e] # NoRow
  BY <1>1 DEF VectorsStay
<1>3. vec'[w][e] \in (Terms \ {{}}) \cup {NoRow}
  BY DEF TypeOK, Vectors
<1> QED
  BY <1>2, <1>3

LEMMA FillStays ==
    ASSUME TypeOK, FillIndexes, UNCHANGED <<fill, filled, volatile>>, VectorsStay
    PROVE  FillIndexes'
BY DEF FillIndexes, VectorsStay

\* A step of j's run that leaves the rows alone, in parts.
LEMMA RunStep ==
    ASSUME EntityAssumption, IInv, NEW j \in Jobs, NEW r \in Runs,
           run' = [run EXCEPT ![j] = r], kind # "old", RunOK(j)',
           vec' \in [Workspaces -> Vectors], VectorsStay,
           chunk' \in [Workspaces -> [1..MaxChunks -> ChunkRows]],
           edge' \in [Workspaces -> Relations],
           UNCHANGED <<kind, volatile, row, fill, filled, raced>>, runs' \in Nat,
           StoresAgree'
    PROVE  IInv'
<1>1. TypeOK'
  BY DEF IInv, TypeOK
<1>2. RowsStay /\ RowsGrow /\ \A w, e : OwnRow(w, e)' = OwnRow(w, e)
  BY SameRows
<1>3. RunInv'
  <2> SUFFICES ASSUME NEW k \in Jobs PROVE RunOK(k)'
    BY DEF RunInv
  <2>1. CASE k = j
    BY <2>1
  <2>2. CASE k # j
    <3>1. run'[k] = run[k] /\ TypeOK /\ RunOK(k)
      BY <2>2 DEF IInv, TypeOK, RunInv
    <3>2. OwnRowFound(k)'
      BY <1>2, <3>1 DEF RunOK, OwnRowFound
    <3> QED
      BY <3>1, <3>2, <1>2, RunStays
  <2> QED
    BY <2>1, <2>2
<1>4. OldIsOld'
  BY DEF OldIsOld
<1>5. FillIndexes' /\ BackfilledIsIndexed'
  BY <1>1, FillStays, BackfilledStays DEF IInv
<1> QED
  BY <1>1, <1>3, <1>4, <1>5 DEF IInv

\* A step of j's run that leaves the stores alone.
LEMMA OnlyRun ==
    ASSUME EntityAssumption, IInv, NEW j \in Jobs, NEW r \in Runs,
           run' = [run EXCEPT ![j] = r], kind # "old",
           RunOK(j)', UNCHANGED <<kind, volatile, row, vec, chunk, edge, fill, filled, raced>>,
           runs' \in Nat
    PROVE  IInv'
<1>1. /\ TypeOK /\ StoresAgree
      /\ vec' \in [Workspaces -> Vectors] /\ VectorsStay
      /\ chunk' \in [Workspaces -> [1..MaxChunks -> ChunkRows]]
      /\ edge' \in [Workspaces -> Relations]
  BY DEF IInv, TypeOK, VectorsStay
<1>2. StoresAgree'
  BY <1>1, SameRows, AgreementStays
<1> QED
  BY <1>1, <1>2, RunStep

-----------------------------------------------------------------------------
(* Each step of a run.                                                     *)

\* A run that is over relies on nothing.
LEMMA IdleOK ==
    /\ Idle \in Runs
    /\ \A j \in Jobs : run[j] = Idle => RunOK(j)
<1>1. Idle \in Runs /\ Idle.pc = "idle" /\ Idle.text = <<>> /\ DOMAIN Idle.text = {}
  BY DEF Runs, Idle, NoBatch, Rows, Terms
<1> QED
  BY <1>1 DEF RunOK, Position, StoredIsKept, VectorsFirst, OwnRowFound

\* The same of the next state.
LEMMA IdleNext == ASSUME NEW j \in Jobs, run'[j] = Idle PROVE RunOK(j)'
<1>1. Idle.pc = "idle" /\ Idle.text = <<>> /\ DOMAIN Idle.text = {}
  BY DEF Idle
<1> QED
  BY <1>1 DEF RunOK, Position, StoredIsKept, VectorsFirst, OwnRowFound

LEMMA StopOK ==
    ASSUME EntityAssumption, IInv, NEW j \in Jobs, EndRun(j) \/ Fail(j)
    PROVE  IInv'
<1>1. /\ run[j].pc # "idle" /\ run' = [run EXCEPT ![j] = Idle]
      /\ UNCHANGED <<kind, volatile, row, vec, chunk, edge, fill, runs, filled, raced>>
  BY DEF EndRun, Fail, StoresUnchanged
<1>2. kind # "old" /\ run'[j] = Idle /\ runs' \in Nat
  BY <1>1 DEF IInv, OldIsOld, TypeOK
<1> QED
  BY <1>1, <1>2, IdleOK, IdleNext, OnlyRun

LEMMA StartOK ==
    ASSUME EntityAssumption, IInv, NEW p \in Processes, NEW w \in Workspaces, NEW t \in Texts,
           Start(p, w, t)
    PROVE  IInv'
<1> DEFINE j == <<p, w>>
           gone == {i \in 1..MaxChunks : chunk[w][i].age # "none"} \ DOMAIN t
           r == [Idle EXCEPT !.pc = "get", !.text = t, !.todo = FirstMentions(t[1]), !.stale = gone]
<1>0. j \in Jobs /\ gone \subseteq 1..MaxChunks
  BY DEF Jobs
<1>1. /\ t # <<>> /\ DOMAIN t = 1..Len(t) /\ 1 \in 1..Len(t)
      /\ \A i \in DOMAIN t : t[i] \in ChunkTexts
  BY TextsAreChunks
<1>2. /\ FirstMentions(t[1]) \subseteq Nat
      /\ \A i \in DOMAIN t : EntitiesOf(t[i]) \subseteq Entities
  BY <1>1, ExtractedType
<1> HIDE DEF gone
<1>3. r \in Runs
  BY <1>0, <1>2 DEF Runs, Idle, NoBatch, Rows, Terms
<1>4. run' = [run EXCEPT ![j] = r] /\ run'[j] = r
  <2>1. run' = [run EXCEPT ![j] = r] /\ run \in [Jobs -> Runs]
    BY DEF Start, IInv, TypeOK, gone
  <2> HIDE DEF r, j
  <2> QED
    BY <1>0, <2>1
<1>5. /\ r.pc = "get" /\ r.text = t /\ r.c = 1 /\ r.todo = FirstMentions(t[1])
  BY DEF Idle
<1> HIDE DEF r, j
<1>6. Position(j)'
  BY <1>1, <1>4, <1>5 DEF Position
<1>7. ASSUME NEW i \in DOMAIN t, NEW e \in EntitiesOf(t[i]) PROVE ~Stored(j, i, e)'
  <2>1. ~(i < 1)
    BY <1>1
  <2>2. i = 1 => \E k \in FirstMentions(t[1]) : Uri(t[1], k) = e
    BY <1>7 DEF EntitiesOf
  <2> QED
    BY <2>1, <2>2, <1>4, <1>5 DEF Stored
<1>8. StoredIsKept(j)'
  BY <1>4, <1>5, <1>7 DEF StoredIsKept
<1>9. VectorsFirst(j)' /\ OwnRowFound(j)'
  BY <1>4, <1>5 DEF VectorsFirst, OwnRowFound
<1>10. kind # "old" /\ UNCHANGED <<kind, volatile, row, vec, chunk, edge, fill, filled, raced>> /\ runs' \in Nat
  BY DEF Start, IInv, TypeOK
<1> QED
  BY <1>0, <1>3, <1>4, <1>6, <1>8, <1>9, <1>10, OnlyRun DEF RunOK

LEMMA GetEntityOK ==
    ASSUME EntityAssumption, IInv, NEW j \in Jobs, GetEntity(j)
    PROVE  IInv'
<1> DEFINE ch == Chunk(j)
<1>1. /\ run[j].pc = "get" /\ run[j] \in Runs /\ RunOK(j) /\ TypeOK
      /\ kind # "old"
  BY DEF GetEntity, IInv, TypeOK, RunInv, OldIsOld
<1>2. /\ run[j].text \in Texts /\ run[j].c \in 1..Len(run[j].text)
      /\ ch = run[j].text[run[j].c] /\ ch \in ChunkTexts
  BY <1>1, InItsText DEF RunOK
<1>a. PICK i \in run[j].todo :
        \E found \in IF RowsOf(Uri(ch, i)) = {} THEN {{}} ELSE RowsOf(Uri(ch, i)) :
          run' = [run EXCEPT ![j].pc = "put", ![j].todo = @ \ {i},
                             ![j].e = Uri(ch, i), ![j].found = found]
  BY DEF GetEntity
<1>3. PICK found \in IF RowsOf(Uri(ch, i)) = {} THEN {{}} ELSE RowsOf(Uri(ch, i)) :
        run' = [run EXCEPT ![j].pc = "put", ![j].todo = @ \ {i},
                           ![j].e = Uri(ch, i), ![j].found = found]
  BY <1>a
<1> DEFINE r == [run[j] EXCEPT !.pc = "put", !.todo = @ \ {i}, !.e = Uri(ch, i), !.found = found]
<1>4. run' = [run EXCEPT ![j] = r] /\ run'[j] = r
  BY <1>1, <1>3 DEF TypeOK
<1>5. i \in FirstMentions(ch) /\ Uri(ch, i) \in EntitiesOf(ch) /\ Uri(ch, i) \in Entities
  <2>1. i \in FirstMentions(ch)
    BY <1>1, <1>2 DEF RunOK, Position
  <2> HIDE DEF ch
  <2> QED
    BY <1>2, <2>1, ExtractedType
<1>6. found \in Terms
  <2>1. \A v \in Workspaces, e \in Entities : row[v][e] \in Terms \cup {NoRow}
    BY <1>1 DEF TypeOK, Rows
  <2>2. RowsOf(Uri(ch, i)) \subseteq Terms
    BY <1>5, <2>1 DEF RowsOf
  <2> QED
    BY <1>3, <2>2 DEF Terms
<1>7. r \in Runs
  BY <1>1, <1>5, <1>6 DEF Runs
<1>8. /\ r.pc = "put" /\ r.todo = run[j].todo \ {i} /\ r.e = Uri(ch, i) /\ r.found = found
      /\ r.text = run[j].text /\ r.c = run[j].c /\ r.batch = run[j].batch
  BY <1>1 DEF Runs
<1>9. UNCHANGED <<kind, volatile, row, vec, chunk, edge, fill, runs, filled, raced>>
  BY DEF GetEntity, StoresUnchanged
<1> HIDE DEF r, ch
<1>10. Position(j)'
  BY <1>1, <1>2, <1>4, <1>5, <1>8 DEF RunOK, Position
<1>11. StoredIsKept(j)'
  <2>1. ASSUME NEW k \in DOMAIN run[j].text, NEW e \in EntitiesOf(run[j].text[k]), Stored(j, k, e)'
        PROVE  Stored(j, k, e)
    BY <1>1, <1>2, <1>4, <1>8, <2>1 DEF Stored
  <2>2. \A v, e : OwnRow(v, e)' = OwnRow(v, e)
    BY <1>9, SameRows
  <2> QED
    BY <1>1, <1>4, <1>8, <1>9, <2>1, <2>2 DEF RunOK, StoredIsKept
<1>12. VectorsFirst(j)'
  BY <1>4, <1>8 DEF VectorsFirst
<1>13. OwnRowFound(j)'
  <2> DEFINE w == j[2]
  <2> SUFFICES ASSUME OwnRow(w, r.e), row[w][r.e] # NoRow PROVE row[w][r.e] \subseteq found
    <3>1. \A v, e : OwnRow(v, e)' = OwnRow(v, e)
      BY <1>9, SameRows
    <3> QED
      BY <1>4, <1>8, <1>9, <3>1 DEF OwnRowFound
  <2>1. RowsOf(r.e) = {row[w][r.e]}
    BY JobType DEF RowsOf, OwnRow, Unshared
  <2> QED
    BY <1>3, <1>8, <2>1
<1> QED
  BY <1>1, <1>4, <1>7, <1>9, <1>10, <1>11, <1>12, <1>13, OnlyRun DEF RunOK, TypeOK

LEMMA NextChunkOK ==
    ASSUME EntityAssumption, IInv, NEW j \in Jobs, NextChunk(j)
    PROVE  IInv'
<1> DEFINE c == run[j].c
           t == run[j].text
           more == c < Len(t)
           r == [run[j] EXCEPT !.pc = IF more THEN "get" ELSE "index",
                               !.c = IF more THEN c + 1 ELSE 1,
                               !.todo = IF more THEN FirstMentions(t[c + 1]) ELSE {}]
<1>1. /\ run[j].pc = "get" /\ run[j].todo = {} /\ run[j] \in Runs /\ RunOK(j) /\ TypeOK
      /\ kind # "old"
  BY DEF NextChunk, IInv, TypeOK, RunInv, OldIsOld
<1>2. /\ t \in Texts /\ c \in 1..Len(t) /\ DOMAIN t = 1..Len(t) /\ Len(t) \in Nat /\ t # <<>>
      /\ \A i \in 1..Len(t) : t[i] \in ChunkTexts
  BY <1>1, InItsText, TextsAreChunks DEF RunOK
<1>3. more => c + 1 \in 1..Len(t) /\ FirstMentions(t[c + 1]) \subseteq Nat
  BY <1>2, ExtractedType
<1>4. run' = [run EXCEPT ![j] = r] /\ run'[j] = r
  <2>1. run' = [run EXCEPT ![j].pc = IF more THEN "get" ELSE "index",
                  ![j].c = IF more THEN c + 1 ELSE 1,
                  ![j].todo = IF more THEN FirstMentions(t[c + 1]) ELSE {}]
    BY DEF NextChunk
  <2> HIDE DEF more, c, t
  <2>2. run' = [run EXCEPT ![j] = r]
    BY <1>1, <2>1 DEF TypeOK
  <2> HIDE DEF r
  <2> QED
    BY <1>1, <2>2 DEF TypeOK
<1>5. r \in Runs
  <2>1. /\ (IF more THEN "get" ELSE "index") \in {"get", "index"}
        /\ (IF more THEN c + 1 ELSE 1) \in Nat
        /\ (IF more THEN FirstMentions(t[c + 1]) ELSE {}) \in SUBSET Nat
    BY <1>2, <1>3
  <2> HIDE DEF more, c, t
  <2> QED
    BY <1>1, <2>1 DEF Runs
<1>6. /\ r.pc = (IF more THEN "get" ELSE "index") /\ r.c = (IF more THEN c + 1 ELSE 1)
      /\ r.todo = (IF more THEN FirstMentions(t[c + 1]) ELSE {})
      /\ r.text = t /\ r.batch = run[j].batch
  BY <1>1 DEF Runs
<1>7. UNCHANGED <<kind, volatile, row, vec, chunk, edge, fill, runs, filled, raced>>
  BY DEF NextChunk, StoresUnchanged
<1> HIDE DEF r
<1>8. Position(j)'
  BY <1>2, <1>3, <1>4, <1>6 DEF Position
<1>9. StoredIsKept(j)'
  <2>1. ASSUME NEW k \in DOMAIN t, NEW e \in EntitiesOf(t[k]), Stored(j, k, e)'
        PROVE  Stored(j, k, e)
    <3>1. CASE ~more
      <4>1. k < c \/ k = c
        BY <1>2, <3>1
      <4> QED
        BY <1>1, <4>1 DEF Stored
    <3>2. CASE more
      <4>1. CASE k = c + 1
        <5>1. \E m \in r.todo : Uri(t[k], m) = e
          BY <1>6, <3>2, <4>1 DEF EntitiesOf
        <5>2. ~(k < r.c) /\ r.pc = "get" /\ r.text = t
          BY <1>2, <1>6, <3>2, <4>1
        <5> QED
          BY <1>4, <2>1, <5>1, <5>2 DEF Stored
      <4>2. CASE k # c + 1
        <5>1. k < r.c
          BY <1>4, <1>6, <2>1, <3>2, <4>2 DEF Stored
        <5>2. k < c \/ k = c
          BY <1>2, <1>6, <3>2, <4>2, <5>1
        <5> QED
          BY <1>1, <5>2 DEF Stored
      <4> QED
        BY <4>1, <4>2
    <3> QED
      BY <3>1, <3>2
  <2>2. \A v, e : OwnRow(v, e)' = OwnRow(v, e)
    BY <1>7, SameRows
  <2> QED
    BY <1>1, <1>4, <1>6, <1>7, <2>1, <2>2 DEF RunOK, StoredIsKept
<1>10. VectorsFirst(j)' /\ OwnRowFound(j)'
  BY <1>4, <1>6 DEF VectorsFirst, OwnRowFound
<1> QED
  BY <1>1, <1>4, <1>5, <1>7, <1>8, <1>9, <1>10, OnlyRun DEF RunOK, TypeOK

LEMMA PutEntityOK ==
    ASSUME EntityAssumption, IInv, NEW j \in Jobs, PutEntity(j)
    PROVE  IInv'
<1> DEFINE w == j[2]
           ch == Chunk(j)
           d == run[j].e
           b == [run[j].batch EXCEPT ![d] = Merged(j, d)]
           r == [run[j] EXCEPT !.pc = "get", !.e = NoRow, !.found = {}, !.batch = b]
<1>1. /\ run[j].pc = "put" /\ run[j] \in Runs /\ RunOK(j) /\ TypeOK /\ kind # "old"
      /\ w \in Workspaces
  BY JobType DEF PutEntity, IInv, TypeOK, RunInv, OldIsOld
<1>2. /\ run[j].text \in Texts /\ run[j].c \in 1..Len(run[j].text)
      /\ ch = run[j].text[run[j].c] /\ ch \in ChunkTexts /\ d \in EntitiesOf(ch)
  BY <1>1, InItsText DEF RunOK, Position
<1>3. d \in Entities /\ AliasesOf(ch, d) # {} /\ AliasesOf(ch, d) \subseteq Aliases
  <2> HIDE DEF ch, d
  <2> QED
    BY <1>2, ExtractedType
<1>4. /\ Merged(j, d) \in Terms /\ Merged(j, d) # {} /\ Merged(j, d) # NoRow
      /\ AliasesOf(ch, d) \subseteq Merged(j, d) /\ run[j].found \subseteq Merged(j, d)
  BY <1>1, <1>3 DEF Merged, Runs, Terms, EntityAssumption
<1>5. /\ row' = [v \in Workspaces |->
                   IF v = w THEN [row[v] EXCEPT ![d] = Merged(j, d)]
                   ELSE IF kind = "memory" THEN [row[v] EXCEPT ![d] = NoRow]
                   ELSE row[v]]
      /\ run' = [run EXCEPT ![j] = r]
      /\ raced' = IF Racing(j) THEN raced \cup {<<w, d>>} ELSE raced
      /\ UNCHANGED <<kind, volatile, vec, chunk, edge, fill, runs, filled>>
  <2>1. run' = [run EXCEPT ![j].pc = "get", ![j].e = NoRow, ![j].found = {}, ![j].batch = b]
    BY DEF PutEntity
  <2>2. run' = [run EXCEPT ![j] = r]
    <3> HIDE DEF b
    <3> QED
      BY <1>1, <2>1 DEF TypeOK
  <2> QED
    BY <2>2 DEF PutEntity
<1> HIDE DEF w, ch, d
<1>6. run[j].batch \in Rows /\ b \in Rows
  <2>1. run[j].batch \in Rows
    BY <1>1 DEF Runs
  <2> DEFINE merged == Merged(j, d)
  <2>2. merged \in Terms \cup {NoRow}
    BY <1>4
  <2> HIDE DEF merged
  <2>3. [run[j].batch EXCEPT ![d] = merged] \in Rows
    BY <1>3, <2>1, <2>2 DEF Rows
  <2> QED
    BY <2>1, <2>3 DEF merged
<1> HIDE DEF b
<1>7. r \in Runs
  BY <1>1, <1>6 DEF Runs, Terms
<1>8. /\ r.pc = "get" /\ r.todo = run[j].todo /\ r.text = run[j].text /\ r.c = run[j].c
      /\ r.batch = [run[j].batch EXCEPT ![d] = Merged(j, d)]
  BY <1>1 DEF Runs, b
<1> HIDE DEF r
<1>9. run'[j] = r /\ run' \in [Jobs -> Runs] /\ \A k \in Jobs \ {j} : run'[k] = run[k]
  BY <1>1, <1>5, <1>7 DEF TypeOK
<1>10. row' \in [Workspaces -> Rows]
  BY <1>1, <1>3, <1>4, <1>5 DEF TypeOK, Rows
<1>11. TypeOK'
  <2>1. raced' \in SUBSET (Workspaces \X Entities)
    BY <1>1, <1>3, <1>5 DEF TypeOK
  <2> QED
    BY <1>1, <1>5, <1>9, <1>10, <2>1 DEF TypeOK
<1>12. /\ row'[w] = [row[w] EXCEPT ![d] = Merged(j, d)]
       /\ \A v \in Workspaces \ {w} : kind = "sql" => row'[v] = row[v]
  BY <1>1, <1>5
<1>13. row[w] \in Rows /\ row'[w][d] = Merged(j, d) /\ \A e \in Entities \ {d} : row'[w][e] = row[w][e]
  BY <1>1, <1>3, <1>12 DEF TypeOK, Rows
<1>14. VectorsStay /\ RowsStay
  BY <1>4, <1>5, <1>12, <1>13 DEF VectorsStay, RowsStay
<1>15. ASSUME NEW v \in Workspaces, NEW e \in Entities, OwnRow(v, e)'
       PROVE  kind = "sql" /\ OwnRow(v, e) /\ (v # w => e # d)
  <2>1. /\ kind = "sql" /\ \A u \in Workspaces \ {v} : row'[u][e] = NoRow
        /\ <<v, e>> \notin raced'
    BY <1>5, <1>15 DEF OwnRow, Unshared
  <2>2. OwnRow(v, e)
    BY <1>5, <1>14, <2>1 DEF OwnRow, Unshared, RowsStay
  <2>3. v # w => e # d
    BY <1>1, <1>4, <1>13, <2>1
  <2> QED
    BY <2>1, <2>2, <2>3
<1>16. RowsGrow
  <2> SUFFICES ASSUME NEW v \in Workspaces, NEW e \in Entities, OwnRow(v, e)'
               PROVE  OwnRow(v, e) /\ (row[v][e] # NoRow => row[v][e] \subseteq row'[v][e])
    BY DEF RowsGrow
  <2>1. kind = "sql" /\ OwnRow(v, e) /\ (v # w => e # d)
    BY <1>15
  <2>2. CASE v = w /\ e = d
    <3>1. row[w][d] # NoRow => row[w][d] \subseteq run[j].found
      BY <1>1, <2>1, <2>2 DEF RunOK, OwnRowFound, d, w
    <3> QED
      BY <1>4, <1>13, <2>1, <2>2, <3>1
  <2>3. CASE ~(v = w /\ e = d)
    BY <1>12, <1>13, <2>1, <2>3
  <2> QED
    BY <2>2, <2>3
<1>17. Position(j)'
  BY <1>1, <1>8, <1>9 DEF RunOK, Position
<1>18. StoredIsKept(j)'
  <2> SUFFICES ASSUME NEW i \in DOMAIN run[j].text, NEW e \in EntitiesOf(run[j].text[i]),
                      Stored(j, i, e)'
               PROVE  /\ r.batch[e] \notin {NoRow, {}}
                      /\ kind = "sql" => row'[w][e] # NoRow
                      /\ OwnRow(w, e)' => AliasesOf(run[j].text[i], e) \subseteq row'[w][e]
    <3>1. run'[j].text = run[j].text /\ run'[j].batch = r.batch /\ kind' = kind
      BY <1>5, <1>8, <1>9
    <3> QED
      BY <3>1 DEF StoredIsKept, w
  <2>1. e \in Entities
    BY <1>1, TextNames
  <2>2. Stored(j, i, e) \/ (i = run[j].c /\ e = d)
    BY <1>1, <1>8, <1>9 DEF Stored, d
  <2>3. CASE Stored(j, i, e)
    <3>1. /\ run[j].batch[e] \notin {NoRow, {}}
          /\ kind = "sql" => row[w][e] # NoRow
          /\ OwnRow(w, e) => AliasesOf(run[j].text[i], e) \subseteq row[w][e]
      BY <1>1, <2>3 DEF RunOK, StoredIsKept, w
    <3>2. r.batch[e] \notin {NoRow, {}}
      BY <1>3, <1>4, <1>6, <1>8, <2>1, <3>1 DEF Rows
    <3>3. kind = "sql" => row'[w][e] # NoRow
      BY <1>1, <1>14, <2>1, <3>1 DEF RowsStay
    <3>4. ASSUME OwnRow(w, e)' PROVE AliasesOf(run[j].text[i], e) \subseteq row'[w][e]
      <4>1. /\ kind = "sql" /\ OwnRow(w, e)
            /\ row[w][e] # NoRow => row[w][e] \subseteq row'[w][e]
        BY <1>1, <1>15, <1>16, <2>1, <3>4 DEF RowsGrow
      <4> QED
        BY <3>1, <4>1
    <3> QED
      BY <3>2, <3>3, <3>4
  <2>4. CASE i = run[j].c /\ e = d
    <3>1. r.batch[e] = Merged(j, d) /\ row'[w][e] = Merged(j, d) /\ run[j].text[i] = ch
      BY <1>2, <1>3, <1>6, <1>8, <1>13, <2>4 DEF Rows
    <3> QED
      BY <1>4, <2>4, <3>1
  <2> QED
    BY <2>2, <2>3, <2>4
<1>19. VectorsFirst(j)' /\ OwnRowFound(j)'
  BY <1>8, <1>9 DEF VectorsFirst, OwnRowFound
\* A run that has read the row of d has raced for it.
<1>20. ASSUME NEW k \in Jobs, k # j PROVE OwnRowFound(k)'
  <2> DEFINE v == k[2]
  <2>0. PICK e : e = run[k].e
    OBVIOUS
  <2> SUFFICES ASSUME run[k].pc = "put", OwnRow(v, e)', row'[v][e] # NoRow
               PROVE  row'[v][e] \subseteq run[k].found
    <3>1. run'[k] = run[k]
      BY <1>9, <1>20
    <3> QED
      BY <2>0, <3>1 DEF OwnRowFound
  <2>1. v \in Workspaces /\ RunOK(k)
    BY <1>20, JobType DEF IInv, RunInv
  <2>2. e \in Entities
    <3>1. Position(k) /\ run[k].text \in Texts /\ run[k].c \in 1..Len(run[k].text)
      BY <1>1, <1>20, <2>1, InItsText DEF RunOK
    <3>2. PICK x : x = run[k].text[run[k].c]
      OBVIOUS
    <3>3. e \in EntitiesOf(x) /\ x \in ChunkTexts
      BY <2>0, <3>1, <3>2, TextsAreChunks DEF Position
    <3> QED
      BY <3>3, ExtractedType
  <2>3. kind = "sql" /\ OwnRow(v, e)
    BY <1>15, <2>1, <2>2
  <2>4. ~(v = w /\ e = d)
    <3>1. v = w /\ e = d => Racing(j)
      BY <1>20, <2>0 DEF Racing, w, d
    <3>2. Racing(j) => <<w, d>> \in raced'
      BY <1>5
    <3> QED
      BY <3>1, <3>2 DEF OwnRow
  <2>5. row'[v][e] = row[v][e]
    BY <1>12, <1>13, <2>1, <2>2, <2>3, <2>4
  <2> QED
    BY <2>0, <2>1, <2>3, <2>5 DEF RunOK, OwnRowFound
<1>21. RunInv'
  <2> SUFFICES ASSUME NEW k \in Jobs PROVE RunOK(k)'
    BY DEF RunInv
  <2>1. CASE k = j
    BY <1>17, <1>18, <1>19, <2>1 DEF RunOK
  <2>2. CASE k # j
    <3>1. run'[k] = run[k] /\ kind' = kind
      BY <1>5, <1>9, <2>2
    <3>2. RunOK(k) /\ OwnRowFound(k)'
      BY <1>20, <2>2 DEF IInv, RunInv
    <3> QED
      BY <1>1, <1>14, <1>16, <3>1, <3>2, RunStays
  <2> QED
    BY <2>1, <2>2
<1>22. OldIsOld'
  BY <1>1, <1>5 DEF OldIsOld
<1>23. FillIndexes' /\ BackfilledIsIndexed'
  BY <1>1, <1>5, <1>11, <1>14, FillStays, BackfilledStays DEF IInv
<1>24. StoresAgree'
  BY <1>1, <1>5, <1>14, <1>16, AgreementStays DEF IInv
<1> QED
  BY <1>11, <1>21, <1>22, <1>23, <1>24 DEF IInv

LEMMA UpsertEntitiesOK ==
    ASSUME EntityAssumption, IInv, NEW j \in Jobs, UpsertEntities(j)
    PROVE  IInv'
<1> DEFINE w == j[2]
           r == [run[j] EXCEPT !.pc = "rows"]
           t == run[j].text
<1>0. w \in Workspaces
  BY JobType
<1>1. /\ run[j].pc = "index" /\ run[j] \in Runs /\ RunOK(j) /\ TypeOK /\ kind # "old"
      /\ vec[w] \in Vectors /\ run[j].batch \in Rows
  BY <1>0 DEF UpsertEntities, IInv, TypeOK, RunInv, OldIsOld, Runs
<1>3. /\ vec' = [vec EXCEPT ![w] = Indexed(@, Records(j))]
      /\ run' = [run EXCEPT ![j] = r]
      /\ UNCHANGED <<kind, volatile, row, chunk, edge, fill, runs, filled, raced>>
  BY <1>1 DEF UpsertEntities, TypeOK
<1> HIDE DEF w
<1>4. \A e \in Entities :
        Indexed(vec[w], Records(j))[e] =
          IF run[j].batch[e] \in {NoRow, {}} THEN vec[w][e] ELSE run[j].batch[e]
  BY DEF Indexed, Records
<1>5. Indexed(vec[w], Records(j)) \in Vectors
  <2>1. DOMAIN Indexed(vec[w], Records(j)) = Entities
    BY DEF Indexed
  <2>2. \A e \in Entities : Indexed(vec[w], Records(j))[e] \in (Terms \ {{}}) \cup {NoRow}
    BY <1>1, <1>4 DEF Vectors, Rows
  <2>3. Indexed(vec[w], Records(j)) = [e \in Entities |-> Indexed(vec[w], Records(j))[e]]
    BY DEF Indexed
  <2> QED
    BY <2>2, <2>3 DEF Vectors
<1>6. vec' \in [Workspaces -> Vectors] /\ vec'[w] = Indexed(vec[w], Records(j))
      /\ \A v \in Workspaces \ {w} : vec'[v] = vec[v]
  BY <1>0, <1>1, <1>3, <1>5 DEF TypeOK
<1>7. VectorsStay
  BY <1>4, <1>6 DEF VectorsStay
<1>8. /\ r \in Runs /\ r.pc = "rows" /\ r.text = t /\ r.c = run[j].c /\ r.batch = run[j].batch
  BY <1>1 DEF Runs
<1> HIDE DEF r
<1>9. run'[j] = r
  BY <1>1, <1>3 DEF TypeOK
<1>10. ASSUME NEW i \in DOMAIN t, NEW e \in EntitiesOf(t[i])
       PROVE  /\ run[j].batch[e] \notin {NoRow, {}}
              /\ kind = "sql" => row[w][e] # NoRow
              /\ OwnRow(w, e) => AliasesOf(t[i], e) \subseteq row[w][e]
  BY <1>1 DEF RunOK, StoredIsKept, Stored, w
<1>11. Position(j)'
  BY <1>1, <1>8, <1>9 DEF RunOK, Position
<1>12. StoredIsKept(j)'
  <2>1. \A v, e : OwnRow(v, e)' = OwnRow(v, e)
    BY <1>3, SameRows
  <2> QED
    BY <1>3, <1>8, <1>9, <1>10, <2>1 DEF StoredIsKept, w
<1>13. VectorsFirst(j)'
  <2> SUFFICES ASSUME NEW i \in DOMAIN t, NEW e \in EntitiesOf(t[i]) PROVE vec'[w][e] # NoRow
    BY <1>8, <1>9 DEF VectorsFirst, w
  <2>1. e \in Entities /\ run[j].batch[e] \notin {NoRow, {}}
    BY <1>1, <1>10, TextNames
  <2> QED
    BY <1>4, <1>6, <2>1
<1>14. OwnRowFound(j)'
  BY <1>8, <1>9 DEF OwnRowFound
<1>15. StoresAgree'
  BY <1>1, <1>3, <1>7, SameRows, AgreementStays DEF IInv
<1>16. /\ chunk' \in [Workspaces -> [1..MaxChunks -> ChunkRows]]
       /\ edge' \in [Workspaces -> Relations] /\ runs' \in Nat
  BY <1>1, <1>3 DEF TypeOK
<1> QED
  BY <1>1, <1>3, <1>6, <1>7, <1>8, <1>11, <1>12, <1>13, <1>14, <1>15, <1>16, RunStep DEF RunOK

\* When a run stores its chunks, all that they name is stored and indexed.
LEMMA AllIsStored ==
    ASSUME TypeOK, NEW j \in Jobs, RunOK(j), run[j].pc \in {"rows", "edges"},
           NEW i \in DOMAIN run[j].text, NEW e \in EntitiesOf(run[j].text[i])
    PROVE  /\ vec[j[2]][e] # NoRow
           /\ run[j].batch[e] \notin {NoRow, {}}
           /\ kind = "sql" => row[j[2]][e] # NoRow
           /\ OwnRow(j[2], e) => AliasesOf(run[j].text[i], e) \subseteq row[j[2]][e]
BY DEF RunOK, VectorsFirst, StoredIsKept, Stored

\* Then a step of the run to another of these places leaves it as it is.
LEMMA StaysStored ==
    ASSUME TypeOK, NEW j \in Jobs, RunOK(j), run[j].pc \in {"rows", "edges"},
           run'[j].pc \in {"rows", "edges", "stale"}, run'[j].text = run[j].text,
           run'[j].batch = run[j].batch, UNCHANGED <<kind, row, vec, raced>>,
           run'[j].pc # "stale" => run'[j].c \in 1..Len(run[j].text)
    PROVE  RunOK(j)'
<1>1. Position(j)'
  BY DEF RunOK, Position
<1>2. \A v, e : OwnRow(v, e)' = OwnRow(v, e)
  BY SameRows
<1>3. StoredIsKept(j)'
  BY <1>2, AllIsStored DEF StoredIsKept
<1>4. VectorsFirst(j)'
  BY AllIsStored DEF VectorsFirst
<1>5. OwnRowFound(j)'
  BY DEF OwnRowFound
<1> QED
  BY <1>1, <1>3, <1>4, <1>5 DEF RunOK

LEMMA PutChunkOK ==
    ASSUME EntityAssumption, IInv, NEW j \in Jobs, PutChunk(j)
    PROVE  IInv'
<1> DEFINE w == j[2]
           t == run[j].text
           c == run[j].c
           ch == Chunk(j)
           aliases == [e \in EntitiesOf(ch) |-> AliasesOf(ch, e)]
           stored == [names |-> aliases, age |-> "new"]
           r == [run[j] EXCEPT !.pc = "edges"]
<1>1. /\ run[j].pc = "rows" /\ run[j] \in Runs /\ RunOK(j) /\ TypeOK /\ kind # "old"
      /\ w \in Workspaces /\ StoresAgree
  BY JobType DEF PutChunk, IInv, TypeOK, RunInv, OldIsOld
<1>2. /\ t \in Texts /\ c \in 1..Len(t) /\ c \in 1..MaxChunks /\ ch = t[c] /\ ch \in ChunkTexts
      /\ DOMAIN t = 1..Len(t)
  BY <1>1, InItsText, TextsAreChunks DEF RunOK
<1>3. /\ chunk' = [chunk EXCEPT ![w][c] = stored]
      /\ run' = [run EXCEPT ![j] = r]
      /\ UNCHANGED <<kind, volatile, row, vec, edge, fill, runs, filled, raced>>
  BY <1>1 DEF PutChunk, TypeOK
<1>4. EntitiesOf(ch) \subseteq Entities /\ \A e \in EntitiesOf(ch) : AliasesOf(ch, e) \in Terms
  <2> HIDE DEF ch
  <2> QED
    BY <1>2, ExtractedType DEF Terms
<1>5. /\ stored \in ChunkRows /\ stored.age = "new" /\ DOMAIN stored.names = EntitiesOf(ch)
      /\ \A e \in EntitiesOf(ch) : stored.names[e] = AliasesOf(ch, e)
  <2>1. aliases \in Names
    BY <1>4 DEF Names
  <2> QED
    BY <2>1 DEF ChunkRows
<1>6. \A e \in EntitiesOf(ch) :
        /\ vec[w][e] # NoRow
        /\ kind = "sql" => row[w][e] # NoRow
        /\ OwnRow(w, e) => AliasesOf(ch, e) \subseteq row[w][e]
  BY <1>1, <1>2, AllIsStored
<1> HIDE DEF stored, ch, w
<1>7. /\ chunk' \in [Workspaces -> [1..MaxChunks -> ChunkRows]]
      /\ chunk'[w][c] = stored
      /\ \A v \in Workspaces, i \in 1..MaxChunks : v # w \/ i # c => chunk'[v][i] = chunk[v][i]
  BY <1>1, <1>2, <1>3, <1>5 DEF TypeOK
<1>8. r \in Runs /\ r.pc = "edges" /\ r.c = c /\ r.text = t /\ r.batch = run[j].batch
  BY <1>1 DEF Runs
<1>9. run'[j] = r
  BY <1>1, <1>3 DEF TypeOK
<1> HIDE DEF r
<1>10. RunOK(j)'
  BY <1>1, <1>2, <1>3, <1>8, <1>9, StaysStored
<1>11. ASSUME NEW v \in Workspaces, NEW ages, NEW e \in Named(v, ages)'
       PROVE  e \in Named(v, ages) \/ (v = w /\ e \in EntitiesOf(ch))
  <2>1. PICK i \in 1..MaxChunks : chunk'[v][i].age \in ages /\ e \in DOMAIN chunk'[v][i].names
    BY <1>11 DEF Named
  <2>2. CASE v = w /\ i = c
    BY <1>5, <1>7, <2>1, <2>2
  <2>3. CASE v # w \/ i # c
    <3>1. chunk[v][i].age \in ages /\ e \in DOMAIN chunk[v][i].names
      BY <1>7, <2>1, <2>3
    <3> QED
      BY <3>1 DEF Named
  <2> QED
    BY <2>2, <2>3
<1>12. NewIndexed'
  BY <1>1, <1>3, <1>6, <1>11 DEF StoresAgree, NewIndexed
<1>13. RowsThere'
  BY <1>1, <1>3, <1>6, <1>11 DEF StoresAgree, RowsThere
<1>14. Related'
  BY <1>1, <1>3 DEF StoresAgree, Related
<1>15. AliasesKept'
  <2>1. \A v, e : OwnRow(v, e)' = OwnRow(v, e)
    BY <1>3, SameRows
  <2> SUFFICES ASSUME NEW v \in Workspaces, NEW i \in 1..MaxChunks,
                      chunk'[v][i].age \in {"new", "lost"},
                      NEW e \in DOMAIN chunk'[v][i].names, OwnRow(v, e)
               PROVE  chunk'[v][i].names[e] \subseteq row[v][e]
    BY <1>3, <2>1 DEF AliasesKept, OwnRow
  <2>2. CASE v = w /\ i = c
    BY <1>5, <1>6, <1>7, <2>2
  <2>3. CASE ~(v = w /\ i = c)
    BY <1>1, <1>7, <2>3 DEF StoresAgree, AliasesKept, OwnRow
  <2> QED
    BY <2>2, <2>3
<1>16. VectorsStay /\ vec' \in [Workspaces -> Vectors] /\ edge' \in [Workspaces -> Relations]
       /\ runs' \in Nat
  BY <1>1, <1>3 DEF VectorsStay, TypeOK
<1>17. StoresAgree'
  BY <1>12, <1>13, <1>14, <1>15 DEF StoresAgree
<1> QED
  BY <1>1, <1>3, <1>7, <1>8, <1>10, <1>16, <1>17, RunStep

LEMMA UpsertRelationsOK ==
    ASSUME EntityAssumption, IInv, NEW j \in Jobs, UpsertRelations(j)
    PROVE  IInv'
<1> DEFINE w == j[2]
           t == run[j].text
           c == run[j].c
           ch == Chunk(j)
           relations == RelationsOf(ch)
           pc == IF c < Len(t) THEN "rows" ELSE "stale"
           r == [run[j] EXCEPT !.c = @ + 1, !.pc = pc]
<1>1. /\ run[j].pc = "edges" /\ run[j] \in Runs /\ RunOK(j) /\ TypeOK /\ kind # "old"
      /\ w \in Workspaces /\ StoresAgree
  BY JobType DEF UpsertRelations, IInv, TypeOK, RunInv, OldIsOld
<1>2. /\ t \in Texts /\ c \in 1..Len(t) /\ ch = t[c] /\ ch \in ChunkTexts
      /\ DOMAIN t = 1..Len(t) /\ Len(t) \in Nat
  BY <1>1, InItsText, TextsAreChunks DEF RunOK
<1>3. /\ edge' = [edge EXCEPT ![w] = @ \cup relations]
      /\ run' = [run EXCEPT ![j].c = @ + 1, ![j].pc = pc]
      /\ UNCHANGED <<kind, volatile, row, vec, chunk, fill, runs, filled, raced>>
  BY DEF UpsertRelations
<1>4. \A l \in relations : /\ l \in Entities \X STRING \X Entities
                           /\ l[1] \in EntitiesOf(ch) /\ l[3] \in EntitiesOf(ch) /\ l[1] # l[3]
  <2> HIDE DEF ch
  <2> QED
    BY <1>2, RelationsJoinTwo
<1>5. \A e \in EntitiesOf(ch) : vec[w][e] # NoRow
  BY <1>1, <1>2, AllIsStored
<1> HIDE DEF relations, ch, pc, w
<1>6. /\ edge' \in [Workspaces -> Relations]
      /\ edge'[w] = edge[w] \cup relations
      /\ \A v \in Workspaces : v # w => edge'[v] = edge[v]
  BY <1>1, <1>3, <1>4 DEF TypeOK, Relations
<1>7. pc \in {"rows", "stale"} /\ (pc = "rows" => c + 1 \in 1..Len(t))
  BY <1>2 DEF pc
<1>8. /\ r \in Runs /\ r.pc = pc /\ r.c = c + 1 /\ r.text = t /\ r.batch = run[j].batch
  <2>1. run[j].c + 1 \in Nat /\ pc \in {"rows", "stale"}
    BY <1>2, <1>7
  <2> QED
    BY <1>1, <2>1 DEF Runs
<1>9. run' = [run EXCEPT ![j] = r] /\ run'[j] = r
  BY <1>1, <1>3 DEF TypeOK
<1> HIDE DEF r
<1>10. RunOK(j)'
  BY <1>1, <1>3, <1>7, <1>8, <1>9, StaysStored
<1>11. Related'
  <2> SUFFICES ASSUME NEW v \in Workspaces, NEW l \in edge'[v]
               PROVE  l[1] # l[3] /\ vec[v][l[1]] # NoRow /\ vec[v][l[3]] # NoRow
    BY <1>3 DEF Related
  <2>1. l \in edge[v] \/ (v = w /\ l \in relations)
    BY <1>6
  <2> QED
    BY <1>1, <1>4, <1>5, <2>1 DEF StoresAgree, Related
<1>12. NewIndexed' /\ RowsThere'
  BY <1>1, <1>3 DEF StoresAgree, NewIndexed, RowsThere, Named
<1>13. AliasesKept'
  BY <1>1, <1>3 DEF StoresAgree, AliasesKept, Unshared
<1>14. /\ VectorsStay /\ vec' \in [Workspaces -> Vectors] /\ runs' \in Nat
       /\ chunk' \in [Workspaces -> [1..MaxChunks -> ChunkRows]]
  BY <1>1, <1>3 DEF VectorsStay, TypeOK
<1>15. StoresAgree'
  BY <1>11, <1>12, <1>13 DEF StoresAgree
<1> QED
  BY <1>1, <1>3, <1>6, <1>8, <1>9, <1>10, <1>14, <1>15, RunStep

LEMMA NoChunkType ==
    /\ NoChunk \in ChunkRows /\ NoChunk.age = "none"
    /\ \A named \in SUBSET Entities : OldChunk(named) \in ChunkRows /\ OldChunk(named).age = "old"
<1>1. ASSUME NEW D \in SUBSET Entities PROVE [e \in D |-> {}] \in Names
  <2>1. [e \in D |-> {}] \in [D -> Terms]
    BY DEF Terms
  <2> QED
    BY <2>1 DEF Names
<1> QED
  BY <1>1 DEF NoChunk, OldChunk, ChunkRows

\* Fewer chunk rows name no more.
LEMMA FewerAgree ==
    ASSUME StoresAgree, UNCHANGED <<kind, row, vec, raced, edge>>,
           \A v \in Workspaces, i \in 1..MaxChunks :
              chunk'[v][i] = chunk[v][i] \/ chunk'[v][i].age = "none"
    PROVE  StoresAgree'
<1>1. ASSUME NEW v \in Workspaces, NEW ages, "none" \notin ages, NEW e \in Named(v, ages)'
      PROVE  e \in Named(v, ages)
  <2>1. PICK i \in 1..MaxChunks : chunk'[v][i].age \in ages /\ e \in DOMAIN chunk'[v][i].names
    BY <1>1 DEF Named
  <2> QED
    BY <1>1, <2>1 DEF Named
<1>2. NewIndexed'
  BY <1>1 DEF StoresAgree, NewIndexed
<1>3. RowsThere'
  BY <1>1 DEF StoresAgree, RowsThere
<1>4. Related'
  BY DEF StoresAgree, Related
<1>5. AliasesKept'
  <2> SUFFICES ASSUME NEW v \in Workspaces, NEW i \in 1..MaxChunks,
                      chunk'[v][i].age \in {"new", "lost"},
                      NEW e \in DOMAIN chunk'[v][i].names, OwnRow(v, e)
               PROVE  chunk'[v][i].names[e] \subseteq row[v][e]
    BY DEF AliasesKept, OwnRow, Unshared
  <2>1. chunk'[v][i] = chunk[v][i]
    OBVIOUS
  <2> QED
    BY <2>1 DEF StoresAgree, AliasesKept, OwnRow
<1> QED
  BY <1>2, <1>3, <1>4, <1>5 DEF StoresAgree

LEMMA DropStaleOK ==
    ASSUME EntityAssumption, IInv, NEW j \in Jobs, DropStale(j)
    PROVE  IInv'
<1> DEFINE w == j[2]
<1>1. /\ run[j].pc = "stale" /\ run[j] \in Runs /\ RunOK(j) /\ TypeOK /\ kind # "old"
      /\ w \in Workspaces /\ StoresAgree /\ run[j].stale \subseteq 1..MaxChunks
  BY JobType DEF DropStale, IInv, TypeOK, RunInv, OldIsOld, Runs
<1>2. PICK i \in run[j].stale :
        /\ chunk' = [chunk EXCEPT ![w][i] = NoChunk]
        /\ run' = [run EXCEPT ![j].stale = @ \ {i}]
  BY DEF DropStale
<1>3. UNCHANGED <<kind, volatile, row, vec, edge, fill, runs, filled, raced>>
  BY DEF DropStale
<1> DEFINE r == [run[j] EXCEPT !.stale = @ \ {i}]
<1>4. /\ r \in Runs /\ r.pc = "stale" /\ r.text = run[j].text /\ r.batch = run[j].batch
  BY <1>1 DEF Runs
<1>5. run' = [run EXCEPT ![j] = r] /\ run'[j] = r
  BY <1>1, <1>2 DEF TypeOK
<1> HIDE DEF r
<1>6. RunOK(j)'
  <2>1. Position(j)'
    BY <1>1, <1>4, <1>5 DEF RunOK, Position
  <2>2. \A v, e : OwnRow(v, e)' = OwnRow(v, e)
    BY <1>3, SameRows
  <2>3. StoredIsKept(j)'
    BY <1>1, <1>3, <1>4, <1>5, <2>2 DEF RunOK, StoredIsKept, Stored
  <2>4. VectorsFirst(j)' /\ OwnRowFound(j)'
    BY <1>1, <1>3, <1>4, <1>5 DEF RunOK, VectorsFirst, OwnRowFound
  <2> QED
    BY <2>1, <2>3, <2>4 DEF RunOK
<1>7. /\ chunk' \in [Workspaces -> [1..MaxChunks -> ChunkRows]]
      /\ \A v \in Workspaces, k \in 1..MaxChunks :
            chunk'[v][k] = chunk[v][k] \/ chunk'[v][k].age = "none"
  <2>1. chunk \in [Workspaces -> [1..MaxChunks -> ChunkRows]] /\ i \in 1..MaxChunks
    BY <1>1 DEF TypeOK
  <2> HIDE DEF w
  <2> QED
    BY <1>1, <1>2, <2>1, NoChunkType
<1>8. StoresAgree'
  BY <1>1, <1>3, <1>7, FewerAgree
<1>9. VectorsStay /\ vec' \in [Workspaces -> Vectors] /\ edge' \in [Workspaces -> Relations]
      /\ runs' \in Nat
  BY <1>1, <1>3 DEF VectorsStay, TypeOK
<1> QED
  BY <1>1, <1>3, <1>4, <1>5, <1>6, <1>7, <1>8, <1>9, RunStep

-----------------------------------------------------------------------------
(* The restart, the migration and the backfill.                            *)

LEMMA RestartOK ==
    ASSUME EntityAssumption, IInv, Restart
    PROVE  IInv'
<1>1. /\ run' = [j \in Jobs |-> Idle]
      /\ row' = IF kind = "memory" THEN [w \in Workspaces |-> NoBatch] ELSE row
      /\ vec' = IF volatile THEN [w \in Workspaces |-> NoBatch] ELSE vec
      /\ edge' = IF volatile THEN [w \in Workspaces |-> {}] ELSE edge
      /\ UNCHANGED <<kind, volatile, fill, runs, filled, raced>>
  BY DEF Restart
<1> DEFINE after(w, i) == IF kind = "memory" THEN NoChunk
                          ELSE IF chunk[w][i].age = "new" THEN [chunk[w][i] EXCEPT !.age = "lost"]
                          ELSE chunk[w][i]
<1>2. \A w \in Workspaces, i \in 1..MaxChunks : chunk'[w][i] = after(w, i)
  BY DEF Restart
<1>3. TypeOK /\ StoresAgree /\ FillIndexes /\ BackfilledIsIndexed /\ OldIsOld
  BY DEF IInv
<1>4. ASSUME NEW w \in Workspaces, NEW i \in 1..MaxChunks
      PROVE  /\ chunk'[w][i] \in ChunkRows /\ chunk'[w][i].age # "new"
             /\ kind = "memory" => chunk'[w][i].age = "none"
             /\ chunk'[w][i].age \in {"old", "lost"} => chunk'[w][i].names = chunk[w][i].names
             /\ chunk'[w][i].age = "lost" => chunk[w][i].age \in {"new", "lost"}
             /\ chunk[w][i].age \in {"none", "old"} => chunk'[w][i].age \in {"none", "old"}
  <2>1. PICK x : x = chunk[w][i]
    OBVIOUS
  <2>2. x \in ChunkRows
    BY <1>3, <2>1 DEF TypeOK
  <2>3. CASE kind = "memory"
    <3>1. chunk'[w][i] = NoChunk
      BY <1>2, <2>3
    <3> QED
      BY <3>1, NoChunkType
  <2>4. CASE kind # "memory" /\ x.age = "new"
    <3>1. chunk'[w][i] = [x EXCEPT !.age = "lost"]
      BY <1>2, <2>1, <2>4
    <3> QED
      BY <2>1, <2>2, <2>4, <3>1 DEF ChunkRows
  <2>5. CASE kind # "memory" /\ x.age # "new"
    <3>1. chunk'[w][i] = x
      BY <1>2, <2>1, <2>5
    <3> QED
      BY <2>1, <2>2, <2>5, <3>1
  <2> QED
    BY <2>3, <2>4, <2>5
<1>5. NoBatch \in Rows /\ NoBatch \in Vectors
  BY DEF NoBatch, Rows, Vectors
<1>6. TypeOK'
  <2>1. chunk' = [w \in Workspaces |-> [i \in 1..MaxChunks |-> after(w, i)]]
    BY DEF Restart
  <2>2. \A w \in Workspaces, i \in 1..MaxChunks : after(w, i) \in ChunkRows
    BY <1>2, <1>4
  <2> HIDE DEF after
  <2>3. chunk' \in [Workspaces -> [1..MaxChunks -> ChunkRows]]
    BY <2>1, <2>2
  <2>4. row' \in [Workspaces -> Rows] /\ vec' \in [Workspaces -> Vectors]
    BY <1>1, <1>3, <1>5 DEF TypeOK
  <2>5. edge' \in [Workspaces -> Relations]
    BY <1>1, <1>3 DEF TypeOK, Relations
  <2> QED
    BY <1>1, <1>3, <2>3, <2>4, <2>5, IdleOK DEF TypeOK
<1>7. RunInv'
  BY <1>1, IdleNext DEF RunInv
<1>8. NewIndexed'
  <2>1. \A w \in Workspaces : Named(w, {"new"})' = {}
    BY <1>4 DEF Named
  <2> QED
    BY <2>1 DEF NewIndexed
<1>9. RowsThere'
  <2> SUFFICES ASSUME kind = "sql", NEW w \in Workspaces, NEW e \in Named(w, {"new", "lost"})'
               PROVE  row[w][e] # NoRow
    BY <1>1 DEF RowsThere
  <2>1. PICK i \in 1..MaxChunks :
          chunk'[w][i].age \in {"new", "lost"} /\ e \in DOMAIN chunk'[w][i].names
    BY DEF Named
  <2>2. e \in Named(w, {"new", "lost"})
    BY <1>4, <2>1 DEF Named
  <2> QED
    BY <1>3, <2>2 DEF StoresAgree, RowsThere
<1>10. Related'
  BY <1>1, <1>3 DEF StoresAgree, Related
<1>11. AliasesKept'
  <2> SUFFICES ASSUME NEW w \in Workspaces, NEW i \in 1..MaxChunks,
                      chunk'[w][i].age \in {"new", "lost"},
                      NEW e \in DOMAIN chunk'[w][i].names, OwnRow(w, e)'
               PROVE  chunk'[w][i].names[e] \subseteq row'[w][e]
    BY DEF AliasesKept, OwnRow
  <2>1. kind = "sql" /\ row' = row
    BY <1>1 DEF OwnRow, Unshared
  <2>2. OwnRow(w, e)
    BY <1>1, <2>1 DEF OwnRow, Unshared
  <2>3. /\ chunk[w][i].age \in {"new", "lost"}
        /\ chunk'[w][i].names = chunk[w][i].names
    BY <1>4
  <2> QED
    BY <1>3, <2>1, <2>2, <2>3 DEF StoresAgree, AliasesKept, OwnRow
<1>12. OldIsOld'
  <2>1. Idle.pc = "idle"
    BY DEF Idle
  <2>2. kind = "old" => \A w \in Workspaces :
           edge'[w] = {} /\ \A i \in 1..MaxChunks : chunk'[w][i].age \in {"none", "old"}
    BY <1>1, <1>3, <1>4 DEF OldIsOld
  <2> QED
    BY <1>1, <2>1, <2>2 DEF OldIsOld
<1>13. FillIndexes' /\ BackfilledIsIndexed'
  BY <1>1, <1>3 DEF FillIndexes, BackfilledIsIndexed
<1> QED
  BY <1>6, <1>7, <1>8, <1>9, <1>10, <1>11, <1>12, <1>13 DEF IInv, StoresAgree

LEMMA MigrateOK ==
    ASSUME EntityAssumption, IInv, Migrate
    PROVE  IInv'
<1>1. /\ kind = "old" /\ kind' = "sql"
      /\ UNCHANGED <<volatile, row, vec, chunk, edge, run, fill, runs, filled, raced>>
  BY DEF Migrate
<1>2. TypeOK'
  BY <1>1 DEF IInv, TypeOK
<1>3. \A j \in Jobs : run[j].pc = "idle" /\ run[j].text = <<>> /\ DOMAIN run[j].text = {}
  BY <1>1 DEF IInv, OldIsOld, RunInv, RunOK, Position
<1>4. RunInv'
  <2> SUFFICES ASSUME NEW j \in Jobs PROVE RunOK(j)'
    BY DEF RunInv
  <2>1. run'[j].pc = "idle" /\ run'[j].text = <<>> /\ DOMAIN run'[j].text = {}
    BY <1>1, <1>3
  <2> QED
    BY <2>1 DEF RunOK, Position, StoredIsKept, VectorsFirst, OwnRowFound
<1>5. \A w \in Workspaces : /\ edge[w] = {}
                            /\ \A i \in 1..MaxChunks : chunk[w][i].age \in {"none", "old"}
  BY <1>1 DEF IInv, OldIsOld
<1>6. NewIndexed' /\ RowsThere' /\ Related'
  <2>1. \A w \in Workspaces : Named(w, {"new"})' = {} /\ Named(w, {"new", "lost"})' = {}
    BY <1>1, <1>5 DEF Named
  <2> QED
    BY <1>1, <1>5, <2>1 DEF NewIndexed, RowsThere, Related
<1>7. AliasesKept'
  BY <1>1, <1>5 DEF AliasesKept
<1>8. OldIsOld' /\ FillIndexes' /\ BackfilledIsIndexed'
  BY <1>1 DEF IInv, OldIsOld, FillIndexes, BackfilledIsIndexed
<1> QED
  BY <1>2, <1>4, <1>6, <1>7, <1>8 DEF IInv, StoresAgree

\* A step of the backfill: it writes nothing but vectors.
LEMMA FillStep ==
    ASSUME EntityAssumption, IInv, fill' \in Fills, FillIndexes',
           vec' \in [Workspaces -> Vectors], VectorsStay,
           filled' \in SUBSET (Workspaces \X Entities), BackfilledIsIndexed',
           UNCHANGED <<kind, volatile, row, chunk, edge, run, runs, raced>>
    PROVE  IInv'
<1>1. TypeOK'
  BY DEF IInv, TypeOK
<1>2. RowsStay /\ RowsGrow /\ \A w, e : OwnRow(w, e)' = OwnRow(w, e)
  BY SameRows
<1>3. RunInv'
  <2> SUFFICES ASSUME NEW j \in Jobs PROVE RunOK(j)'
    BY DEF RunInv
  <2>1. RunOK(j) /\ TypeOK
    BY DEF IInv, RunInv
  <2>2. OwnRowFound(j)'
    BY <1>2, <2>1 DEF RunOK, OwnRowFound
  <2> QED
    BY <1>2, <2>1, <2>2, RunStays
<1>4. OldIsOld'
  BY DEF IInv, OldIsOld
<1>5. StoresAgree'
  BY <1>2, AgreementStays DEF IInv
<1> QED
  BY <1>1, <1>3, <1>4, <1>5 DEF IInv

LEMMA NoFillType == NoFill \in Fills /\ NoFill.pc = "idle"
BY DEF NoFill, Fills, NoBatch, Rows

LEMMA ListEntitiesOK ==
    ASSUME EntityAssumption, IInv, NEW w \in Workspaces, ListEntities(w)
    PROVE  IInv'
<1> DEFINE f == [pc |-> "filling", ws |-> w, seen |-> row[w],
                 left |-> {e \in Entities : row[w][e] # NoRow}]
<1>1. fill' = f /\ ~volatile
      /\ UNCHANGED <<kind, volatile, row, vec, chunk, edge, run, runs, filled, raced>>
  BY DEF ListEntities
<1>2. f \in Fills /\ f.ws = w /\ f.seen = row[w] /\ f.left = {e \in Entities : row[w][e] # NoRow}
  BY DEF Fills, IInv, TypeOK
<1>3. FillIndexes'
  BY <1>1, <1>2 DEF FillIndexes
<1> QED
  BY <1>1, <1>2, <1>3, FillStep DEF IInv, TypeOK, VectorsStay, BackfilledIsIndexed

LEMMA FillBatchOK ==
    ASSUME EntityAssumption, IInv, FillBatch
    PROVE  IInv'
<1> DEFINE u == fill.ws
<1>1. /\ fill.pc = "filling" /\ TypeOK /\ u \in Workspaces /\ vec[u] \in Vectors
      /\ fill.seen \in Rows /\ fill.left \subseteq Entities /\ fill \in Fills
      /\ FillIndexes /\ ~volatile
  BY DEF FillBatch, IInv, FillIndexes, TypeOK, Fills
<1>2. PICK B \in Batches(fill.left) :
        /\ fill' = [fill EXCEPT !.left = @ \ B]
        /\ vec' = [vec EXCEPT ![u] = [e \in Entities |->
                      IF e \in B /\ fill.seen[e] # {} THEN fill.seen[e] ELSE @[e]]]
        /\ UNCHANGED <<kind, volatile, row, chunk, edge, run, runs, filled, raced>>
  BY DEF FillBatch
<1>3. B \subseteq fill.left
  BY DEF Batches
<1> DEFINE new == [e \in Entities |->
                     IF e \in B /\ fill.seen[e] # {} THEN fill.seen[e] ELSE vec[u][e]]
<1>4. \A e \in B : fill.seen[e] \in Terms /\ fill.seen[e] # NoRow
  BY <1>1, <1>3 DEF Rows, FillIndexes
<1>5. new \in Vectors /\ \A e \in Entities : vec[u][e] # NoRow => new[e] # NoRow
  BY <1>1, <1>4 DEF Vectors
<1>6. \A e \in B : fill.seen[e] # {} => new[e] # NoRow
  BY <1>1, <1>3, <1>4
<1>7. vec' = [vec EXCEPT ![u] = new]
  BY <1>2
<1> HIDE DEF new, u
<1>8. vec' \in [Workspaces -> Vectors] /\ vec'[u] = new
      /\ \A v \in Workspaces \ {u} : vec'[v] = vec[v]
  BY <1>1, <1>5, <1>7 DEF TypeOK
<1>9. VectorsStay
  BY <1>5, <1>8 DEF VectorsStay
<1>10. /\ fill' \in Fills /\ fill'.ws = u /\ fill'.seen = fill.seen /\ fill'.left = fill.left \ B
       /\ fill'.pc = "filling"
  BY <1>1, <1>2 DEF Fills, u
<1>11. FillIndexes'
  <2>1. ASSUME NEW e \in Entities \ fill'.left, fill'.seen[e] \notin {NoRow, {}}
        PROVE  vec'[u][e] # NoRow
    <3>1. CASE e \in B
      BY <1>6, <1>8, <1>10, <2>1, <3>1
    <3>2. CASE e \notin B
      <4>1. vec[u][e] # NoRow
        BY <1>1, <1>10, <2>1, <3>2 DEF FillIndexes, u
      <4> QED
        BY <1>1, <1>9, <4>1 DEF VectorsStay
    <3> QED
      BY <3>1, <3>2
  <2>2. \A e \in fill'.left : fill'.seen[e] # NoRow
    BY <1>1, <1>10 DEF FillIndexes
  <2>3. ~volatile'
    BY <1>1, <1>2
  <2> QED
    BY <1>1, <1>10, <2>1, <2>2, <2>3 DEF FillIndexes
<1>12. TypeOK'
  BY <1>1, <1>2, <1>8, <1>10 DEF TypeOK
<1>13. BackfilledIsIndexed'
  BY <1>1, <1>2, <1>9, <1>12, BackfilledStays DEF IInv
<1> QED
  BY <1>1, <1>2, <1>8, <1>9, <1>10, <1>11, <1>13, FillStep DEF TypeOK

LEMMA EndFillOK ==
    ASSUME EntityAssumption, IInv, EndFill
    PROVE  IInv'
<1> DEFINE done == {d \in Entities : fill.seen[d] \notin {NoRow, {}}}
<1>1. /\ fill.pc = "filling" /\ Batches(fill.left) = {} /\ fill' = NoFill
      /\ filled' = filled \cup {<<fill.ws, e>> : e \in done}
      /\ UNCHANGED <<kind, volatile, row, vec, chunk, edge, run, runs, raced>>
  BY DEF EndFill
<1>2. TypeOK /\ fill.left \subseteq Entities /\ fill.ws \in Workspaces /\ ~volatile
  BY <1>1 DEF IInv, FillIndexes, TypeOK, Fills
<1>3. fill.left = {}
  BY <1>1, <1>2, NextBatch
<1>4. \A e \in done : vec[fill.ws][e] # NoRow
  BY <1>1, <1>3 DEF IInv, FillIndexes
<1>5. ASSUME NEW w \in Workspaces, NEW e \in Entities PROVE vec[w][e] # {}
  <2>1. vec[w][e] \in (Terms \ {{}}) \cup {NoRow}
    BY <1>2 DEF TypeOK, Vectors
  <2>2. NoRow # {}
    BY DEF EntityAssumption
  <2> QED
    BY <2>1, <2>2
<1>6. BackfilledIsIndexed'
  BY <1>1, <1>2, <1>4, <1>5 DEF IInv, BackfilledIsIndexed
<1>7. filled' \in SUBSET (Workspaces \X Entities)
  BY <1>1, <1>2 DEF TypeOK
<1>8. FillIndexes'
  BY <1>1, <1>2, NoFillType DEF FillIndexes
<1> QED
  BY <1>1, <1>2, <1>6, <1>7, <1>8, FillStep, NoFillType DEF TypeOK, VectorsStay

LEMMA FillFailsOK ==
    ASSUME EntityAssumption, IInv, FillFails
    PROVE  IInv'
<1>1. fill' = NoFill /\ UNCHANGED <<kind, volatile, row, vec, chunk, edge, run, runs, filled, raced>>
  BY DEF FillFails
<1>2. FillIndexes'
  BY <1>1, NoFillType DEF IInv, FillIndexes
<1> QED
  BY <1>1, <1>2, FillStep, NoFillType DEF IInv, TypeOK, VectorsStay, BackfilledIsIndexed

-----------------------------------------------------------------------------
LEMMA InitOK ==
    ASSUME EntityAssumption, Init
    PROVE  IInv
<1>1. NoBatch \in Rows /\ NoBatch \in Vectors
  BY DEF NoBatch, Rows, Vectors
<1>2. /\ kind \in {"old", "memory"} /\ volatile \in BOOLEAN
      /\ vec = [w \in Workspaces |-> NoBatch]
      /\ edge = [w \in Workspaces |-> {}] /\ run = [j \in Jobs |-> Idle]
      /\ fill = NoFill /\ runs = 0 /\ filled = {} /\ raced = {}
  BY DEF Init
<1>3. row \in [Workspaces -> Rows]
  <2>1. CASE kind = "old"
    BY <2>1 DEF Init, EntityAssumption, Rows, Terms
  <2>2. CASE kind # "old"
    BY <1>1, <2>2 DEF Init
  <2> QED
    BY <2>1, <2>2
<1>4. /\ chunk \in [Workspaces -> [1..MaxChunks -> ChunkRows]]
      /\ \A w \in Workspaces, i \in 1..MaxChunks : chunk[w][i].age \in {"none", "old"}
  <2>1. CASE kind = "old"
    <3>1. PICK named \in OldNames :
            chunk = [w \in Workspaces |-> [i \in 1..MaxChunks |-> OldChunk(named[w][i])]]
      BY <2>1 DEF Init
    <3>2. \A w \in Workspaces, i \in 1..MaxChunks : named[w][i] \in SUBSET Entities
      BY DEF EntityAssumption
    <3> QED
      BY <3>1, <3>2, NoChunkType
  <2>2. CASE kind # "old"
    <3>1. chunk = [w \in Workspaces |-> [i \in 1..MaxChunks |-> NoChunk]]
      BY <2>2 DEF Init
    <3> QED
      BY <3>1, NoChunkType
  <2> QED
    BY <2>1, <2>2
<1>5. TypeOK
  BY <1>1, <1>2, <1>3, <1>4, IdleOK, NoFillType DEF TypeOK, Relations
<1>6. RunInv
  BY <1>2, IdleOK DEF RunInv
<1>7. \A w \in Workspaces : Named(w, {"new"}) = {} /\ Named(w, {"new", "lost"}) = {}
  BY <1>4 DEF Named
<1>8. NewIndexed /\ RowsThere /\ Related
  BY <1>2, <1>7 DEF NewIndexed, RowsThere, Related
<1>9. AliasesKept
  BY <1>4 DEF AliasesKept
<1>10. OldIsOld
  <2>1. Idle.pc = "idle"
    BY DEF Idle
  <2> QED
    BY <1>2, <1>4, <2>1 DEF OldIsOld
<1>11. FillIndexes /\ BackfilledIsIndexed
  BY <1>2, NoFillType DEF FillIndexes, BackfilledIsIndexed
<1> QED
  BY <1>5, <1>6, <1>8, <1>9, <1>10, <1>11 DEF IInv, StoresAgree

LEMMA NextOK ==
    ASSUME EntityAssumption, IInv, [Next]_vars
    PROVE  IInv'
<1>1. CASE Migrate
  BY <1>1, MigrateOK
<1>2. ASSUME NEW p \in Processes, NEW w \in Workspaces, Ingest(p, w) PROVE IInv'
  <2>1. PICK j \in Jobs : j = <<p, w>>
    BY DEF Jobs
  <2>2. ASSUME NEW t \in Texts, Start(p, w, t) PROVE IInv'
    BY <2>2, StartOK
  <2>3. \/ \E t \in Texts : Start(p, w, t)
        \/ GetEntity(j) \/ PutEntity(j) \/ NextChunk(j) \/ UpsertEntities(j) \/ PutChunk(j)
        \/ UpsertRelations(j) \/ DropStale(j) \/ EndRun(j) \/ Fail(j)
    BY <1>2, <2>1 DEF Ingest
  <2> QED
    BY <2>2, <2>3, GetEntityOK, PutEntityOK, NextChunkOK, UpsertEntitiesOK, PutChunkOK,
       UpsertRelationsOK, DropStaleOK, StopOK
<1>3. CASE Backfill
  BY <1>3, ListEntitiesOK, FillBatchOK, EndFillOK, FillFailsOK DEF Backfill
<1>4. CASE UNCHANGED vars
  <2>1. /\ UNCHANGED <<kind, volatile, row, vec, chunk, edge, run, fill, runs, filled, raced>>
    BY <1>4 DEF vars
  <2> QED
    BY <2>1, FillStep DEF IInv, TypeOK, VectorsStay, FillIndexes, BackfilledIsIndexed
<1>5. CASE Restart
  BY <1>5, RestartOK
<1> QED
  BY <1>1, <1>2, <1>3, <1>4, <1>5 DEF Next

\* In every reachable state the stores hold entities, aliases and vectors as
\* they are meant to, a run is within its text, what it has stored is in its
\* batch and rows, and what a backfill has behind it has a vector; whatever
\* several processes do in one workspace at once.
THEOREM EntityInvariant == Spec => []IInv
<1>1. Init => IInv
  BY InitOK, EntityAssumption
<1>2. IInv /\ [Next]_vars => IInv'
  BY NextOK, EntityAssumption
<1> QED
  BY <1>1, <1>2, PTL DEF Spec

\* Whatever the processes, workspaces, texts and old rows and chunks are,
\* wherever runs and backfills fail and a process starts again: an entity that
\* a chunk of this release names has a vector in its workspace, unless lost
\* with the memory it was in, and a row in SQL; one that an old chunk names has
\* a vector once a backfill found its row and ended; and a relation joins two
\* different entities that have one.
THEOREM FindableSafety == Spec => []NamedIsFindable
<1>1. IInv => NamedIsFindable
  BY FindableParts DEF IInv
<1> QED
  BY <1>1, EntityInvariant, PTL

\* An entity that one workspace alone stores keeps, in its SQL row, all the
\* aliases by which the chunks of this release name it, if no two processes
\* merged it at once.
THEOREM AliasSafety == Spec => []AliasesKept
<1>1. IInv => AliasesKept
  BY DEF IInv, StoresAgree
<1> QED
  BY <1>1, EntityInvariant, PTL

\* A backfill that ended has left out no row with terms, for every batch size.
THEOREM BackfillSafety == Spec => []BackfilledIsIndexed
<1>1. IInv => BackfilledIsIndexed
  BY DEF IInv
<1> QED
  BY <1>1, EntityInvariant, PTL

===============================================================================
