---------------------------- MODULE Chunking_proofs ----------------------------
(***************************************************************************)
(* Proofs about Chunking and Embedder: the chunks of a document are its    *)
(* text, and every vector is of the text it is for, for any document,      *)
(* sizes, texts cached before, and interleaving of the two threads.        *)
(***************************************************************************)
EXTENDS Chunking, FiniteSetTheorems, SequenceTheorems, TLAPS

Vectors == [of : Texts, by : {"none", "fallback", "query", "passage"}]

Entries == [text : Texts, vector : Vectors]

Pcs == {"idle", "ensure", "load", "ensured", "scan", "touch", "encode", "keep", "move",
        "trim", "pop", "answered", "raised"}

CallSet == [pc : Pcs, kind : {"texts", "query"}, texts : Seq(Texts), out : Seq(Vectors),
            misses : Seq(Texts), made : Seq(Vectors), kept : Nat]

Spans == [from : Nat, to : Nat]

JobPcs == {"idle", "start", "sentences", "embedding", "blocks", "windows", "merge",
           "chunked", "upserting", "stored", "failed"}

Modes == {"char", "sentence", "semantic", "code"}

Jobs == [pc : JobPcs, doc : Documents \cup {<<>>}, mode : Modes, ends : SUBSET Nat,
         from : Nat, to : Nat, at : Nat, chunks : Seq(Spans), merged : Seq(Spans),
         next : Nat]

CacheType == cache \in Seq(Entries)

TypeOK ==
    /\ provider \in {"local", "remote"}
    /\ initialized \in BOOLEAN /\ model \in BOOLEAN
    /\ CacheType
    /\ call \in [Threads -> CallSet]
    /\ job \in Jobs
    /\ queries \in Nat

-----------------------------------------------------------------------------
(* A call: what is filled in is of the text at that position, and what was *)
(* made is of the text missed.                                             *)

CallHolds(c) ==
    /\ Len(c.out) <= Len(c.texts) /\ Len(c.misses) <= Len(c.out)
    /\ \A i \in 1..Len(c.out) : c.out[i] # NoVector => c.out[i].of = c.texts[i]
    /\ Len(c.made) <= Len(c.misses) /\ c.kept <= Len(c.made)
    /\ \A k \in 1..Len(c.made) : c.made[k].of = c.misses[k]
    /\ c.kind = "query" => Len(c.texts) = 1

\* Where it is in what the call does.
CallAt(c) ==
    /\ c.pc \in {"scan", "touch", "ensure", "load", "ensured"} => c.made = <<>>
    /\ c.kind = "query" /\ c.pc = "encode" => c.made = <<>>
    /\ c.kind = "query" /\ c.pc \in {"ensure", "load", "ensured", "encode"} => c.misses # <<>>
    /\ c.kind = "query" /\ c.pc \in {"keep", "move", "trim", "pop"} => c.made # <<>>
    /\ c.pc \in {"encode", "keep", "move", "trim", "pop"} => Len(c.out) = Len(c.texts)
    /\ c.kind = "query" /\ c.pc \in {"ensure", "load", "ensured"} => Len(c.out) = Len(c.texts)
    /\ c.kind = "texts" /\ c.pc \in {"ensure", "load", "ensured"} => c.out = <<>>
    /\ c.pc = "touch" => c.out # <<>>
    /\ c.pc \in {"move", "trim", "pop"} => c.kept < Len(c.made)
    /\ c.pc = "answered" =>
          /\ Len(c.out) = Len(c.texts)
          /\ \A i \in 1..Len(c.out) : c.out[i].of = c.texts[i]

CallOK(c) == CallHolds(c) /\ CallAt(c)

CallsOK == \A t \in Threads : CallOK(call[t])

Named(c) == {c[i].text : i \in 1..Len(c)}

\* The entries c of a cache are what they say, each text once.
Distinct(c) ==
    \A i, j \in 1..Len(c) :
        /\ c[i].vector.of = c[i].text
        /\ c[i].text = c[j].text => i = j

CacheIs == Distinct(cache)

Keeps(calls, t, text) ==
    calls[t].pc = "move" /\ calls[t].made[calls[t].kept + 1].of = text

\* Texts just put into the cache; a thread whose text is gone will raise.
Fresh(calls, c) == {text \in Named(c) : \E t \in Threads : Keeps(calls, t, text)}

Trimming(calls) == {t \in Threads : calls[t].pc \in {"trim", "pop"}}

Bound(calls, c) == Len(c) <= CacheSize + Cardinality(Trimming(calls)) + Cardinality(Fresh(calls, c))

CacheBound == Bound(call, cache)

-----------------------------------------------------------------------------
(* The job: the operators of blocks for a document, mode and set of ends.  *)

Unit(ends, a, b) == a < b /\ b \in ends /\ \A e \in ends : e <= a \/ b <= e

Block(mode, ends, a, b) ==
    IF mode = "sentence" /\ \E e \in ends : a < e /\ Fits(a, e)
    THEN /\ a < b /\ b \in ends /\ Fits(a, b)
         /\ \A e \in ends : b < e => ~Fits(a, e)
    ELSE Unit(ends, a, b)

Left(doc, mode, a, b) ==
    mode = "code" /\ b = Len(doc.text) /\ a >= doc.blankFrom /\ Fits(a, b)

LastUnit(doc, ends) ==
    CHOOSE a \in 0..Len(doc.text) : Unit(ends, a, Len(doc.text)) /\ a \in {0} \cup ends

Covered(doc, mode, ends) ==
    IF Left(doc, mode, LastUnit(doc, ends), Len(doc.text))
    THEN LastUnit(doc, ends) ELSE Len(doc.text)

\* The spans c are a text up to reach.
Tile(c, reach) ==
    /\ c = <<>> => reach = 0
    /\ c # <<>> => c[1].from = 0 /\ c[Len(c)].to = reach
    /\ \A i \in 1..Len(c) : c[i].from < c[i].to /\ c[i].to - c[i].from <= MaxChars
    /\ \A i \in 1..(Len(c) - 1) :
          c[i].to = c[i + 1].from \/ c[i].to = c[i + 1].from + Overlap

\* The units up to reach that fit, and are not left out, are whole.
Whole(ends, covered, c, reach) ==
    \A a \in {0} \cup ends, b \in ends :
        Unit(ends, a, b) /\ Fits(a, b) /\ a < covered /\ b <= reach =>
            \E k \in 1..Len(c) : c[k].from <= a /\ b <= c[k].to

Before(j) ==
    /\ j.from = 0 /\ j.chunks = <<>> /\ j.merged = <<>> /\ j.next = 1
    /\ j.pc # "idle" => j.doc \in Documents

Ends(j) ==
    /\ j.doc \in Documents
    /\ j.ends \subseteq 1..Len(j.doc.text) /\ Len(j.doc.text) \in j.ends

InBlocks(j) ==
    LET covered == Covered(j.doc, j.mode, j.ends)
    IN /\ Ends(j) /\ j.from \in {0} \cup j.ends
       /\ j.merged = <<>> /\ j.next = 1
       /\ Tile(j.chunks, IF j.from = Len(j.doc.text) THEN covered ELSE j.from)
       /\ Whole(j.ends, covered, j.chunks, j.from)

InWindows(j) ==
    /\ Ends(j) /\ j.from \in {0} \cup j.ends
    /\ j.merged = <<>> /\ j.next = 1
    /\ j.to \in j.ends /\ j.from < j.to
    /\ Block(j.mode, j.ends, j.from, j.to) /\ ~Left(j.doc, j.mode, j.from, j.to)
    /\ j.from <= j.at /\ j.at < j.to
    /\ IF j.at = j.from THEN Tile(j.chunks, j.from)
       ELSE /\ Tile(j.chunks, j.at + Overlap) /\ j.at + Overlap < j.to
            /\ ~Fits(j.from, j.to)
    /\ Whole(j.ends, Covered(j.doc, j.mode, j.ends), j.chunks, j.from)

Done(j) ==
    LET covered == Covered(j.doc, j.mode, j.ends)
    IN /\ Ends(j)
       /\ Tile(j.chunks, covered)
       /\ Whole(j.ends, covered, j.chunks, Len(j.doc.text))

\* The chunks before next are joined.
InMerge(j) ==
    /\ Done(j)
    /\ j.next \in 1..(Len(j.chunks) + 1)
    /\ Tile(j.merged, IF j.next = 1 THEN 0 ELSE j.chunks[j.next - 1].to)
    /\ \A k \in 1..(j.next - 1) : \E n \in 1..Len(j.merged) :
          j.merged[n].from <= j.chunks[k].from /\ j.chunks[k].to <= j.merged[n].to

JobOK(j) ==
    /\ j.pc \in {"idle", "start", "sentences", "embedding"} => Before(j)
    /\ j.pc = "blocks" => InBlocks(j)
    /\ j.pc = "windows" => InWindows(j)
    /\ j.pc = "merge" => InMerge(j)
    /\ j.pc \in {"chunked", "upserting", "stored", "failed"} => Done(j)

Within(c, end) == \A i \in 1..Len(c) : c[i].to <= end

JobWithin(j) == Within(j.chunks, Len(j.doc.text)) /\ Within(j.merged, Len(j.doc.text))

IInv == TypeOK /\ CallsOK /\ CacheIs /\ CacheBound /\ JobOK(job) /\ JobWithin(job)

-----------------------------------------------------------------------------
(* Spans, units and blocks. *)

\* What the model says of the job in hand is what is said here of any.
LEMMA SameOperators ==
    /\ \A a, b : IsUnit(a, b) <=> Unit(job.ends, a, b)
    /\ \A a, b : IsBlock(a, b) <=> Block(job.mode, job.ends, a, b)
    /\ \A a, b : LeftOut(a, b) <=> Left(job.doc, job.mode, a, b)
    /\ CoveredTo = Covered(job.doc, job.mode, job.ends)
<1>1. \A a, b : IsUnit(a, b) <=> Unit(job.ends, a, b)
  BY Zenon DEF IsUnit, Unit
<1>2. \A a, b : IsBlock(a, b) <=> Block(job.mode, job.ends, a, b)
  BY <1>1, Zenon DEF IsBlock, Block
<1>3. \A a, b : LeftOut(a, b) <=> Left(job.doc, job.mode, a, b)
  BY Zenon DEF LeftOut, Left
<1>4. CoveredTo = Covered(job.doc, job.mode, job.ends)
  <2>1. LastUnit(job.doc, job.ends) =
          CHOOSE from \in 0..Len(job.doc.text) :
             IsUnit(from, Len(job.doc.text)) /\ from \in {0} \cup job.ends
    BY <1>1, Zenon DEF LastUnit, IsUnit, Unit
  <2> QED BY <1>3, <2>1, Zenon DEF CoveredTo, Covered
<1> QED BY <1>1, <1>2, <1>3, <1>4

LEMMA DocumentFacts ==
    ASSUME NEW d \in Documents
    PROVE  /\ d.text \in Seq(Symbols) /\ Len(d.text) \in Nat \ {0}
           /\ d.sentenceEnds \in Seq(1..Len(d.text))
           /\ Len(d.sentenceEnds) \in Nat \ {0}
           /\ \A i \in 1..(Len(d.sentenceEnds) - 1) :
                 d.sentenceEnds[i] < d.sentenceEnds[i + 1]
           /\ d.sentenceEnds[Len(d.sentenceEnds)] = Len(d.text)
           /\ d.defs \subseteq 0..(Len(d.text) - 1)
           /\ d.blankFrom \in 0..Len(d.text)
BY DocumentAssumption DEF Texts

LEMMA LastUnitIs ==
    ASSUME NEW doc \in Documents, NEW ends \in SUBSET (1..Len(doc.text)),
           NEW a \in {0} \cup ends, Unit(ends, a, Len(doc.text))
    PROVE  LastUnit(doc, ends) = a
<1> DEFINE N == Len(doc.text)
           Is(x) == Unit(ends, x, N) /\ x \in {0} \cup ends
<1>1. N \in Nat \ {0} /\ a \in 0..N
  BY DocumentFacts
<1>2. Is(a)
  BY DEF Unit
<1>3. ASSUME NEW x \in 0..N, Is(x) PROVE x = a
  BY <1>1, <1>3 DEF Unit
<1>4. LastUnit(doc, ends) = CHOOSE x \in 0..N : Is(x)
  BY Zenon DEF LastUnit
<1> HIDE DEF N, Is
<1>5. (CHOOSE x \in 0..N : Is(x)) \in 0..N /\ Is(CHOOSE x \in 0..N : Is(x))
  BY <1>1, <1>2, Zenon
<1> QED BY <1>3, <1>4, <1>5, Zenon

LEMMA TileGrows ==
    ASSUME NEW c \in Seq(Spans), NEW r \in Nat, Tile(c, r),
           NEW s \in Spans, s.from < s.to, s.to - s.from <= MaxChars,
           c = <<>> => s.from = 0,
           c # <<>> => r = s.from \/ r = s.from + Overlap
    PROVE  Tile(Append(c, s), s.to)
<1> DEFINE d == Append(c, s)
<1>1. /\ d \in Seq(Spans) /\ d # <<>> /\ Len(d) = Len(c) + 1 /\ d[Len(c) + 1] = s
      /\ \A i \in 1..Len(c) : d[i] = c[i]
  BY AppendProperties
<1>2. Len(c) \in Nat /\ (c = <<>> <=> Len(c) = 0)
  BY EmptySeq, LenProperties
<1> HIDE DEF d
<1>3. d[1].from = 0 /\ d[Len(d)].to = s.to
  BY <1>1, <1>2 DEF Tile
<1>4. \A i \in 1..Len(d) : d[i].from < d[i].to /\ d[i].to - d[i].from <= MaxChars
  BY <1>1, <1>2 DEF Tile
<1>5. ASSUME NEW i \in 1..(Len(d) - 1)
      PROVE  d[i].to = d[i + 1].from \/ d[i].to = d[i + 1].from + Overlap
  <2>1. CASE i < Len(c)
    BY <1>1, <1>2, <2>1 DEF Tile
  <2>2. CASE i = Len(c)
    BY <1>1, <1>2, <2>2 DEF Tile
  <2> QED BY <1>1, <1>2, <2>1, <2>2
<1>6. Tile(d, s.to)
  BY <1>1, <1>3, <1>4, <1>5 DEF Tile
<1> QED BY <1>6 DEF d

LEMMA TileJoins ==
    ASSUME NEW c \in Seq(Spans), NEW r \in Nat, Tile(c, r), c # <<>>,
           NEW s \in Spans, s.from = r, s.from < s.to, s.to - c[Len(c)].from <= MaxChars
    PROVE  Tile([c EXCEPT ![Len(c)] = Span(c[Len(c)].from, s.to)], s.to)
<1> DEFINE n == Len(c)
           new == Span(c[n].from, s.to)
           d == [c EXCEPT ![n] = new]
<1>1. n \in Nat \ {0} /\ c[n] \in Spans /\ c[n].to = r
  BY EmptySeq, LenProperties, ElementOfSeq DEF Tile
<1>2. new \in Spans /\ new.from = c[n].from /\ new.to = s.to
  BY <1>1 DEF Span, Spans
<1> HIDE DEF new
<1>3. /\ d \in Seq(Spans) /\ Len(d) = n
      /\ \A i \in 1..n : d[i] = IF i = n THEN new ELSE c[i]
  <2> HIDE DEF d
  <2>1. n \in 1..Len(c)
    BY <1>1
  <2> QED BY <1>2, <2>1, ExceptSeq DEF d
<1> HIDE DEF d
<1>4. d # <<>>
  BY <1>1, <1>3, EmptySeq
<1>5. d[1].from = 0 /\ d[n].to = s.to
  BY <1>1, <1>2, <1>3 DEF Tile
<1>6. ASSUME NEW i \in 1..n PROVE d[i].from < d[i].to /\ d[i].to - d[i].from <= MaxChars
  <2>1. c[i].from < c[i].to /\ c[i].to - c[i].from <= MaxChars
    BY DEF Tile
  <2>2. CASE i = n
    <3>1. c[n].from \in Nat /\ c[n].to \in Nat /\ s.to \in Nat /\ s.from \in Nat
      BY <1>1 DEF Spans
    <3> QED BY <1>1, <1>2, <1>3, <2>1, <2>2, <3>1
  <2>3. CASE i # n
    BY <1>3, <2>1, <2>3
  <2> QED BY <2>2, <2>3
<1>7. ASSUME NEW i \in 1..(n - 1)
      PROVE  d[i].to = d[i + 1].from \/ d[i].to = d[i + 1].from + Overlap
  <2>1. d[i] = c[i] /\ d[i + 1].from = c[i + 1].from
    BY <1>1, <1>2, <1>3
  <2> QED BY <2>1 DEF Tile
<1>8. Tile(d, s.to)
  BY <1>3, <1>4, <1>5, <1>6, <1>7 DEF Tile
<1> QED BY <1>8 DEF d, new

\* The text up to the end of a block that is one window.
LEMMA WholeBlock ==
    ASSUME NEW ends \in SUBSET Nat, NEW mode, NEW covered, NEW c \in Seq(Spans),
           NEW from \in {0} \cup ends, NEW to \in ends, NEW s \in Spans,
           Whole(ends, covered, c, from), from < to,
           Block(mode, ends, from, to),
           s.to = to, Fits(from, to) => s.from = from
    PROVE  Whole(ends, covered, Append(c, s), to)
<1> DEFINE d == Append(c, s)
<1>1. Len(d) = Len(c) + 1 /\ d[Len(c) + 1] = s /\ \A i \in 1..Len(c) : d[i] = c[i]
  BY AppendProperties
<1>2. Len(c) \in Nat
  BY LenProperties
<1>3. from \in Nat /\ to \in Nat /\ MaxChars \in Nat
  BY WindowAssumption
<1> HIDE DEF d
<1>4. ASSUME NEW a \in {0} \cup ends, NEW b \in ends,
             Unit(ends, a, b), Fits(a, b), a < covered, b <= to
      PROVE  \E k \in 1..Len(d) : d[k].from <= a /\ b <= d[k].to
  <2>1. CASE b <= from
    <3>1. PICK k \in 1..Len(c) : c[k].from <= a /\ b <= c[k].to
      BY <1>4, <2>1 DEF Whole
    <3> QED BY <1>1, <1>2, <3>1
  <2>2. CASE ~(b <= from)
    <3>1. a \in Nat /\ b \in Nat /\ from <= a
      BY <1>3, <1>4, <2>2 DEF Unit
    <3>2. Fits(from, to)
      <4>1. CASE mode = "sentence" /\ \E e \in ends : from < e /\ Fits(from, e)
        BY <4>1, Zenon DEF Block
      <4>2. CASE ~(mode = "sentence" /\ \E e \in ends : from < e /\ Fits(from, e))
        <5>1. Unit(ends, from, to)
          BY <4>2, Zenon DEF Block
        <5>2. b = to /\ a = from
          BY <1>3, <1>4, <2>2, <3>1, <5>1 DEF Unit
        <5> QED BY <1>4, <5>2
      <4> QED BY <4>1, <4>2
    <3>3. s.from <= a /\ b <= s.to
      BY <1>3, <1>4, <3>1, <3>2
    <3> QED BY <1>1, <1>2, <3>3
  <2> QED BY <2>1, <2>2
<1>5. Whole(ends, covered, d, to)
  BY <1>4 DEF Whole
<1> QED BY <1>5 DEF d

\* A window within a block takes nothing from what was whole.
LEMMA WholeKept ==
    ASSUME NEW ends, NEW covered, NEW c \in Seq(Spans), NEW reach, NEW s \in Spans,
           Whole(ends, covered, c, reach)
    PROVE  Whole(ends, covered, Append(c, s), reach)
<1>1. /\ Len(Append(c, s)) = Len(c) + 1 /\ Len(c) \in Nat
      /\ \A i \in 1..Len(c) : Append(c, s)[i] = c[i]
  BY AppendProperties, LenProperties
<1>2. \A i \in 1..Len(c) : i \in 1..Len(Append(c, s))
  BY <1>1
<1> QED BY <1>1, <1>2, Zenon DEF Whole

-----------------------------------------------------------------------------
(* The steps of a job. *)

LEMMA CoveredAll ==
    ASSUME NEW doc \in Documents, NEW ends \in SUBSET (1..Len(doc.text)), NEW mode,
           NEW from \in {0} \cup ends, Block(mode, ends, from, Len(doc.text)),
           ~Left(doc, mode, from, Len(doc.text))
    PROVE  Covered(doc, mode, ends) = Len(doc.text)
<1>1. CASE mode = "code"
  <2>1. Unit(ends, from, Len(doc.text))
    BY <1>1, Zenon DEF Block
  <2> QED BY <2>1, LastUnitIs, Zenon DEF Covered
<1>2. CASE mode # "code"
  BY <1>2, Zenon DEF Covered, Left
<1> QED BY <1>1, <1>2

LEMMA BlocksStart ==
    ASSUME NEW j \in Jobs, Before(j), j.pc # "idle", NEW mode \in Modes,
           NEW ends \in SUBSET (1..Len(j.doc.text)), Len(j.doc.text) \in ends,
           NEW k, k = [j EXCEPT !.pc = "blocks", !.mode = mode, !.ends = ends]
    PROVE  k \in Jobs /\ JobOK(k)
<1>1. j.doc \in Documents /\ Len(j.doc.text) \in Nat \ {0}
  BY DocumentFacts DEF Before
<1>2. k \in Jobs
  <2>1. ends \in SUBSET Nat
    BY <1>1
  <2> QED BY <2>1 DEF Jobs, JobPcs
<1>3. /\ k.pc = "blocks" /\ k.doc = j.doc /\ k.mode = mode /\ k.ends = ends
      /\ k.from = 0 /\ k.chunks = <<>> /\ k.merged = <<>> /\ k.next = 1
  BY DEF Before, Jobs
<1>4. Tile(<<>>, 0) /\ \A covered : Whole(ends, covered, <<>>, 0)
  BY <1>1 DEF Tile, Whole
<1>5. InBlocks(k)
  BY <1>1, <1>3, <1>4 DEF InBlocks, Ends
<1> QED BY <1>2, <1>3, <1>5 DEF JobOK

LEMMA BlockLeftOut ==
    ASSUME NEW j \in Jobs, InBlocks(j), j.pc = "blocks", j.from < Len(j.doc.text),
           NEW to \in j.ends, Block(j.mode, j.ends, j.from, to),
           Left(j.doc, j.mode, j.from, to),
           NEW k, k = [j EXCEPT !.from = to]
    PROVE  k \in Jobs /\ JobOK(k)
<1> DEFINE N == Len(j.doc.text)
           covered == Covered(j.doc, j.mode, j.ends)
<1>1. /\ j.doc \in Documents /\ N \in Nat \ {0} /\ j.ends \in SUBSET (1..N) /\ N \in j.ends
      /\ j.from \in Nat /\ j.from \in {0} \cup j.ends
  BY DocumentFacts DEF InBlocks, Ends, Jobs
<1>2. k \in Jobs
  BY <1>1 DEF Jobs
<1>3. /\ k.pc = "blocks" /\ k.doc = j.doc /\ k.mode = j.mode /\ k.ends = j.ends
      /\ k.from = to /\ k.chunks = j.chunks /\ k.merged = j.merged /\ k.next = j.next
  BY DEF Jobs
<1>4. to = N /\ j.mode = "code"
  BY Zenon DEF Left
<1>5. Unit(j.ends, j.from, N)
  BY <1>4, Zenon DEF Block
<1>6. covered = j.from
  BY <1>1, <1>4, <1>5, LastUnitIs DEF Covered
<1>7. Tile(j.chunks, covered) /\ Whole(j.ends, covered, j.chunks, j.from)
  BY <1>1, <1>6 DEF InBlocks
<1> HIDE DEF covered
<1>8. Whole(j.ends, covered, j.chunks, N)
  <2>1. ASSUME NEW a \in {0} \cup j.ends, NEW b \in j.ends, Unit(j.ends, a, b), a < covered
        PROVE  b <= j.from
    BY <1>1, <1>6, <2>1 DEF Unit
  <2> QED BY <1>7, <2>1 DEF Whole
<1>9. InBlocks(k)
  BY <1>1, <1>3, <1>4, <1>7, <1>8 DEF InBlocks, Ends, covered
<1> QED BY <1>2, <1>3, <1>9 DEF JobOK

LEMMA BlockTaken ==
    ASSUME NEW j \in Jobs, InBlocks(j), j.pc = "blocks", j.from < Len(j.doc.text),
           NEW to \in j.ends, Block(j.mode, j.ends, j.from, to),
           ~Left(j.doc, j.mode, j.from, to),
           NEW k, k = [j EXCEPT !.pc = "windows", !.to = to, !.at = j.from]
    PROVE  k \in Jobs /\ JobOK(k)
<1> DEFINE N == Len(j.doc.text)
<1>1. /\ j.doc \in Documents /\ N \in Nat \ {0} /\ j.ends \in SUBSET (1..N) /\ N \in j.ends
      /\ j.from \in Nat /\ j.from \in {0} \cup j.ends
  BY DocumentFacts DEF InBlocks, Ends, Jobs
<1>2. k \in Jobs
  BY <1>1 DEF Jobs, JobPcs
<1>3. /\ k.pc = "windows" /\ k.doc = j.doc /\ k.mode = j.mode /\ k.ends = j.ends
      /\ k.from = j.from /\ k.to = to /\ k.at = j.from
      /\ k.chunks = j.chunks /\ k.merged = j.merged /\ k.next = j.next
  BY DEF Jobs
<1>4. j.from < to
  BY Zenon DEF Block, Unit
<1>5. Tile(j.chunks, j.from)
  BY <1>1 DEF InBlocks
<1>6. InWindows(k)
  BY <1>1, <1>3, <1>4, <1>5 DEF InWindows, InBlocks, Ends
<1> QED BY <1>2, <1>3, <1>6 DEF JobOK

LEMMA WindowStep ==
    ASSUME NEW j \in Jobs, InWindows(j), j.pc = "windows",
           NEW end, end = IF j.at + MaxChars <= j.to THEN j.at + MaxChars ELSE j.to,
           NEW chunks, chunks = Append(j.chunks, Span(j.at, end)),
           NEW k, k = IF end = j.to
                      THEN [j EXCEPT !.chunks = chunks, !.pc = "blocks", !.from = end]
                      ELSE [j EXCEPT !.chunks = chunks, !.at = end - Overlap]
    PROVE  k \in Jobs /\ JobOK(k)
<1> DEFINE N == Len(j.doc.text)
           s == Span(j.at, end)
           r == IF j.at = j.from THEN j.from ELSE j.at + Overlap
           covered == Covered(j.doc, j.mode, j.ends)
<1>1. /\ j.doc \in Documents /\ N \in Nat \ {0} /\ j.ends \in SUBSET (1..N) /\ N \in j.ends
      /\ j.from \in Nat /\ j.from \in {0} \cup j.ends /\ j.to \in j.ends /\ j.to \in Nat
      /\ j.at \in Nat /\ j.from <= j.at /\ j.at < j.to /\ j.chunks \in Seq(Spans)
  BY DocumentFacts DEF InWindows, Ends, Jobs
<1>2. MaxChars \in Nat \ {0} /\ Overlap \in Nat /\ Overlap < MaxChars
  BY WindowAssumption
<1>3. end \in Nat /\ j.at < end /\ end - j.at <= MaxChars /\ end <= j.to
  BY <1>1, <1>2
<1>4. s \in Spans /\ s.from = j.at /\ s.to = end
  BY <1>1, <1>3 DEF Span, Spans
<1>5. r \in Nat /\ Tile(j.chunks, r) /\ (r = s.from \/ r = s.from + Overlap)
  BY <1>1, <1>2, <1>4 DEF InWindows
<1>6. j.chunks = <<>> => s.from = 0
  <2>1. j.chunks = <<>> => r = 0
    BY <1>5, Zenon DEF Tile
  <2> QED BY <1>1, <1>2, <1>4, <1>5, <2>1
<1> HIDE DEF s, r
<1>7. chunks \in Seq(Spans) /\ Tile(chunks, end) /\ chunks = Append(j.chunks, s)
  <2>1. chunks = Append(j.chunks, s)
    BY DEF s
  <2>2. Tile(Append(j.chunks, s), s.to)
    BY <1>1, <1>3, <1>4, <1>5, <1>6, TileGrows
  <2> QED BY <1>1, <1>4, <2>1, <2>2, AppendProperties
<1>8. Whole(j.ends, covered, j.chunks, j.from) /\ Block(j.mode, j.ends, j.from, j.to)
  BY Zenon DEF InWindows
<1>9. CASE end = j.to
  <2>1. k = [j EXCEPT !.chunks = chunks, !.pc = "blocks", !.from = end]
    BY <1>9
  <2>2. k \in Jobs
    BY <1>3, <1>7, <2>1 DEF Jobs, JobPcs
  <2>3. /\ k.pc = "blocks" /\ k.doc = j.doc /\ k.mode = j.mode /\ k.ends = j.ends
        /\ k.from = end /\ k.chunks = chunks /\ k.merged = j.merged /\ k.next = j.next
    BY <2>1 DEF Jobs
  <2>4. Fits(j.from, j.to) => s.from = j.from
    BY <1>4 DEF InWindows
  <2>5. Whole(j.ends, covered, chunks, end)
    <3>1. j.ends \in SUBSET Nat
      BY <1>1
    <3>2. s.to = j.to /\ j.from < j.to
      BY <1>1, <1>4, <1>9
    <3>3. Whole(j.ends, covered, Append(j.chunks, s), j.to)
      <4> HIDE DEF covered
      <4> QED BY <1>1, <1>4, <1>8, <2>4, <3>1, <3>2, WholeBlock
    <3> QED BY <1>7, <1>9, <3>3
  <2>6. end = N => covered = N
    <3> SUFFICES ASSUME end = N PROVE covered = N
      OBVIOUS
    <3>1. ~Left(j.doc, j.mode, j.from, N)
      BY <1>9 DEF InWindows
    <3>2. Block(j.mode, j.ends, j.from, N)
      BY <1>8, <1>9
    <3> QED BY <1>1, <3>1, <3>2, CoveredAll
  <2>7. InBlocks(k)
    <3> HIDE DEF covered
    <3>1. Tile(chunks, IF end = N THEN covered ELSE end)
      BY <1>7, <2>6
    <3>2. j.merged = <<>> /\ j.next = 1
      BY DEF InWindows
    <3> QED BY <1>1, <1>9, <2>3, <2>5, <3>1, <3>2 DEF InBlocks, Ends, covered
  <2> QED BY <2>2, <2>3, <2>7 DEF JobOK
<1>10. CASE end # j.to
  <2>1. k = [j EXCEPT !.chunks = chunks, !.at = end - Overlap]
    BY <1>10
  <2>2. end = j.at + MaxChars /\ end < j.to /\ end - Overlap \in Nat /\ j.at < end - Overlap
    BY <1>1, <1>2, <1>3, <1>10
  <2>3. k \in Jobs
    BY <1>7, <2>1, <2>2 DEF Jobs
  <2>4. /\ k.pc = "windows" /\ k.doc = j.doc /\ k.mode = j.mode /\ k.ends = j.ends
        /\ k.from = j.from /\ k.to = j.to /\ k.at = end - Overlap
        /\ k.chunks = chunks /\ k.merged = j.merged /\ k.next = j.next
    BY <2>1 DEF Jobs
  <2>5. ~Fits(j.from, j.to)
    BY <1>1, <1>2, <2>2 DEF InWindows, Fits
  <2>6. Whole(j.ends, covered, chunks, j.from)
    <3> HIDE DEF covered
    <3> QED BY <1>1, <1>4, <1>7, <1>8, WholeKept
  <2>7. end - Overlap # j.from /\ j.from <= end - Overlap /\ end - Overlap < j.to
        /\ (end - Overlap) + Overlap = end
    <3>1. ASSUME NEW n \in Nat, n = end - Overlap PROVE n # j.from /\ j.from <= n /\ n < j.to
      BY <1>1, <1>2, <1>3, <2>2, <3>1
    <3> QED BY <1>2, <1>3, <2>2, <3>1
  <2>8. InWindows(k)
    <3>1. j.merged = <<>> /\ j.next = 1 /\ ~Left(j.doc, j.mode, j.from, j.to)
      BY DEF InWindows
    <3> QED BY <1>1, <1>7, <1>8, <2>2, <2>4, <2>5, <2>6, <2>7, <3>1
         DEF InWindows, Ends, covered
  <2> QED BY <2>3, <2>4, <2>8 DEF JobOK
<1> QED BY <1>9, <1>10

LEMMA CutStep ==
    ASSUME NEW j \in Jobs, InBlocks(j), j.pc = "blocks", j.from = Len(j.doc.text),
           NEW pc \in {"merge", "chunked"}, NEW k, k = [j EXCEPT !.pc = pc]
    PROVE  k \in Jobs /\ JobOK(k)
<1>1. k \in Jobs
  BY DEF Jobs, JobPcs
<1>2. /\ k.pc = pc /\ k.doc = j.doc /\ k.mode = j.mode /\ k.ends = j.ends
      /\ k.chunks = j.chunks /\ k.merged = <<>> /\ k.next = 1
  BY DEF Jobs, InBlocks
<1>3. Done(k)
  BY <1>2 DEF InBlocks, Done, Ends
<1>4. Len(j.chunks) \in Nat
  BY LenProperties DEF Jobs
<1>5. Tile(<<>>, 0)
  BY DEF Tile
<1>6. InMerge(k)
  BY <1>2, <1>3, <1>4, <1>5 DEF InMerge
<1> QED BY <1>1, <1>2, <1>3, <1>6 DEF JobOK

\* One more chunk joined, or not: all so far are inside what is merged.
LEMMA MergeStep ==
    ASSUME NEW j \in Jobs, InMerge(j), j.pc = "merge", j.next <= Len(j.chunks),
           NEW k, k = [j EXCEPT !.merged = Joined(j.merged, j.chunks[j.next]),
                                !.next = j.next + 1]
    PROVE  k \in Jobs /\ JobOK(k)
<1> DEFINE m == j.merged
           n == Len(m)
           s == j.chunks[j.next]
           new == Joined(m, s)
           reach == IF j.next = 1 THEN 0 ELSE j.chunks[j.next - 1].to
           Inside(c, t) == \E i \in 1..Len(c) : c[i].from <= t.from /\ t.to <= c[i].to
<1>1. /\ j.chunks \in Seq(Spans) /\ Len(j.chunks) \in Nat /\ m \in Seq(Spans) /\ n \in Nat
      /\ j.next \in 1..Len(j.chunks) /\ (m = <<>> <=> n = 0)
  BY LenProperties, EmptySeq DEF Jobs, InMerge
<1>2. s \in Spans /\ s.from \in Nat /\ s.to \in Nat /\ s.from < s.to /\ s.to - s.from <= MaxChars
  <2>1. s \in Spans
    BY <1>1, ElementOfSeq
  <2>2. s.from < s.to /\ s.to - s.from <= MaxChars
    BY <1>1 DEF InMerge, Done, Tile
  <2> QED BY <2>1, <2>2 DEF Spans
<1>3. reach \in Nat /\ Tile(m, reach)
  <2>1. j.next # 1 => j.chunks[j.next - 1] \in Spans
    BY <1>1, ElementOfSeq
  <2> QED BY <1>1, <2>1 DEF InMerge, Spans
<1>4. m # <<>> => reach = s.from \/ reach = s.from + Overlap
  <2>1. CASE j.next = 1
    <3>1. m # <<>> => n \in 1..n /\ m[n].to = 0 /\ m[n].from < m[n].to /\ m[n] \in Spans
      BY <1>1, <1>3, <2>1, ElementOfSeq DEF Tile
    <3> QED BY <3>1 DEF Spans
  <2>2. CASE j.next # 1
    <3>1. j.next - 1 \in 1..(Len(j.chunks) - 1) /\ (j.next - 1) + 1 = j.next
      BY <1>1, <2>2
    <3> QED BY <2>2, <3>1 DEF InMerge, Done, Tile
  <2> QED BY <2>1, <2>2
<1>5. m = <<>> => s.from = 0
  <2> SUFFICES ASSUME m = <<>> PROVE s.from = 0
    OBVIOUS
  <2>1. CASE j.next = 1
    BY <1>1, <2>1 DEF InMerge, Done, Tile
  <2>2. CASE j.next # 1
    <3>1. j.chunks[j.next - 1] \in Spans /\ j.next - 1 \in 1..Len(j.chunks)
      BY <1>1, <2>2, ElementOfSeq
    <3>2. j.chunks[j.next - 1].from < j.chunks[j.next - 1].to /\ reach = 0
      BY <1>3, <2>2, <3>1 DEF InMerge, Done, Tile
    <3> QED BY <2>2, <3>1, <3>2 DEF Spans
  <2> QED BY <2>1, <2>2
<1>6. \A i \in 1..(j.next - 1) : Inside(m, j.chunks[i])
  BY DEF InMerge
<1> HIDE DEF s, m, new, reach
<1>7. new \in Seq(Spans) /\ Tile(new, s.to) /\ Inside(new, s)
      /\ \A t : Inside(m, t) => Inside(new, t) \/ t.to \notin Nat
  <2>1. CASE n > 0 /\ Joins(m[n], s)
    <3> DEFINE last == Span(m[n].from, s.to)
    <3>1. m # <<>> /\ n \in 1..n /\ m[n] \in Spans /\ m[n].to = reach
      BY <1>1, <1>3, <2>1, ElementOfSeq DEF Tile
    <3>2. s.from = reach /\ s.to - m[n].from <= MaxChars
      BY <2>1, <3>1 DEF Joins, Fits
    <3>3. new = [m EXCEPT ![n] = last]
      BY <2>1 DEF new, Joined
    <3>4. last \in Spans /\ last.from = m[n].from /\ last.to = s.to
      BY <1>2, <3>1 DEF Span, Spans
    <3>5. m[n].from < reach
      BY <1>3, <3>1 DEF Tile
    <3>6. Tile(new, s.to)
      BY <1>1, <1>2, <1>3, <3>1, <3>2, <3>3, TileJoins
    <3> HIDE DEF last
    <3>7. /\ new \in Seq(Spans) /\ Len(new) = n
          /\ \A i \in 1..n : new[i] = IF i = n THEN last ELSE m[i]
      BY <1>1, <3>1, <3>3, <3>4, ExceptSeq
    <3>8. Inside(new, s)
      <4>1. m[n].from \in Nat /\ m[n].from <= s.from
        BY <1>2, <3>1, <3>2, <3>5 DEF Spans
      <4> QED BY <1>2, <3>1, <3>4, <3>7, <4>1
    <3>9. ASSUME NEW t, Inside(m, t), t.to \in Nat PROVE Inside(new, t)
      <4>1. PICK i \in 1..n : m[i].from <= t.from /\ t.to <= m[i].to
        BY <3>9
      <4>2. CASE i = n
        <5>1. t.to <= s.to
          BY <1>2, <3>1, <3>2, <3>9, <4>1, <4>2
        <5> QED BY <3>1, <3>4, <3>7, <4>1, <4>2, <5>1
      <4>3. CASE i # n
        BY <3>7, <4>1, <4>3
      <4> QED BY <4>2, <4>3
    <3> QED BY <3>6, <3>7, <3>8, <3>9
  <2>2. CASE ~(n > 0 /\ Joins(m[n], s))
    <3>1. new = Append(m, s)
      BY <2>2 DEF new, Joined
    <3>2. Tile(new, s.to)
      BY <1>1, <1>2, <1>3, <1>4, <1>5, <3>1, TileGrows
    <3>3. /\ new \in Seq(Spans) /\ Len(new) = n + 1 /\ new[n + 1] = s
          /\ \A i \in 1..n : new[i] = m[i]
      BY <1>1, <1>2, <3>1, AppendProperties
    <3>4. Inside(new, s)
      BY <1>1, <1>2, <3>3
    <3>5. ASSUME NEW t, Inside(m, t) PROVE Inside(new, t)
      BY <1>1, <3>3, <3>5
    <3> QED BY <3>2, <3>3, <3>4, <3>5
  <2> QED BY <2>1, <2>2
<1>8. k \in Jobs
  <2>1. k = [j EXCEPT !.merged = new, !.next = j.next + 1]
    BY DEF new, m, s
  <2>2. j.next + 1 \in Nat
    BY <1>1
  <2> QED BY <1>7, <2>1, <2>2 DEF Jobs
<1>9. /\ k.pc = "merge" /\ k.doc = j.doc /\ k.mode = j.mode /\ k.ends = j.ends
      /\ k.chunks = j.chunks /\ k.merged = new /\ k.next = j.next + 1
  BY DEF Jobs, new, m, s
<1>10. Done(k)
  BY <1>9 DEF InMerge, Done, Ends
<1>11. ASSUME NEW i \in 1..(k.next - 1) PROVE Inside(new, j.chunks[i])
  <2>1. CASE i = j.next
    BY <1>7, <2>1 DEF s
  <2>2. CASE i # j.next
    <3>1. i \in 1..(j.next - 1) /\ i \in 1..Len(j.chunks)
      BY <1>1, <1>9, <2>2
    <3>2. j.chunks[i] \in Spans
      BY <1>1, <3>1, ElementOfSeq
    <3> QED BY <1>6, <1>7, <3>1, <3>2 DEF Spans
  <2> QED BY <2>1, <2>2
<1>12. InMerge(k)
  <2>1. k.next \in 1..(Len(k.chunks) + 1) /\ k.next # 1 /\ k.next - 1 = j.next
    BY <1>1, <1>9
  <2>2. Tile(k.merged, IF k.next = 1 THEN 0 ELSE k.chunks[k.next - 1].to)
    BY <1>7, <1>9, <2>1 DEF s
  <2> QED BY <1>9, <1>10, <1>11, <2>1, <2>2 DEF InMerge
<1> QED BY <1>8, <1>9, <1>12 DEF JobOK

LEMMA MergedStep ==
    ASSUME NEW j \in Jobs, InMerge(j), j.pc = "merge", j.next > Len(j.chunks),
           NEW k, k = [j EXCEPT !.pc = "chunked", !.chunks = j.merged]
    PROVE  k \in Jobs /\ JobOK(k)
<1> DEFINE covered == Covered(j.doc, j.mode, j.ends)
<1>1. k \in Jobs
  BY DEF Jobs, JobPcs
<1>2. /\ k.pc = "chunked" /\ k.doc = j.doc /\ k.mode = j.mode /\ k.ends = j.ends
      /\ k.chunks = j.merged
  BY DEF Jobs
<1>3. /\ j.chunks \in Seq(Spans) /\ Len(j.chunks) \in Nat
      /\ j.merged \in Seq(Spans) /\ Len(j.merged) \in Nat
      /\ (j.chunks = <<>> <=> Len(j.chunks) = 0) /\ j.next = Len(j.chunks) + 1
  BY LenProperties, EmptySeq DEF Jobs, InMerge
<1>4. Tile(j.chunks, covered) /\ Ends(j) /\ Whole(j.ends, covered, j.chunks, Len(j.doc.text))
  BY DEF InMerge, Done
<1> HIDE DEF covered
<1>5. Tile(j.merged, covered)
  <2>1. CASE j.chunks = <<>>
    BY <1>3, <1>4, <2>1 DEF InMerge, Tile
  <2>2. CASE j.chunks # <<>>
    <3>1. j.next # 1 /\ j.next - 1 = Len(j.chunks)
      BY <1>3, <2>2
    <3> QED BY <1>4, <2>2, <3>1 DEF InMerge, Tile
  <2> QED BY <2>1, <2>2
<1>6. ASSUME NEW a \in {0} \cup j.ends, NEW b \in j.ends,
             Unit(j.ends, a, b), Fits(a, b), a < covered, b <= Len(j.doc.text)
      PROVE  \E i \in 1..Len(j.merged) : j.merged[i].from <= a /\ b <= j.merged[i].to
  <2>1. PICK l \in 1..Len(j.chunks) : j.chunks[l].from <= a /\ b <= j.chunks[l].to
    BY <1>4, <1>6 DEF Whole
  <2>2. PICK i \in 1..Len(j.merged) :
            j.merged[i].from <= j.chunks[l].from /\ j.chunks[l].to <= j.merged[i].to
    BY <1>3 DEF InMerge
  <2>3. /\ j.merged[i].from \in Nat /\ j.merged[i].to \in Nat
        /\ j.chunks[l].from \in Nat /\ j.chunks[l].to \in Nat
    <3>1. j.merged[i] \in Spans /\ j.chunks[l] \in Spans
      BY <1>3, ElementOfSeq
    <3> QED BY <3>1 DEF Spans
  <2>4. a \in Nat /\ b \in Nat
    <3>1. j.ends \in SUBSET Nat
      BY DEF Jobs
    <3> QED BY <3>1
  <2>5. j.merged[i].from <= a /\ b <= j.merged[i].to
    <3>1. \A u, v, w \in Nat : u <= v /\ v <= w => u <= w
      OBVIOUS
    <3> QED BY <2>1, <2>2, <2>3, <2>4, <3>1, Zenon
  <2> QED BY <2>5
<1>7. Whole(j.ends, covered, j.merged, Len(j.doc.text))
  BY <1>6 DEF Whole
<1>8. Done(k)
  BY <1>2, <1>4, <1>5, <1>7 DEF Done, Ends, covered
<1> QED BY <1>1, <1>2, <1>8 DEF JobOK

-----------------------------------------------------------------------------
(* What the operators of a call return. *)

LEMMA FunctionSeq ==
    ASSUME NEW S, NEW n \in Nat, NEW f \in [1..n -> S]
    PROVE  f \in Seq(S) /\ Len(f) = n
<1>1. f \in Seq(S)
  BY SeqDef
<1>2. Len(f) \in Nat /\ 1..Len(f) = 1..n
  BY <1>1, LenProperties
<1> QED BY <1>1, <1>2

LEMMA NoVectorType == NoVector \in Vectors /\ NoVector.of = <<>> /\ <<>> \in Texts
<1>1. <<>> \in Texts
  BY EmptySeq DEF Texts
<1> QED BY <1>1 DEF NoVector, Vectors

LEMMA FallbackFacts ==
    ASSUME NEW texts \in Seq(Texts)
    PROVE  /\ Fallback(texts) \in Seq(Vectors) /\ Len(Fallback(texts)) = Len(texts)
           /\ \A i \in 1..Len(texts) : Fallback(texts)[i].of = texts[i]
<1> DEFINE f == Fallback(texts)
<1>1. Len(texts) \in Nat /\ DOMAIN texts = 1..Len(texts)
  BY LenProperties
<1>2. \A i \in 1..Len(texts) : By(texts[i], "fallback") \in Vectors
  BY ElementOfSeq DEF By, Vectors
<1>3. f = [i \in 1..Len(texts) |-> By(texts[i], "fallback")]
  BY <1>1, Zenon DEF Fallback
<1>4. f \in [1..Len(texts) -> Vectors]
  BY <1>2, <1>3
<1>5. \A i \in 1..Len(texts) : f[i].of = texts[i]
  BY <1>3 DEF By
<1> HIDE DEF f
<1>6. f \in Seq(Vectors) /\ Len(f) = Len(texts)
  BY <1>1, <1>4, FunctionSeq
<1> QED BY <1>5, <1>6 DEF f

LEMMA CallFields ==
    ASSUME call \in [Threads -> CallSet], NEW t \in Threads
    PROVE  /\ call[t] \in CallSet
           /\ call[t].texts \in Seq(Texts) /\ call[t].out \in Seq(Vectors)
           /\ call[t].misses \in Seq(Texts) /\ call[t].made \in Seq(Vectors)
           /\ Len(call[t].texts) \in Nat /\ Len(call[t].out) \in Nat
           /\ Len(call[t].misses) \in Nat /\ Len(call[t].made) \in Nat
           /\ DOMAIN call[t].texts = 1..Len(call[t].texts)
           /\ DOMAIN call[t].out = 1..Len(call[t].out)
           /\ DOMAIN call[t].misses = 1..Len(call[t].misses)
           /\ call[t].kept \in Nat /\ call[t].kind \in {"texts", "query"} /\ call[t].pc \in Pcs
<1>1. call[t] \in CallSet
  OBVIOUS
<1>2. /\ call[t].texts \in Seq(Texts) /\ call[t].out \in Seq(Vectors)
      /\ call[t].misses \in Seq(Texts) /\ call[t].made \in Seq(Vectors)
      /\ call[t].kept \in Nat /\ call[t].kind \in {"texts", "query"} /\ call[t].pc \in Pcs
  BY <1>1 DEF CallSet
<1> QED BY <1>1, <1>2, LenProperties

LEMMA FinalFacts ==
    ASSUME call \in [Threads -> CallSet], NEW t \in Threads, CallOK(call[t]),
           Len(call[t].out) = Len(call[t].texts)
    PROVE  /\ Final(t) \in Seq(Vectors) /\ Len(Final(t)) = Len(call[t].texts)
           /\ \A i \in 1..Len(call[t].texts) : Final(t)[i].of = call[t].texts[i]
<1>1. call[t].texts \in Seq(Texts) /\ call[t].out \in Seq(Vectors)
      /\ DOMAIN call[t].out = 1..Len(call[t].out)
  BY CallFields
<1>2. CASE \E i \in DOMAIN call[t].out : call[t].out[i] = NoVector
  BY <1>1, <1>2, FallbackFacts DEF Final
<1>3. CASE ~\E i \in DOMAIN call[t].out : call[t].out[i] = NoVector
  BY <1>1, <1>3 DEF Final, CallOK, CallHolds, CallAt
<1> QED BY <1>2, <1>3

LEMMA MissedFacts ==
    ASSUME call \in [Threads -> CallSet], NEW t \in Threads, NEW text \in Texts
    PROVE  /\ Missed(t, text) \in Seq(Texts)
           /\ Len(Missed(t, text)) \in Nat
           /\ Len(Missed(t, text)) <= Len(call[t].misses) + 1
<1>1. call[t].misses \in Seq(Texts) /\ Len(call[t].misses) \in Nat
  BY CallFields
<1>2. CASE Missed(t, text) = call[t].misses
  BY <1>1, <1>2
<1>3. CASE Missed(t, text) = Append(call[t].misses, text)
  BY <1>1, <1>3, AppendProperties
<1> QED BY <1>2, <1>3, Zenon DEF Missed

LEMMA BatchFacts ==
    ASSUME call \in [Threads -> CallSet], NEW t \in Threads, CallOK(call[t])
    PROVE  /\ Batch(t) \in Seq(Texts) /\ Len(Batch(t)) \in Nat
           /\ Len(call[t].made) + Len(Batch(t)) <= Len(call[t].misses)
           /\ \A i \in 1..Len(Batch(t)) : Batch(t)[i] = call[t].misses[Len(call[t].made) + i]
<1> DEFINE misses == call[t].misses
           made == Len(call[t].made)
           left == Len(misses) - made
           size == IF left < BatchLimit THEN left ELSE BatchLimit
<1>1. misses \in Seq(Texts) /\ Len(misses) \in Nat /\ made \in Nat /\ made <= Len(misses)
  BY CallFields DEF CallOK, CallHolds, CallAt
<1> HIDE DEF misses, made
<1>2. size \in Nat /\ made + size <= Len(misses)
  <2>1. BatchLimit \in Nat
    BY EmbedderAssumption
  <2> QED BY <1>1, <2>1
<1>3. Batch(t) = SubSeq(misses, made + 1, made + size)
  BY Zenon DEF Batch, misses, made
<1> HIDE DEF size
<1>4. \A i \in (made + 1)..(made + size) : misses[i] \in Texts
  BY <1>1, <1>2, ElementOfSeq
<1>5. made + 1 \in Int /\ made + size \in Int
  BY <1>1, <1>2
<1>6. /\ Batch(t) \in Seq(Texts)
      /\ Len(Batch(t)) = IF made + 1 <= made + size THEN (made + size) - (made + 1) + 1 ELSE 0
      /\ \A i \in 1..((made + size) - (made + 1) + 1) : Batch(t)[i] = misses[made + 1 + i - 1]
  BY <1>3, <1>4, <1>5, SubSeqProperties
<1>7. Len(Batch(t)) = size
  BY <1>1, <1>2, <1>6
<1>8. \A i \in 1..size : Batch(t)[i] = misses[made + i]
  BY <1>1, <1>2, <1>6
<1> QED BY <1>1, <1>2, <1>6, <1>7, <1>8 DEF misses, made

-----------------------------------------------------------------------------
(* The steps of a call. *)

CallInv == call \in [Threads -> CallSet] /\ CallsOK

LEMMA OneCall ==
    ASSUME CallInv, NEW t \in Threads, NEW c \in CallSet, CallOK(c),
           call' = [call EXCEPT ![t] = c]
    PROVE  CallInv'
<1>1. call' \in [Threads -> CallSet]
  BY DEF CallInv
<1>2. \A u \in Threads : call'[u] = IF u = t THEN c ELSE call[u]
  BY DEF CallInv
<1>3. ASSUME NEW u \in Threads PROVE CallOK(call'[u])
  BY <1>2 DEF CallInv, CallsOK
<1> QED BY <1>1, <1>3, Zenon DEF CallInv, CallsOK

LEMMA PcStep ==
    ASSUME CallInv, NEW t \in Threads, NEW pc \in Pcs, Goes(t, pc),
           CallOK([call[t] EXCEPT !.pc = pc])
    PROVE  CallInv'
<1> DEFINE c == [call[t] EXCEPT !.pc = pc]
<1>1. c \in CallSet
  BY DEF CallInv, CallSet
<1>2. call' = [call EXCEPT ![t] = c]
  BY DEF Goes
<1> HIDE DEF c
<1>3. CallOK(c)
  BY DEF c
<1> QED BY <1>1, <1>2, <1>3, OneCall

LEMMA AnswerStep ==
    ASSUME CallInv, NEW t \in Threads, NEW vectors \in Seq(Vectors),
           Answers(t, vectors), Len(vectors) = Len(call[t].texts),
           Len(call[t].misses) <= Len(vectors),
           \A i \in 1..Len(vectors) : vectors[i].of = call[t].texts[i]
    PROVE  CallInv'
<1> DEFINE c == [call[t] EXCEPT !.pc = "answered", !.out = vectors]
<1>1. call[t] \in CallSet /\ CallOK(call[t])
  BY DEF CallInv, CallsOK
<1>2. c \in CallSet
  BY <1>1 DEF CallSet, Pcs
<1>3. call' = [call EXCEPT ![t] = c]
  BY DEF Answers
<1>4. /\ c.pc = "answered" /\ c.kind = call[t].kind /\ c.texts = call[t].texts
      /\ c.out = vectors /\ c.misses = call[t].misses /\ c.made = call[t].made
      /\ c.kept = call[t].kept
  BY <1>1 DEF CallSet
<1> HIDE DEF c
<1>5. Len(vectors) \in Nat
  BY LenProperties
<1>6. CallOK(c)
  BY <1>1, <1>4, <1>5 DEF CallOK, CallHolds, CallAt
<1> QED BY <1>2, <1>3, <1>6, OneCall

LEMMA CallsStep ==
    ASSUME CallInv, NEW t \in Threads, NEW kind \in {"texts", "query"},
           NEW texts \in Seq(Texts), kind = "query" => Len(texts) = 1,
           Calls(t, kind, texts)
    PROVE  CallInv'
<1> DEFINE c == [NoCall EXCEPT !.kind = kind, !.texts = texts,
                               !.pc = IF kind = "query" THEN "scan" ELSE "ensure"]
<1>1. /\ c.pc = IF kind = "query" THEN "scan" ELSE "ensure"
      /\ c.kind = kind /\ c.texts = texts /\ c.out = <<>> /\ c.misses = <<>>
      /\ c.made = <<>> /\ c.kept = 0
  BY DEF NoCall
<1>2. c \in CallSet
  <2>1. \A S : <<>> \in Seq(S)
    BY EmptySeq
  <2> QED BY <2>1 DEF NoCall, CallSet, Pcs
<1>3. call' = [call EXCEPT ![t] = c]
  BY Zenon DEF Calls
<1> HIDE DEF c
<1>4. Len(texts) \in Nat
  BY LenProperties
<1>5. CallOK(c)
  BY <1>1, <1>4 DEF CallOK, CallHolds, CallAt
<1> QED BY <1>2, <1>3, <1>5, OneCall

\* A batch of vectors made.
LEMMA EncodedStep ==
    ASSUME CallInv, NEW t \in Threads, call[t].pc = "encode",
           NEW vectors \in Seq(Vectors), Encoded(t, vectors),
           Len(call[t].made) + Len(vectors) <= Len(call[t].misses),
           \A i \in 1..Len(vectors) :
              vectors[i].of = call[t].misses[Len(call[t].made) + i],
           call[t].kind = "query" => Len(vectors) = 1
    PROVE  CallInv'
<1> DEFINE made == call[t].made \o vectors
           pc == IF provider = "remote" \/ Len(made) = Len(call[t].misses)
                 THEN "keep" ELSE "encode"
           c == [call[t] EXCEPT !.pc = pc, !.made = made]
<1>1. /\ call[t] \in CallSet /\ CallOK(call[t]) /\ call[t].made \in Seq(Vectors)
      /\ Len(call[t].made) \in Nat /\ Len(call[t].misses) \in Nat /\ Len(call[t].out) \in Nat
      /\ Len(call[t].texts) \in Nat /\ call[t].kept \in Nat
  BY CallFields DEF CallInv, CallsOK
<1>2. Len(vectors) \in Nat
  BY LenProperties
<1>3. /\ made \in Seq(Vectors) /\ Len(made) = Len(call[t].made) + Len(vectors)
      /\ \A i \in 1..Len(made) : made[i] = IF i <= Len(call[t].made) THEN call[t].made[i]
                                           ELSE vectors[i - Len(call[t].made)]
  BY <1>1, ConcatProperties
<1>4. call' = [call EXCEPT ![t] = c]
  BY DEF Encoded
<1> HIDE DEF made
<1>5. c \in CallSet
  BY <1>1, <1>3 DEF CallSet, Pcs
<1>6. /\ c.pc = pc /\ c.kind = call[t].kind /\ c.texts = call[t].texts
      /\ c.out = call[t].out /\ c.misses = call[t].misses /\ c.made = made
      /\ c.kept = call[t].kept
  BY <1>1 DEF CallSet
<1> HIDE DEF c
<1>7. \A i \in 1..Len(made) : made[i].of = call[t].misses[i]
  <2> SUFFICES ASSUME NEW i \in 1..Len(made) PROVE made[i].of = call[t].misses[i]
    OBVIOUS
  <2>1. CASE i <= Len(call[t].made)
    <3>1. i \in 1..Len(call[t].made) /\ made[i] = call[t].made[i]
      BY <1>1, <1>3, <2>1
    <3> QED BY <1>1, <3>1 DEF CallOK, CallHolds, CallAt
  <2>2. CASE ~(i <= Len(call[t].made))
    <3>1. i - Len(call[t].made) \in 1..Len(vectors)
      BY <1>1, <1>2, <1>3, <2>2
    <3>2. made[i] = vectors[i - Len(call[t].made)]
      BY <1>3, <2>2
    <3>3. Len(call[t].made) + (i - Len(call[t].made)) = i
      BY <1>1
    <3> QED BY <3>1, <3>2, <3>3
  <2> QED BY <2>1, <2>2
<1>8. call[t].kind = "query" => Len(made) = 1 /\ made # <<>> /\ pc = "keep"
  <2> SUFFICES ASSUME call[t].kind = "query"
               PROVE  Len(made) = 1 /\ made # <<>> /\ Len(call[t].misses) = 1
    OBVIOUS
  <2>1. Len(call[t].made) = 0 /\ Len(call[t].misses) <= 1
    BY <1>1 DEF CallOK, CallHolds, CallAt
  <2> QED BY <1>1, <1>2, <1>3, <2>1
<1>9. CallOK(c)
  <2>1. Len(made) \in Nat /\ call[t].kept <= Len(made) /\ Len(made) <= Len(call[t].misses)
    BY <1>1, <1>2, <1>3 DEF CallOK, CallHolds, CallAt
  <2>2. pc \in {"keep", "encode"}
    OBVIOUS
  <2> HIDE DEF pc
  <2> QED BY <1>1, <1>6, <1>7, <1>8, <2>1, <2>2 DEF CallOK, CallHolds, CallAt
<1> QED BY <1>4, <1>5, <1>9, OneCall

LEMMA FillStep ==
    ASSUME CallInv, NEW t \in Threads, call[t].pc \in {"keep", "trim"},
           NextKept(t) <= Len(call[t].made), Fill(t)
    PROVE  CallInv'
<1> DEFINE old == call[t]
           out == Filled(t, NextKept(t))
           c == [call[t] EXCEPT !.pc = "keep", !.kept = call[t].kept + 1, !.out = out]
<1>1. /\ old \in CallSet /\ CallOK(old) /\ old.made \in Seq(Vectors) /\ old.out \in Seq(Vectors)
      /\ Len(old.made) \in Nat /\ Len(old.misses) \in Nat /\ Len(old.out) \in Nat
      /\ old.kept \in Nat /\ DOMAIN old.out = 1..Len(old.out)
  BY CallFields DEF CallInv, CallsOK
<1>2. NextKept(t) \in 1..Len(old.made) /\ NextKept(t) = old.kept + 1
  BY <1>1 DEF NextKept
<1>3. /\ old.made[NextKept(t)] \in Vectors
      /\ old.made[NextKept(t)].of = old.misses[NextKept(t)]
  BY <1>1, <1>2, ElementOfSeq DEF CallOK, CallHolds, CallAt
<1>4. out = [i \in 1..Len(old.out) |->
               IF old.out[i] = NoVector /\ old.texts[i] = old.misses[NextKept(t)]
               THEN old.made[NextKept(t)] ELSE old.out[i]]
  BY <1>1, Zenon DEF Filled
<1>5. out \in [1..Len(old.out) -> Vectors]
  <2>1. \A i \in 1..Len(old.out) : old.out[i] \in Vectors
    BY <1>1, ElementOfSeq
  <2> QED BY <1>3, <1>4, <2>1
<1>6. \A i \in 1..Len(old.out) : out[i] # NoVector => out[i].of = old.texts[i]
  BY <1>1, <1>3, <1>4 DEF CallOK, CallHolds, CallAt
<1> HIDE DEF out
<1>7. out \in Seq(Vectors) /\ Len(out) = Len(old.out)
  BY <1>1, <1>5, FunctionSeq
<1>8. call' = [call EXCEPT ![t] = c]
  BY DEF Fill, out
<1>9. c \in CallSet
  <2>1. call[t] \in CallSet /\ call[t].kept + 1 \in Nat
    BY <1>1
  <2> QED BY <1>7, <2>1 DEF CallSet, Pcs
<1>10. /\ c.pc = "keep" /\ c.kind = old.kind /\ c.texts = old.texts /\ c.out = out
       /\ c.misses = old.misses /\ c.made = old.made /\ c.kept = old.kept + 1
  BY <1>1 DEF CallSet
<1> HIDE DEF c
<1>11. CallOK(c)
  BY <1>1, <1>2, <1>6, <1>7, <1>10 DEF CallOK, CallHolds, CallAt
<1> QED BY <1>8, <1>9, <1>11, OneCall

LEMMA LookupStep ==
    ASSUME CallInv, CacheType, CacheIs, NEW t \in Threads, Lookup(t)
    PROVE  CallInv'
<1> DEFINE old == call[t]
           n == Position(t)
           text == old.texts[n]
<1>1. /\ old \in CallSet /\ CallOK(old) /\ old.texts \in Seq(Texts) /\ old.out \in Seq(Vectors)
      /\ old.misses \in Seq(Texts) /\ Len(old.texts) \in Nat /\ Len(old.out) \in Nat
      /\ Len(old.misses) \in Nat /\ old.kept \in Nat /\ old.made \in Seq(Vectors)
  BY CallFields DEF CallInv, CallsOK
<1>2. old.pc = "scan" /\ n = Len(old.out) + 1 /\ n <= Len(old.texts)
  BY Zenon DEF Lookup, Position
<1>3. text \in Texts /\ n \in Nat
  BY <1>1, <1>2, ElementOfSeq
<1>4. ASSUME NEW v \in Vectors, v # NoVector => v.of = text,
             NEW misses \in Seq(Texts), Len(misses) <= Len(old.misses) + 1,
             NEW pc \in {"scan", "touch"},
             call' = [call EXCEPT ![t].pc = pc, ![t].out = Append(@, v), ![t].misses = misses]
      PROVE  CallInv'
  <2> DEFINE out == Append(old.out, v)
             c == [old EXCEPT !.pc = pc, !.out = out, !.misses = misses]
  <2>1. /\ out \in Seq(Vectors) /\ Len(out) = n /\ out[n] = v /\ out # <<>>
        /\ \A i \in 1..Len(old.out) : out[i] = old.out[i]
    BY <1>1, <1>2, AppendProperties
  <2>2. call' = [call EXCEPT ![t] = c]
    BY <1>4
  <2> HIDE DEF out
  <2>3. c \in CallSet
    BY <1>1, <1>4, <2>1 DEF CallSet, Pcs
  <2>4. /\ c.pc = pc /\ c.kind = old.kind /\ c.texts = old.texts /\ c.out = out
        /\ c.misses = misses /\ c.made = old.made /\ c.kept = old.kept
    BY <1>1 DEF CallSet
  <2> HIDE DEF c
  <2>5. \A i \in 1..Len(out) : out[i] # NoVector => out[i].of = old.texts[i]
    <3> SUFFICES ASSUME NEW i \in 1..n, out[i] # NoVector PROVE out[i].of = old.texts[i]
      BY <2>1
    <3>1. CASE i = n
      BY <1>4, <2>1, <3>1
    <3>2. CASE i # n
      <4>1. i \in 1..Len(old.out)
        BY <1>1, <1>2, <3>2
      <4> QED BY <1>1, <2>1, <4>1 DEF CallOK, CallHolds, CallAt
    <3> QED BY <3>1, <3>2
  <2>6. Len(misses) \in Nat /\ Len(misses) <= Len(out)
    BY <1>1, <1>2, <1>4, <2>1, LenProperties DEF CallOK, CallHolds, CallAt
  <2>7. CallOK(c)
    <3>1. Len(misses) \in Nat /\ Len(out) \in Nat /\ Len(out) <= Len(old.texts)
      BY <1>2, <1>3, <2>1, <2>6
    <3>2. old.made = <<>> /\ Len(old.made) = 0 /\ old.kept = 0
      BY <1>1, <1>2 DEF CallOK, CallHolds, CallAt
    <3> HIDE DEF old, n, text
    <3> QED BY <1>1, <1>4, <2>1, <2>4, <2>5, <2>6, <3>1, <3>2 DEF CallOK, CallHolds, CallAt
  <2> QED BY <2>2, <2>3, <2>7, OneCall
<1>5. CASE InCache(text)
  <2>1. call' = [call EXCEPT ![t].pc = "touch", ![t].out = Append(@, cache[Slot(text)].vector)]
    BY <1>5, Zenon DEF Lookup
  <2>2. Slot(text) \in 1..Len(cache) /\ cache[Slot(text)].text = text
    <3>1. DOMAIN cache = 1..Len(cache)
      BY LenProperties DEF CacheType
    <3> QED BY <1>5, <3>1, Zenon DEF InCache, Slot
  <2>3. cache[Slot(text)].vector \in Vectors /\ cache[Slot(text)].vector.of = text
    <3>1. cache[Slot(text)] \in Entries
      BY <2>2, ElementOfSeq DEF CacheType
    <3>2. cache[Slot(text)].vector.of = cache[Slot(text)].text
      BY <2>2 DEF CacheIs, Distinct
    <3> QED BY <2>2, <3>1, <3>2 DEF Entries
  <2>4. call' = [call EXCEPT ![t].pc = "touch", ![t].out = Append(@, cache[Slot(text)].vector),
                             ![t].misses = old.misses]
    BY <1>1, <2>1 DEF CallInv, CallSet
  <2>5. Len(old.misses) <= Len(old.misses) + 1
    BY <1>1
  <2> QED BY <1>1, <1>4, <2>3, <2>4, <2>5
<1>6. CASE ~InCache(text)
  <2>1. call' = [call EXCEPT ![t].out = Append(@, NoVector), ![t].misses = Missed(t, text)]
    BY <1>6, Zenon DEF Lookup
  <2>2. call' = [call EXCEPT ![t].pc = "scan", ![t].out = Append(@, NoVector),
                             ![t].misses = Missed(t, text)]
    BY <1>1, <1>2, <2>1 DEF CallInv, CallSet
  <2> QED BY <1>3, <1>4, <2>2, MissedFacts, NoVectorType DEF CallInv
<1> QED BY <1>5, <1>6

\* A call at another pc, which what it holds allows.
LEMMA PcChange ==
    ASSUME NEW c \in CallSet, CallOK(c), NEW pc \in Pcs,
           \/ pc = "raised"
           \/ c.pc = "ensure" /\ pc \in {"load", "ensured"}
           \/ c.pc = "load" /\ pc = "ensured"
           \/ c.pc = "ensured" /\ c.kind = "query" /\ pc = "encode"
           \/ c.pc = "ensured" /\ c.kind = "texts" /\ pc = "scan"
           \/ /\ c.pc = "scan" /\ Len(c.out) = Len(c.texts)
              /\ c.kind = "query" /\ c.misses # <<>> /\ pc = "ensure"
           \/ c.pc = "scan" /\ Len(c.out) = Len(c.texts) /\ c.kind = "texts" /\ pc = "encode"
           \/ c.pc = "touch" /\ pc = "scan"
           \/ c.pc = "keep" /\ c.kept < Len(c.made) /\ pc = "move"
           \/ c.pc = "keep" /\ c.kind = "texts" /\ pc = "encode"
           \/ c.pc \in {"move", "pop"} /\ pc = "trim"
           \/ c.pc = "trim" /\ pc = "pop"
    PROVE  CallOK([c EXCEPT !.pc = pc])
<1> DEFINE d == [c EXCEPT !.pc = pc]
<1>1. /\ d.pc = pc /\ d.kind = c.kind /\ d.texts = c.texts /\ d.out = c.out
      /\ d.misses = c.misses /\ d.made = c.made /\ d.kept = c.kept
  BY DEF CallSet
<1> HIDE DEF d
<1>2. CallHolds(d)
  BY <1>1 DEF CallOK, CallHolds
<1>3. CallAt(c) /\ c.kind \in {"texts", "query"}
  BY DEF CallOK, CallSet
<1>4. d.pc # "answered"
  BY <1>1
<1>5. CallAt(d)
  BY <1>1, <1>3, <1>4 DEF CallAt
<1> QED BY <1>2, <1>5 DEF CallOK, d

LEMMA PcSteps ==
    ASSUME CallInv, NEW t \in Threads,
           \/ EnsureModel(t) \/ LoadModel(t)
           \/ Ensured(t) /\ (call[t].kind = "query" \/ model)
           \/ Scanned(t) /\ call[t].misses # <<>>
           \/ Touch(t) \/ Move(t) \/ Pop(t)
           \/ Trim(t) /\ Len(cache) > CacheSize
           \/ Keep(t) /\ CacheSize # 0
           \/ Kept(t) /\ Len(call[t].made) < Len(call[t].misses)
    PROVE  CallInv'
<1>1. /\ call[t] \in CallSet /\ CallOK(call[t])
      /\ Len(call[t].texts) \in Nat /\ Len(call[t].out) \in Nat
      /\ Len(call[t].misses) \in Nat /\ Len(call[t].made) \in Nat
      /\ (call[t].made = <<>> <=> Len(call[t].made) = 0)
      /\ call[t].kept \in Nat /\ call[t].kind \in {"texts", "query"}
  BY CallFields, EmptySeq DEF CallInv, CallsOK
<1>2. ASSUME NEW pc \in Pcs, Goes(t, pc), CallOK([call[t] EXCEPT !.pc = pc])
      PROVE  CallInv'
  BY <1>2, PcStep
<1>3. Goes(t, "raised") => CallInv'
  BY <1>1, <1>2, PcChange DEF Pcs
<1>4. CASE EnsureModel(t)
  <2>1. call[t].pc = "ensure" /\ (Goes(t, "ensured") \/ Goes(t, "load"))
    BY <1>4, Zenon DEF EnsureModel
  <2> QED BY <1>1, <1>2, <2>1, PcChange DEF Pcs
<1>5. CASE LoadModel(t)
  <2>1. call[t].pc = "load" /\ Goes(t, "ensured")
    BY <1>5, Zenon DEF LoadModel
  <2> QED BY <1>1, <1>2, <2>1, PcChange DEF Pcs
<1>6. CASE Ensured(t) /\ (call[t].kind = "query" \/ model)
  <2>1. /\ call[t].pc = "ensured"
        /\ IF call[t].kind = "query" THEN Goes(t, "encode") ELSE Goes(t, "scan")
    BY <1>6, Zenon DEF Ensured
  <2> QED BY <1>1, <1>2, <2>1, PcChange DEF Pcs
<1>7. CASE Scanned(t) /\ call[t].misses # <<>>
  <2>1. /\ call[t].pc = "scan" /\ Position(t) > Len(call[t].texts)
        /\ IF call[t].kind = "query" THEN Goes(t, "ensure") ELSE Goes(t, "encode")
    BY <1>7, Zenon DEF Scanned
  <2>2. Len(call[t].out) <= Len(call[t].texts)
    BY <1>1, Zenon DEF CallOK, CallHolds
  <2>3. Len(call[t].out) = Len(call[t].texts)
    BY <1>1, <2>1, <2>2 DEF Position
  <2> QED BY <1>1, <1>2, <1>7, <2>1, <2>3, PcChange DEF Pcs
<1>8. CASE Touch(t)
  <2>1. call[t].pc = "touch" /\ (Goes(t, "scan") \/ Goes(t, "raised"))
    BY <1>8, Zenon DEF Touch, MoveToEnd
  <2> QED BY <1>1, <1>2, <1>3, <2>1, PcChange DEF Pcs
<1>9. CASE Move(t)
  <2>1. call[t].pc = "move" /\ (Goes(t, "trim") \/ Goes(t, "raised"))
    BY <1>9, Zenon DEF Move, MoveToEnd
  <2> QED BY <1>1, <1>2, <1>3, <2>1, PcChange DEF Pcs
<1>10. CASE Pop(t)
  <2>1. call[t].pc = "pop" /\ (Goes(t, "trim") \/ Goes(t, "raised"))
    BY <1>10, Zenon DEF Pop
  <2> QED BY <1>1, <1>2, <1>3, <2>1, PcChange DEF Pcs
<1>11. CASE Trim(t) /\ Len(cache) > CacheSize
  <2>1. call[t].pc = "trim" /\ Goes(t, "pop")
    BY <1>11, Zenon DEF Trim
  <2> QED BY <1>1, <1>2, <2>1, PcChange DEF Pcs
<1>12. CASE Keep(t) /\ CacheSize # 0
  <2>1. call[t].pc = "keep" /\ NextKept(t) <= Len(call[t].made) /\ Goes(t, "move")
    BY <1>12, Zenon DEF Keep
  <2>2. call[t].kept < Len(call[t].made)
    BY <1>1, <2>1 DEF NextKept
  <2> QED BY <1>1, <1>2, <2>1, <2>2, PcChange DEF Pcs
<1>13. CASE Kept(t) /\ Len(call[t].made) < Len(call[t].misses)
  <2>1. call[t].pc = "keep" /\ Goes(t, "encode")
    BY <1>13, Zenon DEF Kept
  <2>2. call[t].kind # "query"
    <3> SUFFICES ASSUME call[t].kind = "query" PROVE FALSE
      OBVIOUS
    <3>1. call[t].made # <<>> /\ Len(call[t].misses) <= 1
      BY <1>1, <2>1 DEF CallOK, CallHolds, CallAt
    <3> QED BY <1>1, <1>13, <3>1
  <2> QED BY <1>1, <1>2, <2>1, <2>2, PcChange DEF Pcs
<1> QED BY <1>4, <1>5, <1>6, <1>7, <1>8, <1>9, <1>10, <1>11, <1>12, <1>13

\* Every step of a call keeps the calls what they are.
LEMMA CallSteps ==
    ASSUME CallInv, CacheType, CacheIs, NEW t \in Threads, EmbedderStep(t)
    PROVE  CallInv'
<1>1. /\ call[t] \in CallSet /\ CallOK(call[t]) /\ call[t].texts \in Seq(Texts)
      /\ call[t].misses \in Seq(Texts)
      /\ Len(call[t].texts) \in Nat /\ Len(call[t].out) \in Nat
      /\ Len(call[t].misses) \in Nat /\ Len(call[t].made) \in Nat
      /\ Len(call[t].misses) <= Len(call[t].texts)
      /\ call[t].kind \in {"texts", "query"}
  BY CallFields DEF CallInv, CallsOK, CallOK, CallHolds, CallAt
<1>2. Answers(t, Fallback(call[t].texts)) => CallInv'
  BY <1>1, FallbackFacts, AnswerStep
<1>3. Answers(t, Final(t)) /\ Len(call[t].out) = Len(call[t].texts) => CallInv'
  BY <1>1, FinalFacts, AnswerStep DEF CallInv
<1>4. CASE Ensured(t) /\ ~(call[t].kind = "query" \/ model)
  BY <1>2, <1>4, Zenon DEF Ensured
<1>5. CASE Scanned(t) /\ call[t].misses = <<>>
  <2>1. Answers(t, Final(t)) /\ Position(t) > Len(call[t].texts)
    BY <1>5, Zenon DEF Scanned
  <2>2. Len(call[t].out) = Len(call[t].texts)
    BY <1>1, <2>1 DEF CallOK, CallHolds, CallAt, Position
  <2> QED BY <1>3, <2>1, <2>2
<1>6. CASE EncodeQuery(t)
  <2>1. PICK how \in {"fallback"} \cup {h \in {"query"} : model} :
            Encoded(t, <<By(call[t].misses[1], how)>>)
    BY <1>6, Zenon DEF EncodeQuery
  <2>2. call[t].pc = "encode" /\ call[t].kind = "query"
    BY <1>6, Zenon DEF EncodeQuery
  <2>3. call[t].misses # <<>> /\ call[t].made = <<>> /\ Len(call[t].made) = 0
    BY <1>1, <2>2 DEF CallOK, CallHolds, CallAt
  <2>4. Len(call[t].misses) >= 1
    BY <1>1, <2>3, EmptySeq
  <2> DEFINE v == By(call[t].misses[1], how)
  <2>5. v \in Vectors /\ v.of = call[t].misses[1]
    BY <1>1, <2>4, ElementOfSeq DEF By, Vectors
  <2> HIDE DEF v
  <2>6. <<v>> \in Seq(Vectors) /\ Len(<<v>>) = 1 /\ <<v>>[1] = v
    BY <2>5
  <2>7. \A i \in 1..Len(<<v>>) : <<v>>[i].of = call[t].misses[Len(call[t].made) + i]
    BY <2>3, <2>5, <2>6
  <2>8. Len(call[t].made) + Len(<<v>>) <= Len(call[t].misses)
    BY <1>1, <2>3, <2>4, <2>6
  <2>9. Encoded(t, <<v>>)
    BY <2>1 DEF v
  <2> QED BY <2>2, <2>6, <2>7, <2>8, <2>9, EncodedStep
<1>7. ASSUME NEW vectors, Encoded(t, vectors), call[t].pc = "encode", call[t].kind = "texts",
             NEW how \in {"fallback", "passage"},
             vectors = [i \in DOMAIN Batch(t) |-> By(Batch(t)[i], how)]
      PROVE  CallInv'
  <2>1. /\ Batch(t) \in Seq(Texts) /\ Len(Batch(t)) \in Nat
        /\ Len(call[t].made) + Len(Batch(t)) <= Len(call[t].misses)
        /\ \A i \in 1..Len(Batch(t)) :
              Batch(t)[i] = call[t].misses[Len(call[t].made) + i]
        /\ DOMAIN Batch(t) = 1..Len(Batch(t))
    BY <1>1, BatchFacts, LenProperties DEF CallInv
  <2>2. \A i \in 1..Len(Batch(t)) : By(Batch(t)[i], how) \in Vectors
    BY <1>7, <2>1, ElementOfSeq DEF By, Vectors
  <2>3. vectors \in [1..Len(Batch(t)) -> Vectors]
    BY <1>7, <2>1, <2>2
  <2>4. \A i \in 1..Len(Batch(t)) : vectors[i].of = Batch(t)[i]
    BY <1>7, <2>1 DEF By
  <2>5. vectors \in Seq(Vectors) /\ Len(vectors) = Len(Batch(t))
    BY <2>1, <2>3, FunctionSeq
  <2>6. \A i \in 1..Len(vectors) : vectors[i].of = call[t].misses[Len(call[t].made) + i]
    BY <2>1, <2>4, <2>5
  <2> QED BY <1>7, <2>1, <2>5, <2>6, EncodedStep
<1>8. CASE EncodeBatch(t)
  BY <1>7, <1>8, Zenon DEF EncodeBatch
<1>9. CASE BatchFails(t)
  <2>1. Encoded(t, Fallback(Batch(t))) => CallInv'
    <3>1. Fallback(Batch(t)) = [i \in DOMAIN Batch(t) |-> By(Batch(t)[i], "fallback")]
      BY Zenon DEF Fallback
    <3>2. call[t].pc = "encode" /\ call[t].kind = "texts"
      BY <1>9, Zenon DEF BatchFails
    <3> QED BY <1>7, <3>1, <3>2
  <2> QED BY <1>2, <1>9, <2>1, Zenon DEF BatchFails
<1>10. CASE Keep(t) /\ CacheSize = 0
  <2>1. call[t].pc = "keep" /\ NextKept(t) <= Len(call[t].made) /\ Fill(t)
    BY <1>10, Zenon DEF Keep
  <2> QED BY <2>1, FillStep
<1>11. CASE Trim(t) /\ ~(Len(cache) > CacheSize)
  <2>1. call[t].pc = "trim" /\ Fill(t)
    BY <1>11, Zenon DEF Trim
  <2>2. NextKept(t) <= Len(call[t].made)
    <3>1. call[t].kept < Len(call[t].made) /\ call[t].kept \in Nat
      BY <1>1, <2>1 DEF CallOK, CallHolds, CallAt, CallSet
    <3> QED BY <1>1, <3>1 DEF NextKept
  <2> QED BY <2>1, <2>2, FillStep
<1>12. CASE Kept(t) /\ ~(Len(call[t].made) < Len(call[t].misses))
  <2>1. call[t].pc = "keep" /\ Answers(t, Final(t))
    BY <1>12, Zenon DEF Kept
  <2> QED BY <1>1, <1>3, <2>1 DEF CallOK, CallHolds, CallAt
<1>13. CASE Lookup(t)
  BY <1>13, LookupStep
<1> QED BY <1>4, <1>5, <1>6, <1>8, <1>9, <1>10, <1>11, <1>12, <1>13, PcSteps, Zenon
     DEF EmbedderStep

-----------------------------------------------------------------------------
(* The cache. *)

LEMMA InCacheNamed ==
    ASSUME CacheType
    PROVE  /\ Len(cache) \in Nat /\ DOMAIN cache = 1..Len(cache)
           /\ \A text : InCache(text) <=> text \in Named(cache)
           /\ \A text : InCache(text) =>
                Slot(text) \in 1..Len(cache) /\ cache[Slot(text)].text = text
<1>1. Len(cache) \in Nat /\ DOMAIN cache = 1..Len(cache)
  BY LenProperties DEF CacheType
<1>2. \A text : InCache(text) <=> text \in Named(cache)
  BY <1>1, Zenon DEF InCache, Named
<1>3. ASSUME NEW text, InCache(text)
      PROVE  Slot(text) \in 1..Len(cache) /\ cache[Slot(text)].text = text
  BY <1>1, <1>3, Zenon DEF InCache, Slot
<1> QED BY <1>1, <1>2, <1>3

LEMMA TouchedFacts ==
    ASSUME CacheType, Distinct(cache), NEW i \in 1..Len(cache)
    PROVE  /\ Touched(i) \in Seq(Entries) /\ Len(Touched(i)) = Len(cache)
           /\ Distinct(Touched(i)) /\ Named(Touched(i)) = Named(cache)
<1> DEFINE n == Len(cache)
           p(j) == IF j < i THEN j ELSE IF j < n THEN j + 1 ELSE i
           d == Touched(i)
<1>1. n \in Nat /\ DOMAIN cache = 1..n /\ i \in Nat /\ 1 <= i /\ i <= n
  BY InCacheNamed
<1>2. \A j \in 1..n : p(j) \in 1..n
  BY <1>1
<1>3. d = [j \in 1..n |-> cache[p(j)]]
  <2>1. \A j \in 1..n : cache[p(j)] =
           IF j < i THEN cache[j] ELSE IF j < n THEN cache[j + 1] ELSE cache[i]
    OBVIOUS
  <2> QED BY <1>1, <2>1 DEF Touched
<1>4. d \in [1..n -> Entries]
  <2>1. \A j \in 1..n : cache[p(j)] \in Entries
    <3> HIDE DEF p
    <3> QED BY <1>2, ElementOfSeq DEF CacheType
  <2> HIDE DEF p
  <2> QED BY <1>3, <2>1
<1>5. \A j \in 1..n : d[j] = cache[p(j)]
  <2> HIDE DEF p, d
  <2> QED BY <1>3
<1> HIDE DEF d
<1>6. d \in Seq(Entries) /\ Len(d) = n
  BY <1>1, <1>4, FunctionSeq
<1>7. \A j, k \in 1..n : p(j) = p(k) => j = k
  BY <1>1
<1>8. \A m \in 1..n : \E j \in 1..n : p(j) = m
  <2> SUFFICES ASSUME NEW m \in 1..n PROVE \E j \in 1..n : p(j) = m
    OBVIOUS
  <2>1. CASE m < i
    BY <1>1, <2>1
  <2>2. CASE m = i
    <3>1. n \in 1..n /\ ~(n < i) /\ ~(n < n)
      BY <1>1
    <3>2. p(n) = i
      BY <3>1, Zenon
    <3> QED BY <2>2, <3>1, <3>2, Zenon
  <2>3. CASE m > i
    <3>1. p(m - 1) = m /\ m - 1 \in 1..n
      BY <1>1, <2>3
    <3> QED BY <3>1
  <2> QED BY <1>1, <2>1, <2>2, <2>3
<1> HIDE DEF p
<1>9. Distinct(d)
  <2> SUFFICES ASSUME NEW j \in 1..n, NEW k \in 1..n
               PROVE  d[j].vector.of = d[j].text /\ (d[j].text = d[k].text => j = k)
    BY <1>6 DEF Distinct
  <2>1. p(j) \in 1..Len(cache) /\ p(k) \in 1..Len(cache)
    BY <1>2
  <2> QED BY <1>5, <1>7, <2>1 DEF Distinct
<1>10. Named(d) = Named(cache)
  <2>1. ASSUME NEW x \in Named(d) PROVE x \in Named(cache)
    BY <1>2, <1>5, <1>6 DEF Named
  <2>2. ASSUME NEW x \in Named(cache) PROVE x \in Named(d)
    <3>1. PICK m \in 1..n : x = cache[m].text
      BY DEF Named
    <3>2. PICK j \in 1..n : p(j) = m
      BY <1>8
    <3>3. x = d[j].text
      BY <1>5, <3>1, <3>2
    <3> QED BY <1>6, <3>3 DEF Named
  <2> QED BY <2>1, <2>2
<1> QED BY <1>6, <1>9, <1>10 DEF d

LEMMA StoredFacts ==
    ASSUME CacheType, Distinct(cache), NEW v \in Vectors
    PROVE  /\ Stored(v) \in Seq(Entries) /\ Distinct(Stored(v))
           /\ Named(Stored(v)) = Named(cache) \cup {v.of}
           /\ Len(Stored(v)) = IF v.of \in Named(cache) THEN Len(cache) ELSE Len(cache) + 1
<1> DEFINE n == Len(cache)
           e == Entry(v)
           d == Stored(v)
<1>1. n \in Nat /\ cache \in Seq(Entries)
  BY InCacheNamed DEF CacheType
<1>2. e \in Entries /\ e.text = v.of /\ e.vector = v
  BY DEF Entry, Entries, Vectors
<1> HIDE DEF e
<1>3. CASE v.of \in Named(cache)
  <2> DEFINE i == Slot(v.of)
  <2>1. i \in 1..n /\ cache[i].text = v.of /\ InCache(v.of)
    BY <1>3, InCacheNamed
  <2>2. d = [cache EXCEPT ![i] = e]
    BY <2>1 DEF Stored, e
  <2> HIDE DEF i, d
  <2>3. /\ d \in Seq(Entries) /\ Len(d) = n
        /\ \A j \in 1..n : d[j] = IF j = i THEN e ELSE cache[j]
    BY <1>1, <1>2, <2>1, <2>2, ExceptSeq
  <2>4. \A j \in 1..n : d[j].text = cache[j].text /\ d[j].vector.of = cache[j].text
    BY <1>2, <2>1, <2>3 DEF Distinct
  <2>5. Distinct(d)
    BY <2>3, <2>4 DEF Distinct
  <2>6. Named(d) = Named(cache)
    BY <2>3, <2>4 DEF Named
  <2> QED BY <1>3, <2>3, <2>5, <2>6 DEF d
<1>4. CASE v.of \notin Named(cache)
  <2>1. d = Append(cache, e)
    BY <1>4, InCacheNamed, Zenon DEF Stored, e
  <2> HIDE DEF d
  <2>2. /\ d \in Seq(Entries) /\ Len(d) = n + 1 /\ d[n + 1] = e
        /\ \A j \in 1..n : d[j] = cache[j]
    BY <1>1, <1>2, <2>1, AppendProperties
  <2>3. \A j \in 1..n : cache[j].text # v.of
    BY <1>4 DEF Named
  <2>4. Distinct(d)
    <3> SUFFICES ASSUME NEW j \in 1..(n + 1), NEW k \in 1..(n + 1)
                 PROVE  d[j].vector.of = d[j].text /\ (d[j].text = d[k].text => j = k)
      BY <2>2 DEF Distinct
    <3>1. \A m \in 1..(n + 1) : m = n + 1 \/ m \in 1..n
      BY <1>1
    <3> QED BY <1>2, <2>2, <2>3, <3>1 DEF Distinct
  <2>5. Named(d) = Named(cache) \cup {v.of}
    <3>1. \A x : x \in Named(d) <=> \E m \in 1..(n + 1) : x = d[m].text
      BY <2>2 DEF Named
    <3>2. \A x : x \in Named(cache) <=> \E m \in 1..n : x = cache[m].text
      BY DEF Named
    <3>3. n + 1 \in 1..(n + 1) /\ d[n + 1].text = v.of
      BY <1>1, <1>2, <2>2
    <3>4. \A m \in 1..(n + 1) : m = n + 1 \/ m \in 1..n
      BY <1>1
    <3>5. \A m \in 1..n : m \in 1..(n + 1)
      BY <1>1
    <3> QED BY <2>2, <3>1, <3>2, <3>3, <3>4, <3>5
  <2> QED BY <1>4, <2>2, <2>4, <2>5 DEF d
<1> QED BY <1>3, <1>4

LEMMA TailFacts ==
    ASSUME CacheType, Distinct(cache), cache # <<>>
    PROVE  /\ Tail(cache) \in Seq(Entries) /\ Distinct(Tail(cache))
           /\ Len(Tail(cache)) = Len(cache) - 1
           /\ Named(cache) \ {cache[1].text} \subseteq Named(Tail(cache))
           /\ Named(Tail(cache)) \subseteq Named(cache)
<1> DEFINE n == Len(cache)
           d == Tail(cache)
<1>1. n \in Nat \ {0} /\ cache \in Seq(Entries)
  BY InCacheNamed, EmptySeq DEF CacheType
<1>2. d \in Seq(Entries) /\ Len(d) = n - 1 /\ \A i \in 1..(n - 1) : d[i] = cache[i + 1]
  BY <1>1, HeadTailProperties
<1> HIDE DEF d
<1>3. \A i \in 1..(n - 1) : i + 1 \in 1..n
  BY <1>1
<1>4. Distinct(d)
  <2> SUFFICES ASSUME NEW j \in 1..(n - 1), NEW k \in 1..(n - 1)
               PROVE  d[j].vector.of = d[j].text /\ (d[j].text = d[k].text => j = k)
    BY <1>2 DEF Distinct
  <2>1. d[j] = cache[j + 1] /\ d[k] = cache[k + 1]
    BY <1>2
  <2>2. j + 1 = k + 1 => j = k
    BY <1>1
  <2> QED BY <1>3, <2>1, <2>2 DEF Distinct
<1>5. Named(d) \subseteq Named(cache)
  BY <1>2, <1>3 DEF Named
<1>6. ASSUME NEW x \in Named(cache), x # cache[1].text PROVE x \in Named(d)
  <2>1. PICK i \in 1..n : x = cache[i].text
    BY DEF Named
  <2>2. i - 1 \in 1..(n - 1) /\ (i - 1) + 1 = i
    BY <1>1, <1>6, <2>1
  <2> QED BY <1>2, <2>1, <2>2 DEF Named
<1> QED BY <1>2, <1>4, <1>5, <1>6 DEF d

\* The threads in the middle of a set are at least as many as the texts and
\* trims that count.
LEMMA BoundSets ==
    ASSUME NEW calls, NEW c
    PROVE  LET inSet == {t \in Threads : calls[t].pc \in {"move", "trim", "pop"}}
           IN /\ IsFiniteSet(Trimming(calls)) /\ Cardinality(Trimming(calls)) \in Nat
              /\ IsFiniteSet(Fresh(calls, c)) /\ Cardinality(Fresh(calls, c)) \in Nat
              /\ IsFiniteSet(inSet) /\ Cardinality(inSet) \in Nat
              /\ Cardinality(Trimming(calls)) + Cardinality(Fresh(calls, c)) <= Cardinality(inSet)
<1> DEFINE inSet == {t \in Threads : calls[t].pc \in {"move", "trim", "pop"}}
           Mover == {t \in Threads : \E x \in Named(c) : Keeps(calls, t, x)}
           F == Fresh(calls, c)
           T == Trimming(calls)
           f == [t \in Mover |-> calls[t].made[calls[t].kept + 1].of]
<1>1. IsFiniteSet(Threads)
  BY EmbedderAssumption
<1>2. Mover \in SUBSET Threads /\ T \in SUBSET Threads /\ inSet \in SUBSET Threads
  BY DEF Trimming
<1>3. IsFiniteSet(Mover) /\ IsFiniteSet(T) /\ IsFiniteSet(inSet)
  <2> HIDE DEF Mover, T, inSet
  <2> QED BY <1>1, <1>2, FS_Subset
<1>4. f \in Surjection(Mover, F)
  <2>1. \A t \in Mover : f[t] \in F
    BY DEF Fresh, Keeps
  <2>2. \A x \in F : \E t \in Mover : f[t] = x
    BY DEF Fresh, Keeps
  <2> QED BY <2>1, <2>2 DEF Surjection
<1>5. T \cap Mover = {} /\ T \cup Mover \in SUBSET inSet
  BY DEF Trimming, Keeps
<1> HIDE DEF Mover, F, T, f, inSet
<1>6. IsFiniteSet(F) /\ Cardinality(F) <= Cardinality(Mover)
  BY <1>3, <1>4, FS_Surjection
<1>7. Cardinality(T \cup Mover) = Cardinality(T) + Cardinality(Mover)
  <2>1. Cardinality(T \cup Mover) =
           Cardinality(T) + Cardinality(Mover) - Cardinality(T \cap Mover)
    BY <1>3, FS_Union
  <2>2. Cardinality(T \cap Mover) = 0
    BY <1>5, FS_EmptySet
  <2>3. Cardinality(T) \in Nat /\ Cardinality(Mover) \in Nat
    BY <1>3, FS_CardinalityType
  <2> QED BY <2>1, <2>2, <2>3
<1>8. Cardinality(T \cup Mover) <= Cardinality(inSet)
  BY <1>3, <1>5, FS_Subset
<1>9. /\ Cardinality(T) \in Nat /\ Cardinality(Mover) \in Nat
      /\ Cardinality(F) \in Nat /\ Cardinality(inSet) \in Nat
  BY <1>3, <1>6, FS_CardinalityType
<1>10. Cardinality(T) + Cardinality(F) <= Cardinality(inSet)
  BY <1>6, <1>7, <1>8, <1>9
<1> QED BY <1>3, <1>6, <1>9, <1>10 DEF F, T, inSet

\* Any step of a thread that is not in a set, before or after.
LEMMA OutsideBound ==
    ASSUME CacheBound, NEW t \in Threads, \A u \in Threads \ {t} : call'[u] = call[u],
           call[t].pc \notin {"move", "trim", "pop"},
           call'[t].pc \notin {"move", "trim", "pop"},
           Len(cache') = Len(cache), Named(cache') = Named(cache)
    PROVE  CacheBound'
<1>1. Trimming(call') = Trimming(call)
  BY DEF Trimming
<1>2. \A u \in Threads : \A x : Keeps(call', u, x) <=> Keeps(call, u, x)
  BY DEF Keeps
<1>3. Fresh(call', cache') = Fresh(call, cache)
  BY <1>2, Zenon DEF Fresh
<1> QED BY <1>1, <1>3, Zenon DEF CacheBound, Bound

LEMMA ThreadSteps ==
    ASSUME call \in [Threads -> CallSet], NEW t \in Threads
    PROVE  /\ \A pc : Goes(t, pc) =>
                 /\ call'[t].pc = pc /\ call'[t].made = call[t].made
                 /\ call'[t].kept = call[t].kept
                 /\ \A u \in Threads \ {t} : call'[u] = call[u]
           /\ \A vectors : Answers(t, vectors) \/ Encoded(t, vectors) \/ Fill(t) =>
                 /\ call'[t].pc \in {"answered", "keep", "encode"}
                 /\ \A u \in Threads \ {t} : call'[u] = call[u]
           /\ Lookup(t) =>
                 /\ call'[t].pc \in {"scan", "touch"}
                 /\ \A u \in Threads \ {t} : call'[u] = call[u]
           /\ \A kind, texts : Calls(t, kind, texts) =>
                 /\ call'[t].pc \in {"scan", "ensure"}
                 /\ \A u \in Threads \ {t} : call'[u] = call[u]
<1>1. ASSUME NEW pc, Goes(t, pc)
      PROVE  /\ call'[t].pc = pc /\ call'[t].made = call[t].made
             /\ call'[t].kept = call[t].kept
             /\ \A u \in Threads \ {t} : call'[u] = call[u]
  BY <1>1 DEF Goes, CallSet
<1>2. ASSUME NEW vectors, Answers(t, vectors)
      PROVE  call'[t].pc = "answered" /\ \A u \in Threads \ {t} : call'[u] = call[u]
  BY <1>2 DEF Answers, CallSet
<1>3. ASSUME NEW vectors, Encoded(t, vectors)
      PROVE  /\ call'[t].pc \in {"keep", "encode"}
             /\ \A u \in Threads \ {t} : call'[u] = call[u]
  BY <1>3 DEF Encoded, CallSet
<1>4. ASSUME Fill(t)
      PROVE  call'[t].pc = "keep" /\ \A u \in Threads \ {t} : call'[u] = call[u]
  BY <1>4 DEF Fill, CallSet
<1>5. ASSUME Lookup(t)
      PROVE  /\ call'[t].pc \in {"scan", "touch"}
             /\ \A u \in Threads \ {t} : call'[u] = call[u]
  <2>1. ASSUME NEW v, call' = [call EXCEPT ![t].pc = "touch", ![t].out = v]
        PROVE  call'[t].pc = "touch" /\ \A u \in Threads \ {t} : call'[u] = call[u]
    BY <2>1 DEF CallSet
  <2>2. ASSUME NEW v, NEW m, call' = [call EXCEPT ![t].out = v, ![t].misses = m]
        PROVE  call'[t].pc = call[t].pc /\ \A u \in Threads \ {t} : call'[u] = call[u]
    BY <2>2 DEF CallSet
  <2> QED BY <1>5, <2>1, <2>2 DEF Lookup
<1>6. ASSUME NEW kind, NEW texts, Calls(t, kind, texts)
      PROVE  /\ call'[t].pc \in {"scan", "ensure"}
             /\ \A u \in Threads \ {t} : call'[u] = call[u]
  BY <1>6 DEF Calls, NoCall
<1> QED BY <1>1, <1>2, <1>3, <1>4, <1>5, <1>6

\* The other thread's texts and trims count as before.
LEMMA OthersCount ==
    ASSUME NEW t \in Threads, \A u \in Threads \ {t} : call'[u] = call[u]
    PROVE  /\ \A u \in Threads \ {t} : u \in Trimming(call') <=> u \in Trimming(call)
           /\ \A u \in Threads \ {t} : \A x : Keeps(call', u, x) <=> Keeps(call, u, x)
BY DEF Trimming, Keeps

LEMMA CacheStep ==
    ASSUME CallInv, CacheType, CacheIs, CacheBound, NEW t \in Threads, EmbedderStep(t)
    PROVE  CacheType' /\ CacheIs' /\ CacheBound'
<1> DEFINE In == {"move", "trim", "pop"}
           T == Trimming(call)
           F == Fresh(call, cache)
           T1 == Trimming(call')
           F1 == Fresh(call', cache')
<1>1. /\ call \in [Threads -> CallSet] /\ Len(cache) \in Nat /\ CacheSize \in Nat
      /\ cache \in Seq(Entries) /\ Distinct(cache)
      /\ Len(cache) <= CacheSize + Cardinality(T) + Cardinality(F)
  BY InCacheNamed, EmbedderAssumption DEF CallInv, CacheType, CacheIs, CacheBound, Bound
<1>2. /\ IsFiniteSet(T) /\ Cardinality(T) \in Nat /\ IsFiniteSet(F) /\ Cardinality(F) \in Nat
      /\ IsFiniteSet(T1) /\ Cardinality(T1) \in Nat
      /\ IsFiniteSet(F1) /\ Cardinality(F1) \in Nat
  <2>1. \A calls, c : /\ IsFiniteSet(Trimming(calls)) /\ Cardinality(Trimming(calls)) \in Nat
                      /\ IsFiniteSet(Fresh(calls, c)) /\ Cardinality(Fresh(calls, c)) \in Nat
    BY BoundSets
  <2> QED BY <2>1
<1>3. Len(cache') <= CacheSize + Cardinality(T1) + Cardinality(F1) => CacheBound'
  BY Zenon DEF CacheBound, Bound
<1> HIDE DEF T, F, T1, F1
\* Steps outside a set: the cache is the same, or an entry is touched.
<1>4. ASSUME call[t].pc \notin In, call'[t].pc \notin In,
             \A u \in Threads \ {t} : call'[u] = call[u], cache' = cache
      PROVE  CacheType' /\ CacheIs' /\ CacheBound'
  BY <1>1, <1>4, OutsideBound DEF CacheType, CacheIs
<1>5. ASSUME NEW pc, pc \notin In, Goes(t, pc), call[t].pc \notin In, cache' = cache
      PROVE  CacheType' /\ CacheIs' /\ CacheBound'
  BY <1>1, <1>4, <1>5, ThreadSteps
<1>6. ASSUME NEW vectors, Answers(t, vectors) \/ Encoded(t, vectors) \/ Fill(t),
             call[t].pc \notin In, cache' = cache
      PROVE  CacheType' /\ CacheIs' /\ CacheBound'
  BY <1>1, <1>4, <1>6, ThreadSteps
<1>7. CASE EnsureModel(t)
  <2>1. /\ call[t].pc = "ensure" /\ cache' = cache
        /\ Goes(t, "ensured") \/ Goes(t, "load")
    BY <1>7, Zenon DEF EnsureModel
  <2> QED BY <1>5, <2>1
<1>8. CASE LoadModel(t)
  <2>1. call[t].pc = "load" /\ cache' = cache /\ Goes(t, "ensured")
    BY <1>8, Zenon DEF LoadModel
  <2> QED BY <1>5, <2>1
<1>9. CASE Ensured(t)
  <2>1. /\ call[t].pc = "ensured" /\ cache' = cache
        /\ Goes(t, "encode") \/ Goes(t, "scan") \/ Answers(t, Fallback(call[t].texts))
    BY <1>9, Zenon DEF Ensured
  <2> QED BY <1>5, <1>6, <2>1
<1>10. CASE Lookup(t)
  <2>1. call[t].pc = "scan" /\ cache' = cache
    BY <1>10, Zenon DEF Lookup
  <2> QED BY <1>1, <1>4, <1>10, <2>1, ThreadSteps
<1>11. CASE Scanned(t)
  <2>1. /\ call[t].pc = "scan" /\ cache' = cache
        /\ Goes(t, "ensure") \/ Goes(t, "encode") \/ Answers(t, Final(t))
    BY <1>11, Zenon DEF Scanned
  <2> QED BY <1>5, <1>6, <2>1
<1>12. CASE EncodeQuery(t)
  <2>1. call[t].pc = "encode" /\ cache' = cache /\ \E v : Encoded(t, v)
    BY <1>12, Zenon DEF EncodeQuery
  <2> QED BY <1>6, <2>1
<1>13. CASE EncodeBatch(t)
  <2>1. call[t].pc = "encode" /\ cache' = cache /\ \E v : Encoded(t, v)
    BY <1>13, Zenon DEF EncodeBatch
  <2> QED BY <1>6, <2>1
<1>14. CASE BatchFails(t)
  <2>1. call[t].pc = "encode" /\ cache' = cache /\ \E v : Encoded(t, v) \/ Answers(t, v)
    BY <1>14, Zenon DEF BatchFails
  <2> QED BY <1>6, <2>1
<1>15. CASE Kept(t)
  <2>1. /\ call[t].pc = "keep" /\ cache' = cache
        /\ Goes(t, "encode") \/ Answers(t, Final(t))
    BY <1>15, Zenon DEF Kept
  <2> QED BY <1>5, <1>6, <2>1
<1>16. CASE Touch(t)
  <2>1. CASE InCache(call[t].texts[Len(call[t].out)])
    <3> DEFINE i == Slot(call[t].texts[Len(call[t].out)])
    <3>1. call[t].pc = "touch" /\ Goes(t, "scan") /\ cache' = Touched(i)
      BY <1>16, <2>1, Zenon DEF Touch, MoveToEnd
    <3>2. i \in 1..Len(cache)
      BY <2>1, InCacheNamed
    <3>3. /\ cache' \in Seq(Entries) /\ Len(cache') = Len(cache)
          /\ Distinct(cache') /\ Named(cache') = Named(cache)
      BY <1>1, <3>1, <3>2, TouchedFacts
    <3>4. call'[t].pc = "scan" /\ \A u \in Threads \ {t} : call'[u] = call[u]
      BY <1>1, <3>1, ThreadSteps
    <3>5. CacheBound'
      BY <3>1, <3>3, <3>4, OutsideBound
    <3> QED BY <3>3, <3>5 DEF CacheType, CacheIs
  <2>2. CASE ~InCache(call[t].texts[Len(call[t].out)])
    <3>1. call[t].pc = "touch" /\ Goes(t, "raised") /\ cache' = cache
      BY <1>16, <2>2, Zenon DEF Touch, MoveToEnd
    <3> QED BY <1>5, <3>1
  <2> QED BY <2>1, <2>2
\* A set: a text more, and it is fresh.
<1>17. CASE Keep(t)
  <2>1. CASE CacheSize = 0
    <3>1. call[t].pc = "keep" /\ cache' = cache /\ Fill(t)
      BY <1>17, <2>1, Zenon DEF Keep
    <3> QED BY <1>6, <3>1
  <2>2. CASE CacheSize # 0
    <3> DEFINE v == call[t].made[NextKept(t)]
    <3>1. call[t].pc = "keep" /\ NextKept(t) <= Len(call[t].made) /\ Goes(t, "move")
          /\ cache' = Stored(v)
      BY <1>17, <2>2, Zenon DEF Keep
    <3>2. v \in Vectors
      <4>1. call[t].made \in Seq(Vectors) /\ Len(call[t].made) \in Nat /\ call[t].kept \in Nat
        BY <1>1, CallFields
      <4> QED BY <3>1, <4>1, ElementOfSeq DEF NextKept
    <3>3. /\ cache' \in Seq(Entries) /\ Distinct(cache')
          /\ Named(cache') = Named(cache) \cup {v.of}
          /\ Len(cache') = IF v.of \in Named(cache) THEN Len(cache) ELSE Len(cache) + 1
      BY <1>1, <3>1, <3>2, StoredFacts
    <3>4. /\ call'[t].pc = "move" /\ call'[t].made = call[t].made /\ call'[t].kept = call[t].kept
          /\ \A u \in Threads \ {t} : call'[u] = call[u]
      BY <1>1, <3>1, ThreadSteps
    <3>5. T1 = T
      BY <3>1, <3>4, OthersCount DEF T1, T, Trimming
    <3>6. \A x : Keeps(call', t, x) <=> x = v.of
      BY <3>4 DEF Keeps, NextKept
    <3>7. ~\E x : Keeps(call, t, x)
      BY <3>1 DEF Keeps
    <3> HIDE DEF v
    <3>8. F1 = F \cup {v.of}
      BY <3>3, <3>4, <3>6, <3>7, OthersCount DEF F1, F, Fresh
    <3>9. F \subseteq Named(cache)
      BY DEF F, Fresh
    <3>10. Cardinality(F1) = IF v.of \in F THEN Cardinality(F) ELSE Cardinality(F) + 1
      BY <1>2, <3>8, FS_AddElement
    <3>11. Len(cache') <= CacheSize + Cardinality(T1) + Cardinality(F1)
      BY <1>1, <1>2, <3>3, <3>5, <3>9, <3>10
    <3> QED BY <1>3, <3>3, <3>11 DEF CacheType, CacheIs
  <2> QED BY <2>1, <2>2
<1>18. CASE Move(t)
  <2> DEFINE text == call[t].made[NextKept(t)].of
  <2>1. call[t].pc = "move"
    BY <1>18, Zenon DEF Move
  <2>2. \A x : Keeps(call, t, x) <=> x = text
    BY <2>1 DEF Keeps, NextKept
  <2>3. CASE InCache(text)
    <3> DEFINE i == Slot(text)
    <3>1. Goes(t, "trim") /\ cache' = Touched(i)
      BY <1>18, <2>3, Zenon DEF Move, MoveToEnd
    <3>2. i \in 1..Len(cache)
      BY <2>3, InCacheNamed
    <3>3. /\ cache' \in Seq(Entries) /\ Len(cache') = Len(cache)
          /\ Distinct(cache') /\ Named(cache') = Named(cache)
      BY <1>1, <3>1, <3>2, TouchedFacts
    <3>4. call'[t].pc = "trim" /\ \A u \in Threads \ {t} : call'[u] = call[u]
      BY <1>1, <3>1, ThreadSteps
    <3> HIDE DEF text
    <3>5. T1 = T \cup {t} /\ t \notin T
      BY <2>1, <3>4, OthersCount DEF T1, T, Trimming
    <3>6. F \ {text} \subseteq F1
      BY <2>2, <3>3, <3>4, OthersCount DEF F1, F, Fresh
    <3>7. Cardinality(T1) = Cardinality(T) + 1
      BY <1>2, <3>5, FS_AddElement
    <3>8. Cardinality(F) - 1 <= Cardinality(F1)
      <4>1. /\ IsFiniteSet(F \ {text})
            /\ Cardinality(F \ {text}) = IF text \in F THEN Cardinality(F) - 1 ELSE Cardinality(F)
        BY <1>2, FS_RemoveElement
      <4>2. Cardinality(F \ {text}) <= Cardinality(F1)
        BY <1>2, <3>6, FS_Subset
      <4> QED BY <1>2, <4>1, <4>2
    <3>9. Len(cache') <= CacheSize + Cardinality(T1) + Cardinality(F1)
      BY <1>1, <1>2, <3>3, <3>7, <3>8
    <3> QED BY <1>3, <3>3, <3>9 DEF CacheType, CacheIs
  <2>4. CASE ~InCache(text)
    <3>1. Goes(t, "raised") /\ cache' = cache
      BY <1>18, <2>4, Zenon DEF Move, MoveToEnd
    <3>2. call'[t].pc = "raised" /\ \A u \in Threads \ {t} : call'[u] = call[u]
      BY <1>1, <3>1, ThreadSteps
    <3>3. text \notin Named(cache)
      BY <2>4, InCacheNamed
    <3> HIDE DEF text
    <3>4. T1 = T
      BY <2>1, <3>2, OthersCount DEF T1, T, Trimming
    <3>5. \A x : ~Keeps(call', t, x)
      BY <3>2 DEF Keeps
    <3>6. F1 = F
      BY <2>2, <3>1, <3>2, <3>3, <3>5, OthersCount DEF F1, F, Fresh
    <3> QED BY <1>1, <1>3, <3>1, <3>4, <3>6 DEF CacheType, CacheIs
  <2> QED BY <2>3, <2>4
<1>19. CASE Trim(t)
  <2>1. call[t].pc = "trim" /\ cache' = cache
    BY <1>19, Zenon DEF Trim
  <2>2. CASE Len(cache) > CacheSize
    <3>1. Goes(t, "pop")
      BY <1>19, <2>2, Zenon DEF Trim
    <3>2. call'[t].pc = "pop" /\ \A u \in Threads \ {t} : call'[u] = call[u]
      BY <1>1, <3>1, ThreadSteps
    <3>3. T1 = T
      BY <2>1, <3>2, OthersCount DEF T1, T, Trimming
    <3>4. \A x : ~Keeps(call', t, x) /\ ~Keeps(call, t, x)
      BY <2>1, <3>2 DEF Keeps
    <3>5. F1 = F
      BY <2>1, <3>2, <3>4, OthersCount DEF F1, F, Fresh
    <3> QED BY <1>1, <1>3, <2>1, <3>3, <3>5 DEF CacheType, CacheIs
  <2>3. CASE ~(Len(cache) > CacheSize)
    <3>1. Len(cache') <= CacheSize + Cardinality(T1) + Cardinality(F1)
      BY <1>1, <1>2, <2>1, <2>3
    <3> QED BY <1>1, <1>3, <2>1, <3>1 DEF CacheType, CacheIs
  <2> QED BY <2>2, <2>3
<1>20. CASE Pop(t)
  <2>1. CASE cache = <<>>
    <3>1. cache' = cache /\ Len(cache) = 0
      BY <1>20, <2>1, Zenon, EmptySeq DEF Pop
    <3>2. Len(cache') <= CacheSize + Cardinality(T1) + Cardinality(F1)
      BY <1>1, <1>2, <3>1
    <3> QED BY <1>1, <1>3, <3>1, <3>2 DEF CacheType, CacheIs
  <2>2. CASE cache # <<>>
    <3> DEFINE text == cache[1].text
    <3>1. call[t].pc = "pop" /\ Goes(t, "trim") /\ cache' = Tail(cache)
      BY <1>20, <2>2, Zenon DEF Pop
    <3>2. /\ cache' \in Seq(Entries) /\ Distinct(cache') /\ Len(cache') = Len(cache) - 1
          /\ Named(cache) \ {text} \subseteq Named(cache')
      BY <1>1, <2>2, <3>1, TailFacts
    <3>3. call'[t].pc = "trim" /\ \A u \in Threads \ {t} : call'[u] = call[u]
      BY <1>1, <3>1, ThreadSteps
    <3> HIDE DEF text
    <3>4. T1 = T
      BY <3>1, <3>3, OthersCount DEF T1, T, Trimming
    <3>5. \A x : ~Keeps(call, t, x)
      BY <3>1 DEF Keeps
    <3>6. F \ {text} \subseteq F1
      BY <3>2, <3>3, <3>5, OthersCount DEF F1, F, Fresh
    <3>7. Cardinality(F) - 1 <= Cardinality(F1)
      <4>1. /\ IsFiniteSet(F \ {text})
            /\ Cardinality(F \ {text}) = IF text \in F THEN Cardinality(F) - 1 ELSE Cardinality(F)
        BY <1>2, FS_RemoveElement
      <4>2. Cardinality(F \ {text}) <= Cardinality(F1)
        BY <1>2, <3>6, FS_Subset
      <4> QED BY <1>2, <4>1, <4>2
    <3>8. Len(cache') <= CacheSize + Cardinality(T1) + Cardinality(F1)
      BY <1>1, <1>2, <3>2, <3>4, <3>7
    <3> QED BY <1>3, <3>2, <3>8 DEF CacheType, CacheIs
  <2> QED BY <2>1, <2>2
<1> QED BY <1>7, <1>8, <1>9, <1>10, <1>11, <1>12, <1>13, <1>14, <1>15, <1>16, <1>17,
       <1>18, <1>19, <1>20, Zenon DEF EmbedderStep

-----------------------------------------------------------------------------
(* The steps of the ingester. *)

LEMMA SentenceFacts ==
    ASSUME NEW d \in Documents
    PROVE  /\ EndsOf(Sentences(d)) \subseteq 1..Len(d.text)
           /\ Len(d.text) \in EndsOf(Sentences(d))
           /\ Sentences(d) \in Seq(Spans) /\ Within(Sentences(d), Len(d.text))
<1> DEFINE N == Len(d.text)
           ends == d.sentenceEnds
           n == Len(ends)
           c == Sentences(d)
<1>1. /\ N \in Nat /\ ends \in Seq(1..N) /\ n \in Nat \ {0} /\ ends[n] = N
      /\ DOMAIN ends = 1..n
  BY DocumentFacts, LenProperties
<1> HIDE DEF ends, n, N
<1>2. \A i \in 1..n : ends[i] \in 1..N
  BY <1>1, ElementOfSeq DEF n
<1>3. c = [i \in 1..n |-> Span(IF i = 1 THEN 0 ELSE ends[i - 1], ends[i])]
  BY <1>1, Zenon DEF Sentences, ends
<1>4. \A i \in 1..n : Span(IF i = 1 THEN 0 ELSE ends[i - 1], ends[i]) \in Spans
  <2> SUFFICES ASSUME NEW i \in 1..n
               PROVE  Span(IF i = 1 THEN 0 ELSE ends[i - 1], ends[i]) \in Spans
    OBVIOUS
  <2>1. i # 1 => i - 1 \in 1..n
    BY <1>1
  <2>2. (IF i = 1 THEN 0 ELSE ends[i - 1]) \in Nat /\ ends[i] \in Nat
    BY <1>1, <1>2, <2>1
  <2> QED BY <2>2 DEF Span, Spans
<1>5. c \in [1..n -> Spans] /\ \A i \in 1..n : c[i].to = ends[i]
  BY <1>3, <1>4 DEF Span
<1> HIDE DEF c
<1>6. c \in Seq(Spans) /\ Len(c) = n /\ DOMAIN c = 1..n
  BY <1>1, <1>5, FunctionSeq
<1>7. Within(c, N)
  BY <1>1, <1>2, <1>5, <1>6 DEF Within
<1>8. EndsOf(c) \subseteq 1..N /\ N \in EndsOf(c)
  BY <1>1, <1>2, <1>5, <1>6 DEF EndsOf
<1> QED BY <1>6, <1>7, <1>8 DEF c, N

\* The texts of spans within a document.
LEMMA SpanTexts ==
    ASSUME NEW d \in Documents, NEW c \in Seq(Spans), Within(c, Len(d.text))
    PROVE  [i \in DOMAIN c |-> TextOf(d, c[i])] \in Seq(Texts)
<1> DEFINE n == Len(c)
           f == [i \in DOMAIN c |-> TextOf(d, c[i])]
<1>1. n \in Nat /\ DOMAIN c = 1..n
  BY LenProperties
<1>2. ASSUME NEW i \in 1..n PROVE TextOf(d, c[i]) \in Texts
  <2>1. /\ c[i] \in Spans /\ c[i].from \in Nat /\ c[i].to \in Nat
        /\ c[i].to <= Len(d.text)
    <3>1. c[i] \in Spans
      BY ElementOfSeq
    <3> QED BY <3>1 DEF Spans, Within
  <2>2. d.text \in Seq(Symbols) /\ Len(d.text) \in Nat
    BY DocumentFacts
  <2>3. \A k \in (c[i].from + 1)..c[i].to : d.text[k] \in Symbols
    BY <2>1, <2>2, ElementOfSeq
  <2>4. SubSeq(d.text, c[i].from + 1, c[i].to) \in Seq(Symbols)
    <3>1. c[i].from + 1 \in Int /\ c[i].to \in Int
      BY <2>1
    <3> QED BY <2>3, <3>1, SubSeqProperties
  <2> QED BY <2>4 DEF TextOf, Texts
<1>3. f \in [1..n -> Texts]
  BY <1>1, <1>2
<1> HIDE DEF f
<1>4. f \in Seq(Texts)
  BY <1>1, <1>3, FunctionSeq
<1> QED BY <1>4 DEF f

LEMMA JobFacts ==
    ASSUME job \in Jobs, JobOK(job), job.pc # "idle"
    PROVE  /\ job.doc \in Documents /\ Len(job.doc.text) \in Nat \ {0}
           /\ job.chunks \in Seq(Spans) /\ job.merged \in Seq(Spans)
           /\ Len(job.chunks) \in Nat /\ Len(job.merged) \in Nat
<1>1. job.doc \in Documents
  BY DEF JobOK, Before, InBlocks, InWindows, InMerge, Done, Ends, Jobs, JobPcs
<1>2. /\ job.chunks \in Seq(Spans) /\ job.merged \in Seq(Spans)
      /\ Len(job.chunks) \in Nat /\ Len(job.merged) \in Nat
  BY LenProperties DEF Jobs
<1> QED BY <1>1, <1>2, DocumentFacts

\* The ends of blocks that the modes take.
LEMMA CutsStep ==
    ASSUME job \in Jobs, JobOK(job), JobWithin(job),
           job.pc \in {"start", "embedding"},
           NEW mode \in Modes, NEW ends \in SUBSET (1..Len(job.doc.text)),
           Len(job.doc.text) \in ends, Cuts(mode, ends)
    PROVE  job' \in Jobs /\ JobOK(job') /\ JobWithin(job')
<1>1. Before(job)
  BY DEF JobOK
<1>2. job' = [job EXCEPT !.pc = "blocks", !.mode = mode, !.ends = ends]
  BY DEF Cuts
<1>3. job' \in Jobs /\ JobOK(job')
  BY <1>1, <1>2, BlocksStart
<1>4. job'.chunks = job.chunks /\ job'.merged = job.merged /\ job'.doc = job.doc
  BY <1>2 DEF Jobs
<1> QED BY <1>3, <1>4 DEF JobWithin

JobInv == job \in Jobs /\ JobOK(job) /\ JobWithin(job)

\* The steps of a job that embed nothing.
LEMMA JobStep ==
    ASSUME JobInv,
           \/ \E d \in Documents, mode \in Modes : Start(d, mode)
           \/ Blocks \/ Similarities \/ NoSimilarities \/ NextBlock \/ Window \/ Cut
           \/ Merge \/ Merged \/ Upserted
    PROVE  JobInv'
<1> DEFINE N == Len(job.doc.text)
           All == job' \in Jobs /\ JobOK(job') /\ JobWithin(job')
<1> SUFFICES All
  BY DEF JobInv
<1>1. job \in Jobs /\ JobOK(job) /\ JobWithin(job)
  BY DEF JobInv
<1>2. ASSUME job'.chunks = job.chunks, job'.merged = job.merged, job'.doc = job.doc
      PROVE  JobWithin(job')
  BY <1>1, <1>2 DEF JobWithin
<1>3. CASE \E d \in Documents, mode \in Modes : Start(d, mode)
  <2>1. PICK d \in Documents, mode \in Modes : Start(d, mode)
    BY <1>3
  <2>2. PICK pc \in {"sentences", "start"} :
            job' = [NoJob EXCEPT !.doc = d, !.mode = mode, !.pc = pc]
    BY <2>1, Zenon DEF Start
  <2>3. /\ job'.pc = pc /\ job'.doc = d /\ job'.mode = mode /\ job'.ends = {}
        /\ job'.from = 0 /\ job'.to = 0 /\ job'.at = 0 /\ job'.chunks = <<>>
        /\ job'.merged = <<>> /\ job'.next = 1
    BY <2>2 DEF NoJob
  <2>4. job' \in Jobs
    <3>1. <<>> \in Seq(Spans)
      BY EmptySeq
    <3> QED BY <2>2, <3>1 DEF NoJob, Jobs, JobPcs
  <2>5. JobOK(job')
    BY <2>3 DEF JobOK, Before
  <2>6. JobWithin(job')
    BY <2>3 DEF JobWithin, Within
  <2> QED BY <2>4, <2>5, <2>6
<1>4. CASE Blocks
  <2>1. job.pc = "start" /\ job.doc \in Documents /\ N \in Nat \ {0}
    BY <1>1, <1>4, JobFacts DEF Blocks
  <2>2. \/ Cuts("sentence", EndsOf(Sentences(job.doc)))
        \/ Cuts("code", (job.doc.defs \ {0}) \cup {N})
        \/ Cuts("char", {N})
    BY <1>4 DEF Blocks
  <2>3. /\ EndsOf(Sentences(job.doc)) \subseteq 1..N /\ N \in EndsOf(Sentences(job.doc))
        /\ (job.doc.defs \ {0}) \cup {N} \subseteq 1..N /\ {N} \subseteq 1..N
    BY <2>1, SentenceFacts, DocumentFacts
  <2> HIDE DEF N
  <2> QED BY <1>1, <2>1, <2>2, <2>3, CutsStep DEF Modes, N
<1>5. CASE Similarities \/ NoSimilarities
  <2>1. job.pc = "embedding" /\ job.doc \in Documents /\ N \in Nat \ {0}
    BY <1>1, <1>5, JobFacts DEF Similarities, NoSimilarities
  <2>2. EndsOf(Sentences(job.doc)) \subseteq 1..N /\ N \in EndsOf(Sentences(job.doc))
    BY <2>1, SentenceFacts
  <2>3. PICK mode \in Modes, ends \in SUBSET (1..N) : N \in ends /\ Cuts(mode, ends)
    <3>1. CASE Similarities
      <4>1. PICK splits \in SUBSET (EndsOf(Sentences(job.doc)) \ {N}) :
                Cuts("semantic", splits \cup {N})
        BY <3>1 DEF Similarities
      <4>2. splits \cup {N} \in SUBSET (1..N) /\ N \in splits \cup {N}
        BY <2>1, <2>2
      <4> QED BY <4>1, <4>2 DEF Modes
    <3>2. CASE NoSimilarities
      BY <2>2, <3>2 DEF NoSimilarities, Modes
    <3> QED BY <1>5, <3>1, <3>2
  <2> QED BY <1>1, <2>1, <2>3, CutsStep
<1>6. CASE NextBlock
  <2>1. job.pc = "blocks" /\ InBlocks(job) /\ job.from < N
    BY <1>1, <1>6 DEF NextBlock, JobOK
  <2>2. PICK to \in job.ends :
          /\ IsBlock(job.from, to)
          /\ job' = IF LeftOut(job.from, to) THEN [job EXCEPT !.from = to]
                    ELSE [job EXCEPT !.pc = "windows", !.to = to, !.at = job.from]
    BY <1>6, Zenon DEF NextBlock
  <2>3. Block(job.mode, job.ends, job.from, to)
    BY <2>2, SameOperators
  <2>4. CASE LeftOut(job.from, to)
    <3>1. Left(job.doc, job.mode, job.from, to) /\ job' = [job EXCEPT !.from = to]
      BY <2>2, <2>4, SameOperators
    <3>2. job' \in Jobs /\ JobOK(job')
      BY <1>1, <2>1, <2>3, <3>1, BlockLeftOut
    <3>3. JobWithin(job')
      BY <1>1, <1>2, <3>1 DEF Jobs
    <3> QED BY <3>2, <3>3
  <2>5. CASE ~LeftOut(job.from, to)
    <3>1. /\ ~Left(job.doc, job.mode, job.from, to)
          /\ job' = [job EXCEPT !.pc = "windows", !.to = to, !.at = job.from]
      BY <2>2, <2>5, SameOperators
    <3>2. job' \in Jobs /\ JobOK(job')
      BY <1>1, <2>1, <2>3, <3>1, BlockTaken
    <3>3. JobWithin(job')
      BY <1>1, <1>2, <3>1 DEF Jobs
    <3> QED BY <3>2, <3>3
  <2> QED BY <2>4, <2>5
<1>7. CASE Window
  <2> DEFINE end == IF job.at + MaxChars <= job.to THEN job.at + MaxChars ELSE job.to
             chunks == Append(job.chunks, Span(job.at, end))
  <2>1. job.pc = "windows" /\ InWindows(job)
    BY <1>1, <1>7 DEF Window, JobOK
  <2>2. job' = IF end = job.to
               THEN [job EXCEPT !.chunks = chunks, !.pc = "blocks", !.from = end]
               ELSE [job EXCEPT !.chunks = chunks, !.at = end - Overlap]
    BY <1>7, Zenon DEF Window
  <2>3. job' \in Jobs /\ JobOK(job')
    <3> HIDE DEF end, chunks
    <3>1. end = IF job.at + MaxChars <= job.to THEN job.at + MaxChars ELSE job.to
      BY DEF end
    <3>2. chunks = Append(job.chunks, Span(job.at, end))
      BY DEF chunks
    <3> QED BY <1>1, <2>1, <2>2, <3>1, <3>2, WindowStep
  <2>4. /\ job.chunks \in Seq(Spans) /\ Len(job.chunks) \in Nat
        /\ N \in Nat /\ job.to \in 1..N /\ job.at \in Nat
    BY <1>1, <2>1, JobFacts DEF InWindows, Ends, Jobs
  <2>5. end \in Nat /\ end <= N
    BY <2>4, WindowAssumption
  <2>6. Span(job.at, end) \in Spans /\ Span(job.at, end).to = end
    <3> HIDE DEF end
    <3> QED BY <2>4, <2>5 DEF Span, Spans
  <2> HIDE DEF end
  <2>7. /\ Len(chunks) = Len(job.chunks) + 1 /\ chunks[Len(job.chunks) + 1] = Span(job.at, end)
        /\ \A i \in 1..Len(job.chunks) : chunks[i] = job.chunks[i]
    BY <2>4, <2>6, AppendProperties
  <2> HIDE DEF chunks
  <2>8. job'.chunks = chunks /\ job'.merged = job.merged /\ job'.doc = job.doc
    BY <1>1, <2>2 DEF Jobs
  <2>9. Within(chunks, N)
    <3>1. \A i \in 1..Len(chunks) : i = Len(job.chunks) + 1 \/ i \in 1..Len(job.chunks)
      BY <2>4, <2>7
    <3> QED BY <1>1, <2>5, <2>6, <2>7, <3>1 DEF JobWithin, Within
  <2>10. JobWithin(job')
    BY <1>1, <2>8, <2>9 DEF JobWithin
  <2> QED BY <2>3, <2>10
<1>8. CASE Cut
  <2>1. job.pc = "blocks" /\ InBlocks(job) /\ job.from = N
    BY <1>1, <1>8 DEF Cut, JobOK
  <2>2. PICK pc \in {"merge", "chunked"} : job' = [job EXCEPT !.pc = pc]
    BY <1>8 DEF Cut
  <2>3. job' \in Jobs /\ JobOK(job')
    BY <1>1, <2>1, <2>2, CutStep
  <2>4. JobWithin(job')
    BY <1>1, <1>2, <2>2 DEF Jobs
  <2> QED BY <2>3, <2>4
<1>9. CASE Merge
  <2> DEFINE m == job.merged
             s == job.chunks[job.next]
             new == Joined(m, s)
  <2>1. job.pc = "merge" /\ InMerge(job) /\ job.next <= Len(job.chunks)
    BY <1>1, <1>9 DEF Merge, JobOK
  <2>2. job' = [job EXCEPT !.merged = Joined(job.merged, job.chunks[job.next]),
                           !.next = job.next + 1]
    BY <1>9 DEF Merge
  <2>3. job' \in Jobs /\ JobOK(job')
    BY <1>1, <2>1, <2>2, MergeStep
  <2>4. job'.merged = new /\ job'.chunks = job.chunks /\ job'.doc = job.doc
    BY <1>1, <2>2 DEF Jobs
  <2>5. /\ m \in Seq(Spans) /\ Len(m) \in Nat /\ job.next \in 1..Len(job.chunks)
        /\ s \in Spans /\ s.to <= N
    <3>1. job.next \in 1..Len(job.chunks)
      BY <1>1, <2>1 DEF InMerge
    <3>2. job.chunks \in Seq(Spans) /\ m \in Seq(Spans) /\ Len(m) \in Nat
      BY <1>1, <2>1, JobFacts
    <3> QED BY <1>1, <3>1, <3>2, ElementOfSeq DEF JobWithin, Within
  <2> HIDE DEF s, m
  <2>6. Within(m, N)
    BY <1>1 DEF JobWithin, m
  <2>7. CASE new = Append(m, s)
    <3>1. /\ Len(new) = Len(m) + 1 /\ new[Len(m) + 1] = s
          /\ \A i \in 1..Len(m) : new[i] = m[i]
      BY <2>5, <2>7, AppendProperties
    <3>2. \A i \in 1..Len(new) : i = Len(m) + 1 \/ i \in 1..Len(m)
      BY <2>5, <3>1
    <3> HIDE DEF new
    <3>3. Within(new, N)
      BY <2>5, <2>6, <3>1, <3>2 DEF Within
    <3> QED BY <1>1, <2>3, <2>4, <3>3 DEF JobWithin
  <2>8. CASE new # Append(m, s)
    <3> DEFINE last == Span(m[Len(m)].from, s.to)
    <3>1. Len(m) > 0 /\ new = [m EXCEPT ![Len(m)] = last]
      BY <2>8, Zenon DEF Joined
    <3>2. Len(m) \in 1..Len(m) /\ m[Len(m)] \in Spans
      BY <2>5, <3>1, ElementOfSeq
    <3>3. last \in Spans /\ last.to = s.to
      BY <2>5, <3>2 DEF Span, Spans
    <3> HIDE DEF last
    <3>4. /\ Len(new) = Len(m)
          /\ \A i \in 1..Len(m) : new[i] = IF i = Len(m) THEN last ELSE m[i]
      BY <2>5, <3>1, <3>2, <3>3, ExceptSeq
    <3> HIDE DEF new
    <3>5. Within(new, N)
      BY <2>5, <2>6, <3>3, <3>4 DEF Within
    <3> QED BY <1>1, <2>3, <2>4, <3>5 DEF JobWithin
  <2> QED BY <2>3, <2>7, <2>8, <2>4
<1>10. CASE Merged
  <2>1. job.pc = "merge" /\ InMerge(job) /\ job.next > Len(job.chunks)
    BY <1>1, <1>10 DEF Merged, JobOK
  <2>2. job' = [job EXCEPT !.pc = "chunked", !.chunks = job.merged]
    BY <1>10 DEF Merged
  <2>3. job' \in Jobs /\ JobOK(job')
    BY <1>1, <2>1, <2>2, MergedStep
  <2>4. job'.merged = job.merged /\ job'.chunks = job.merged /\ job'.doc = job.doc
    BY <1>1, <2>2 DEF Jobs
  <2> QED BY <1>1, <2>3, <2>4 DEF JobWithin
<1>11. CASE Upserted
  <2>1. job.pc = "upserting" /\ Done(job)
    BY <1>1, <1>11 DEF Upserted, JobOK
  <2>2. PICK pc \in {"failed", "stored"} : job' = [job EXCEPT !.pc = pc]
    BY <1>11 DEF Upserted
  <2>3. /\ job'.pc = pc /\ job'.doc = job.doc /\ job'.mode = job.mode /\ job'.ends = job.ends
        /\ job'.chunks = job.chunks /\ job'.merged = job.merged
    BY <1>1, <2>2 DEF Jobs
  <2>4. job' \in Jobs
    BY <1>1, <2>2 DEF Jobs, JobPcs
  <2>5. Done(job')
    BY <2>1, <2>3 DEF Done, Ends
  <2> QED BY <1>2, <2>3, <2>4, <2>5 DEF JobOK
<1> QED BY <1>3, <1>4, <1>5, <1>6, <1>7, <1>8, <1>9, <1>10, <1>11

\* The two steps that call the embedder.
LEMMA EmbedStep ==
    ASSUME JobInv, CallInv, CacheType, CacheIs, CacheBound, Ingester \in Threads,
           EmbedSentences \/ EmbedChunks
    PROVE  JobInv' /\ CallInv' /\ CacheType' /\ CacheIs' /\ CacheBound'
<1>1. job \in Jobs /\ JobOK(job) /\ JobWithin(job)
  BY DEF JobInv
<1>2. ASSUME NEW texts \in Seq(Texts), Calls(Ingester, "texts", texts), cache' = cache
      PROVE  CallInv' /\ CacheType' /\ CacheIs' /\ CacheBound'
  <2>1. CallInv'
    BY <1>2, CallsStep
  <2>2. call[Ingester].pc \in {"idle", "answered", "raised"}
    BY <1>2, Zenon DEF Calls
  <2>3. /\ call'[Ingester].pc \in {"scan", "ensure"}
        /\ \A u \in Threads \ {Ingester} : call'[u] = call[u]
    BY <1>2, ThreadSteps DEF CallInv
  <2>4. CacheBound'
    BY <1>2, <2>2, <2>3, OutsideBound
  <2> QED BY <1>2, <2>1, <2>4 DEF CacheType, CacheIs
<1>3. ASSUME NEW pc \in {"embedding", "upserting", "stored"},
             job' = [job EXCEPT !.pc = pc],
             \/ job.pc = "sentences" /\ pc = "embedding"
             \/ job.pc = "chunked" /\ pc \in {"upserting", "stored"}
      PROVE  JobInv'
  <2>1. /\ job'.pc = pc /\ job'.doc = job.doc /\ job'.mode = job.mode /\ job'.ends = job.ends
        /\ job'.chunks = job.chunks /\ job'.merged = job.merged
        /\ job'.from = job.from /\ job'.next = job.next
    BY <1>1, <1>3 DEF Jobs
  <2>2. job' \in Jobs
    BY <1>1, <1>3 DEF Jobs, JobPcs
  <2>3. JobWithin(job')
    BY <1>1, <2>1 DEF JobWithin
  <2>4. CASE job.pc = "sentences" /\ pc = "embedding"
    <3>1. Before(job')
      BY <1>1, <2>1, <2>4 DEF JobOK, Before
    <3> QED BY <2>1, <2>2, <2>3, <2>4, <3>1 DEF JobOK, JobInv
  <2>5. CASE job.pc = "chunked" /\ pc \in {"upserting", "stored"}
    <3>1. Done(job')
      BY <1>1, <2>1, <2>5 DEF JobOK, Done, Ends
    <3> QED BY <2>1, <2>2, <2>3, <2>5, <3>1 DEF JobOK, JobInv
  <2> QED BY <1>3, <2>4, <2>5
<1>4. CASE EmbedSentences
  <2> DEFINE s == Sentences(job.doc)
  <2>1. /\ job.pc = "sentences" /\ cache' = cache /\ job' = [job EXCEPT !.pc = "embedding"]
        /\ Calls(Ingester, "texts", [i \in DOMAIN s |-> TextOf(job.doc, s[i])])
    BY <1>4, Zenon DEF EmbedSentences
  <2>2. job.doc \in Documents
    BY <1>1, <2>1, JobFacts
  <2>3. [i \in DOMAIN s |-> TextOf(job.doc, s[i])] \in Seq(Texts)
    BY <2>2, SentenceFacts, SpanTexts
  <2> HIDE DEF s
  <2> QED BY <1>2, <1>3, <2>1, <2>3
<1>5. CASE EmbedChunks
  <2>1. job.pc = "chunked" /\ cache' = cache
    BY <1>5, Zenon DEF EmbedChunks
  <2>2. CASE job.chunks = <<>>
    <3>1. job' = [job EXCEPT !.pc = "stored"] /\ call' = call
      BY <1>5, <2>2, Zenon DEF EmbedChunks
    <3>2. CallInv' /\ CacheType' /\ CacheIs' /\ CacheBound'
      BY <2>1, <3>1 DEF CallInv, CallsOK, CacheType, CacheIs, CacheBound
    <3> QED BY <1>3, <2>1, <3>1, <3>2
  <2>3. CASE job.chunks # <<>>
    <3> DEFINE texts == [i \in DOMAIN job.chunks |-> TextOf(job.doc, job.chunks[i])]
    <3>1. Calls(Ingester, "texts", texts) /\ job' = [job EXCEPT !.pc = "upserting"]
      BY <1>5, <2>3, Zenon DEF EmbedChunks
    <3>2. job.doc \in Documents /\ job.chunks \in Seq(Spans)
      BY <1>1, <2>1, JobFacts
    <3>3. texts \in Seq(Texts)
      BY <1>1, <3>2, SpanTexts DEF JobWithin
    <3> HIDE DEF texts
    <3> QED BY <1>2, <1>3, <2>1, <3>1, <3>3
  <2> QED BY <2>2, <2>3
<1> QED BY <1>4, <1>5

-----------------------------------------------------------------------------
(* The invariant. *)

LEMMA InitInvariant == Init => IInv
<1> SUFFICES ASSUME Init PROVE IInv
  OBVIOUS
<1>1. /\ call = [t \in Threads |-> NoCall] /\ job = NoJob /\ queries = 0
      /\ LocalInit \/ RemoteInit
      /\ \/ cache = <<>>
         \/ cache = [i \in DOMAIN Earlier |-> Entry(By(Earlier[i], "fallback"))]
  BY DEF Init, EmbedderInit
<1>2. \A S : <<>> \in Seq(S)
  BY EmptySeq
<1>3. NoCall \in CallSet
  BY <1>2 DEF NoCall, CallSet, Pcs
<1>4. CallOK(NoCall)
  BY DEF NoCall, CallOK, CallHolds, CallAt
<1>5. call \in [Threads -> CallSet] /\ CallsOK
  BY <1>1, <1>3, <1>4 DEF CallsOK
<1>6. job \in Jobs /\ JobOK(job) /\ JobWithin(job)
  <2>1. job \in Jobs
    BY <1>1, <1>2 DEF NoJob, Jobs, JobPcs, Modes
  <2>2. /\ job.pc = "idle" /\ job.from = 0 /\ job.chunks = <<>> /\ job.merged = <<>>
        /\ job.next = 1
    BY <1>1 DEF NoJob
  <2>3. JobOK(job)
    BY <2>2 DEF JobOK, Before
  <2>4. JobWithin(job)
    BY <2>2 DEF JobWithin, Within
  <2> QED BY <2>1, <2>3, <2>4
<1>7. CacheType /\ CacheIs /\ Len(cache) <= CacheSize
  <2>1. CASE cache = <<>>
    BY <1>2, <2>1, EmbedderAssumption DEF CacheType, CacheIs, Distinct
  <2>2. CASE cache = [i \in DOMAIN Earlier |-> Entry(By(Earlier[i], "fallback"))]
    <3> DEFINE n == Len(Earlier)
    <3>1. /\ Earlier \in Seq(Texts) /\ n \in Nat /\ n <= CacheSize /\ DOMAIN Earlier = 1..n
          /\ \A i \in 1..n : Earlier[i] \in Texts
          /\ \A i, j \in 1..n : Earlier[i] = Earlier[j] => i = j
      BY EmbedderAssumption, LenProperties, ElementOfSeq
    <3> HIDE DEF n
    <3>2. /\ cache \in [1..n -> Entries]
          /\ \A i \in 1..n : cache[i].text = Earlier[i] /\ cache[i].vector.of = Earlier[i]
      BY <2>2, <3>1 DEF Entry, By, Entries, Vectors
    <3>3. cache \in Seq(Entries) /\ Len(cache) = n
      BY <3>1, <3>2, FunctionSeq
    <3>4. CacheIs
      BY <3>1, <3>2, <3>3 DEF CacheIs, Distinct
    <3> QED BY <3>1, <3>3, <3>4 DEF CacheType
  <2> QED BY <1>1, <2>1, <2>2
<1>8. CacheBound
  <2>1. Len(cache) \in Nat /\ CacheSize \in Nat
    BY <1>7, InCacheNamed, EmbedderAssumption
  <2>2. /\ Cardinality(Trimming(call)) \in Nat /\ Cardinality(Fresh(call, cache)) \in Nat
    BY BoundSets
  <2> QED BY <1>7, <2>1, <2>2 DEF CacheBound, Bound
<1>9. /\ provider \in {"local", "remote"} /\ initialized \in BOOLEAN /\ model \in BOOLEAN
      /\ queries \in Nat
  BY <1>1 DEF LocalInit, RemoteInit
<1> QED BY <1>5, <1>6, <1>7, <1>8, <1>9 DEF IInv, TypeOK

\* The flags of the embedder.
LEMMA FlagsStep ==
    ASSUME NEW t \in Threads, EmbedderStep(t),
           provider \in {"local", "remote"}, initialized \in BOOLEAN, model \in BOOLEAN
    PROVE  provider' \in {"local", "remote"} /\ initialized' \in BOOLEAN /\ model' \in BOOLEAN
BY DEF EmbedderStep, EnsureModel, LoadModel, Ensured, Lookup, Touch, MoveToEnd, Scanned,
       EncodeQuery, EncodeBatch, BatchFails, Keep, Move, Trim, Pop, Kept

\* Every step keeps the invariant.
LEMMA NextInvariant == IInv /\ [Next]_vars => IInv'
<1> SUFFICES ASSUME IInv, [Next]_vars PROVE IInv'
  OBVIOUS
<1>1. /\ CallInv /\ CacheType /\ CacheIs /\ CacheBound /\ JobInv
      /\ provider \in {"local", "remote"} /\ initialized \in BOOLEAN /\ model \in BOOLEAN
      /\ queries \in Nat
  BY DEF IInv, TypeOK, CallInv, JobInv
<1>2. ASSUME CallInv', CacheType', CacheIs', CacheBound', JobInv', queries' \in Nat,
             provider' \in {"local", "remote"}, initialized' \in BOOLEAN, model' \in BOOLEAN
      PROVE  IInv'
  BY <1>2 DEF IInv, TypeOK, CallInv, JobInv
<1>3. Ingester \in Threads /\ Server \in Threads
  BY WindowAssumption
<1>4. ASSUME UNCHANGED embedderVars
      PROVE  /\ CallInv' /\ CacheType' /\ CacheIs' /\ CacheBound'
             /\ provider' \in {"local", "remote"} /\ initialized' \in BOOLEAN
             /\ model' \in BOOLEAN
  BY <1>1, <1>4 DEF embedderVars, CallInv, CallsOK, CacheType, CacheIs, CacheBound
<1>5. ASSUME UNCHANGED job PROVE JobInv'
  BY <1>1, <1>5 DEF JobInv
<1>6. CASE \/ \E d \in Documents, mode \in Modes : Start(d, mode)
           \/ Blocks \/ Similarities \/ NoSimilarities \/ NextBlock \/ Window \/ Cut
           \/ Merge \/ Merged \/ Upserted
  <2>1. UNCHANGED <<embedderVars, queries>>
    BY <1>6 DEF Start, Blocks, Similarities, NoSimilarities, NextBlock, Window, Cut, Merge,
            Merged, Upserted
  <2>2. JobInv'
    BY <1>1, <1>6, JobStep
  <2> QED BY <1>1, <1>2, <1>4, <2>1, <2>2
<1>7. CASE EmbedSentences \/ EmbedChunks
  <2>1. UNCHANGED <<provider, initialized, model, queries>>
    BY <1>7 DEF EmbedSentences, EmbedChunks
  <2>2. JobInv' /\ CallInv' /\ CacheType' /\ CacheIs' /\ CacheBound'
    BY <1>1, <1>3, <1>7, EmbedStep
  <2> QED BY <1>1, <1>2, <2>1, <2>2
<1>8. ASSUME NEW t \in Threads, EmbedderStep(t), UNCHANGED <<job, queries>> PROVE IInv'
  <2>1. CallInv'
    BY <1>1, <1>8, CallSteps
  <2>2. CacheType' /\ CacheIs' /\ CacheBound'
    BY <1>1, <1>8, CacheStep
  <2>3. provider' \in {"local", "remote"} /\ initialized' \in BOOLEAN /\ model' \in BOOLEAN
    BY <1>1, <1>8, FlagsStep
  <2> QED BY <1>1, <1>2, <1>5, <1>8, <2>1, <2>2, <2>3
<1>9. ASSUME NEW q \in Queries, Query(q) PROVE IInv'
  <2>1. /\ queries' = queries + 1 /\ Calls(Server, "query", <<q>>)
        /\ UNCHANGED <<provider, initialized, model, cache, job>>
    BY <1>9, Zenon DEF Query
  <2>2. <<q>> \in Seq(Texts) /\ Len(<<q>>) = 1
    BY QueryAssumption
  <2>3. CallInv'
    BY <1>1, <1>3, <2>1, <2>2, CallsStep
  <2>4. call[Server].pc \in {"idle", "answered", "raised"}
    BY <2>1, Zenon DEF Calls
  <2>5. /\ call'[Server].pc \in {"scan", "ensure"}
        /\ \A u \in Threads \ {Server} : call'[u] = call[u]
    BY <1>1, <1>3, <2>1, ThreadSteps DEF CallInv
  <2>6. CacheBound'
    BY <1>1, <1>3, <2>1, <2>4, <2>5, OutsideBound
  <2>7. CacheType' /\ CacheIs'
    BY <1>1, <2>1 DEF CacheType, CacheIs
  <2> QED BY <1>1, <1>2, <1>5, <2>1, <2>3, <2>6, <2>7
<1>10. CASE UNCHANGED vars
  BY <1>1, <1>2, <1>4, <1>5, <1>10 DEF vars
<1> QED BY <1>3, <1>6, <1>7, <1>8, <1>9, <1>10, Zenon DEF Next, IngesterStep, Modes

\* The types, calls, cache and chunks as described, in every reachable state
\* (embeddings.py, chunking.py).
THEOREM ChunkingInvariant == Spec => []IInv
<1>1. Init => IInv
  BY InitInvariant
<1>2. IInv /\ [Next]_vars => IInv'
  BY NextInvariant
<1> QED BY <1>1, <1>2, PTL DEF Spec

LEMMA InvariantOwnVectors == IInv => OwnVectors
<1> SUFFICES ASSUME IInv PROVE OwnVectors
  OBVIOUS
<1> DEFINE inSet == {t \in Threads : call[t].pc \in {"move", "trim", "pop"}}
<1>1. /\ call \in [Threads -> CallSet] /\ CallsOK /\ CacheType /\ Distinct(cache)
      /\ Len(cache) <= CacheSize + Cardinality(Trimming(call)) + Cardinality(Fresh(call, cache))
  BY DEF IInv, TypeOK, CacheIs, CacheBound, Bound
<1>2. ASSUME NEW t \in Threads, call[t].pc = "answered"
      PROVE  /\ Len(call[t].out) = Len(call[t].texts)
             /\ \A i \in DOMAIN call[t].out : call[t].out[i].of = call[t].texts[i]
  <2>1. CallAt(call[t]) /\ DOMAIN call[t].out = 1..Len(call[t].out)
    BY <1>1, CallFields DEF CallsOK, CallOK
  <2> QED BY <1>2, <2>1 DEF CallAt
<1>3. \A i, j \in DOMAIN cache :
         cache[i].vector.of = cache[i].text /\ (cache[i].text = cache[j].text => i = j)
  BY <1>1, InCacheNamed DEF Distinct
<1>4. inSet = {t \in Threads : InSet(t)}
  BY DEF InSet
<1>5. Len(cache) <= CacheSize + Cardinality({t \in Threads : InSet(t)})
  <2>1. /\ Cardinality(Trimming(call)) \in Nat /\ Cardinality(Fresh(call, cache)) \in Nat
        /\ Cardinality(inSet) \in Nat
        /\ Cardinality(Trimming(call)) + Cardinality(Fresh(call, cache)) <= Cardinality(inSet)
    BY BoundSets
  <2>2. Len(cache) \in Nat /\ CacheSize \in Nat
    BY <1>1, InCacheNamed, EmbedderAssumption
  <2> HIDE DEF inSet
  <2>3. Len(cache) <= CacheSize + Cardinality(inSet)
    BY <1>1, <2>1, <2>2
  <2> QED BY <1>4, <2>3
<1> QED BY <1>2, <1>3, <1>5 DEF OwnVectors

\* Every answer has one vector for each position, of the text there, and the
\* cache holds what it says and no more than the threads in a set account
\* for: repeated texts, batches that fail, evictions and a model that comes
\* late included (_LRUEmbeddingCache, embed_texts, embed_query).
THEOREM VectorSafety == Spec => []OwnVectors
BY ChunkingInvariant, InvariantOwnVectors, PTL

LEMMA InvariantChunksTile == IInv => ChunksTile
<1> SUFFICES ASSUME IInv, job.pc \in {"chunked", "upserting", "stored", "failed"}
             PROVE  LET c == job.chunks
                    IN /\ c = <<>> => CoveredTo = 0
                       /\ c # <<>> => c[1].from = 0 /\ c[Len(c)].to = CoveredTo
                       /\ \A i \in DOMAIN c : c[i].to - c[i].from \in 1..MaxChars
                       /\ \A i \in 1..(Len(c) - 1) : c[i].to - c[i + 1].from \in {0, Overlap}
                       /\ \A from \in {0} \cup job.ends, to \in job.ends :
                             IsUnit(from, to) /\ Fits(from, to) /\ from < CoveredTo =>
                                \E k \in DOMAIN c : c[k].from <= from /\ to <= c[k].to
  BY Zenon DEF ChunksTile
<1> DEFINE c == job.chunks
           N == Len(job.doc.text)
           covered == Covered(job.doc, job.mode, job.ends)
<1>1. job \in Jobs /\ Done(job)
  BY DEF IInv, TypeOK, JobOK
<1>2. c \in Seq(Spans) /\ Len(c) \in Nat /\ DOMAIN c = 1..Len(c)
  BY <1>1, LenProperties DEF Jobs
<1>3. covered = CoveredTo
  BY SameOperators
<1>4. Tile(c, covered) /\ Whole(job.ends, covered, c, N)
  BY <1>1 DEF Done
<1>5. \A i \in 1..Len(c) : c[i].from \in Nat /\ c[i].to \in Nat
  <2>1. \A i \in 1..Len(c) : c[i] \in Spans
    BY <1>2, ElementOfSeq
  <2> QED BY <2>1 DEF Spans
<1>6. MaxChars \in Nat /\ Overlap \in Nat
  BY WindowAssumption
<1>7. job.ends \subseteq 1..N /\ N \in Nat
  BY <1>1, DocumentFacts DEF Done, Ends
<1> HIDE DEF c, N, covered
<1>8. /\ c = <<>> => covered = 0
      /\ c # <<>> => c[1].from = 0 /\ c[Len(c)].to = covered
  BY <1>4 DEF Tile
<1>9. \A i \in 1..Len(c) : c[i].to - c[i].from \in 1..MaxChars
  BY <1>4, <1>5, <1>6 DEF Tile
<1>10. ASSUME NEW i \in 1..(Len(c) - 1) PROVE c[i].to - c[i + 1].from \in {0, Overlap}
  <2>1. i \in 1..Len(c) /\ i + 1 \in 1..Len(c)
    BY <1>2
  <2>2. c[i].to = c[i + 1].from \/ c[i].to = c[i + 1].from + Overlap
    BY <1>4 DEF Tile
  <2> QED BY <1>5, <1>6, <2>1, <2>2
<1>11. ASSUME NEW from \in {0} \cup job.ends, NEW to \in job.ends,
              IsUnit(from, to), Fits(from, to), from < covered
       PROVE  \E k \in 1..Len(c) : c[k].from <= from /\ to <= c[k].to
  BY <1>4, <1>7, <1>11, SameOperators DEF Whole
<1> QED BY <1>2, <1>3, <1>8, <1>9, <1>10, <1>11 DEF c

\* The chunks are the text, none is empty or too long, neighbours touch or
\* overlap by exactly Overlap, and what fits is not cut, in all four modes
\* (_char_chunks, _sentence_chunks, _semantic_chunks, _code_chunks).
THEOREM TilingSafety == Spec => []ChunksTile
BY ChunkingInvariant, InvariantChunksTile, PTL

===============================================================================
