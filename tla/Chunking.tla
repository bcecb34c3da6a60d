------------------------------- MODULE Chunking -------------------------------
(***************************************************************************)
(* A document on its way into the vector store: chunk_text                 *)
(* (ingest/chunking.py) in its four modes, the embeddings that semantic    *)
(* mode asks for, and those of the chunks (upsert_chunks), by the thread   *)
(* of an ingestion, while the server's thread embeds queries.              *)
(*                                                                         *)
(* What the regular expression of sentences, the lines and the definitions *)
(* of code come to is given with the document, as positions in its text;   *)
(* similarities are any.                                                   *)
(***************************************************************************)
EXTENDS Embedder

CONSTANTS
    Documents,            \* [text, sentenceEnds, defs, blankFrom]
    Queries,
    MaxChars, Overlap,    \* max_chars and overlap
    Ingester, Server,     \* the threads
    MaxQueries            \* bound: queries embedded

\* The pipeline's 800 and 120: with an overlap that is not smaller the
\* windows would not move on.
ASSUME WindowAssumption ==
    /\ MaxChars \in Nat \ {0} /\ Overlap \in 0..(MaxChars - 1)
    /\ Threads = {Ingester, Server} /\ Ingester # Server

ASSUME DocumentAssumption ==
    \A d \in Documents :
        /\ d.text \in Texts /\ Len(d.text) > 0
        /\ d.sentenceEnds \in Seq(1..Len(d.text)) /\ d.sentenceEnds # <<>>
        /\ \A i \in 1..(Len(d.sentenceEnds) - 1) : d.sentenceEnds[i] < d.sentenceEnds[i + 1]
        /\ d.sentenceEnds[Len(d.sentenceEnds)] = Len(d.text)
        /\ d.defs \subseteq 0..(Len(d.text) - 1)
        /\ d.blankFrom \in 0..Len(d.text)

ASSUME QueryAssumption == Queries \subseteq Texts /\ MaxQueries \in Nat

VARIABLES
    job,       \* the ingester's work: see NoJob
    queries    \* number of queries embedded

vars == <<embedderVars, job, queries>>

NoJob ==
    [pc |-> "idle", doc |-> <<>>, mode |-> "char",
     ends   |-> {},      \* where blocks can end
     from   |-> 0,       \* the block in hand
     to     |-> 0,
     at     |-> 0,       \* start of the next window
     chunks |-> <<>>,
     merged |-> <<>>,    \* chunks joined so far
     next   |-> 1]       \* the next chunk to join

Init ==
    /\ EmbedderInit
    /\ job = NoJob
    /\ queries = 0

-----------------------------------------------------------------------------
Span(from, to) == [from |-> from, to |-> to]

TextOf(doc, s) == SubSeq(doc.text, s.from + 1, s.to)

\* sentence_spans
Sentences(doc) ==
    [i \in DOMAIN doc.sentenceEnds |->
        Span(IF i = 1 THEN 0 ELSE doc.sentenceEnds[i - 1], doc.sentenceEnds[i])]

EndsOf(spans) == {spans[i].to : i \in DOMAIN spans}

Cuts(mode, ends) == job' = [job EXCEPT !.pc = "blocks", !.mode = mode, !.ends = ends]

\* chunk_text is called for a document; semantic mode embeds the sentences
\* if there is more than one.
Start(doc, mode) ==
    /\ job.pc = "idle"
    /\ job' = [NoJob EXCEPT !.doc = doc, !.mode = mode,
          !.pc = IF mode = "semantic" /\ Len(Sentences(doc)) > 1 THEN "sentences" ELSE "start"]
    /\ UNCHANGED <<embedderVars, queries>>

\* _char_chunks, _sentence_chunks and _code_chunks up to their blocks; the
\* only sentence of a semantic text is cut like any text.
Blocks ==
    LET end == Len(job.doc.text)
    IN /\ job.pc = "start"
       /\ CASE job.mode = "sentence" -> Cuts("sentence", EndsOf(Sentences(job.doc)))
            [] job.mode = "code"     -> Cuts("code", (job.doc.defs \ {0}) \cup {end})
            [] OTHER                 -> Cuts("char", {end})
       /\ UNCHANGED <<embedderVars, queries>>

EmbedSentences ==
    /\ job.pc = "sentences"
    /\ LET s == Sentences(job.doc)
       IN Calls(Ingester, "texts", [i \in DOMAIN s |-> TextOf(job.doc, s[i])])
    /\ job' = [job EXCEPT !.pc = "embedding"]
    /\ UNCHANGED <<provider, initialized, model, cache, queries>>

\* _semantic_chunks: a cut after each sentence unlike the next one.
Similarities ==
    LET end == Len(job.doc.text)
    IN /\ job.pc = "embedding" /\ call[Ingester].pc = "answered"
       /\ \E splits \in SUBSET (EndsOf(Sentences(job.doc)) \ {end}) :
             Cuts("semantic", splits \cup {end})
       /\ UNCHANGED <<embedderVars, queries>>

\* The embedder raised: sentences instead.
NoSimilarities ==
    /\ job.pc = "embedding" /\ call[Ingester].pc = "raised"
    /\ Cuts("sentence", EndsOf(Sentences(job.doc)))
    /\ UNCHANGED <<embedderVars, queries>>

Fits(from, to) == to - from <= MaxChars

\* Nothing ends between the two.
IsUnit(from, to) ==
    from < to /\ to \in job.ends /\ \A e \in job.ends : e <= from \/ to <= e

\* A block ends at the first end; of sentences, at the last one that fits, if
\* any does.
IsBlock(from, to) ==
    IF job.mode = "sentence" /\ \E e \in job.ends : from < e /\ Fits(from, e)
    THEN /\ from < to /\ to \in job.ends /\ Fits(from, to)
         /\ \A e \in job.ends : to < e => ~Fits(from, e)
    ELSE IsUnit(from, to)

\* The tail of code that is blank and fits is left out.
LeftOut(from, to) ==
    /\ job.mode = "code" /\ to = Len(job.doc.text)
    /\ from >= job.doc.blankFrom /\ Fits(from, to)

NextBlock ==
    /\ job.pc = "blocks" /\ job.from < Len(job.doc.text)
    /\ \E to \in job.ends :
         /\ IsBlock(job.from, to)
         /\ job' = IF LeftOut(job.from, to) THEN [job EXCEPT !.from = to]
                   ELSE [job EXCEPT !.pc = "windows", !.to = to, !.at = job.from]
    /\ UNCHANGED <<embedderVars, queries>>

\* _char_chunks, one window: the next one starts Overlap before its end.  A
\* block that fits is one window.
Window ==
    LET end == IF job.at + MaxChars <= job.to THEN job.at + MaxChars ELSE job.to
        chunks == Append(job.chunks, Span(job.at, end))
    IN /\ job.pc = "windows"
       /\ job' = IF end = job.to
                 THEN [job EXCEPT !.chunks = chunks, !.pc = "blocks", !.from = end]
                 ELSE [job EXCEPT !.chunks = chunks, !.at = end - Overlap]
       /\ UNCHANGED <<embedderVars, queries>>

\* All blocks done: the semantic and code modes join chunks at the end.
Cut ==
    /\ job.pc = "blocks" /\ job.from = Len(job.doc.text)
    /\ job' = [job EXCEPT !.pc = IF job.mode \in {"semantic", "code"} THEN "merge" ELSE "chunked"]
    /\ UNCHANGED <<embedderVars, queries>>

\* Mutant: joined chunks are measured by the gap between their starts.
Joins_ByStarts(current, s) == s.from = current.to /\ Fits(current.from, s.from)

\* Neighbours are joined while they stay short enough.
Joins(current, s) == s.from = current.to /\ Fits(current.from, s.to)

Joined(merged, s) ==
    LET n == Len(merged)
    IN IF n > 0 /\ Joins(merged[n], s)
       THEN [merged EXCEPT ![n] = Span(merged[n].from, s.to)]
       ELSE Append(merged, s)

Merge ==
    /\ job.pc = "merge" /\ job.next <= Len(job.chunks)
    /\ job' = [job EXCEPT !.merged = Joined(@, job.chunks[job.next]), !.next = @ + 1]
    /\ UNCHANGED <<embedderVars, queries>>

Merged ==
    /\ job.pc = "merge" /\ job.next > Len(job.chunks)
    /\ job' = [job EXCEPT !.pc = "chunked", !.chunks = job.merged]
    /\ UNCHANGED <<embedderVars, queries>>

\* upsert_chunks embeds the chunks, all at once, if there are any.
EmbedChunks ==
    /\ job.pc = "chunked"
    /\ IF job.chunks = <<>>
       THEN job' = [job EXCEPT !.pc = "stored"] /\ UNCHANGED call
       ELSE /\ Calls(Ingester, "texts",
                     [i \in DOMAIN job.chunks |-> TextOf(job.doc, job.chunks[i])])
            /\ job' = [job EXCEPT !.pc = "upserting"]
    /\ UNCHANGED <<provider, initialized, model, cache, queries>>

Upserted ==
    /\ job.pc = "upserting" /\ call[Ingester].pc \in {"answered", "raised"}
    /\ job' = [job EXCEPT !.pc = IF call[Ingester].pc = "raised" THEN "failed" ELSE "stored"]
    /\ UNCHANGED <<embedderVars, queries>>

\* The server's thread embeds a query.
Query(q) ==
    /\ queries < MaxQueries /\ job.pc # "idle"
    /\ queries' = queries + 1
    /\ Calls(Server, "query", <<q>>)
    /\ UNCHANGED <<provider, initialized, model, cache, job>>

IngesterStep ==
    \/ Blocks \/ EmbedSentences \/ Similarities \/ NoSimilarities
    \/ NextBlock \/ Window \/ Cut \/ Merge \/ Merged \/ EmbedChunks \/ Upserted
    \/ EmbedderStep(Ingester) /\ UNCHANGED <<job, queries>>

Next ==
    \/ \E d \in Documents, mode \in {"char", "sentence", "semantic", "code"} : Start(d, mode)
    \/ \E q \in Queries : Query(q)
    \/ IngesterStep
    \/ EmbedderStep(Server) /\ UNCHANGED <<job, queries>>

\* A thread goes on while it can: loading and encoding end, or raise.
Spec == Init /\ [][Next]_vars /\ WF_vars(IngesterStep)

-----------------------------------------------------------------------------
\* Where the chunks end: before a blank tail, in code mode.
CoveredTo ==
    LET end == Len(job.doc.text)
        last == CHOOSE from \in 0..end : IsUnit(from, end) /\ from \in {0} \cup job.ends
    IN IF LeftOut(last, end) THEN last ELSE end

\* The chunks are the text: no symbol but a blank tail is lost, no chunk is
\* empty or too long, neighbours touch, or overlap by exactly Overlap, and
\* what fits in a chunk is not cut (a sentence, the lines up to the next
\* definition, the sentences between two cuts), whichever blocks are cut into
\* windows and whatever is joined again afterwards.
ChunksTile ==
    job.pc \in {"chunked", "upserting", "stored", "failed"} =>
        LET c == job.chunks
        IN /\ c = <<>> => CoveredTo = 0
           /\ c # <<>> => c[1].from = 0 /\ c[Len(c)].to = CoveredTo
           /\ \A i \in DOMAIN c : c[i].to - c[i].from \in 1..MaxChars
           /\ \A i \in 1..(Len(c) - 1) : c[i].to - c[i + 1].from \in {0, Overlap}
           /\ \A from \in {0} \cup job.ends, to \in job.ends :
                 IsUnit(from, to) /\ Fits(from, to) /\ from < CoveredTo =>
                    \E k \in DOMAIN c : c[k].from <= from /\ to <= c[k].to

\* A document is stored, or its ingestion fails, whatever the model or the
\* service does and however queries interleave.
Finishes == job.pc # "idle" ~> job.pc \in {"stored", "failed"}

===============================================================================
