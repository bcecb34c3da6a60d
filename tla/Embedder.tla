------------------------------- MODULE Embedder -------------------------------
(***************************************************************************)
(* The embedders of ingest/embeddings.py as two threads use them: the LRU  *)
(* cache, the model that is loaded on first use, batches, and the          *)
(* deterministic fallback.  LocalSentenceTransformerEmbedder is provider   *)
(* "local", OpenAICompatibleEmbedder "remote".                             *)
(*                                                                         *)
(* A vector is abstracted to the text it is of and what it was made by.    *)
(* The semaphore around the model makes encoding a batch one step; the      *)
(* cache has no lock.                                                      *)
(***************************************************************************)
EXTENDS Integers, Sequences, FiniteSets

CONSTANTS
    Threads,
    Symbols,      \* of which texts are sequences
    CacheSize,    \* max_items of the cache; 0: no cache
    BatchLimit,   \* batch_size
    Earlier       \* texts of queries answered earlier

Texts == Seq(Symbols)

ASSUME EmbedderAssumption ==
    /\ IsFiniteSet(Threads)
    /\ CacheSize \in Nat /\ BatchLimit \in Nat \ {0}
    /\ Earlier \in Seq(Texts) /\ Len(Earlier) <= CacheSize
    /\ \A i, j \in DOMAIN Earlier : Earlier[i] = Earlier[j] => i = j

VARIABLES
    provider,     \* "local" or "remote"
    initialized,  \* _initialized: somebody loads the model, or has
    model,        \* _model is there; a remote provider has its key and URL
    cache,        \* _store: [text, vector], least recently used first
    call          \* call[t]: the call of thread t, see NoCall

embedderVars == <<provider, initialized, model, cache, call>>

-----------------------------------------------------------------------------
NoCall ==
    [pc     |-> "idle",
     kind   |-> "texts",    \* embed_texts, or "query"
     texts  |-> <<>>,
     out    |-> <<>>,       \* vectors so far, by position; NoVector for a miss
     misses |-> <<>>,       \* the texts missed, each once
     made   |-> <<>>,       \* vectors of the misses encoded so far
     kept   |-> 0]          \* how many of those are cached and put in place

NoVector == [of |-> <<>>, by |-> "none"]

By(text, how) == [of |-> text, by |-> how]

Entry(vector) == [text |-> vector.of, vector |-> vector]

Fallback(texts) == [i \in DOMAIN texts |-> By(texts[i], "fallback")]

LocalInit ==
    /\ provider = "local"
    /\ initialized \in BOOLEAN /\ model \in {FALSE, initialized}

RemoteInit == provider = "remote" /\ initialized = FALSE /\ model \in BOOLEAN

\* A new embedder, or one that has answered queries: before its model was
\* there, or while the service was away.
EmbedderInit ==
    /\ LocalInit \/ RemoteInit
    /\ cache = IF initialized \/ model
               THEN [i \in DOMAIN Earlier |-> Entry(By(Earlier[i], "fallback"))] ELSE <<>>
    /\ call = [t \in Threads |-> NoCall]

-----------------------------------------------------------------------------
(* The cache. *)

InCache(text) == \E i \in DOMAIN cache : cache[i].text = text

Slot(text) == CHOOSE i \in DOMAIN cache : cache[i].text = text

\* move_to_end
Touched(i) ==
    [j \in DOMAIN cache |->
        IF j < i THEN cache[j] ELSE IF j < Len(cache) THEN cache[j + 1] ELSE cache[i]]

\* _store[key] = vector: in its old place, if it has one.
Stored(vector) ==
    IF InCache(vector.of) THEN [cache EXCEPT ![Slot(vector.of)] = Entry(vector)]
    ELSE Append(cache, Entry(vector))

-----------------------------------------------------------------------------
\* Mutant: a vector fills all positions that are open.
Filled_Open(t, k) ==
    [i \in DOMAIN call[t].out |->
        IF call[t].out[i] = NoVector THEN call[t].made[k] ELSE call[t].out[i]]

\* miss_positions: the k-th miss fills every position its text is missed at.
Filled(t, k) ==
    [i \in DOMAIN call[t].out |->
        IF call[t].out[i] = NoVector /\ call[t].texts[i] = call[t].misses[k]
        THEN call[t].made[k] ELSE call[t].out[i]]

Goes(t, pc) == call' = [call EXCEPT ![t].pc = pc]

Answers(t, vectors) == call' = [call EXCEPT ![t].pc = "answered", ![t].out = vectors]

\* A query looks into the cache before it asks for the model, a list of
\* texts of the local embedder asks for the model first.
Calls(t, kind, texts) ==
    /\ call[t].pc \in {"idle", "answered", "raised"}
    /\ call' = [call EXCEPT ![t] = [NoCall EXCEPT !.kind = kind, !.texts = texts,
                  !.pc = IF kind = "query" THEN "scan" ELSE "ensure"]]

\* Mutant: a thread that meets a load under way waits for the model.
EnsureModel_Waits(t) ==
    /\ call[t].pc = "ensure"
    /\ provider = "local" /\ initialized => model
    /\ IF provider = "remote" \/ initialized
       THEN Goes(t, "ensured") /\ UNCHANGED initialized
       ELSE Goes(t, "load") /\ initialized' = TRUE
    /\ UNCHANGED <<provider, model, cache>>

\* _ensure_model: the first thread to come loads; others go on at once, with
\* no model until it is there.
EnsureModel(t) ==
    /\ call[t].pc = "ensure"
    /\ IF provider = "remote" \/ initialized
       THEN Goes(t, "ensured") /\ UNCHANGED initialized
       ELSE Goes(t, "load") /\ initialized' = TRUE
    /\ UNCHANGED <<provider, model, cache>>

LoadModel(t) ==
    /\ call[t].pc = "load"
    /\ model' \in BOOLEAN
    /\ Goes(t, "ensured")
    /\ UNCHANGED <<provider, initialized, cache>>

\* Without a model a list is all fallback, and not cached.
Ensured(t) ==
    /\ call[t].pc = "ensured"
    /\ IF call[t].kind = "query" THEN Goes(t, "encode")
       ELSE IF model THEN Goes(t, "scan")
       ELSE Answers(t, Fallback(call[t].texts))
    /\ UNCHANGED <<provider, initialized, model, cache>>

Position(t) == Len(call[t].out) + 1

\* A text that is missed, noted once.
Missed(t, text) ==
    IF \E k \in DOMAIN call[t].misses : call[t].misses[k] = text THEN call[t].misses
    ELSE Append(call[t].misses, text)

\* cache.get of the next text, first half: the entry is there or not.
Lookup(t) ==
    LET text == call[t].texts[Position(t)]
    IN /\ call[t].pc = "scan" /\ Position(t) <= Len(call[t].texts)
       /\ IF InCache(text)
          THEN call' = [call EXCEPT ![t].pc = "touch",
                                    ![t].out = Append(@, cache[Slot(text)].vector)]
          ELSE call' = [call EXCEPT ![t].out = Append(@, NoVector),
                                    ![t].misses = Missed(t, text)]
       /\ UNCHANGED <<provider, initialized, model, cache>>

\* move_to_end of the text, then to pc: a KeyError if the other thread has
\* just pushed the entry out.
MoveToEnd(t, text, pc) ==
    /\ IF InCache(text)
       THEN Goes(t, pc) /\ cache' = Touched(Slot(text))
       ELSE Goes(t, "raised") /\ UNCHANGED cache
    /\ UNCHANGED <<provider, initialized, model>>

\* cache.get, second half.
Touch(t) ==
    /\ call[t].pc = "touch"
    /\ MoveToEnd(t, call[t].texts[Len(call[t].out)], "scan")

\* The vectors, unless one is missing.
Final(t) ==
    IF \E i \in DOMAIN call[t].out : call[t].out[i] = NoVector
    THEN Fallback(call[t].texts) ELSE call[t].out

\* All texts looked up.
Scanned(t) ==
    /\ call[t].pc = "scan" /\ Position(t) > Len(call[t].texts)
    /\ IF call[t].misses = <<>> THEN Answers(t, Final(t))
       ELSE IF call[t].kind = "query" THEN Goes(t, "ensure")
       ELSE Goes(t, "encode")
    /\ UNCHANGED <<provider, initialized, model, cache>>

\* The next batch of misses.
Batch(t) ==
    LET made == Len(call[t].made)
        left == Len(call[t].misses) - made
    IN SubSeq(call[t].misses, made + 1, made + IF left < BatchLimit THEN left ELSE BatchLimit)

\* Vectors for a batch: the local embedder makes all before it keeps any.
Encoded(t, vectors) ==
    LET made == call[t].made \o vectors
        pc == IF provider = "remote" \/ Len(made) = Len(call[t].misses) THEN "keep" ELSE "encode"
    IN call' = [call EXCEPT ![t].pc = pc, ![t].made = made]

\* A query's vector, the model's or the fallback's, is kept either way.
EncodeQuery(t) ==
    /\ call[t].pc = "encode" /\ call[t].kind = "query"
    /\ \E how \in {"fallback"} \cup {h \in {"query"} : model} :
          Encoded(t, <<By(call[t].misses[1], how)>>)
    /\ UNCHANGED <<provider, initialized, model, cache>>

EncodeBatch(t) ==
    /\ call[t].pc = "encode" /\ call[t].kind = "texts"
    /\ Encoded(t, [i \in DOMAIN Batch(t) |-> By(Batch(t)[i], "passage")])
    /\ UNCHANGED <<provider, initialized, model, cache>>

\* The model or the service fails: one batch of the remote embedder falls
\* back, but the whole list of the local one, what was cached included.
BatchFails(t) ==
    /\ call[t].pc = "encode" /\ call[t].kind = "texts"
    /\ IF provider = "remote" THEN Encoded(t, Fallback(Batch(t)))
       ELSE Answers(t, Fallback(call[t].texts))
    /\ UNCHANGED <<provider, initialized, model, cache>>

\* The next vector made is kept: in the cache, with set in three steps, and
\* then in its positions.
NextKept(t) == call[t].kept + 1

Fill(t) == call' = [call EXCEPT ![t].pc = "keep", ![t].kept = @ + 1, ![t].out = Filled(t, NextKept(t))]

Keep(t) ==
    /\ call[t].pc = "keep" /\ NextKept(t) <= Len(call[t].made)
    /\ IF CacheSize = 0 THEN Fill(t) /\ UNCHANGED cache
       ELSE Goes(t, "move") /\ cache' = Stored(call[t].made[NextKept(t)])
    /\ UNCHANGED <<provider, initialized, model>>

Move(t) ==
    /\ call[t].pc = "move"
    /\ MoveToEnd(t, call[t].made[NextKept(t)].of, "trim")

\* while len > max_items: popitem of the oldest; the other thread may trim as
\* well, after the length is looked at.
Trim(t) ==
    /\ call[t].pc = "trim"
    /\ IF Len(cache) > CacheSize THEN Goes(t, "pop") ELSE Fill(t)
    /\ UNCHANGED <<provider, initialized, model, cache>>

Pop(t) ==
    /\ call[t].pc = "pop"
    /\ IF cache = <<>> THEN Goes(t, "raised") /\ UNCHANGED cache
       ELSE Goes(t, "trim") /\ cache' = Tail(cache)
    /\ UNCHANGED <<provider, initialized, model>>

\* What was made is kept: the next batch, or the end.
Kept(t) ==
    /\ call[t].pc = "keep" /\ NextKept(t) > Len(call[t].made)
    /\ IF Len(call[t].made) < Len(call[t].misses) THEN Goes(t, "encode")
       ELSE Answers(t, Final(t))
    /\ UNCHANGED <<provider, initialized, model, cache>>

EmbedderStep(t) ==
    \/ EnsureModel(t)
    \/ LoadModel(t)
    \/ Ensured(t)
    \/ Lookup(t)
    \/ Touch(t)
    \/ Scanned(t)
    \/ EncodeQuery(t)
    \/ EncodeBatch(t)
    \/ BatchFails(t)
    \/ Keep(t)
    \/ Move(t)
    \/ Trim(t)
    \/ Pop(t)
    \/ Kept(t)

-----------------------------------------------------------------------------
InSet(t) == call[t].pc \in {"move", "trim", "pop"}

\* An answer has one vector for every position, and it is of the text at that
\* position: with repeated texts, cached ones, several batches, failing
\* batches and another thread that fills the cache or loads the model.  The
\* cache holds what it says, each text once, and no more than it may but for
\* the threads that are in the middle of a set.
OwnVectors ==
    /\ \A t \in Threads : call[t].pc = "answered" =>
          /\ Len(call[t].out) = Len(call[t].texts)
          /\ \A i \in DOMAIN call[t].out : call[t].out[i].of = call[t].texts[i]
    /\ \A i, j \in DOMAIN cache :
          /\ cache[i].vector.of = cache[i].text
          /\ cache[i].text = cache[j].text => i = j
    /\ Len(cache) <= CacheSize + Cardinality({t \in Threads : InSet(t)})

===============================================================================
