--------------------------- MODULE Ingestion_proofs ---------------------------
(***************************************************************************)
(* Proofs about Ingestion, for every set of workspaces, files, texts and   *)
(* callers and any number of failures: type correctness; IndexInv, when    *)
(* one process ingests and a restart that loses the metadata loses the     *)
(* graph too; ExactInv, when one process ingests; and the ownership of     *)
(* documents, for any number of processes.                                 *)
(***************************************************************************)
EXTENDS IngestionInv, TLAPS

-----------------------------------------------------------------------------
(* Type correctness.                                                       *)

LEMMA IdleRunType == IdleRun \in Run
<1>1. PICK w \in Workspaces, f \in Files : TRUE
  BY DataAssumption
<1>2. <<w, f>> \in DocUris
  BY <1>1 DEF DocUris
<1>3. /\ (CHOOSE x \in Workspaces : TRUE) \in Workspaces
      /\ (CHOOSE x \in Files : TRUE) \in Files
      /\ (CHOOSE x \in DocUris : TRUE) \in DocUris
  BY <1>1, <1>2
<1>4. 0 \in 0 .. MaxChunks + 1 /\ MaxChunks \in Nat
  BY DataAssumption
<1> QED
  BY <1>3, <1>4 DEF IdleRun, Run, Pcs, Working, Rebuilding, Texts

LEMMA EntriesType ==
    ASSUME NEW v \in Versions
    PROVE  Entries(v) \in [Idx -> Versions \cup {NoVersion}]
  BY DEF Entries

LEMMA DocUriType ==
    ASSUME NEW w \in Workspaces, NEW f \in Files
    PROVE  DocUri(w, f) \in DocUris
  BY DEF DocUri, DocUris

LEMMA LockOfType ==
    ASSUME NEW c \in Callers, NEW w \in Workspaces
    PROVE  LockOf(c, w) \in Processes \X Workspaces
  BY DataAssumption DEF LockOf

\* What TypeOK does not say of a caller's locals: it visits and rebuilds only
\* documents that have a text, and the chunk it is at is one of the text's.
LocalsOK(c) ==
    /\ \A f \in run[c].left : run[c].snap[f] \in Versions
    /\ run[c].pc \in Working => Text(c) \in Versions
    /\ run[c].pc \in {"chunk", "mentions"} => run[c].row \in 1 .. Count(c)

TypeInv == TypeOK /\ \A c \in Callers : LocalsOK(c)

LEMMA IdleRunLocals ==
    /\ IdleRun.pc = "idle"
    /\ IdleRun.left = {}
  BY DEF IdleRun

LEMMA InitType == Init => TypeInv
<1> SUFFICES ASSUME Init PROVE TypeInv
  OBVIOUS
<1> USE DataAssumption DEF Init
<1>1. disk \in [Files -> Texts]
  BY DEF Texts, DocRow
<1>2. docs \in [DocUris -> DocRow \cup {NoDoc}]
  BY DEF DocUris
<1>3. sums \in [Workspaces \X Files -> Versions \cup {NoVersion}]
  BY DEF DocRow
<1>4. LegacyEntries \in [DocUris -> [Idx -> Versions \cup {NoVersion}]]
  <2> SUFFICES ASSUME NEW u \in DocUris
               PROVE LegacyEntries[u] \in [Idx -> Versions \cup {NoVersion}]
    BY DEF LegacyEntries
  <2>1. CASE u[1] = Legacy /\ LegacyDocs[u[2]] # NoDoc
    <3>1. LegacyDocs[u[2]].sum \in Versions
      BY <2>1 DEF DocUris, DocRow
    <3> QED BY <2>1, <3>1, EntriesType DEF LegacyEntries
  <2>2. CASE ~(u[1] = Legacy /\ LegacyDocs[u[2]] # NoDoc)
    BY <2>2 DEF LegacyEntries, NoEntries
  <2> QED BY <2>1, <2>2
<1>5. graph \in [DocUris -> [Idx -> SUBSET Versions]]
  BY <1>4
<1>6. lock \in [Processes \X Workspaces -> Callers \cup {NoCaller}]
  OBVIOUS
<1>7. run \in [Callers -> Run]
  BY IdleRunType
<1>8. faults \in 0 .. MaxFaults
  OBVIOUS
<1>9. \A c \in Callers : LocalsOK(c)
  BY IdleRunLocals DEF LocalsOK, Working, Rebuilding
<1> QED
  BY <1>1, <1>2, <1>3, <1>4, <1>5, <1>6, <1>7, <1>8, <1>9 DEF TypeOK, TypeInv

\* A step of caller c leaves the locals of every other caller alone.
LEMMA OtherLocals ==
    ASSUME TypeInv, NEW c \in Callers, NEW r, run' = [run EXCEPT ![c] = r],
           NEW d \in Callers, d # c
    PROVE  LocalsOK(d)'
  BY DEF TypeInv, TypeOK, LocalsOK, Text, Count

\* A caller's record as it is after Leave.
LEMMA LeaveType ==
    ASSUME TypeInv, NEW c \in Callers, Leave(c), faults' \in 0 .. MaxFaults
    PROVE  TypeInv'
<1>1. run[c].ws \in Workspaces
  BY DEF TypeInv, TypeOK, Run
<1>2. run' \in [Callers -> Run]
  BY IdleRunType DEF Leave, TypeInv, TypeOK
<1>3. lock' \in [Processes \X Workspaces -> Callers \cup {NoCaller}]
  BY DEF Leave, TypeInv, TypeOK
<1>4. TypeOK'
  BY <1>2, <1>3 DEF Leave, TypeInv, TypeOK, stores
<1>5. LocalsOK(c)'
  BY IdleRunLocals DEF Leave, TypeInv, TypeOK, LocalsOK, Working, Rebuilding
<1> QED
  BY <1>4, <1>5, OtherLocals DEF TypeInv, Leave

LEMMA CountType ==
    ASSUME NEW c \in Callers, Text(c) \in Versions
    PROVE  Count(c) \in Nat /\ Count(c) <= MaxChunks
  BY DataAssumption DEF Count

LEMMA AfterChunkType ==
    ASSUME NEW c \in Callers, NEW i
    PROVE  /\ AfterChunk(c, i) \in {"chunk", "dropVectors", "checksum"}
           /\ AfterChunk(c, i) = "chunk" <=> i < Count(c)
  BY DEF AfterChunk

LEMMA StepType ==
    ASSUME TypeInv, NEW c \in Callers, Step(c)
    PROVE  TypeInv'
<1> DEFINE r == run[c]
<1>0. /\ r \in Run /\ LocalsOK(c) /\ TypeOK
      /\ r.ws \in Workspaces /\ r.file \in Files /\ r.uri \in DocUris
      /\ r.left \in SUBSET Files /\ r.stale \in SUBSET Idx
      /\ r.snap \in [Files -> Texts] /\ r.row \in 0 .. MaxChunks + 1
      /\ MaxChunks \in Nat
  BY DataAssumption DEF TypeInv, TypeOK, Run
<1>t. ASSUME r.pc \in Working
      PROVE /\ Text(c) \in Versions
            /\ Count(c) \in Nat /\ Count(c) <= MaxChunks
  BY <1>0, <1>t, CountType DEF LocalsOK
<1> USE DEF stores
\* It is enough that the new record is a run with good locals.
<1>r. ASSUME NEW q \in Run, run' = [run EXCEPT ![c] = q], LocalsOK(c)',
             disk' = disk, faults' = faults, lock' = lock,
             docs' \in [DocUris -> DocRow \cup {NoDoc}],
             sums' \in [Workspaces \X Files -> Versions \cup {NoVersion}],
             rows' \in [DocUris -> [Idx -> Versions \cup {NoVersion}]],
             vec' \in [DocUris -> [Idx -> Versions \cup {NoVersion}]],
             graph' \in [DocUris -> [Idx -> SUBSET Versions]]
      PROVE TypeInv'
  <2>1. TypeOK'
    BY <1>0, <1>r DEF TypeOK
  <2> QED BY <2>1, <1>r, OtherLocals DEF TypeInv
<1>1. ASSUME NEW f \in Files, Pass(c, f) PROVE TypeInv'
  <2> DEFINE q == [r EXCEPT !.left = @ \ {f}]
  <2>1. q \in Run
    BY <1>0 DEF Run
  <2>2. run' = [run EXCEPT ![c] = q]
    BY <1>0, <1>1 DEF Pass, TypeOK
  <2>3. LocalsOK(c)'
    BY <1>0, <1>1, <2>2 DEF Pass, LocalsOK, TypeOK, Run, Working, Rebuilding
  <2> QED BY <1>0, <1>1, <1>r, <2>1, <2>2, <2>3 DEF Pass, TypeOK
<1>2. ASSUME NEW f \in Files, Take(c, f) PROVE TypeInv'
  <2> DEFINE q == [r EXCEPT !.pc = "putDoc", !.file = f, !.left = @ \ {f}]
  <2>1. q \in Run
    BY <1>0 DEF Run, Pcs, Working
  <2>2. run' = [run EXCEPT ![c] = q]
    BY <1>0, <1>2 DEF Take, TypeOK
  <2>3. LocalsOK(c)'
    BY <1>0, <1>2, <2>2 DEF Take, LocalsOK, TypeOK, Run, Text
  <2> QED BY <1>0, <1>2, <1>r, <2>1, <2>2, <2>3 DEF Take, TypeOK
<1>3. CASE PutDoc(c)
  <2> DEFINE q == [r EXCEPT !.pc = "listOld", !.uri = DocUri(r.ws, r.file)]
  <2>0. DocUri(r.ws, r.file) \in DocUris /\ Text(c) \in Versions
    BY <1>0, <1>3, <1>t, DocUriType DEF PutDoc, Working
  <2>1. q \in Run
    BY <1>0, <2>0, <1>3 DEF PutDoc, Run, Pcs, Working, Rebuilding
  <2>2. run' = [run EXCEPT ![c] = q]
    BY <1>0, <1>3 DEF PutDoc, TypeOK, Run
  <2>3. LocalsOK(c)'
    BY <1>0, <2>0, <1>3, <2>1, <2>2 DEF PutDoc, LocalsOK, TypeOK, Run, Text, Count, Working, Rebuilding
  <2>4. docs' \in [DocUris -> DocRow \cup {NoDoc}]
    BY <1>0, <1>3, <2>0 DEF PutDoc, TypeOK, DocRow
  <2> QED BY <1>0, <1>3, <1>r, <2>1, <2>2, <2>3, <2>4 DEF PutDoc, TypeOK
<1>4. CASE ListOld(c)
  <2> DEFINE q == [r EXCEPT !.pc = "vectors",
                         !.stale = {i \in Idx : rows[r.uri][i] # NoVersion /\ i > Count(c)}]
  <2>1. q \in Run
    BY <1>0, <1>4 DEF ListOld, Run, Pcs, Working, Rebuilding
  <2>2. run' = [run EXCEPT ![c] = q]
    BY <1>0, <1>4 DEF ListOld, TypeOK, Run
  <2>3. LocalsOK(c)'
    <3>1. /\ q.pc = "vectors" /\ q.left = r.left /\ q.snap = r.snap /\ q.file = r.file
          /\ r.pc \in Working
      BY <1>0, <1>4 DEF ListOld, Run, Working, Rebuilding
    <3>2. run'[c] = q
      BY <1>0, <2>2 DEF TypeOK
    <3> HIDE DEF q
    <3> QED BY <1>0, <3>1, <3>2 DEF LocalsOK, Text
  <2> QED BY <1>0, <1>4, <1>r, <2>1, <2>2, <2>3 DEF ListOld, TypeOK
<1>5. CASE UpsertVectors(c)
  <2> DEFINE q == [r EXCEPT !.pc = AfterChunk(c, 0), !.row = 1]
  <2>0. /\ AfterChunk(c, 0) \in {"chunk", "dropVectors", "checksum"}
        /\ AfterChunk(c, 0) = "chunk" => 1 \in 1 .. Count(c)
        /\ Text(c) \in Versions /\ 1 \in 0 .. MaxChunks + 1
    BY <1>0, <1>5, <1>t, AfterChunkType DEF UpsertVectors, Working, Rebuilding
  <2>1. q \in Run
    BY <1>0, <2>0, <1>5 DEF UpsertVectors, Run, Pcs, Working, Rebuilding
  <2>2. run' = [run EXCEPT ![c] = q]
    BY <1>0, <1>5 DEF UpsertVectors, TypeOK, Run
  <2>3. LocalsOK(c)'
    BY <1>0, <2>0, <1>5, <2>1, <2>2 DEF UpsertVectors, LocalsOK, TypeOK, Run, Text, Count, Working, Rebuilding
  <2>4. vec' \in [DocUris -> [Idx -> Versions \cup {NoVersion}]]
    BY <1>0, <1>5, <2>0 DEF UpsertVectors, TypeOK
  <2> QED BY <1>0, <1>5, <1>r, <2>1, <2>2, <2>3, <2>4 DEF UpsertVectors, TypeOK
<1>6. CASE PutChunk(c)
  <2> DEFINE q == [r EXCEPT !.pc = "mentions"]
  <2>0. Text(c) \in Versions
    BY <1>6, <1>t DEF PutChunk, Working, Rebuilding
  <2>1. q \in Run
    BY <1>0, <1>6 DEF PutChunk, Run, Pcs, Working, Rebuilding
  <2>2. run' = [run EXCEPT ![c] = q]
    BY <1>0, <1>6 DEF PutChunk, TypeOK, Run
  <2>3. LocalsOK(c)'
    BY <1>0, <1>6, <2>1, <2>2 DEF PutChunk, LocalsOK, TypeOK, Run, Text, Count, Working, Rebuilding
  <2>4. rows' \in [DocUris -> [Idx -> Versions \cup {NoVersion}]]
    BY <1>0, <1>6, <2>0 DEF PutChunk, TypeOK
  <2> QED BY <1>0, <1>6, <1>r, <2>1, <2>2, <2>3, <2>4 DEF PutChunk, TypeOK
<1>7. CASE UpsertMentions(c)
  <2> DEFINE q == [r EXCEPT !.pc = AfterChunk(c, r.row), !.row = @ + 1]
  <2>0. /\ AfterChunk(c, r.row) \in {"chunk", "dropVectors", "checksum"}
        /\ AfterChunk(c, r.row) = "chunk" => r.row + 1 \in 1 .. Count(c)
        /\ Text(c) \in Versions /\ r.row + 1 \in 0 .. MaxChunks + 1
    BY <1>0, <1>7, <1>t, AfterChunkType DEF UpsertMentions, Working, Rebuilding, LocalsOK
  <2>1. q \in Run
    BY <1>0, <2>0, <1>7 DEF UpsertMentions, Run, Pcs, Working, Rebuilding
  <2>2. run' = [run EXCEPT ![c] = q]
    BY <1>0, <1>7 DEF UpsertMentions, TypeOK, Run
  <2>3. LocalsOK(c)'
    BY <1>0, <2>0, <1>7, <2>1, <2>2 DEF UpsertMentions, LocalsOK, TypeOK, Run, Text, Count, Working, Rebuilding
  <2>4. graph' \in [DocUris -> [Idx -> SUBSET Versions]]
    <3>1. graph[r.uri] \in [Idx -> SUBSET Versions]
      BY <1>0 DEF TypeOK
    <3>2. [graph[r.uri] EXCEPT ![r.row] = @ \cup {Text(c)}] \in [Idx -> SUBSET Versions]
      BY <3>1, <2>0
    <3>3. graph' = [graph EXCEPT ![r.uri] = [graph[r.uri] EXCEPT ![r.row] = @ \cup {Text(c)}]]
      BY <1>0, <1>7 DEF UpsertMentions, TypeOK
    <3> QED BY <1>0, <3>2, <3>3 DEF TypeOK
  <2> QED BY <1>0, <1>7, <1>r, <2>1, <2>2, <2>3, <2>4 DEF UpsertMentions, TypeOK
<1>8. CASE DropVectors(c)
  <2> DEFINE q == [r EXCEPT !.pc = "dropGraph"]
  <2>1. q \in Run
    BY <1>0, <1>8 DEF DropVectors, Run, Pcs, Working, Rebuilding
  <2>2. run' = [run EXCEPT ![c] = q]
    BY <1>0, <1>8 DEF DropVectors, TypeOK, Run
  <2>3. LocalsOK(c)'
    BY <1>0, <1>8, <2>1, <2>2 DEF DropVectors, LocalsOK, TypeOK, Run, Text, Count, Working, Rebuilding
  <2>4. vec' \in [DocUris -> [Idx -> Versions \cup {NoVersion}]]
    BY <1>0, <1>8 DEF DropVectors, Without, TypeOK
  <2> QED BY <1>0, <1>8, <1>r, <2>1, <2>2, <2>3, <2>4 DEF DropVectors, TypeOK
<1>9. CASE DropGraph(c)
  <2> DEFINE q == [r EXCEPT !.pc = "dropRows"]
  <2>1. q \in Run
    BY <1>0, <1>9 DEF DropGraph, Run, Pcs, Working, Rebuilding
  <2>2. run' = [run EXCEPT ![c] = q]
    BY <1>0, <1>9 DEF DropGraph, TypeOK, Run
  <2>3. LocalsOK(c)'
    BY <1>0, <1>9, <2>1, <2>2 DEF DropGraph, LocalsOK, TypeOK, Run, Text, Count, Working, Rebuilding
  <2>4. graph' \in [DocUris -> [Idx -> SUBSET Versions]]
    BY <1>0, <1>9 DEF DropGraph, TypeOK
  <2> QED BY <1>0, <1>9, <1>r, <2>1, <2>2, <2>3, <2>4 DEF DropGraph, TypeOK
<1>10. ASSUME NEW i \in Idx, DropRow(c, i) PROVE TypeInv'
  <2> DEFINE q == [r EXCEPT !.stale = @ \ {i},
                         !.pc = IF r.stale = {i} THEN "checksum" ELSE @]
  <2>1. q \in Run
    BY <1>0, <1>10 DEF DropRow, Run, Pcs, Working, Rebuilding
  <2>2. run' = [run EXCEPT ![c] = q]
    BY <1>0, <1>10 DEF DropRow, TypeOK, Run
  <2>3. LocalsOK(c)'
    <3>1. /\ q.pc \in {"checksum", "dropRows"} /\ q.left = r.left
          /\ q.snap = r.snap /\ q.file = r.file /\ r.pc \in Working
      BY <1>0, <1>10 DEF DropRow, Run, Working, Rebuilding
    <3>2. run'[c] = q
      BY <1>0, <2>2 DEF TypeOK
    <3> HIDE DEF q
    <3> QED BY <1>0, <3>1, <3>2 DEF LocalsOK, Text
  <2>4. rows' \in [DocUris -> [Idx -> Versions \cup {NoVersion}]]
    BY <1>0, <1>10 DEF DropRow, Without, TypeOK
  <2> QED BY <1>0, <1>10, <1>r, <2>1, <2>2, <2>3, <2>4 DEF DropRow, TypeOK
<1>11. CASE SetChecksum(c)
  <2> DEFINE q == [r EXCEPT !.pc = "scan", !.row = 0, !.file = IdleRun.file, !.uri = IdleRun.uri]
  <2>0. /\ IdleRun.file \in Files /\ IdleRun.uri \in DocUris
        /\ Text(c) \in Versions /\ 0 \in 0 .. MaxChunks + 1
    BY <1>0, <1>11, <1>t, IdleRunType DEF SetChecksum, Working, Rebuilding, Run
  <2>1. q \in Run
    BY <1>0, <2>0, <1>11 DEF SetChecksum, Run, Pcs, Working, Rebuilding
  <2>2. run' = [run EXCEPT ![c] = q]
    BY <1>0, <1>11 DEF SetChecksum, TypeOK, Run
  <2>3. LocalsOK(c)'
    BY <1>0, <1>11, <2>1, <2>2 DEF SetChecksum, LocalsOK, TypeOK, Run, Text, Count, Working, Rebuilding
  <2>4. sums' \in [Workspaces \X Files -> Versions \cup {NoVersion}]
    BY <1>0, <1>11, <2>0 DEF SetChecksum, TypeOK
  <2> QED BY <1>0, <1>11, <1>r, <2>1, <2>2, <2>3, <2>4 DEF SetChecksum, TypeOK
<1>12. CASE Finish(c)
  BY <1>0, <1>12, LeaveType DEF Finish, TypeOK
<1> QED
  BY <1>1, <1>2, <1>3, <1>4, <1>5, <1>6, <1>7, <1>8, <1>9, <1>10, <1>11, <1>12 DEF Step

LEMMA NextType == TypeInv /\ [Next]_vars => TypeInv'
<1> SUFFICES ASSUME TypeInv, [Next]_vars PROVE TypeInv'
  OBVIOUS
<1> USE DEF TypeInv
<1>1. ASSUME NEW f \in Files, NEW t \in Texts, Edit(f, t) PROVE TypeInv'
  BY <1>1 DEF Edit, stores, TypeOK, LocalsOK, Text, Count
<1>2. ASSUME NEW c \in Callers, NEW w \in Workspaces, NEW paths \in SUBSET Files,
             NEW dry \in BOOLEAN, Start(c, w, paths, dry)
      PROVE TypeInv'
  <2> DEFINE q == [IdleRun EXCEPT
                     !.pc = "scan", !.ws = w, !.dry = dry,
                     !.snap = [f \in Files |-> IF f \in paths THEN disk[f] ELSE Missing],
                     !.left = {f \in paths : disk[f] \in Versions}]
  <2>1. q \in Run
    BY IdleRunType DEF Run, Pcs, TypeOK, Texts
  <2>2. run' = [run EXCEPT ![c] = q]
    BY <1>2 DEF Start
  <2>3. TypeOK'
    BY <1>2, <2>1, <2>2, LockOfType DEF Start, TypeOK, stores
  <2>4. LocalsOK(c)'
    <3>1. /\ q.pc = "scan" /\ q.left = {f \in paths : disk[f] \in Versions}
          /\ \A f \in paths : q.snap[f] = disk[f]
      BY DEF IdleRun
    <3> HIDE DEF q
    <3> QED BY <2>2, <3>1 DEF TypeOK, LocalsOK, Working, Rebuilding
  <2> QED BY <2>2, <2>3, <2>4, OtherLocals
<1>3. ASSUME NEW c \in Callers, Step(c) PROVE TypeInv'
  BY <1>3, StepType
<1>4. ASSUME NEW c \in Callers, Fail(c) PROVE TypeInv'
  <2>1. faults' \in 0 .. MaxFaults
    BY <1>4, DataAssumption DEF Fail, TypeOK
  <2> QED BY <1>4, <2>1, LeaveType DEF Fail
<1>5. ASSUME NEW p \in Processes, Crash(p) PROVE TypeInv'
  <2>1. run' \in [Callers -> Run] /\ faults' \in 0 .. MaxFaults
    BY <1>5, IdleRunType, DataAssumption DEF Crash, TypeOK
  <2>2. /\ docs' \in [DocUris -> DocRow \cup {NoDoc}]
        /\ sums' \in [Workspaces \X Files -> Versions \cup {NoVersion}]
        /\ rows' \in [DocUris -> [Idx -> Versions \cup {NoVersion}]]
    BY <1>5 DEF Crash, TypeOK, EmptyStore, NoEntries
  <2>3. /\ vec' \in [DocUris -> [Idx -> Versions \cup {NoVersion}]]
        /\ graph' \in [DocUris -> [Idx -> SUBSET Versions]]
    BY <1>5 DEF Crash, TypeOK, EmptyStore, EmptyGraph, NoEntries
  <2>4. /\ disk' \in [Files -> Texts]
        /\ lock' \in [Processes \X Workspaces -> Callers \cup {NoCaller}]
    BY <1>5 DEF Crash, TypeOK
  <2>5. ASSUME NEW c \in Callers PROVE LocalsOK(c)'
    <3>1. run'[c] = IdleRun \/ run'[c] = run[c]
      BY <1>5 DEF Crash
    <3> QED BY <3>1, IdleRunLocals DEF LocalsOK, Text, Count, Working, Rebuilding
  <2> QED BY <2>1, <2>2, <2>3, <2>4, <2>5 DEF TypeOK
<1>6. CASE UNCHANGED vars
  BY <1>6 DEF vars, TypeOK, LocalsOK, Text, Count
<1> QED
  BY <1>1, <1>2, <1>3, <1>4, <1>5, <1>6 DEF Next

\* The stores and the locals of ingest_filesystem keep their types, in every
\* deployment.
THEOREM TypeCorrect == Spec => []TypeOK
<1>1. TypeInv => TypeOK
  BY DEF TypeInv
<1> QED
  BY <1>1, InitType, NextType, PTL DEF Spec

-----------------------------------------------------------------------------
(* The identity of documents.                                              *)

\* Two workspaces never index a path under one id, nor one two paths.
LEMMA DocUriInjective ==
    ASSUME NEW w \in Workspaces, NEW f \in Files,
           NEW x \in Workspaces, NEW g \in Files,
           DocUri(w, f) = DocUri(x, g)
    PROVE  w = x /\ f = g
  BY NamesAssumption DEF DocUri

\* Writing a document's row does not change the id of any document.
LEMMA DocUriStable ==
    ASSUME TypeInv, NEW c \in Callers, PutDoc(c),
           NEW w \in Workspaces, NEW f \in Files
    PROVE  DocUri(w, f)' = DocUri(w, f)
<1> DEFINE x == run[c].ws
           g == run[c].file
           u == DocUri(x, g)
<1>1. x \in Workspaces /\ g \in Files /\ Text(c) \in Versions
  BY DEF TypeInv, TypeOK, Run, PutDoc, LocalsOK, Working
<1>2. u \in DocUris /\ <<Legacy, f>> \in DocUris
  BY <1>1, DocUriType DEF DocUris
<1>3. /\ docs'[u] = [ws |-> x, sum |-> Text(c)]
      /\ \A d \in DocUris : d # u => docs'[d] = docs[d]
  BY <1>2 DEF PutDoc, TypeInv, TypeOK
<1>4. [ws |-> x, sum |-> Text(c)] # NoDoc
  BY <1>1, NamesAssumption DEF DocRow
<1>5. CASE u # <<Legacy, f>>
  BY <1>2, <1>3, <1>5 DEF DocUri
<1>6. CASE u = <<Legacy, f>>
  <2>1. docs[<<Legacy, f>>] # NoDoc /\ docs[<<Legacy, f>>].ws = x
    BY <1>1, <1>6, NamesAssumption DEF DocUri
  <2>2. docs'[<<Legacy, f>>] # NoDoc /\ docs'[<<Legacy, f>>].ws = x
    BY <1>3, <1>4, <1>6
  <2> QED BY <2>1, <2>2 DEF DocUri
<1> QED BY <1>5, <1>6

-----------------------------------------------------------------------------
(* What a step of one call leaves alone.                                   *)

Truth(c) == NotRecorded(c) /\ StaleListed(c) /\ ChunksReached(c)

RecordedAt(w, f) ==
    LET u == DocUri(w, f)
        v == sums[<<w, f>>]
    IN Settled(w, f) => /\ rows[u] = Entries(v)
                        /\ GraphShows(u, v)
                        /\ Covers(vec, u, v)

PassedOf(c) ==
    \A f \in Files :
        LET r == run[c]
        IN /\ r.pc # "idle"
           /\ ~r.dry
           /\ r.snap[f] \in Versions
           /\ f \notin r.left
           /\ ~(r.pc \in Working /\ f = r.file)
           => sums[<<r.ws, f>>] = r.snap[f]

\* A step of c touches the stores at no document but the one c is at.
Frame(c) ==
    /\ \A w \in Workspaces, f \in Files : DocUri(w, f)' = DocUri(w, f)
    /\ \A u \in DocUris : u # DocUri(run[c].ws, run[c].file) =>
         docs'[u] = docs[u] /\ rows'[u] = rows[u] /\ vec'[u] = vec[u] /\ graph'[u] = graph[u]
    /\ \A w \in Workspaces, f \in Files : <<w, f>> # <<run[c].ws, run[c].file>> =>
         sums'[<<w, f>>] = sums[<<w, f>>]
    /\ run[c].pc # "idle"
    /\ \A d \in Callers : d # c => run'[d] = run[d]

LEMMA StepFrame ==
    ASSUME TypeInv, NEW c \in Callers, NotRecorded(c), Step(c)
    PROVE  Frame(c)
<1> DEFINE r == run[c]
           u == DocUri(r.ws, r.file)
<1> USE DEF stores
<1>0. /\ r.ws \in Workspaces /\ r.file \in Files /\ u \in DocUris
      /\ docs = [x \in DocUris |-> docs[x]] /\ rows = [x \in DocUris |-> rows[x]]
      /\ vec = [x \in DocUris |-> vec[x]] /\ graph = [x \in DocUris |-> graph[x]]
      /\ sums = [k \in Workspaces \X Files |-> sums[k]]
      /\ run = [d \in Callers |-> run[d]]
  BY DocUriType DEF TypeInv, TypeOK, Run
<1>1. ASSUME r.pc \in Rebuilding PROVE r.uri = u
  BY <1>1 DEF NotRecorded
<1>2. ASSUME docs' = docs, NEW w \in Workspaces, NEW f \in Files
      PROVE DocUri(w, f)' = DocUri(w, f)
  BY <1>2 DEF DocUri
<1>3. ASSUME UNCHANGED stores, r.pc # "idle", NEW q, run' = [run EXCEPT ![c] = q]
      PROVE Frame(c)
  BY <1>2, <1>3, <1>0 DEF Frame
<1>4. ASSUME NEW f \in Files, Pass(c, f) PROVE Frame(c)
  BY <1>4, <1>2, <1>0 DEF Pass, Frame
<1>5. ASSUME NEW f \in Files, Take(c, f) PROVE Frame(c)
  BY <1>5, <1>2, <1>0 DEF Take, Frame
<1>6. CASE PutDoc(c)
  BY <1>6, <1>0, DocUriStable DEF PutDoc, Frame
<1>7. CASE ListOld(c)
  BY <1>7, <1>2, <1>0 DEF ListOld, Frame
<1>8. CASE UpsertVectors(c)
  BY <1>8, <1>0, <1>1, <1>2 DEF UpsertVectors, Frame, Rebuilding
<1>9. CASE PutChunk(c)
  BY <1>9, <1>0, <1>1, <1>2 DEF PutChunk, Frame, Rebuilding
<1>10. CASE UpsertMentions(c)
  BY <1>10, <1>0, <1>1, <1>2 DEF UpsertMentions, Frame, Rebuilding
<1>11. CASE DropVectors(c)
  BY <1>11, <1>0, <1>1, <1>2 DEF DropVectors, Frame, Rebuilding
<1>12. CASE DropGraph(c)
  BY <1>12, <1>0, <1>1, <1>2 DEF DropGraph, Frame, Rebuilding
<1>13. ASSUME NEW i \in Idx, DropRow(c, i) PROVE Frame(c)
  BY <1>13, <1>0, <1>1, <1>2 DEF DropRow, Frame, Rebuilding
<1>14. CASE SetChecksum(c)
  BY <1>14, <1>0, <1>2 DEF SetChecksum, Frame
<1>15. CASE Finish(c)
  BY <1>15, <1>3 DEF Finish, Leave
<1> QED
  BY <1>4, <1>5, <1>6, <1>7, <1>8, <1>9, <1>10, <1>11, <1>12, <1>13, <1>14, <1>15 DEF Step

\* Two calls under way in one process are in different workspaces.
LEMMA Exclusion ==
    ASSUME SingleProcess, TypeInv, LockHeld,
           NEW c \in Callers, NEW d \in Callers, c # d,
           run[c].pc # "idle", run[d].pc # "idle"
    PROVE  run[c].ws # run[d].ws
<1>1. ProcessOf[c] = ProcessOf[d]
  BY DataAssumption DEF SingleProcess
<1> QED
  BY <1>1 DEF LockHeld, LockOf

\* A step of c keeps what the locals of any other call say true.
LEMMA OthersTruth ==
    ASSUME SingleProcess, TypeInv, LockHeld,
           NEW c \in Callers, NEW d \in Callers, c # d,
           Frame(c), Truth(d), PassedOf(d)
    PROVE  Truth(d)' /\ PassedOf(d)'
<1> DEFINE r == run[d]
           u == DocUri(r.ws, r.file)
<1>0. /\ run'[d] = r /\ r.ws \in Workspaces /\ r.file \in Files /\ r \in Run
      /\ run[c].ws \in Workspaces /\ run[c].file \in Files /\ u \in DocUris
      /\ run[c].pc # "idle"
  BY DocUriType DEF Frame, TypeInv, TypeOK, Run
<1>1. Text(d)' = Text(d) /\ Count(d)' = Count(d)
  BY <1>0 DEF Text, Count
<1>2. CASE r.pc = "idle"
  BY <1>0, <1>2 DEF Truth, NotRecorded, StaleListed, ChunksReached, PassedOf,
       Listed, VectorsWritten, ChunksWritten, Working, Rebuilding
<1>3. CASE r.pc # "idle"
  <2>1. r.ws # run[c].ws
    BY <1>0, <1>3, Exclusion
  <2>2. u # DocUri(run[c].ws, run[c].file)
    BY <1>0, <2>1, DocUriInjective
  <2>3. /\ docs'[u] = docs[u] /\ rows'[u] = rows[u]
        /\ vec'[u] = vec[u] /\ graph'[u] = graph[u] /\ DocUri(r.ws, r.file)' = u
    BY <1>0, <2>2 DEF Frame
  <2>4. \A f \in Files : sums'[<<r.ws, f>>] = sums[<<r.ws, f>>]
    BY <1>0, <2>1 DEF Frame
  <2>5. r.pc \in Rebuilding => r.uri = u
    BY DEF Truth, NotRecorded
  <2>6. NotRecorded(d)'
    BY <1>0, <1>1, <2>3, <2>4, <2>5 DEF Truth, NotRecorded
  <2>7. StaleListed(d)'
    BY <1>0, <1>1, <2>3, <2>5 DEF Truth, StaleListed, Listed, Rebuilding
  <2>8. ChunksReached(d)'
    BY <1>0, <1>1, <2>3, <2>5 DEF Truth, ChunksReached, Listed, VectorsWritten,
         ChunksWritten, Rebuilding, Covers
  <2>9. PassedOf(d)'
    BY <1>0, <2>4 DEF PassedOf
  <2> QED BY <2>6, <2>7, <2>8, <2>9 DEF Truth
<1> QED BY <1>2, <1>3

\* A step of c keeps every other document whole.
LEMMA OthersRecorded ==
    ASSUME TypeInv, NEW c \in Callers, Frame(c),
           NEW w \in Workspaces, NEW f \in Files,
           <<w, f>> # <<run[c].ws, run[c].file>>, RecordedAt(w, f)
    PROVE  RecordedAt(w, f)'
<1> DEFINE u == DocUri(w, f)
<1>1. run[c].ws \in Workspaces /\ run[c].file \in Files /\ u \in DocUris
  BY DocUriType DEF TypeInv, TypeOK, Run
<1>2. u # DocUri(run[c].ws, run[c].file)
  BY <1>1, DocUriInjective
<1>3. /\ docs'[u] = docs[u] /\ rows'[u] = rows[u]
      /\ vec'[u] = vec[u] /\ graph'[u] = graph[u]
      /\ u' = u /\ sums'[<<w, f>>] = sums[<<w, f>>]
  BY <1>1, <1>2 DEF Frame
<1> QED
  BY <1>3 DEF RecordedAt, Settled, GraphShows, Covers

-----------------------------------------------------------------------------
(* What a step of one call does to the document it is at.                  *)

\* All of IndexInv that a step of c can disturb by what it does itself.
Own(c) ==
    /\ Truth(c)
    /\ PassedOf(c)
    /\ GraphChunksHaveRows

\* A document whose row is written and whose checksum is not recorded yet is
\* not Settled, so nothing is claimed of it.
LEMMA AtWork ==
    ASSUME NEW c \in Callers, NotRecorded(c), run[c].pc \in Rebuilding
    PROVE  RecordedAt(run[c].ws, run[c].file)
  BY DEF NotRecorded, RecordedAt, Settled, Rebuilding, Working

LEMMA OwnScan ==
    ASSUME TypeInv, NEW c \in Callers, Own(c), NEW f \in Files,
           Pass(c, f) \/ Take(c, f)
    PROVE  Own(c)' /\ UNCHANGED stores
<1> DEFINE r == run[c]
           q == run'[c]
<1> USE DEF stores
<1>0. r \in Run /\ run = [d \in Callers |-> run[d]] /\ UNCHANGED stores
  BY DEF TypeInv, TypeOK, Pass, Take
<1>1. GraphChunksHaveRows'
  BY <1>0 DEF Own, GraphChunksHaveRows
<1>2. CASE Pass(c, f)
  <2>1. /\ q.pc = "scan" /\ r.pc = "scan" /\ q.left = r.left \ {f}
        /\ q.snap = r.snap /\ q.dry = r.dry /\ q.ws = r.ws
        /\ r.dry \/ sums[<<r.ws, f>>] = r.snap[f]
    BY <1>0, <1>2 DEF Pass, Run
  <2>2. Truth(c)'
    BY <2>1 DEF Truth, NotRecorded, StaleListed, ChunksReached, Listed, VectorsWritten,
         ChunksWritten, Working, Rebuilding
  <2>3. PassedOf(c)'
    BY <1>0, <2>1 DEF Own, PassedOf, Working, Rebuilding
  <2> QED BY <1>0, <1>1, <2>2, <2>3 DEF Own
<1>3. CASE Take(c, f)
  <2>1. /\ q.pc = "putDoc" /\ r.pc = "scan" /\ q.left = r.left \ {f} /\ q.file = f
        /\ q.snap = r.snap /\ q.dry = r.dry /\ q.ws = r.ws
        /\ sums[<<r.ws, f>>] # r.snap[f]
    BY <1>0, <1>3 DEF Take, Run
  <2>2. Truth(c)'
    BY <1>0, <2>1 DEF Truth, NotRecorded, StaleListed, ChunksReached, Listed, VectorsWritten,
         ChunksWritten, Rebuilding, Text
  <2>3. PassedOf(c)'
    BY <1>0, <2>1 DEF Own, PassedOf, Working, Rebuilding
  <2> QED BY <1>0, <1>1, <2>2, <2>3 DEF Own
<1> QED BY <1>2, <1>3

\* A step within the work on a document changes none of what PassedOf says.
LEMMA OwnPassed ==
    ASSUME NEW c \in Callers, PassedOf(c), sums' = sums,
           run[c].pc \in Working, run'[c].pc \in Working,
           run'[c].ws = run[c].ws, run'[c].file = run[c].file,
           run'[c].dry = run[c].dry, run'[c].snap = run[c].snap,
           run'[c].left = run[c].left
    PROVE  PassedOf(c)'
  BY DEF PassedOf, Working, Rebuilding

\* Nor, once the row is written, what NotRecorded says.
LEMMA OwnNotRecorded ==
    ASSUME NEW c \in Callers, NotRecorded(c), sums' = sums, docs' = docs,
           run[c].pc \in Rebuilding,
           run'[c].ws = run[c].ws, run'[c].file = run[c].file,
           run'[c].snap = run[c].snap, run'[c].uri = run[c].uri
    PROVE  NotRecorded(c)'
  BY DEF NotRecorded, Text, DocUri, Working

LEMMA OwnRebuild ==
    ASSUME TypeInv, NEW c \in Callers, Own(c), run[c].pc \in Working,
           NEW w \in Workspaces, w = run[c].ws, NEW f \in Files, f = run[c].file,
           Step(c), ~SetChecksum(c)
    PROVE  Own(c)' /\ RecordedAt(w, f)'
<1> DEFINE r == run[c]
           q == run'[c]
           u == r.uri
           v == Text(c)
           n == Count(c)
<1>0. /\ r \in Run /\ run = [d \in Callers |-> run[d]]
      /\ r.ws = w /\ r.file = f /\ u \in DocUris
      /\ r.row \in Nat /\ r.stale \subseteq Idx
      /\ v \in Versions /\ v # NoVersion /\ n \in Nat /\ n <= MaxChunks /\ n = ChunkCount[v]
      /\ rows[u] = [i \in Idx |-> rows[u][i]] /\ vec[u] = [i \in Idx |-> vec[u][i]]
      /\ graph[u] = [i \in Idx |-> graph[u][i]]
      /\ docs = [x \in DocUris |-> docs[x]] /\ rows = [x \in DocUris |-> rows[x]]
      /\ vec = [x \in DocUris |-> vec[x]] /\ graph = [x \in DocUris |-> graph[x]]
      /\ Idx \subseteq Nat \ {0} /\ MaxChunks \in Nat
      /\ r.pc \in {"chunk", "mentions"} => r.row \in Idx /\ r.row <= n
  BY CountType, NamesAssumption, DataAssumption
     DEF TypeInv, TypeOK, Run, LocalsOK, Idx, Count
<1>1. /\ r.pc \in Listed => \A i \in Idx : /\ i \in r.stale => i > n
                                           /\ i > n /\ rows[u][i] # NoVersion => i \in r.stale
      /\ r.pc = "dropRows" => \A i \in r.stale : graph[u][i] = {}
      /\ r.pc \in VectorsWritten =>
           /\ \A i \in Idx : i <= n => vec[u][i] = v
           /\ \A i \in Idx : i < r.row /\ i <= n => rows[u][i] = v /\ v \in graph[u][i]
      /\ r.pc = "mentions" => rows[u][r.row] = v
      /\ r.pc \in ChunksWritten => r.row = n + 1
  BY <1>0 DEF Own, Truth, StaleListed, ChunksReached, Covers
\* It is enough to follow the locals the step keeps.
<1> DEFINE Keeps == /\ q.ws = r.ws /\ q.file = r.file /\ q.dry = r.dry
                    /\ q.snap = r.snap /\ q.left = r.left /\ sums' = sums
                    /\ Text(c)' = v /\ Count(c)' = n
<1>2. ASSUME q.ws = r.ws, q.file = r.file, q.dry = r.dry,
             q.snap = r.snap, q.left = r.left, sums' = sums
      PROVE  Keeps
  BY <1>2 DEF Text, Count
<1>3. ASSUME Keeps, docs' = docs, q.uri = u, r.pc \in Rebuilding, q.pc \in Rebuilding,
             StaleListed(c)', ChunksReached(c)', GraphChunksHaveRows'
      PROVE  Own(c)' /\ RecordedAt(w, f)'
  <2>1. NotRecorded(c)'
    BY <1>3, OwnNotRecorded DEF Own, Truth
  <2>2. PassedOf(c)'
    BY <1>3, OwnPassed DEF Own, Working
  <2>3. RecordedAt(w, f)'
    BY <1>3, <2>1 DEF NotRecorded, RecordedAt, Settled, DocUri, Working
  <2> QED BY <1>3, <2>1, <2>2, <2>3 DEF Own, Truth
<1>4. CASE PutDoc(c)
  <2>1. q.pc = "listOld" /\ r.pc = "putDoc" /\ q.uri = DocUri(r.ws, r.file) /\ Keeps
    BY <1>0, <1>2, <1>4 DEF PutDoc, Run
  <2>2. /\ q.uri = DocUri(w, f)'
        /\ docs'[q.uri] = [ws |-> w, sum |-> v]
    <3>1. DocUri(w, f)' = DocUri(w, f) /\ DocUri(w, f) \in DocUris
      BY <1>4, DocUriType, DocUriStable
    <3>2. q.uri = DocUri(w, f)
      BY <1>0, <2>1
    <3>3. docs'[DocUri(w, f)] = [ws |-> w, sum |-> v]
      BY <1>0, <1>4, <3>1 DEF PutDoc
    <3> QED BY <3>1, <3>2, <3>3
  <2>3. NotRecorded(c)'
    BY <2>1, <2>2 DEF Own, Truth, NotRecorded, Working, DocUri
  <2>4. StaleListed(c)' /\ ChunksReached(c)'
    BY <2>1 DEF StaleListed, ChunksReached, Listed, VectorsWritten, ChunksWritten
  <2>5. PassedOf(c)'
    BY <2>1, OwnPassed DEF Own, Working, Rebuilding
  <2>6. GraphChunksHaveRows'
    BY <1>4 DEF PutDoc, Own, GraphChunksHaveRows
  <2>7. RecordedAt(w, f)'
    BY <2>1, <2>3 DEF NotRecorded, RecordedAt, Settled, DocUri, Working, Rebuilding
  <2> QED BY <2>3, <2>4, <2>5, <2>6, <2>7 DEF Own, Truth
<1>5. CASE ListOld(c)
  <2>1. /\ q.pc = "vectors" /\ r.pc = "listOld" /\ q.uri = u /\ Keeps
        /\ q.stale = {i \in Idx : rows[u][i] # NoVersion /\ i > n}
    BY <1>0, <1>2, <1>5 DEF ListOld, Run, stores
  <2>2. UNCHANGED <<docs, rows, vec, graph>>
    BY <1>5 DEF ListOld, stores
  <2>3. StaleListed(c)' /\ ChunksReached(c)'
    BY <2>1, <2>2 DEF StaleListed, ChunksReached, Listed, VectorsWritten, ChunksWritten
  <2>4. GraphChunksHaveRows'
    BY <2>2 DEF Own, GraphChunksHaveRows
  <2> QED BY <1>3, <2>1, <2>2, <2>3, <2>4 DEF Rebuilding
<1>6. CASE UpsertVectors(c)
  <2>1. /\ q.pc = AfterChunk(c, 0) /\ r.pc = "vectors" /\ q.uri = u /\ Keeps
        /\ q.stale = r.stale /\ q.row = 1
    BY <1>0, <1>2, <1>6 DEF UpsertVectors, Run
  <2>2. /\ UNCHANGED <<docs, rows, graph>>
        /\ \A i \in Idx : i <= n => vec'[u][i] = v
    BY <1>0, <1>6 DEF UpsertVectors
  <2>3. /\ q.pc \in {"chunk", "dropVectors", "checksum"}
        /\ q.pc # "chunk" => n = 0
        /\ q.pc = "checksum" => r.stale = {}
    BY <1>0, <2>1 DEF AfterChunk
  <2>4. StaleListed(c)'
    BY <1>1, <2>1, <2>2, <2>3 DEF StaleListed, Listed, Rebuilding
  <2>5. ChunksReached(c)'
    BY <1>0, <2>1, <2>2, <2>3 DEF ChunksReached, Covers, ChunksWritten, VectorsWritten, Listed
  <2>6. GraphChunksHaveRows'
    BY <2>2 DEF Own, GraphChunksHaveRows
  <2> QED BY <1>3, <2>1, <2>2, <2>3, <2>4, <2>5, <2>6 DEF Rebuilding
<1>7. CASE PutChunk(c)
  <2>1. /\ q.pc = "mentions" /\ r.pc = "chunk" /\ q.uri = u /\ Keeps
        /\ q.stale = r.stale /\ q.row = r.row
        /\ r.row \in Idx /\ r.row <= n
    BY <1>0, <1>2, <1>7 DEF PutChunk, Run
  <2>2. /\ UNCHANGED <<docs, vec, graph>>
        /\ rows'[u][r.row] = v
        /\ \A i \in Idx : i # r.row => rows'[u][i] = rows[u][i]
        /\ \A x \in DocUris : x # u => rows'[x] = rows[x]
    BY <1>0, <1>7, <2>1 DEF PutChunk
  <2>3. StaleListed(c)'
    BY <1>0, <1>1, <2>1, <2>2 DEF StaleListed, Listed, Rebuilding
  <2>4. ChunksReached(c)'
    BY <1>0, <1>1, <2>1, <2>2 DEF ChunksReached, Covers, ChunksWritten, VectorsWritten, Listed, Rebuilding
  <2>5. GraphChunksHaveRows'
    BY <1>0, <2>1, <2>2 DEF Own, GraphChunksHaveRows
  <2> QED BY <1>3, <2>1, <2>2, <2>3, <2>4, <2>5 DEF Rebuilding
<1>8. CASE UpsertMentions(c)
  <2>1. /\ q.pc = AfterChunk(c, r.row) /\ r.pc = "mentions" /\ q.uri = u /\ Keeps
        /\ q.stale = r.stale /\ q.row = r.row + 1
        /\ r.row \in Idx /\ r.row <= n
    BY <1>0, <1>2, <1>8 DEF UpsertMentions, Run
  <2>2. /\ UNCHANGED <<docs, rows, vec>>
        /\ v \in graph'[u][r.row]
        /\ \A i \in Idx : i # r.row => graph'[u][i] = graph[u][i]
        /\ \A x \in DocUris : x # u => graph'[x] = graph[x]
    BY <1>0, <1>8, <2>1 DEF UpsertMentions
  <2>3. /\ q.pc \in {"chunk", "dropVectors", "checksum"}
        /\ q.pc # "chunk" => n = r.row
        /\ q.pc = "checksum" => r.stale = {}
    BY <1>0, <2>1 DEF AfterChunk
  <2>4. StaleListed(c)'
    BY <1>1, <2>1, <2>2, <2>3 DEF StaleListed, Listed, Rebuilding
  <2>5. ChunksReached(c)'
    BY <1>0, <1>1, <2>1, <2>2, <2>3 DEF ChunksReached, Covers, ChunksWritten, VectorsWritten, Listed, Rebuilding
  <2>6. GraphChunksHaveRows'
    BY <1>0, <1>1, <2>1, <2>2 DEF Own, GraphChunksHaveRows
  <2> QED BY <1>3, <2>1, <2>2, <2>3, <2>4, <2>5, <2>6 DEF Rebuilding
<1>9. CASE DropVectors(c)
  <2>1. /\ q.pc = "dropGraph" /\ r.pc = "dropVectors" /\ q.uri = u /\ Keeps
        /\ q.stale = r.stale /\ q.row = r.row
    BY <1>0, <1>2, <1>9 DEF DropVectors, Run
  <2>2. /\ UNCHANGED <<docs, rows, graph>>
        /\ \A i \in Idx : i \notin r.stale => vec'[u][i] = vec[u][i]
    BY <1>0, <1>9 DEF DropVectors, Without
  <2>3. StaleListed(c)'
    BY <1>1, <2>1, <2>2 DEF StaleListed, Listed, Rebuilding
  <2>4. ChunksReached(c)'
    BY <1>0, <1>1, <2>1, <2>2 DEF ChunksReached, Covers, ChunksWritten, VectorsWritten, Listed, Rebuilding
  <2>5. GraphChunksHaveRows'
    BY <2>2 DEF Own, GraphChunksHaveRows
  <2> QED BY <1>3, <2>1, <2>2, <2>3, <2>4, <2>5 DEF Rebuilding
<1>10. CASE DropGraph(c)
  <2>1. /\ q.pc = "dropRows" /\ r.pc = "dropGraph" /\ q.uri = u /\ Keeps
        /\ q.stale = r.stale /\ q.row = r.row
    BY <1>0, <1>2, <1>10 DEF DropGraph, Run
  <2>2. /\ UNCHANGED <<docs, rows, vec>>
        /\ \A i \in Idx : graph'[u][i] = IF i \in r.stale THEN {} ELSE graph[u][i]
        /\ \A x \in DocUris : x # u => graph'[x] = graph[x]
    BY <1>0, <1>10 DEF DropGraph
  <2>3. StaleListed(c)'
    BY <1>0, <1>1, <2>1, <2>2 DEF StaleListed, Listed, Rebuilding
  <2>4. ChunksReached(c)'
    BY <1>0, <1>1, <2>1, <2>2 DEF ChunksReached, Covers, ChunksWritten, VectorsWritten, Listed, Rebuilding
  <2>5. GraphChunksHaveRows'
    BY <1>0, <2>2 DEF Own, GraphChunksHaveRows
  <2> QED BY <1>3, <2>1, <2>2, <2>3, <2>4, <2>5 DEF Rebuilding
<1>11. ASSUME NEW j \in Idx, DropRow(c, j)
       PROVE  Own(c)' /\ RecordedAt(w, f)'
  <2>1. /\ q.pc = (IF r.stale = {j} THEN "checksum" ELSE "dropRows")
        /\ r.pc = "dropRows" /\ q.uri = u /\ Keeps
        /\ q.stale = r.stale \ {j} /\ q.row = r.row /\ j \in r.stale
    BY <1>0, <1>2, <1>11 DEF DropRow, Run
  <2>2. /\ UNCHANGED <<docs, graph, vec>>
        /\ \A i \in Idx : rows'[u][i] = IF i = j THEN NoVersion ELSE rows[u][i]
        /\ \A x \in DocUris : x # u => rows'[x] = rows[x]
    BY <1>0, <1>11 DEF DropRow, Without
  <2>3. StaleListed(c)'
    <3>1. \A i \in Idx : /\ i \in q.stale => i > n
                         /\ i > n /\ rows'[u][i] # NoVersion => i \in q.stale
      BY <1>1, <2>1, <2>2 DEF Listed, Rebuilding
    <3>2. \A i \in q.stale : graph'[u][i] = {}
      BY <1>1, <2>1, <2>2
    <3>3. q.pc = "checksum" => q.stale = {}
      BY <2>1
    <3> QED BY <2>1, <3>1, <3>2, <3>3 DEF StaleListed
  <2>4. ChunksReached(c)'
    BY <1>0, <1>1, <2>1, <2>2 DEF ChunksReached, Covers, ChunksWritten, VectorsWritten, Listed, Rebuilding
  <2>5. GraphChunksHaveRows'
    <3>1. graph[u][j] = {}
      BY <1>1, <2>1
    <3>2. ASSUME NEW x \in DocUris, NEW i \in Idx, graph'[x][i] # {}
          PROVE  rows'[x][i] # NoVersion
      <4>1. rows[x][i] # NoVersion /\ ~(x = u /\ i = j)
        BY <2>2, <3>1, <3>2 DEF Own, GraphChunksHaveRows
      <4> QED BY <2>2, <4>1
    <3> QED BY <3>2 DEF GraphChunksHaveRows
  <2> QED BY <1>3, <2>1, <2>2, <2>3, <2>4, <2>5 DEF Rebuilding
<1> QED
  BY <1>4, <1>5, <1>6, <1>7, <1>8, <1>9, <1>10, <1>11
     DEF Step, Pass, Take, Finish, Working, Rebuilding

\* Recording the checksum is what makes the document Settled again.
LEMMA OwnChecksum ==
    ASSUME TypeInv, NEW c \in Callers, Own(c), SetChecksum(c),
           NEW w \in Workspaces, w = run[c].ws, NEW f \in Files, f = run[c].file
    PROVE  Own(c)' /\ RecordedAt(w, f)'
<1> DEFINE r == run[c]
           q == run'[c]
           u == r.uri
           v == Text(c)
           n == Count(c)
<1>a. r \in Run /\ r.pc = "checksum" /\ u \in DocUris /\ r.pc \in Working /\ r.pc \in Rebuilding
  BY DEF SetChecksum, TypeInv, TypeOK, Run, Working, Rebuilding
<1>b. v \in Versions /\ n \in Nat /\ n = ChunkCount[v] /\ v = r.snap[f]
  BY <1>a, CountType DEF TypeInv, LocalsOK, Count, Text
<1>c. u = DocUri(w, f)
  BY <1>a DEF Own, Truth, NotRecorded
<1>d. rows \in [DocUris -> [Idx -> Versions \cup {NoVersion}]] /\ Idx \subseteq Nat
  BY DEF TypeInv, TypeOK, Idx
<1>0. /\ r \in Run /\ r.pc = "checksum" /\ u \in DocUris
      /\ v \in Versions /\ n \in Nat /\ n = ChunkCount[v] /\ v = r.snap[f]
      /\ u = DocUri(w, f) /\ rows[u] = [i \in Idx |-> rows[u][i]] /\ Idx \subseteq Nat
  BY <1>a, <1>b, <1>c, <1>d
<1>1. /\ UNCHANGED <<docs, rows, vec, graph>>
      /\ sums'[<<w, f>>] = v
      /\ \A g \in Files : g # f => sums'[<<w, g>>] = sums[<<w, g>>]
      /\ q.pc = "scan" /\ q.ws = w /\ q.dry = r.dry /\ q.snap = r.snap /\ q.left = r.left
  BY <1>0 DEF SetChecksum, TypeInv, TypeOK, Run
<1>2. /\ \A i \in Idx : i <= n => /\ rows[u][i] = v /\ vec[u][i] = v
                                  /\ v \in graph[u][i]
      /\ \A i \in Idx : i > n => rows[u][i] = NoVersion
  BY <1>0 DEF Own, Truth, StaleListed, ChunksReached, Covers, Listed,
       VectorsWritten, ChunksWritten, Rebuilding
<1>3. \A i \in Idx : i > n => graph[u][i] = {}
  BY <1>0, <1>2 DEF Own, GraphChunksHaveRows
<1>4. RecordedAt(w, f)'
  <2>0. PICK x \in DocUris, y \in Versions : x = u /\ y = v
    BY <1>0
  <2>1. DocUri(w, f)' = x
    BY <1>0, <1>1, <2>0 DEF DocUri
  <2>2. rows[x] = Entries(y)
    <3>1. \A i \in Idx : rows[x][i] = IF i <= n THEN y ELSE NoVersion
      BY <1>0, <1>2, <2>0
    <3>2. rows[x] = [i \in Idx |-> rows[x][i]]
      BY <1>0, <2>0
    <3> QED BY <1>0, <2>0, <3>1, <3>2 DEF Entries
  <2>3. GraphShows(x, y) /\ Covers(vec, x, y)
    BY <1>0, <1>2, <1>3, <2>0 DEF GraphShows, Covers
  <2>4. GraphShows(x, y)' /\ vec' = vec /\ rows' = rows
    BY <1>1, <2>3 DEF GraphShows
  <2>5. sums'[<<w, f>>] = y
    BY <1>1, <2>0
  <2> QED BY <2>1, <2>2, <2>3, <2>4, <2>5 DEF RecordedAt, GraphShows, Covers
<1>5. PassedOf(c)'
  BY <1>0, <1>1 DEF Own, PassedOf, Working, Rebuilding
<1>6. Truth(c)'
  BY <1>1 DEF Truth, NotRecorded, StaleListed, ChunksReached, Listed,
       VectorsWritten, ChunksWritten, Working, Rebuilding
<1>7. GraphChunksHaveRows'
  BY <1>1 DEF Own, GraphChunksHaveRows
<1> QED BY <1>4, <1>5, <1>6, <1>7 DEF Own
-----------------------------------------------------------------------------
(* The invariant, action by action.                                        *)

LEMMA IndexInvParts ==
    IndexInv <=> /\ LockHeld
                 /\ \A c \in Callers : Own(c)
                 /\ GraphChunksHaveRows
                 /\ \A w \in Workspaces, f \in Files : RecordedAt(w, f)
  BY DEF IndexInv, LocalsTellTruth, RecordedIsIndexed, PassedIsRecorded,
       Own, Truth, PassedOf, RecordedAt

LEMMA RecordedRests ==
    ASSUME NEW w \in Workspaces, NEW f \in Files, RecordedAt(w, f), UNCHANGED stores
    PROVE  RecordedAt(w, f)'
<1>1. /\ DocUri(w, f)' = DocUri(w, f) /\ docs' = docs /\ sums' = sums
      /\ rows' = rows /\ vec' = vec /\ graph' = graph
  BY DEF stores, DocUri
<1> QED
  BY <1>1 DEF RecordedAt, Settled, GraphShows, Covers

LEMMA LeaveLock ==
    ASSUME TypeInv, LockHeld, NEW c \in Callers, run[c].pc # "idle", Leave(c)
    PROVE  LockHeld'
<1>1. /\ run'[c].pc = "idle"
      /\ \A d \in Callers : d # c => run'[d] = run[d]
  BY IdleRunLocals DEF Leave, TypeInv, TypeOK
<1>2. ASSUME NEW d \in Callers, run'[d].pc # "idle"
      PROVE  lock'[LockOf(d, run[d].ws)] = d /\ run'[d] = run[d]
  <2>1. d # c /\ run'[d] = run[d] /\ run[d].ws \in Workspaces
    BY <1>1, <1>2 DEF TypeInv, TypeOK, Run
  <2>2. lock[LockOf(d, run[d].ws)] = d /\ lock[LockOf(c, run[c].ws)] = c
    BY <1>2, <2>1 DEF LockHeld
  <2>3. LockOf(d, run[d].ws) \in Processes \X Workspaces
    BY <2>1, LockOfType
  <2> QED BY <2>1, <2>2, <2>3 DEF Leave, TypeInv, TypeOK
<1> QED
  BY <1>2 DEF LockHeld, LockOf

LEMMA StepLock ==
    ASSUME TypeInv, LockHeld, NEW c \in Callers, Step(c)
    PROVE  LockHeld'
<1>1. CASE Finish(c)
  BY <1>1, LeaveLock DEF Finish
<1>2. CASE ~Finish(c)
  <2> DEFINE Same == /\ lock' = lock /\ run'[c].ws = run[c].ws /\ run[c].pc # "idle"
                     /\ \A d \in Callers : d # c => run'[d] = run[d]
  <2>0. run = [d \in Callers |-> run[d]] /\ run[c] \in Run
    BY DEF TypeInv, TypeOK
  <2>1. ASSUME NEW f \in Files, Pass(c, f) \/ Take(c, f) PROVE Same
    BY <2>0, <2>1 DEF Pass, Take, Run
  <2>2. ASSUME PutDoc(c) PROVE Same
    BY <2>0, <2>2 DEF PutDoc, Run
  <2>3. ASSUME ListOld(c) PROVE Same
    BY <2>0, <2>3 DEF ListOld, Run
  <2>4. ASSUME UpsertVectors(c) PROVE Same
    BY <2>0, <2>4 DEF UpsertVectors, Run
  <2>5. ASSUME PutChunk(c) PROVE Same
    BY <2>0, <2>5 DEF PutChunk, Run
  <2>6. ASSUME UpsertMentions(c) PROVE Same
    BY <2>0, <2>6 DEF UpsertMentions, Run
  <2>7. ASSUME DropVectors(c) PROVE Same
    BY <2>0, <2>7 DEF DropVectors, Run
  <2>8. ASSUME DropGraph(c) PROVE Same
    BY <2>0, <2>8 DEF DropGraph, Run
  <2>9. ASSUME NEW i \in Idx, DropRow(c, i) PROVE Same
    BY <2>0, <2>9 DEF DropRow, Run
  <2>10. ASSUME SetChecksum(c) PROVE Same
    BY <2>0, <2>10 DEF SetChecksum, Run
  <2>11. Same
    BY <1>2, <2>1, <2>2, <2>3, <2>4, <2>5, <2>6, <2>7, <2>8, <2>9, <2>10 DEF Step
  <2> QED BY <2>11 DEF LockHeld, LockOf
<1> QED BY <1>1, <1>2

LEMMA StepInv ==
    ASSUME SingleProcess, TypeInv, IndexInv, NEW c \in Callers, Step(c), ~Finish(c)
    PROVE  IndexInv'
<1>0. /\ LockHeld /\ GraphChunksHaveRows
      /\ \A d \in Callers : Own(d) /\ Truth(d) /\ PassedOf(d) /\ NotRecorded(d)
      /\ \A w \in Workspaces, f \in Files : RecordedAt(w, f)
  BY IndexInvParts DEF Own, Truth
<1>1. PICK w \in Workspaces, f \in Files : w = run[c].ws /\ f = run[c].file
  BY DEF TypeInv, TypeOK, Run
<1>2. Frame(c) /\ LockHeld'
  BY <1>0, StepFrame, StepLock
<1>3. Own(c)' /\ RecordedAt(w, f)'
  <2>1. ASSUME NEW g \in Files, Pass(c, g) \/ Take(c, g)
        PROVE  Own(c)' /\ RecordedAt(w, f)'
    <3>1. Own(c)' /\ UNCHANGED stores
      BY <1>0, <2>1, OwnScan
    <3> QED BY <1>0, <3>1, RecordedRests
  <2>2. CASE SetChecksum(c)
    BY <1>0, <1>1, <2>2, OwnChecksum
  <2>3. CASE /\ ~SetChecksum(c) /\ \A g \in Files : ~Pass(c, g) /\ ~Take(c, g)
    <3>1. run[c].pc \in Working
      BY <2>3 DEF Step, PutDoc, ListOld, UpsertVectors, PutChunk, UpsertMentions,
           DropVectors, DropGraph, DropRow, Working, Rebuilding
    <3> QED BY <1>0, <1>1, <2>3, <3>1, OwnRebuild
  <2> QED BY <2>1, <2>2, <2>3
<1>4. ASSUME NEW d \in Callers, d # c PROVE Own(d)'
  BY <1>0, <1>2, <1>3, <1>4, OthersTruth DEF Own
<1>5. ASSUME NEW x \in Workspaces, NEW g \in Files, <<x, g>> # <<w, f>>
      PROVE  RecordedAt(x, g)'
  BY <1>0, <1>1, <1>2, <1>5, OthersRecorded
<1>6. \A x \in Workspaces, g \in Files : RecordedAt(x, g)'
  BY <1>3, <1>5
<1>7. \A d \in Callers : Own(d)'
  BY <1>3, <1>4
<1> QED
  BY <1>2, <1>3, <1>6, <1>7 DEF Own, IndexInv, LocalsTellTruth, RecordedIsIndexed,
       PassedIsRecorded, Truth, PassedOf, RecordedAt

\* A call that enters, or leaves, or is left alone, while the stores rest.
LEMMA RestInv ==
    ASSUME IndexInv, UNCHANGED stores, LockHeld',
           \A d \in Callers : \/ run'[d] = run[d]
                              \/ run'[d].pc = "idle"
                              \/ run'[d].pc = "scan" /\ PassedOf(d)'
    PROVE  IndexInv'
<1>1. GraphChunksHaveRows'
  BY DEF IndexInv, GraphChunksHaveRows, stores
<1>a. \A w \in Workspaces, f \in Files : RecordedAt(w, f)'
  BY IndexInvParts, RecordedRests
<1>2. ASSUME NEW d \in Callers PROVE Truth(d)' /\ PassedOf(d)'
  <2>0. Truth(d) /\ PassedOf(d)
    BY IndexInvParts DEF Own
  <2>1. CASE run'[d] = run[d]
    BY <2>0, <2>1 DEF Truth, NotRecorded, StaleListed, ChunksReached, PassedOf, Text, Count,
         DocUri, Covers, stores
  <2>2. CASE run'[d].pc = "idle"
    BY <2>2 DEF Truth, NotRecorded, StaleListed, ChunksReached, Listed, VectorsWritten,
         ChunksWritten, Working, Rebuilding, PassedOf
  <2>3. CASE run'[d].pc = "scan" /\ PassedOf(d)'
    BY <2>3 DEF Truth, NotRecorded, StaleListed, ChunksReached, Listed, VectorsWritten,
         ChunksWritten, Working, Rebuilding
  <2> QED BY <2>1, <2>2, <2>3
<1> QED
  BY <1>1, <1>a, <1>2 DEF IndexInv, LocalsTellTruth, RecordedIsIndexed, RecordedAt,
       PassedIsRecorded, Truth, PassedOf

LEMMA InitInv == Init => IndexInv
<1> SUFFICES ASSUME Init PROVE IndexInv
  OBVIOUS
<1>1. \A c \in Callers : run[c].pc = "idle"
  BY IdleRunLocals DEF Init
<1>2. LockHeld
  BY <1>1 DEF LockHeld
<1>3. ASSUME NEW c \in Callers PROVE Truth(c) /\ PassedOf(c)
  BY <1>1 DEF Truth, NotRecorded, StaleListed, ChunksReached, Listed, VectorsWritten,
       ChunksWritten, Working, Rebuilding, PassedOf
<1>4. GraphChunksHaveRows
  BY DEF Init, GraphChunksHaveRows
<1>5. ASSUME NEW w \in Workspaces, NEW f \in Files PROVE RecordedAt(w, f)
  <2> DEFINE d == LegacyDocs[f]
  <2>0. /\ <<Legacy, f>> \in DocUris /\ <<w, f>> \in DocUris /\ w # Legacy
        /\ docs[<<Legacy, f>>] = d /\ docs[<<w, f>>] = NoDoc
    BY NamesAssumption DEF Init, DocUris
  <2>1. CASE d # NoDoc /\ d.ws = w
    <3>1. DocUri(w, f) = <<Legacy, f>> /\ sums[<<w, f>>] = d.sum
      BY <2>0, <2>1 DEF DocUri, Init
    <3>2. d.sum \in Versions /\ d.sum # NoVersion
      BY <2>1, DataAssumption, NamesAssumption DEF DocRow
    <3>3. LegacyEntries[<<Legacy, f>>] = Entries(d.sum)
      BY <2>0, <2>1 DEF LegacyEntries
    <3>4. /\ rows[<<Legacy, f>>] = Entries(d.sum) /\ vec[<<Legacy, f>>] = Entries(d.sum)
          /\ graph[<<Legacy, f>>] = [i \in Idx |-> {Entries(d.sum)[i]} \ {NoVersion}]
      BY <2>0, <3>3 DEF Init
    <3>5. /\ GraphShows(<<Legacy, f>>, d.sum) /\ Covers(vec, <<Legacy, f>>, d.sum)
      BY <3>2, <3>4 DEF GraphShows, Covers, Entries
    <3> QED BY <3>1, <3>4, <3>5 DEF RecordedAt
  <2>2. CASE ~(d # NoDoc /\ d.ws = w)
    BY <2>0, <2>2 DEF RecordedAt, Settled, DocUri
  <2> QED BY <2>1, <2>2
<1> QED
  BY <1>2, <1>3, <1>4, <1>5 DEF IndexInv, LocalsTellTruth, RecordedIsIndexed, RecordedAt,
       PassedIsRecorded, Truth, PassedOf

LEMMA StartInv ==
    ASSUME TypeInv, IndexInv, NEW c \in Callers, NEW w \in Workspaces,
           NEW paths \in SUBSET Files, NEW dry \in BOOLEAN, Start(c, w, paths, dry)
    PROVE  IndexInv'
<1>1. /\ run'[c].pc = "scan" /\ run'[c].ws = w
      /\ run'[c].left = {f \in paths : disk[f] \in Versions}
      /\ run'[c].snap = [f \in Files |-> IF f \in paths THEN disk[f] ELSE Missing]
      /\ \A d \in Callers : d # c => run'[d] = run[d]
  BY DEF Start, TypeInv, TypeOK, IdleRun
<1>2. PassedOf(c)'
  BY <1>1, NamesAssumption DEF PassedOf
<1>3. LockHeld'
  <2>0. /\ LockOf(c, w) \in Processes \X Workspaces
        /\ \A d \in Callers : LockOf(d, run[d].ws) \in Processes \X Workspaces
    BY LockOfType DEF TypeInv, TypeOK, Run
  <2>1. lock'[LockOf(c, run'[c].ws)] = c
    BY <1>1, <2>0 DEF Start, TypeInv, TypeOK
  <2>2. ASSUME NEW d \in Callers, d # c, run[d].pc # "idle"
        PROVE  lock'[LockOf(d, run[d].ws)] = d
    <3>1. lock[LockOf(d, run[d].ws)] = d
      BY <2>2 DEF IndexInv, LockHeld
    <3>2. LockOf(d, run[d].ws) # LockOf(c, w)
      BY <3>1, NamesAssumption DEF Start
    <3> QED BY <2>0, <3>1, <3>2 DEF Start, TypeInv, TypeOK
  <2> QED BY <1>1, <2>1, <2>2 DEF LockHeld, LockOf
<1> QED
  BY <1>1, <1>2, <1>3, RestInv DEF Start

LEMMA LeaveInv ==
    ASSUME TypeInv, IndexInv, NEW c \in Callers, run[c].pc # "idle", Leave(c)
    PROVE  IndexInv'
<1>1. \A d \in Callers : run'[d] = run[d] \/ run'[d].pc = "idle"
  BY IdleRunLocals DEF Leave, TypeInv, TypeOK
<1> QED
  BY <1>1, LeaveLock, RestInv DEF IndexInv, Leave

\* With one process a crash ends every call; what it loses, it loses together.
LEMMA CrashInv ==
    ASSUME SingleProcess, SharedFate, TypeInv, IndexInv, NEW p \in Processes, Crash(p)
    PROVE  IndexInv'
<1>1. \A d \in Callers : run'[d].pc = "idle"
  BY IdleRunLocals, DataAssumption DEF Crash, SingleProcess
<1>2. LockHeld'
  BY <1>1 DEF LockHeld
<1>3. CASE Durable = Stores
  BY <1>1, <1>2, <1>3, RestInv DEF Crash, Stores, stores
<1>4. CASE Durable \cap {"metadata", "graph"} = {}
  <2>1. docs' = [u \in DocUris |-> NoDoc] /\ graph' = EmptyGraph
    BY <1>4 DEF Crash
  <2>2. GraphChunksHaveRows'
    BY <2>1 DEF GraphChunksHaveRows, EmptyGraph
  <2>3. ASSUME NEW w \in Workspaces, NEW f \in Files PROVE RecordedAt(w, f)'
    BY <2>1 DEF RecordedAt, Settled, DocUri, DocUris
  <2>4. ASSUME NEW d \in Callers PROVE Truth(d)' /\ PassedOf(d)'
    BY <1>1 DEF Truth, NotRecorded, StaleListed, ChunksReached, Listed, VectorsWritten,
         ChunksWritten, Working, Rebuilding, PassedOf
  <2> QED
    BY <1>2, <2>2, <2>3, <2>4 DEF IndexInv, LocalsTellTruth, RecordedIsIndexed, RecordedAt,
         PassedIsRecorded, Truth, PassedOf
<1> QED
  BY <1>3, <1>4 DEF SharedFate

LEMMA NextInv ==
    ASSUME SingleProcess
    PROVE  TypeInv /\ IndexInv /\ [Next]_vars /\ (SharedFate \/ faults' = 0) => IndexInv'
<1> SUFFICES ASSUME TypeInv, IndexInv, [Next]_vars, SharedFate \/ faults' = 0
             PROVE  IndexInv'
  OBVIOUS
<1>1. ASSUME NEW f \in Files, NEW t \in Texts, Edit(f, t) PROVE IndexInv'
  <2>1. LockHeld'
    BY <1>1 DEF Edit, IndexInv, LockHeld, LockOf
  <2> QED BY <1>1, <2>1, RestInv DEF Edit
<1>2. ASSUME NEW c \in Callers, NEW w \in Workspaces, NEW paths \in SUBSET Files,
             NEW dry \in BOOLEAN, Start(c, w, paths, dry)
      PROVE IndexInv'
  BY <1>2, StartInv
<1>3. ASSUME NEW c \in Callers, Step(c) PROVE IndexInv'
  BY <1>3, StepInv, LeaveInv DEF Finish
<1>4. ASSUME NEW c \in Callers, Fail(c) PROVE IndexInv'
  BY <1>4, LeaveInv DEF Fail
<1>5. ASSUME NEW p \in Processes, Crash(p) PROVE IndexInv'
  <2>1. faults' # 0
    BY <1>5, DataAssumption DEF Crash, TypeInv, TypeOK
  <2> QED BY <1>5, <2>1, CrashInv
<1>6. CASE UNCHANGED vars
  <2>1. LockHeld'
    BY <1>6 DEF vars, IndexInv, LockHeld, LockOf
  <2> QED BY <1>6, <2>1, RestInv DEF vars, stores
<1> QED
  BY <1>1, <1>2, <1>3, <1>4, <1>5, <1>6 DEF Next

\* Whatever fails, crashes and is edited, what the locals of a call say about
\* the stores stays true while other calls and users act.
THEOREM IndexSafety ==
    ASSUME SingleProcess, SharedFate
    PROVE  Spec => []IndexInv
<1>1. Init => TypeInv /\ IndexInv
  BY InitType, InitInv
<1>2. TypeInv /\ IndexInv /\ [Next]_vars => (TypeInv /\ IndexInv)'
  BY NextType, NextInv
<1> QED
  BY <1>1, <1>2, PTL DEF Spec

\* The locals of a call stay true of the stores.
THEOREM TruthSafety ==
    ASSUME SingleProcess, SharedFate
    PROVE  Spec => []LocalsTellTruth
<1>1. IndexInv => LocalsTellTruth
  BY DEF IndexInv
<1> QED
  BY <1>1, IndexSafety, PTL

\* A document whose row and checksum agree is whole in all three stores: the
\* order of the store calls in ingest_filesystem survives every failure.
THEOREM RecordedSafety ==
    ASSUME SingleProcess, SharedFate
    PROVE  Spec => []RecordedIsIndexed
<1>1. IndexInv => RecordedIsIndexed
  BY DEF IndexInv
<1> QED
  BY <1>1, IndexSafety, PTL

\* The graph never names a chunk that has no metadata row.
THEOREM GraphSafety ==
    ASSUME SingleProcess, SharedFate
    PROVE  Spec => []GraphChunksHaveRows
<1>1. IndexInv => GraphChunksHaveRows
  BY DEF IndexInv
<1> QED
  BY <1>1, IndexSafety, PTL

\* A call that has passed a document leaves its checksum recorded.
THEOREM PassedSafety ==
    ASSUME SingleProcess, SharedFate
    PROVE  Spec => []PassedIsRecorded
<1>1. IndexInv => PassedIsRecorded
  BY DEF IndexInv
<1> QED
  BY <1>1, IndexSafety, PTL

-----------------------------------------------------------------------------
(* Vectors without failures.                                               *)

ExactAt(w, f) == Settled(w, f) => vec[DocUri(w, f)] = Entries(sums[<<w, f>>])

Exact ==
    /\ \A w \in Workspaces, f \in Files : ExactAt(w, f)
    /\ VectorsHaveRows
    /\ \A c \in Callers : StaleVectors(c)

LEMMA ExactInvParts == ExactInv <=> (faults = 0 => Exact)
  BY DEF ExactInv, FaultFreeExact, Exact, ExactAt

\* The stores and the loops over chunks are as they were.
LEMMA RestExact ==
    ASSUME Exact, UNCHANGED stores,
           \A d \in Callers :
             \/ run'[d] = run[d]
             \/ run[d].pc \notin Rebuilding /\ run'[d].pc \notin Rebuilding
    PROVE  Exact'
<1>1. \A d \in Callers, u \in DocUris, i \in Idx : Writes(d, u, i) => Writes(d, u, i)'
  BY DEF Writes, Rebuilding, Count, Text
<1>2. VectorsHaveRows'
  BY <1>1 DEF Exact, VectorsHaveRows, stores
<1>3. ASSUME NEW d \in Callers PROVE StaleVectors(d)'
  <2>1. StaleVectors(d)
    BY DEF Exact
  <2>2. CASE run'[d] = run[d]
    BY <2>1, <2>2 DEF StaleVectors, Count, Text, stores
  <2>3. CASE run'[d].pc \notin Rebuilding
    BY <2>3 DEF StaleVectors, Listed, Rebuilding
  <2> QED BY <2>2, <2>3
<1>4. ASSUME NEW w \in Workspaces, NEW f \in Files PROVE ExactAt(w, f)'
  BY DEF Exact, ExactAt, Settled, DocUri, stores
<1> QED BY <1>2, <1>3, <1>4 DEF Exact

\* Two calls never rebuild one document.
LEMMA OneWriter ==
    ASSUME SingleProcess, TypeInv, IndexInv,
           NEW c \in Callers, NEW d \in Callers, c # d,
           run[c].pc # "idle", run[d].pc \in Rebuilding
    PROVE  run[d].uri # DocUri(run[c].ws, run[c].file)
<1>1. run[d].uri = DocUri(run[d].ws, run[d].file)
  BY DEF IndexInv, LocalsTellTruth, NotRecorded
<1>2. run[c].ws # run[d].ws
  BY Exclusion DEF IndexInv, Rebuilding
<1> QED BY <1>1, <1>2, DocUriInjective DEF TypeInv, TypeOK, Run

\* What a step of the work on a document does to its vectors and rows.
LEMMA WorkExact ==
    ASSUME SingleProcess, TypeInv, IndexInv, Exact, NEW c \in Callers,
           run[c].pc \in Working, Step(c), ~SetChecksum(c)
    PROVE  VectorsHaveRows' /\ StaleVectors(c)'
<1> DEFINE r == run[c]
           q == run'[c]
           u == r.uri
           v == Text(c)
           n == Count(c)
<1>0. /\ r \in Run /\ run = [d \in Callers |-> run[d]]
      /\ u \in DocUris /\ r.row \in Nat /\ r.stale \subseteq Idx
      /\ v \in Versions /\ v # NoVersion /\ n \in Nat
      /\ rows \in [DocUris -> [Idx -> Versions \cup {NoVersion}]]
      /\ vec \in [DocUris -> [Idx -> Versions \cup {NoVersion}]]
      /\ Idx \subseteq Nat \ {0} /\ r.pc # "idle"
      /\ r.pc \in {"chunk", "mentions"} => r.row \in Idx /\ r.row <= n
  BY CountType, NamesAssumption, DataAssumption
     DEF TypeInv, TypeOK, Run, LocalsOK, Idx, Count, Working, Rebuilding
<1>1. /\ r.pc = "mentions" => rows[u][r.row] = v
      /\ r.pc \in Listed => \A i \in Idx : i \in r.stale => i > n
      /\ r.pc \in Listed => \A i \in Idx : i > n /\ vec[u][i] # NoVersion => i \in r.stale
      /\ r.pc \in {"dropGraph", "dropRows"} => \A i \in r.stale : vec[u][i] = NoVersion
  BY <1>0 DEF IndexInv, LocalsTellTruth, ChunksReached, StaleListed, Exact, StaleVectors
<1> DEFINE Keeps == /\ q.snap = r.snap /\ q.file = r.file
                    /\ \A d \in Callers : d # c => run'[d] = run[d]
<1>2. ASSUME Keeps PROVE /\ Count(c)' = n
                         /\ \A d \in Callers, x \in DocUris, i \in Idx :
                              d # c /\ Writes(d, x, i) => Writes(d, x, i)'
  BY <1>2 DEF Count, Text, Writes
\* It is enough to follow the vectors and rows that the step changes.
<1>3. ASSUME Keeps,
             \A x \in DocUris, i \in Idx : vec'[x][i] # NoVersion =>
                \/ rows'[x][i] # NoVersion \/ Writes(c, x, i)'
                \/ vec[x][i] # NoVersion /\ (rows[x][i] = NoVersion /\ ~Writes(c, x, i))
      PROVE  VectorsHaveRows'
  BY <1>2, <1>3 DEF Exact, VectorsHaveRows
<1> HIDE DEF Keeps
<1>4. CASE PutDoc(c) \/ ListOld(c) \/ DropGraph(c)
  <2>1. Keeps /\ ~(\E x, i : Writes(c, x, i)) /\ UNCHANGED <<rows, vec>>
    BY <1>0, <1>4 DEF PutDoc, ListOld, DropGraph, Run, Writes, stores, Keeps
  <2>2. VectorsHaveRows'
    BY <1>3, <2>1
  <2>3. CASE PutDoc(c)
    BY <1>0, <2>2, <2>3 DEF PutDoc, Run, StaleVectors, Listed, Rebuilding
  <2>4. CASE ListOld(c)
    <3>1. /\ q.pc = "vectors" /\ q.uri = u /\ r.pc = "listOld"
          /\ q.stale = {i \in Idx : rows[u][i] # NoVersion /\ i > n}
      BY <1>0, <2>4 DEF ListOld, Run
    <3>2. u = DocUri(r.ws, r.file)
      BY <3>1 DEF IndexInv, LocalsTellTruth, NotRecorded, Rebuilding
    <3>3. ASSUME NEW d \in Callers, NEW i \in Idx PROVE ~Writes(d, u, i)
      BY <1>0, <2>1, <3>2, OneWriter DEF Writes, Rebuilding
    <3>4. \A i \in Idx : i > n /\ vec[u][i] # NoVersion => i \in q.stale
      BY <1>0, <3>1, <3>3 DEF Exact, VectorsHaveRows
    <3> QED BY <1>2, <2>1, <2>2, <3>1, <3>4 DEF StaleVectors
  <2>5. CASE DropGraph(c)
    <3>1. /\ q.pc = "dropRows" /\ q.uri = u /\ q.stale = r.stale /\ r.pc = "dropGraph"
      BY <1>0, <2>5 DEF DropGraph, Run
    <3> QED BY <1>1, <1>2, <2>1, <2>2, <3>1 DEF StaleVectors, Listed, Rebuilding
  <2> QED BY <1>4, <2>2, <2>3, <2>4, <2>5
<1>5. CASE UpsertVectors(c)
  <2>1. /\ q.pc = AfterChunk(c, 0) /\ r.pc = "vectors" /\ q.uri = u /\ Keeps
        /\ q.stale = r.stale /\ q.row = 1
    BY <1>0, <1>5 DEF UpsertVectors, Run, Keeps
  <2>2. /\ rows' = rows
        /\ \A i \in Idx : vec'[u][i] = IF i <= n THEN v ELSE vec[u][i]
        /\ \A x \in DocUris : x # u => vec'[x] = vec[x]
    BY <1>0, <1>5 DEF UpsertVectors
  <2>3. /\ q.pc \in {"chunk", "dropVectors", "checksum"}
        /\ n > 0 => q.pc = "chunk"
    BY <1>0, <2>1 DEF AfterChunk
  <2>4. VectorsHaveRows'
    <3>1. ASSUME NEW i \in Idx, i <= n PROVE Writes(c, u, i)'
      BY <1>0, <1>2, <2>1, <2>3, <3>1 DEF Writes
    <3>2. \A x, i : ~Writes(c, x, i)
      BY <2>1 DEF Writes
    <3> QED BY <1>0, <1>3, <2>1, <2>2, <3>1, <3>2
  <2>5. StaleVectors(c)'
    BY <1>0, <1>1, <1>2, <2>1, <2>2, <2>3 DEF StaleVectors, Listed, Rebuilding
  <2> QED BY <2>4, <2>5
<1>6. CASE PutChunk(c)
  <2>1. /\ q.pc = "mentions" /\ r.pc = "chunk" /\ q.uri = u /\ Keeps
        /\ q.stale = r.stale /\ q.row = r.row /\ r.row \in Idx
    BY <1>0, <1>6 DEF PutChunk, Run, Keeps
  <2>2. /\ vec' = vec /\ rows'[u][r.row] = v
        /\ \A i \in Idx : i # r.row => rows'[u][i] = rows[u][i]
        /\ \A x \in DocUris : x # u => rows'[x] = rows[x]
    BY <1>0, <1>6, <2>1 DEF PutChunk
  <2>3. \A x, i : Writes(c, x, i) => Writes(c, x, i)'
    BY <1>2, <2>1 DEF Writes
  <2>4. VectorsHaveRows'
    BY <1>0, <1>3, <2>1, <2>2, <2>3
  <2>5. StaleVectors(c)'
    BY <1>1, <1>2, <2>1, <2>2 DEF StaleVectors, Listed, Rebuilding
  <2> QED BY <2>4, <2>5
<1>7. CASE UpsertMentions(c)
  <2>1. /\ q.pc = AfterChunk(c, r.row) /\ r.pc = "mentions" /\ q.uri = u /\ Keeps
        /\ q.stale = r.stale /\ q.row = r.row + 1
        /\ r.row \in Idx /\ r.row <= n
    BY <1>0, <1>7 DEF UpsertMentions, Run, Keeps
  <2>2. UNCHANGED <<rows, vec>>
    BY <1>7 DEF UpsertMentions
  <2>3. /\ q.pc \in {"chunk", "dropVectors", "checksum"}
        /\ q.pc # "chunk" => n = r.row
    <3>1. n \in Nat /\ r.row \in Nat /\ r.row <= n
      BY <1>0, <2>1
    <3>2. q.pc = "chunk" <=> r.row < n
      BY <2>1, AfterChunkType
    <3>3. q.pc \in {"chunk", "dropVectors", "checksum"}
      BY <2>1, AfterChunkType
    <3> QED BY <3>1, <3>2, <3>3
  <2>4. ASSUME NEW x \in DocUris, NEW i \in Idx, Writes(c, x, i), ~(x = u /\ i = r.row)
        PROVE  Writes(c, x, i)'
    <3>0. x = u /\ r.row <= i /\ i <= n
      BY <2>4 DEF Writes
    <3>a. i \in Nat /\ r.row \in Nat /\ n \in Nat
      BY <1>0
    <3>1. x = u /\ i \in Nat /\ r.row \in Nat /\ n \in Nat /\ r.row < i /\ i <= n
      BY <2>4, <3>0, <3>a
    <3>2. q.pc = "chunk"
      BY <2>3, <3>1
    <3> QED BY <1>2, <2>1, <3>1, <3>2 DEF Writes
  <2>5. VectorsHaveRows'
    BY <1>0, <1>1, <1>3, <2>1, <2>2, <2>4
  <2>6. StaleVectors(c)'
    BY <1>1, <1>2, <2>1, <2>2, <2>3 DEF StaleVectors, Listed, Rebuilding
  <2> QED BY <2>5, <2>6
<1>8. CASE DropVectors(c)
  <2>1. /\ q.pc = "dropGraph" /\ r.pc = "dropVectors" /\ q.uri = u /\ Keeps
        /\ q.stale = r.stale
    BY <1>0, <1>8 DEF DropVectors, Run, Keeps
  <2>2. /\ rows' = rows
        /\ \A i \in Idx : vec'[u][i] = IF i \in r.stale THEN NoVersion ELSE vec[u][i]
        /\ \A x \in DocUris : x # u => vec'[x] = vec[x]
    BY <1>0, <1>8 DEF DropVectors, Without
  <2>3. VectorsHaveRows'
    <3>1. \A x, i : ~Writes(c, x, i)
      BY <2>1 DEF Writes
    <3> QED BY <1>3, <2>1, <2>2, <3>1
  <2>4. StaleVectors(c)'
    BY <1>0, <1>1, <1>2, <2>1, <2>2 DEF StaleVectors, Listed, Rebuilding
  <2> QED BY <2>3, <2>4
<1>9. ASSUME NEW j \in Idx, DropRow(c, j) PROVE VectorsHaveRows' /\ StaleVectors(c)'
  <2>1. /\ q.pc \in {"checksum", "dropRows"} /\ q.pc = "checksum" => r.stale = {j}
        /\ r.pc = "dropRows" /\ q.uri = u /\ Keeps
        /\ q.stale = r.stale \ {j} /\ j \in r.stale
    BY <1>0, <1>9 DEF DropRow, Run, Keeps
  <2>2. /\ vec' = vec
        /\ \A i \in Idx : rows'[u][i] = IF i = j THEN NoVersion ELSE rows[u][i]
        /\ \A x \in DocUris : x # u => rows'[x] = rows[x]
    BY <1>0, <1>9 DEF DropRow, Without
  <2>3. vec[u][j] = NoVersion
    BY <1>1, <2>1
  <2>4. VectorsHaveRows'
    <3>1. \A x, i : ~Writes(c, x, i)
      BY <2>1 DEF Writes
    <3> QED BY <1>3, <2>1, <2>2, <2>3, <3>1
  <2>5. StaleVectors(c)'
    BY <1>0, <1>1, <1>2, <2>1, <2>2, <2>3 DEF StaleVectors, Listed, Rebuilding
  <2> QED BY <2>4, <2>5
<1> QED
  BY <1>4, <1>5, <1>6, <1>7, <1>8, <1>9 DEF Step, Pass, Take, Finish, Working, Rebuilding

\* When the checksum is recorded, the vectors are the text's and no others.
LEMMA ChecksumExact ==
    ASSUME TypeInv, IndexInv, Exact, NEW c \in Callers, SetChecksum(c),
           NEW w \in Workspaces, w = run[c].ws, NEW f \in Files, f = run[c].file
    PROVE  ExactAt(w, f)' /\ VectorsHaveRows' /\ StaleVectors(c)'
<1> DEFINE r == run[c]
           v == Text(c)
<1>1. /\ r.pc = "checksum" /\ r.pc \in Working /\ r.pc \in Rebuilding
      /\ r.pc \in ChunksWritten /\ r.pc \in VectorsWritten /\ r.pc \in Listed
      /\ run'[c].pc = "scan" /\ UNCHANGED <<docs, rows, vec>>
      /\ \A d \in Callers : d # c => run'[d] = run[d]
      /\ r.uri \in DocUris /\ r \in Run
  BY DEF SetChecksum, TypeInv, TypeOK, Run, Working, Rebuilding, ChunksWritten,
       VectorsWritten, Listed
<1>2. v \in Versions /\ Count(c) = ChunkCount[v] /\ Count(c) \in Nat
  BY <1>1, CountType DEF TypeInv, LocalsOK, Count
<1>3. r.uri = DocUri(w, f) /\ r.stale = {}
  BY <1>1 DEF IndexInv, LocalsTellTruth, NotRecorded, StaleListed
<1>4. \A i \in Idx : vec[r.uri][i] = IF i <= ChunkCount[v] THEN v ELSE NoVersion
  <2>1. \A i \in Idx : i <= ChunkCount[v] => vec[r.uri][i] = v
    BY <1>1 DEF IndexInv, LocalsTellTruth, ChunksReached, Covers
  <2>2. \A i \in Idx : i > Count(c) => vec[r.uri][i] = NoVersion
    BY <1>1, <1>3 DEF Exact, StaleVectors
  <2> QED BY <1>2, <2>1, <2>2 DEF Idx
<1>5. vec[r.uri] = Entries(v)
  <2>1. vec[r.uri] = [i \in Idx |-> vec[r.uri][i]]
    BY <1>1 DEF TypeInv, TypeOK
  <2> QED BY <1>4, <2>1 DEF Entries
<1>6. ExactAt(w, f)'
  <2>1. sums'[<<w, f>>] = v /\ DocUri(w, f)' = DocUri(w, f)
    BY <1>1 DEF SetChecksum, TypeInv, TypeOK, DocUri
  <2>2. PICK x \in Versions : x = v
    BY <1>2
  <2>3. sums'[<<w, f>>] = x /\ vec'[DocUri(w, f)'] = Entries(x)
    BY <1>1, <1>3, <1>5, <2>1, <2>2
  <2> QED BY <2>3 DEF ExactAt, Settled
<1>7. VectorsHaveRows'
  <2>1. \A d \in Callers, x \in DocUris, i \in Idx : Writes(d, x, i) => Writes(d, x, i)'
    BY <1>1 DEF Writes, Count, Text
  <2> QED BY <1>1, <2>1 DEF Exact, VectorsHaveRows
<1>8. StaleVectors(c)'
  BY <1>1 DEF StaleVectors, Listed, Rebuilding
<1> QED BY <1>6, <1>7, <1>8

LEMMA StepExact ==
    ASSUME SingleProcess, TypeInv, IndexInv, Exact, NEW c \in Callers, Step(c)
    PROVE  Exact'
<1>1. ASSUME UNCHANGED stores, run[c].pc \notin Rebuilding, run'[c].pc \notin Rebuilding,
             \A d \in Callers : d # c => run'[d] = run[d]
      PROVE  Exact'
  BY <1>1, RestExact
<1>2. run = [d \in Callers |-> run[d]] /\ run[c] \in Run
  BY DEF TypeInv, TypeOK
<1>3. CASE Finish(c) \/ \E g \in Files : Pass(c, g) \/ Take(c, g)
  <2>1. UNCHANGED stores /\ \A d \in Callers : d # c => run'[d] = run[d]
    BY <1>2, <1>3 DEF Finish, Leave, Pass, Take, stores
  <2>2. run[c].pc \notin Rebuilding
    BY <1>3 DEF Finish, Pass, Take, Rebuilding
  <2>3. run'[c].pc \notin Rebuilding
    <3>1. CASE Finish(c)
      BY <1>2, <3>1, IdleRunLocals DEF Finish, Leave, Rebuilding
    <3>2. ASSUME NEW g \in Files, Pass(c, g) \/ Take(c, g)
          PROVE  run'[c].pc \in {"scan", "putDoc"}
      BY <1>2, <3>2 DEF Pass, Take, Run
    <3> QED BY <1>3, <3>1, <3>2 DEF Rebuilding
  <2> QED BY <1>1, <2>1, <2>2, <2>3
<1>4. CASE ~Finish(c) /\ \A g \in Files : ~Pass(c, g) /\ ~Take(c, g)
  <2>0. /\ run[c].pc \in Working
        /\ ~SetChecksum(c) => /\ run'[c].pc \in Rebuilding
                              /\ run'[c].ws = run[c].ws /\ run'[c].file = run[c].file
    <3> DEFINE Goes == /\ run[c].pc \in Working /\ run'[c].pc \in Rebuilding
                       /\ run'[c].ws = run[c].ws /\ run'[c].file = run[c].file
    <3>0. AfterChunk(c, 0) \in Rebuilding /\ AfterChunk(c, run[c].row) \in Rebuilding
      BY AfterChunkType DEF Rebuilding
    <3>1. PutDoc(c) \/ ListOld(c) => Goes
      BY <1>2 DEF PutDoc, ListOld, Working, Rebuilding, Run
    <3>2. UpsertVectors(c) \/ UpsertMentions(c) => Goes
      BY <1>2, <3>0 DEF UpsertVectors, UpsertMentions, Working, Rebuilding, Run
    <3>3. PutChunk(c) \/ DropVectors(c) \/ DropGraph(c) => Goes
      BY <1>2 DEF PutChunk, DropVectors, DropGraph, Working, Rebuilding, Run
    <3>4. ASSUME NEW i \in Idx, DropRow(c, i) PROVE Goes
      <4>1. /\ run[c].pc = "dropRows" /\ run'[c].pc \in {"checksum", "dropRows"}
            /\ run'[c].ws = run[c].ws /\ run'[c].file = run[c].file
        BY <1>2, <3>4 DEF DropRow, Run
      <4> QED BY <4>1 DEF Working, Rebuilding
    <3>5. SetChecksum(c) => run[c].pc \in Working
      BY DEF SetChecksum, Working, Rebuilding
    <3> QED BY <1>4, <3>1, <3>2, <3>3, <3>4, <3>5 DEF Step
  <2>1. PICK w \in Workspaces, f \in Files : w = run[c].ws /\ f = run[c].file
    BY DEF TypeInv, TypeOK, Run
  <2>2. Frame(c) /\ IndexInv'
    BY <1>4, StepFrame, StepInv DEF IndexInv, LocalsTellTruth
  <2>3. ExactAt(w, f)' /\ VectorsHaveRows' /\ StaleVectors(c)'
    <3>1. CASE SetChecksum(c)
      BY <2>1, <3>1, ChecksumExact
    <3>2. CASE ~SetChecksum(c)
      <4>1. VectorsHaveRows' /\ StaleVectors(c)' /\ run'[c].pc \in Rebuilding
        BY <2>0, <3>2, WorkExact
      <4>2. NotRecorded(c)' /\ run'[c].ws = w /\ run'[c].file = f
        <5>1. run'[c].ws = w /\ run'[c].file = f
          BY <2>0, <2>1, <3>2
        <5> QED BY <2>2, <5>1 DEF IndexInv, LocalsTellTruth
      <4>3. ~Settled(w, f)'
        BY <4>1, <4>2 DEF NotRecorded, Settled, Working, Rebuilding
      <4> QED BY <4>1, <4>3 DEF ExactAt
    <3> QED BY <3>1, <3>2
  <2>4. ASSUME NEW x \in Workspaces, NEW g \in Files, <<x, g>> # <<w, f>>
        PROVE  ExactAt(x, g)'
    <3>1. DocUri(x, g) # DocUri(w, f) /\ DocUri(x, g) \in DocUris
      BY <2>4, DocUriInjective, DocUriType
    <3>2. /\ DocUri(x, g)' = DocUri(x, g) /\ sums'[<<x, g>>] = sums[<<x, g>>]
          /\ docs'[DocUri(x, g)] = docs[DocUri(x, g)]
          /\ vec'[DocUri(x, g)] = vec[DocUri(x, g)]
      BY <2>1, <2>2, <2>4, <3>1 DEF Frame
    <3> QED BY <3>2 DEF Exact, ExactAt, Settled
  <2>5. ASSUME NEW d \in Callers, d # c PROVE StaleVectors(d)'
    <3>1. run'[d] = run[d] /\ StaleVectors(d) /\ run[c].pc # "idle"
      BY <2>2, <2>5 DEF Frame, Exact
    <3>2. CASE run[d].pc \in Rebuilding
      <4>1. run[d].uri # DocUri(w, f) /\ run[d].uri \in DocUris
        BY <2>1, <2>5, <3>1, <3>2, OneWriter DEF TypeInv, TypeOK, Run
      <4>2. vec'[run[d].uri] = vec[run[d].uri]
        BY <2>1, <2>2, <4>1 DEF Frame
      <4> QED BY <3>1, <4>2 DEF StaleVectors, Count, Text
    <3>3. CASE run[d].pc \notin Rebuilding
      BY <3>1, <3>3 DEF StaleVectors, Listed, Rebuilding
    <3> QED BY <3>2, <3>3
  <2>6. \A x \in Workspaces, g \in Files : ExactAt(x, g)'
    BY <2>3, <2>4
  <2>7. \A d \in Callers : StaleVectors(d)'
    BY <2>3, <2>5
  <2> QED BY <2>3, <2>6, <2>7 DEF Exact
<1> QED BY <1>3, <1>4

LEMMA InitExact == Init => ExactInv
<1> SUFFICES ASSUME Init PROVE Exact
  BY ExactInvParts
<1>1. \A c \in Callers : run[c].pc = "idle"
  BY IdleRunLocals DEF Init
<1>2. VectorsHaveRows
  BY DEF Init, VectorsHaveRows
<1>3. \A c \in Callers : StaleVectors(c)
  BY <1>1 DEF StaleVectors, Listed, Rebuilding
<1>4. rows = vec
  BY DEF Init
<1>5. \A w \in Workspaces, f \in Files : ExactAt(w, f)
  BY <1>4, InitInv DEF IndexInv, RecordedIsIndexed, ExactAt
<1> QED BY <1>2, <1>3, <1>5 DEF Exact

LEMMA NextExact ==
    ASSUME SingleProcess
    PROVE  TypeInv /\ (faults = 0 => IndexInv) /\ ExactInv /\ [Next]_vars
             => (faults' = 0 => IndexInv') /\ ExactInv'
<1> SUFFICES ASSUME TypeInv, IndexInv, Exact, [Next]_vars, faults' = 0, faults = 0
             PROVE  Exact'
  <2>1. TypeInv /\ [Next]_vars /\ faults' = 0 => faults = 0
    <3> SUFFICES ASSUME TypeInv, [Next]_vars, faults' = 0 PROVE faults = 0
      OBVIOUS
    <3>1. CASE (\E c \in Callers : Fail(c)) \/ (\E p \in Processes : Crash(p))
      <4>1. faults' = faults + 1 /\ faults \in Nat
        BY <3>1, DataAssumption DEF Fail, Crash, TypeInv, TypeOK
      <4> QED BY <4>1
    <3>2. CASE ~(\E c \in Callers : Fail(c)) /\ ~(\E p \in Processes : Crash(p))
      BY <3>2 DEF Next, Edit, Start, Step, Pass, Take, PutDoc, ListOld, UpsertVectors,
         PutChunk, UpsertMentions, DropVectors, DropGraph, DropRow, SetChecksum, Finish, vars
    <3> QED BY <3>1, <3>2
  <2>2. ExactInv' <=> (faults' = 0 => Exact')
    BY DEF ExactInv, FaultFreeExact, Exact, ExactAt
  <2> QED BY <2>1, <2>2, NextInv, ExactInvParts
<1>1. ASSUME NEW f \in Files, NEW t \in Texts, Edit(f, t) PROVE Exact'
  BY <1>1, RestExact DEF Edit
<1>2. ASSUME NEW c \in Callers, NEW w \in Workspaces, NEW paths \in SUBSET Files,
             NEW dry \in BOOLEAN, Start(c, w, paths, dry)
      PROVE Exact'
  <2>1. /\ run[c].pc = "idle" /\ run'[c].pc = "scan"
        /\ \A d \in Callers : d # c => run'[d] = run[d]
    BY <1>2 DEF Start, TypeInv, TypeOK, IdleRun
  <2> QED BY <1>2, <2>1, RestExact DEF Start, Rebuilding
<1>3. ASSUME NEW c \in Callers, Step(c) PROVE Exact'
  BY <1>3, StepExact
<1>4. ASSUME NEW c \in Callers, Fail(c) PROVE FALSE
  BY <1>4 DEF Fail
<1>5. ASSUME NEW p \in Processes, Crash(p) PROVE FALSE
  BY <1>5 DEF Crash
<1>6. CASE UNCHANGED vars
  BY <1>6, RestExact DEF vars, stores
<1> QED
  BY <1>1, <1>2, <1>3, <1>4, <1>5, <1>6 DEF Next

\* Without failures a recorded document has the vectors of its chunks and no
\* others: no stale chunk is left to be found.
THEOREM ExactSafety ==
    ASSUME SingleProcess
    PROVE  Spec => []FaultFreeExact
<1>1. Init => TypeInv /\ (faults = 0 => IndexInv) /\ ExactInv
  BY InitType, InitInv, InitExact
<1>2. /\ TypeInv /\ (faults = 0 => IndexInv) /\ ExactInv /\ [Next]_vars
           => (TypeInv /\ (faults = 0 => IndexInv) /\ ExactInv)'
  BY NextType, NextExact
<1>3. ExactInv => FaultFreeExact
  BY DEF ExactInv
<1> QED
  BY <1>1, <1>2, <1>3, PTL DEF Spec

-----------------------------------------------------------------------------
(* Ownership of documents, for any number of processes.                    *)

LEMMA OwnedInit == Init => ScopedIsOwned
  BY NamesAssumption DEF Init, ScopedIsOwned, DocUris

\* What a step does to the document rows.
LEMMA OwnedStep ==
    ASSUME TypeInv, ScopedIsOwned, [Next]_vars
    PROVE  /\ ScopedIsOwned'
           /\ \A u \in DocUris :
                docs[u] # NoDoc /\ docs'[u] # NoDoc => docs'[u].ws = docs[u].ws
<1>1. CASE docs' = docs
  BY <1>1 DEF ScopedIsOwned
<1>2. CASE docs' = [u \in DocUris |-> NoDoc]
  BY <1>2 DEF ScopedIsOwned, DocUris
<1>3. ASSUME NEW c \in Callers, PutDoc(c)
      PROVE  /\ ScopedIsOwned'
             /\ \A u \in DocUris :
                  docs[u] # NoDoc /\ docs'[u] # NoDoc => docs'[u].ws = docs[u].ws
  <2>1. PICK w \in Workspaces, f \in Files : w = run[c].ws /\ f = run[c].file
    BY DEF TypeInv, TypeOK, Run
  <2>2. PICK x \in DocUris : x = DocUri(w, f)
    BY DocUriType
  <2>3. /\ docs'[x].ws = w
        /\ \A u \in DocUris : u # x => docs'[u] = docs[u]
    BY <1>3, <2>1, <2>2 DEF PutDoc, TypeInv, TypeOK
  <2>4. \/ x = <<w, f>>
        \/ x = <<Legacy, f>> /\ docs[x].ws = w
    BY <2>2 DEF DocUri
  <2>5. \A y \in Workspaces, g \in Files : <<y, g>> \in DocUris /\ y # Legacy
    BY NamesAssumption DEF DocUris
  <2>6. ScopedIsOwned'
    BY <2>3, <2>4, <2>5 DEF ScopedIsOwned
  <2>7. docs[x] # NoDoc => docs[x].ws = w
    BY <2>4 DEF ScopedIsOwned
  <2> QED BY <2>3, <2>6, <2>7
<1>4. CASE ~(\E c \in Callers : PutDoc(c))
  <2>1. docs' = docs \/ docs' = [u \in DocUris |-> NoDoc]
    BY <1>4 DEF Next, Step, Edit, Start, Pass, Take, ListOld, UpsertVectors, PutChunk,
         UpsertMentions, DropVectors, DropGraph, DropRow, SetChecksum, Finish, Fail,
         Leave, Crash, stores, vars
  <2> QED BY <1>1, <1>2, <2>1
<1> QED
  BY <1>3, <1>4

\* A document row never passes from one workspace to another.
THEOREM OwnerSafety == Spec => DocOwnerIsStable
<1>1. Init => TypeInv /\ ScopedIsOwned
  BY InitType, OwnedInit
<1>2. TypeInv /\ ScopedIsOwned /\ [Next]_vars => (TypeInv /\ ScopedIsOwned)'
  BY NextType, OwnedStep
<1>3. TypeInv /\ ScopedIsOwned /\ [Next]_vars =>
        [\A u \in DocUris :
           docs[u] # NoDoc /\ docs'[u] # NoDoc => docs'[u].ws = docs[u].ws]_vars
  BY OwnedStep
<1> QED
  BY <1>1, <1>2, <1>3, PTL DEF Spec, DocOwnerIsStable
===============================================================================
