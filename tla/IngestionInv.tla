----------------------------- MODULE IngestionInv -----------------------------
(***************************************************************************)
(* The inductive invariant behind the safety properties of Ingestion: what *)
(* the locals of a call say about the stores at each control point.  It    *)
(* holds when one process ingests and a restart that loses the metadata    *)
(* loses the graph with it and nothing else less lasting.                  *)
(***************************************************************************)
EXTENDS Ingestion

\* A crash loses nothing, or the metadata and the graph together.
SharedFate == Durable = Stores \/ Durable \cap {"metadata", "graph"} = {}

\* A call holds the lock of its workspace from its start to its end.
LockHeld == \A c \in Callers : run[c].pc # "idle" => lock[LockOf(c, run[c].ws)] = c

\* A document under an id scoped by a workspace belongs to that workspace.
ScopedIsOwned ==
    \A w \in Workspaces, f \in Files :
        docs[<<w, f>>] # NoDoc => docs[<<w, f>>].ws = w

Listed == Rebuilding \ {"listOld"}
VectorsWritten == Listed \ {"vectors"}
ChunksWritten == VectorsWritten \ {"chunk", "mentions"}

\* A document at work has not been recorded at this text; once its row is
\* written, the row carries the text's checksum, so it is not Settled either.
NotRecorded(c) ==
    LET r == run[c] IN
    /\ r.pc \in Working => sums[<<r.ws, r.file>>] # Text(c)
    /\ r.pc \in Rebuilding => /\ r.uri = DocUri(r.ws, r.file)
                              /\ docs[r.uri] = [ws |-> r.ws, sum |-> Text(c)]

\* stale holds exactly the rows past the text's last chunk that are left.
StaleListed(c) ==
    LET r == run[c] IN
    /\ r.pc \in Listed =>
         \A i \in Idx : /\ i \in r.stale => i > Count(c)
                        /\ i > Count(c) /\ rows[r.uri][i] # NoVersion => i \in r.stale
    /\ r.pc = "dropRows" => \A i \in r.stale : graph[r.uri][i] = {}
    /\ r.pc = "checksum" => r.stale = {}

\* The vectors are all written in one batch; the chunks before the one the
\* loop is at are in metadata and in the graph.
ChunksReached(c) ==
    LET r == run[c] IN
    /\ r.pc \in VectorsWritten =>
         /\ Covers(vec, r.uri, Text(c))
         /\ \A i \in Idx : i < r.row /\ i <= Count(c) =>
              rows[r.uri][i] = Text(c) /\ Text(c) \in graph[r.uri][i]
    /\ r.pc = "mentions" => rows[r.uri][r.row] = Text(c)
    /\ r.pc \in ChunksWritten => r.row = Count(c) + 1

\* The locals of every call tell the truth about the stores, whatever other
\* callers, failures and restarts did since they were read.
LocalsTellTruth ==
    \A c \in Callers : NotRecorded(c) /\ StaleListed(c) /\ ChunksReached(c)

IndexInv ==
    /\ LockHeld
    /\ LocalsTellTruth
    /\ RecordedIsIndexed
    /\ GraphChunksHaveRows
    /\ PassedIsRecorded

\* The loop over chunks will still write chunk i of document u.
Writes(c, u, i) ==
    /\ run[c].pc \in {"chunk", "mentions"} /\ run[c].uri = u
    /\ run[c].row <= i /\ i <= Count(c)

\* Without failures no chunk has a vector but no row, except while a call is
\* on its way from the one to the other: what is listed is all there is.
VectorsHaveRows ==
    \A u \in DocUris, i \in Idx :
        vec[u][i] # NoVersion =>
            rows[u][i] # NoVersion \/ \E c \in Callers : Writes(c, u, i)

\* And every vector past the text's last chunk is stale until it is dropped.
StaleVectors(c) ==
    LET r == run[c] IN
    /\ r.pc \in Listed =>
         \A i \in Idx : i > Count(c) /\ vec[r.uri][i] # NoVersion => i \in r.stale
    /\ r.pc \in {"dropGraph", "dropRows"} => \A i \in r.stale : vec[r.uri][i] = NoVersion

ExactInv ==
    /\ FaultFreeExact
    /\ faults = 0 => VectorsHaveRows /\ \A c \in Callers : StaleVectors(c)
===============================================================================
