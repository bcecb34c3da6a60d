-------------------------------- MODULE Memory --------------------------------
(***************************************************************************)
(* The memory of one subject in one workspace: kb_mcp/memory/service.py    *)
(* behind the tools of kb_mcp/server/tools/memory.py and their twins in    *)
(* swagger_app.py, with the confirmation gate of security/confirmation.py  *)
(* that every delete passes.  An item is written to the vector store, the  *)
(* metadata store and the graph one after another, and removed from them   *)
(* in an order of its own; every call to a store is a step.  The stores    *)
(* outlive the processes that share them; a process handles its calls one  *)
(* at a time and keeps its confirmation tokens in memory.                  *)
(*                                                                         *)
(* An item is its id.  A request is a list of items with its idempotency   *)
(* key, if any: the service hashes key and items together.  Items the      *)
(* validator rejects are not stored; ValidItems counts the others.         *)
(***************************************************************************)
EXTENDS Naturals, FiniteSets

CONSTANTS
    Processes,   \* each handles one call at a time
    Requests,    \* upsert requests
    Keyed,       \* those that carry an idempotency key
    ValidItems,  \* ValidItems[r]: items of r that pass the validator
    Ids,         \* bound on the memory ids that are ever drawn
    Tokens,      \* bound on the confirmation tokens that are ever drawn
    Expiry,      \* expiry_seconds, in ticks
    MaxFaults,   \* bound on failed store calls and crashes
    NoResult, NoGate, NoId

\* What is recorded of a request: the ids it stored.
Result == [ids : SUBSET Ids]

\* What a token stands for.
Gate == [process : Processes, all : BOOLEAN, ids : SUBSET Ids, age : 0 .. Expiry + 1]

ASSUME MemoryAssumption ==
    /\ Requests # {}
    /\ Keyed \subseteq Requests
    /\ ValidItems \in [Requests -> Nat]
    /\ Expiry \in Nat
    /\ MaxFaults \in Nat
    /\ NoResult \notin Result
    /\ NoGate \notin Gate
    /\ NoId \notin Ids

VARIABLES
    vec, meta, nodes,  \* ids the vector store, the metadata and the graph hold
    idem,      \* idem[r]: the result recorded for the keyed request r
    pending,   \* pending[t]: what a process's gate keeps for token t
    call,      \* call[p]: the call process p is handling
    drawnIds, drawnTokens,  \* ids and tokens drawn so far
    faults,
    acked,     \* history: ids returned to a client
    results,   \* history: results[r], the results returned for request r
    overlapped,  \* history: keyed requests two processes stored at once
    targeted,  \* history: ids some delete has set out to remove
    gone       \* history: ids a delete that returned has removed

stores == <<vec, meta, nodes, idem>>
drawn == <<drawnIds, drawnTokens>>
history == <<acked, results, overlapped, targeted, gone>>
vars == <<stores, pending, call, drawn, faults, history>>

-----------------------------------------------------------------------------
Upserting == {"putVector", "putRow", "putLinks", "remember"}
Removing == {"dropVectors", "dropNodes", "dropRows"}
Deleting == Removing \cup {"list"}

Call == [pc : {"idle", "reply"} \cup Upserting \cup Deleting,
         request : Requests,
         left : Nat,              \* valid items still to store
         id : Ids \cup {NoId},    \* the item being stored
         stored : SUBSET Ids,     \* stored_ids
         targets : SUBSET Ids,    \* the ids to delete
         todo : SUBSET Ids]       \* those whose row is still to be deleted

Idle == [pc |-> "idle", request |-> CHOOSE r \in Requests : TRUE, left |-> 0,
         id |-> NoId, stored |-> {}, targets |-> {}, todo |-> {}]

TypeOK ==
    /\ vec \in SUBSET Ids /\ meta \in SUBSET Ids /\ nodes \in SUBSET Ids
    /\ idem \in [Keyed -> Result \cup {NoResult}]
    /\ pending \in [Tokens -> Gate \cup {NoGate}]
    /\ call \in [Processes -> Call]
    /\ drawnIds \in SUBSET Ids /\ drawnTokens \in SUBSET Tokens
    /\ faults \in 0 .. MaxFaults
    /\ acked \in SUBSET Ids /\ targeted \in SUBSET Ids /\ gone \in SUBSET Ids
    /\ results \in [Requests -> SUBSET Result]
    /\ overlapped \in SUBSET Keyed

Init ==
    /\ vec = {} /\ meta = {} /\ nodes = {}
    /\ idem = [r \in Keyed |-> NoResult]
    /\ pending = [t \in Tokens |-> NoGate]
    /\ call = [p \in Processes |-> Idle]
    /\ drawnIds = {} /\ drawnTokens = {}
    /\ faults = 0
    /\ acked = {} /\ targeted = {} /\ gone = {}
    /\ results = [r \in Requests |-> {}]
    /\ overlapped = {}

Goes(p, pc) == call' = [call EXCEPT ![p].pc = pc]
Answers(r, result) ==
    /\ acked' = acked \cup result.ids
    /\ results' = [results EXCEPT ![r] = @ \cup {result}]
    /\ UNCHANGED <<overlapped, targeted, gone>>

-----------------------------------------------------------------------------
(* kb_memory_upsert *)

\* Mutant: one item too many.
NextItem_OffByOne(n) == IF n >= 0 THEN "putVector" ELSE "remember"

\* Where the loop over the items goes with n of them left.
NextItem(n) == IF n > 0 THEN "putVector" ELSE "remember"

\* A keyed request that has a recorded result is to be answered with it.
AnswerAgain(p, r) ==
    /\ call[p].pc = "idle"
    /\ r \in Keyed
    /\ idem[r] # NoResult
    /\ call' = [call EXCEPT ![p] = [Idle EXCEPT !.pc = "reply", !.request = r,
                                                !.stored = idem[r].ids]]
    /\ UNCHANGED <<stores, pending, drawn, faults, history>>

StoresFor(q, r) == call[q].pc \in Upserting /\ call[q].request = r

\* Without one the items are stored, also when another process is storing
\* them for a call with the same key.
BeginUpsert(p, r) ==
    /\ call[p].pc = "idle"
    /\ r \in Keyed => idem[r] = NoResult
    /\ call' = [call EXCEPT ![p] = [Idle EXCEPT !.pc = NextItem(ValidItems[r]),
                                                !.request = r, !.left = ValidItems[r]]]
    /\ overlapped' = IF r \in Keyed /\ \E q \in Processes : StoresFor(q, r)
                     THEN overlapped \cup {r} ELSE overlapped
    /\ UNCHANGED <<stores, pending, drawn, faults, acked, results, targeted, gone>>

\* Mutant: the row is written where the vector should be.
PutVector_RowFirst(p, i) ==
    /\ call[p].pc = "putVector"
    /\ i \notin drawnIds
    /\ drawnIds' = drawnIds \cup {i}
    /\ meta' = meta \cup {i}
    /\ call' = [call EXCEPT ![p].pc = "putRow", ![p].id = i]
    /\ UNCHANGED <<vec, nodes, idem, pending, drawnTokens, faults, history>>

PutVector(p, i) ==
    /\ call[p].pc = "putVector"
    /\ i \notin drawnIds
    /\ drawnIds' = drawnIds \cup {i}
    /\ vec' = vec \cup {i}
    /\ call' = [call EXCEPT ![p].pc = "putRow", ![p].id = i]
    /\ UNCHANGED <<meta, nodes, idem, pending, drawnTokens, faults, history>>

PutRow(p) ==
    /\ call[p].pc = "putRow"
    /\ meta' = meta \cup {call[p].id}
    /\ Goes(p, "putLinks")
    /\ UNCHANGED <<vec, nodes, idem, pending, drawn, faults, history>>

\* Mutant: links that cannot be written are done without.
PutLinks_BestEffort(p) ==
    /\ call[p].pc = "putLinks"
    /\ nodes' \in {nodes, nodes \cup {call[p].id}}
    /\ call' = [call EXCEPT ![p].pc = NextItem(call[p].left - 1), ![p].left = @ - 1,
                            ![p].stored = @ \cup {call[p].id}, ![p].id = NoId]
    /\ UNCHANGED <<vec, meta, idem, pending, drawn, faults, history>>

\* The item's node is the last thing written of it; then its id is stored.
PutLinks(p) ==
    /\ call[p].pc = "putLinks"
    /\ nodes' = nodes \cup {call[p].id}
    /\ call' = [call EXCEPT ![p].pc = NextItem(call[p].left - 1), ![p].left = @ - 1,
                            ![p].stored = @ \cup {call[p].id}, ![p].id = NoId]
    /\ UNCHANGED <<vec, meta, idem, pending, drawn, faults, history>>

\* Mutant: the result is not recorded.
Remember_Forgets(p) ==
    /\ call[p].pc = "remember"
    /\ Goes(p, "reply")
    /\ UNCHANGED <<stores, pending, drawn, faults, history>>

\* The result of a keyed request is recorded, whatever is on record by now.
Remember(p) ==
    LET r == call[p].request
    IN /\ call[p].pc = "remember"
       /\ idem' = IF r \in Keyed THEN [idem EXCEPT ![r] = [ids |-> call[p].stored]]
                  ELSE idem
       /\ Goes(p, "reply")
       /\ UNCHANGED <<vec, meta, nodes, pending, drawn, faults, history>>

\* The tool returns the result, and it reaches the client.
Reply(p) ==
    /\ call[p].pc = "reply"
    /\ Answers(call[p].request, [ids |-> call[p].stored])
    /\ call' = [call EXCEPT ![p] = Idle]
    /\ UNCHANGED <<stores, pending, drawn, faults>>

-----------------------------------------------------------------------------
(* kb_memory_delete *)

\* Called without a token: list what would be deleted, draw a token for the
\* request and answer with both.  A client names ids it was given: those it
\* stored or found.
Preview(p, t, all, ids) ==
    /\ call[p].pc = "idle"
    /\ t \notin drawnTokens
    /\ ids \subseteq meta \cup acked
    /\ drawnTokens' = drawnTokens \cup {t}
    /\ pending' = [pending EXCEPT ![t] =
         [process |-> p, all |-> all, ids |-> ids, age |-> 0]]
    /\ UNCHANGED <<stores, call, drawnIds, faults, history>>

Held(p, t) == pending[t] # NoGate /\ pending[t].process = p
Valid(p, t) == Held(p, t) /\ pending[t].age <= Expiry

\* validate_and_invalidate: the gate forgets the token and all expired ones.
Forget(p, t) ==
    pending' = [u \in Tokens |->
        IF Held(p, u) /\ (u = t \/ ~Valid(p, u)) THEN NoGate ELSE pending[u]]

\* Called with a token this process did not give or that has expired.
Refuse(p, t) ==
    /\ call[p].pc = "idle"
    /\ ~Valid(p, t)
    /\ Forget(p, t)
    /\ UNCHANGED <<stores, call, drawn, faults, history>>

Confirm(p, t) ==
    /\ call[p].pc = "idle"
    /\ Valid(p, t)
    /\ Forget(p, t)
    /\ LET gate == pending[t]
           ids == IF gate.all THEN {} ELSE gate.ids
       IN /\ call' = [call EXCEPT ![p] =
                [Idle EXCEPT !.pc = IF gate.all THEN "list" ELSE "dropVectors",
                             !.targets = ids]]
          /\ targeted' = targeted \cup ids
    /\ UNCHANGED <<stores, drawn, faults, acked, results, overlapped, gone>>

\* "all" is what the metadata store lists now.
ListAll(p) ==
    /\ call[p].pc = "list"
    /\ call' = [call EXCEPT ![p].pc = "dropVectors", ![p].targets = meta]
    /\ targeted' = targeted \cup meta
    /\ UNCHANGED <<stores, pending, drawn, faults, acked, results, overlapped, gone>>

DropVectors(p) ==
    /\ call[p].pc = "dropVectors"
    /\ vec' = vec \ call[p].targets
    /\ Goes(p, "dropNodes")
    /\ UNCHANGED <<meta, nodes, idem, pending, drawn, faults, history>>

DropNodes(p) ==
    /\ call[p].pc = "dropNodes"
    /\ nodes' = nodes \ call[p].targets
    /\ call' = [call EXCEPT ![p].pc = "dropRows", ![p].todo = call[p].targets]
    /\ UNCHANGED <<vec, meta, idem, pending, drawn, faults, history>>

DropRow(p, i) ==
    /\ call[p].pc = "dropRows"
    /\ i \in call[p].todo
    /\ meta' = meta \ {i}
    /\ call' = [call EXCEPT ![p].todo = @ \ {i}]
    /\ UNCHANGED <<vec, nodes, idem, pending, drawn, faults, history>>

\* Mutant: delete returns from inside the loop over the rows.
EndDelete_Early(p) ==
    /\ call[p].pc = "dropRows"
    /\ gone' = gone \cup call[p].targets
    /\ call' = [call EXCEPT ![p] = Idle]
    /\ UNCHANGED <<stores, pending, drawn, faults, acked, results, overlapped, targeted>>

EndDelete(p) ==
    /\ call[p].pc = "dropRows"
    /\ call[p].todo = {}
    /\ gone' = gone \cup call[p].targets
    /\ call' = [call EXCEPT ![p] = Idle]
    /\ UNCHANGED <<stores, pending, drawn, faults, acked, results, overlapped, targeted>>

-----------------------------------------------------------------------------
\* The store call that process p is at raises, or its reply is lost; what was
\* done stays done.
Fail(p) ==
    /\ call[p].pc # "idle"
    /\ faults < MaxFaults
    /\ faults' = faults + 1
    /\ call' = [call EXCEPT ![p] = Idle]
    /\ UNCHANGED <<stores, pending, drawn, history>>

\* A process stops and is started again: its tokens are gone.
Crash(p) ==
    /\ faults < MaxFaults
    /\ faults' = faults + 1
    /\ call' = [call EXCEPT ![p] = Idle]
    /\ pending' = [t \in Tokens |-> IF Held(p, t) THEN NoGate ELSE pending[t]]
    /\ UNCHANGED <<stores, drawn, history>>

Tick ==
    /\ pending' = [t \in Tokens |->
         IF pending[t] # NoGate /\ pending[t].age <= Expiry
         THEN [pending[t] EXCEPT !.age = @ + 1] ELSE pending[t]]
    /\ UNCHANGED <<stores, call, drawn, faults, history>>

Upsert(p) ==
    \/ \E r \in Requests : AnswerAgain(p, r) \/ BeginUpsert(p, r)
    \/ \E i \in Ids : PutVector(p, i)
    \/ PutRow(p)
    \/ PutLinks(p)
    \/ Remember(p)
    \/ Reply(p)

Delete(p) ==
    \/ \E t \in Tokens :
         \/ \E all \in BOOLEAN, ids \in SUBSET Ids : Preview(p, t, all, ids)
         \/ Refuse(p, t)
         \/ Confirm(p, t)
    \/ ListAll(p)
    \/ DropVectors(p)
    \/ DropNodes(p)
    \/ \E i \in Ids : DropRow(p, i)
    \/ EndDelete(p)

Next ==
    \/ \E p \in Processes : Upsert(p) \/ Delete(p) \/ Fail(p) \/ Crash(p)
    \/ Tick

Spec == Init /\ [][Next]_vars

-----------------------------------------------------------------------------
\* An id that was returned to a client, by the upsert itself or by the answer
\* to a repeated request, is in all three stores until some delete sets out
\* to remove it.
AckedIsStored == acked \ targeted \subseteq vec \cap meta \cap nodes

\* What a delete that returned has removed is never found again, neither by
\* vector nor by the fallback over the rows, whatever upserts it overtook.
DeletedStaysGone == gone \cap (vec \cup meta) = {}

\* An item the metadata store lists has its vector, also when the upsert of
\* it failed or is not done: listing and searching agree but for deletes.
ListedIsSearchable == meta \ targeted \subseteq vec

\* A result given for a keyed request is on record, and the items on record,
\* which a repeated request is answered with although no client may have been
\* given them (the process stopped or its reply was lost before), are stored
\* until a delete sets out to remove them.  Unless two calls with the key were
\* storing at once, the record is the one result ever given.
AckedIsRemembered ==
    \A r \in Keyed :
        /\ results[r] # {} => idem[r] # NoResult
        /\ idem[r] # NoResult => idem[r].ids \ targeted \subseteq vec \cap meta \cap nodes
        /\ r \notin overlapped => results[r] \subseteq {idem[r]}
===============================================================================
