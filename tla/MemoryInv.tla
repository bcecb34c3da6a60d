------------------------------ MODULE MemoryInv ------------------------------
(***************************************************************************)
(* The inductive invariant behind the safety properties of Memory: where   *)
(* an id may be known while its item is being written, and what a delete   *)
(* under way has already removed.                                          *)
(***************************************************************************)
EXTENDS Memory

\* The item at work is one of Ids, and what is left includes it.
LocalsOK ==
    \A p \in Processes :
        /\ call[p].pc \in {"putVector", "putRow", "putLinks"} => call[p].left > 0
        /\ call[p].pc \in {"putRow", "putLinks"} => call[p].id \in Ids

\* Ids get about only once they are drawn.
IdsAreDrawn ==
    /\ gone \subseteq targeted
    /\ targeted \cup acked \cup meta \subseteq drawnIds
    /\ \A p \in Processes : call[p].stored \subseteq drawnIds
    /\ \A t \in Tokens : pending[t] # NoGate => pending[t].ids \subseteq drawnIds
    /\ \A r \in Keyed : idem[r] # NoResult => idem[r].ids \subseteq drawnIds

\* Before its row is written nobody but the process storing it knows the id:
\* no delete can set out to remove it.
Unknown(i) ==
    /\ i \notin meta \cup acked \cup targeted
    /\ \A q \in Processes : i \notin call[q].stored
    /\ \A t \in Tokens : pending[t] # NoGate => i \notin pending[t].ids
    /\ \A r \in Keyed : idem[r] # NoResult => i \notin idem[r].ids

\* What an upsert has written of an item is there until a delete sets out to
\* remove the item.
ItemsWritten ==
    \A p \in Processes :
        LET c == call[p] IN
        /\ c.pc = "putRow" => c.id \in drawnIds /\ c.id \in vec /\ Unknown(c.id)
        /\ c.pc = "putLinks" => /\ c.id \in drawnIds
                                /\ c.id \notin targeted => c.id \in vec \cap meta
        /\ c.stored \ targeted \subseteq vec \cap meta \cap nodes

\* No two processes store an item under the same id.
ItemsApart ==
    \A p, q \in Processes :
        /\ p # q
        /\ call[p].pc = "putRow"
        /\ call[q].pc \in {"putRow", "putLinks"}
        => call[p].id # call[q].id

\* A keyed request is recorded before it is answered; unless two calls store
\* for it at once, nothing is recorded while one does and what is answered is
\* what is recorded.
CallsRecorded ==
    \A p \in Processes :
        LET c == call[p] IN
        c.request \in Keyed =>
            /\ c.pc = "reply" => idem[c.request] # NoResult
            /\ c.request \notin overlapped =>
                 /\ c.pc = "reply" => idem[c.request] = [ids |-> c.stored]
                 /\ c.pc \in Upserting =>
                      /\ idem[c.request] = NoResult
                      /\ \A q \in Processes \ {p} : ~StoresFor(q, c.request)

\* What a delete has removed so far has not come back.
Removed ==
    \A p \in Processes :
        LET c == call[p] IN
        /\ c.todo \subseteq c.targets
        /\ c.pc = "list" => c.todo = {}
        /\ c.targets \subseteq targeted
        /\ c.pc \in {"dropNodes", "dropRows"} => c.targets \cap vec = {}
        /\ c.pc = "dropRows" => (c.targets \ c.todo) \cap meta = {}

\* What is on record is stored, whether or not a client was given it.
RecordedIsStored ==
    \A r \in Keyed :
        idem[r] # NoResult => idem[r].ids \ targeted \subseteq vec \cap meta \cap nodes

\* Only what is on record is given for a keyed request.
GivenIsRecorded ==
    \A r \in Keyed :
        /\ results[r] # {} => idem[r] # NoResult
        /\ r \notin overlapped => results[r] \subseteq {idem[r]}

ItemInv ==
    /\ IdsAreDrawn
    /\ ItemsWritten
    /\ ItemsApart
    /\ Removed
    /\ RecordedIsStored
    /\ AckedIsStored
    /\ DeletedStaysGone
    /\ ListedIsSearchable

StoreInv ==
    /\ ItemInv
    /\ CallsRecorded
    /\ GivenIsRecorded
===============================================================================
