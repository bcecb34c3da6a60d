---------------------------- MODULE Memory_proofs ----------------------------
(***************************************************************************)
(* Proofs about Memory, for every set of processes, requests, ids and      *)
(* tokens, any expiry and any number of failures and restarts.             *)
(***************************************************************************)
EXTENDS MemoryInv, TLAPS

-----------------------------------------------------------------------------
(* Type correctness.                                                       *)

TypeInv == TypeOK /\ LocalsOK

LEMMA IdleType == Idle \in Call
<1>1. (CHOOSE r \in Requests : TRUE) \in Requests
  BY MemoryAssumption
<1> QED
  BY <1>1 DEF Idle, Call, Upserting, Deleting, Removing

LEMMA IdleFields ==
    /\ Idle.pc = "idle" /\ Idle.id = NoId /\ Idle.left = 0
    /\ Idle.stored = {} /\ Idle.targets = {} /\ Idle.todo = {}
  BY DEF Idle

LEMMA InitType == Init => TypeInv
<1> SUFFICES ASSUME Init PROVE TypeInv
  OBVIOUS
<1>1. TypeOK
  BY IdleType, MemoryAssumption DEF Init, TypeOK
<1>2. LocalsOK
  BY IdleFields DEF Init, LocalsOK
<1> QED
  BY <1>1, <1>2 DEF TypeInv

LEMMA StepType == TypeInv /\ [Next]_vars => TypeInv'
<1> SUFFICES ASSUME TypeInv, [Next]_vars PROVE TypeInv'
  OBVIOUS
<1> USE MemoryAssumption, IdleType, IdleFields
    DEF TypeInv, TypeOK, LocalsOK, stores, drawn, history, Goes, Answers
<1>1. ASSUME NEW p \in Processes, NEW r \in Requests, AnswerAgain(p, r)
      PROVE  TypeInv'
  <2>1. idem[r].ids \in SUBSET Ids
    BY <1>1 DEF AnswerAgain, Result
  <2> DEFINE again == [Idle EXCEPT !.pc = "reply", !.request = r, !.stored = idem[r].ids]
  <2>2. again \in Call /\ again.pc = "reply"
    BY <2>1 DEF Call
  <2>3. call' = [call EXCEPT ![p] = again]
    BY <1>1 DEF AnswerAgain
  <2> HIDE DEF again
  <2>4. call' \in [Processes -> Call] /\ LocalsOK'
    BY <2>2, <2>3
  <2> QED
    BY <1>1, <2>4 DEF AnswerAgain
<1>2. ASSUME NEW p \in Processes, NEW r \in Requests, BeginUpsert(p, r)
      PROVE  TypeInv'
  <2> DEFINE begun == [Idle EXCEPT !.pc = NextItem(ValidItems[r]), !.request = r,
                                   !.left = ValidItems[r]]
  <2>1. /\ begun \in Call /\ begun.pc \in {"putVector", "remember"}
        /\ begun.pc = "putVector" => begun.left > 0
    BY DEF Call, NextItem, Upserting
  <2>2. call' = [call EXCEPT ![p] = begun] /\ overlapped' \in SUBSET Keyed
    BY <1>2 DEF BeginUpsert
  <2> HIDE DEF begun
  <2>3. call' \in [Processes -> Call] /\ LocalsOK'
    BY <2>1, <2>2
  <2> QED
    BY <1>2, <2>2, <2>3 DEF BeginUpsert
<1>3. ASSUME NEW p \in Processes, NEW i \in Ids, PutVector(p, i)
      PROVE  TypeInv'
  <2>1. call[p] \in Call /\ [call[p] EXCEPT !.pc = "putRow", !.id = i] \in Call
    BY DEF Call, Upserting
  <2>2. call' \in [Processes -> Call]
    BY <1>3, <2>1 DEF PutVector
  <2>3. LocalsOK'
    BY <1>3, <2>1 DEF PutVector, Call
  <2> QED
    BY <1>3, <2>2, <2>3 DEF PutVector
<1>4. ASSUME NEW p \in Processes, PutRow(p)
      PROVE  TypeInv'
  BY <1>4 DEF PutRow, Call, Upserting
<1>5. ASSUME NEW p \in Processes, PutLinks(p)
      PROVE  TypeInv'
  BY <1>5 DEF PutLinks, Call, NextItem, Upserting
<1>6. ASSUME NEW p \in Processes, Remember(p)
      PROVE  TypeInv'
  <2>1. [ids |-> call[p].stored] \in Result
    BY DEF Call, Result
  <2> HIDE MemoryAssumption
  <2> QED
    BY <1>6, <2>1 DEF Remember, Call
<1>19. ASSUME NEW p \in Processes, Reply(p)
       PROVE  TypeInv'
  <2>1. call[p].stored \in SUBSET Ids /\ call[p].request \in Requests
    BY DEF Call
  <2>2. [ids |-> call[p].stored] \in Result
    BY <2>1 DEF Result
  <2> HIDE MemoryAssumption
  <2>3. acked' \in SUBSET Ids /\ results' \in [Requests -> SUBSET Result]
    BY <1>19, <2>1, <2>2 DEF Reply
  <2>4. call' \in [Processes -> Call] /\ LocalsOK'
    BY <1>19 DEF Reply
  <2> QED
    BY <1>19, <2>3, <2>4 DEF Reply
<1>7. ASSUME NEW p \in Processes, NEW t \in Tokens, NEW all \in BOOLEAN,
             NEW ids \in SUBSET Ids, Preview(p, t, all, ids)
      PROVE  TypeInv'
  BY <1>7 DEF Preview, Gate
<1>8. ASSUME NEW p \in Processes, NEW t \in Tokens, Refuse(p, t)
      PROVE  TypeInv'
  BY <1>8 DEF Refuse, Forget
<1>9. ASSUME NEW p \in Processes, NEW t \in Tokens, Confirm(p, t)
      PROVE  TypeInv'
  <2> DEFINE ids == IF pending[t].all THEN {} ELSE pending[t].ids
             start == [Idle EXCEPT !.pc = IF pending[t].all THEN "list" ELSE "dropVectors",
                                   !.targets = ids]
  <2>1. pending[t] \in Gate
    BY <1>9 DEF Confirm, Valid, Held
  <2>2. ids \in SUBSET Ids
    BY <2>1 DEF Gate
  <2>3. start \in Call /\ start.pc \notin Upserting
    BY <2>1, <2>2 DEF Gate, Call, Upserting, Deleting, Removing
  <2>4. call' = [call EXCEPT ![p] = start] /\ targeted' = targeted \cup ids
    BY <1>9 DEF Confirm
  <2>5. pending' \in [Tokens -> Gate \cup {NoGate}]
    BY <1>9 DEF Confirm, Forget
  <2>6. LocalsOK'
    BY <2>3, <2>4 DEF Upserting
  <2> HIDE DEF ids, start
  <2> QED
    BY <1>9, <2>2, <2>3, <2>4, <2>5, <2>6 DEF Confirm
<1>10. ASSUME NEW p \in Processes, ListAll(p)
       PROVE  TypeInv'
  <2>1. [call[p] EXCEPT !.pc = "dropVectors", !.targets = meta] \in Call
    BY DEF Call, Deleting, Removing
  <2>2. call' \in [Processes -> Call]
    BY <1>10, <2>1 DEF ListAll
  <2>3. LocalsOK'
    BY <1>10 DEF ListAll, Call
  <2> QED
    BY <1>10, <2>2, <2>3 DEF ListAll
<1>11. ASSUME NEW p \in Processes, DropVectors(p)
       PROVE  TypeInv'
  BY <1>11 DEF DropVectors, Call, Deleting, Removing
<1>12. ASSUME NEW p \in Processes, DropNodes(p)
       PROVE  TypeInv'
  <2>1. [call[p] EXCEPT !.pc = "dropRows", !.todo = call[p].targets] \in Call
    BY DEF Call, Deleting, Removing
  <2>2. call' \in [Processes -> Call]
    BY <1>12, <2>1 DEF DropNodes
  <2>3. LocalsOK'
    BY <1>12 DEF DropNodes, Call
  <2> QED
    BY <1>12, <2>2, <2>3 DEF DropNodes
<1>13. ASSUME NEW p \in Processes, NEW i \in Ids, DropRow(p, i)
       PROVE  TypeInv'
  BY <1>13 DEF DropRow, Call
<1>14. ASSUME NEW p \in Processes, EndDelete(p)
       PROVE  TypeInv'
  BY <1>14 DEF EndDelete, Call
<1>15. ASSUME NEW p \in Processes, Fail(p)
       PROVE  TypeInv'
  BY <1>15 DEF Fail
<1>16. ASSUME NEW p \in Processes, Crash(p)
       PROVE  TypeInv'
  BY <1>16 DEF Crash
<1>17. CASE Tick
  BY <1>17 DEF Tick, Gate
<1>18. CASE UNCHANGED vars
  BY <1>18 DEF vars
<1> QED
  BY <1>1, <1>2, <1>3, <1>4, <1>5, <1>6, <1>7, <1>8, <1>9, <1>10, <1>11, <1>12,
     <1>13, <1>14, <1>15, <1>16, <1>17, <1>18, <1>19 DEF Next, Upsert, Delete

\* Every reachable state has its type: what the calls keep, the stores hold
\* and the gate remembers, whatever steps of the processes interleave.
THEOREM TypeCorrect == Spec => []TypeOK
<1>1. TypeInv => TypeOK
  BY DEF TypeInv
<1> QED
  BY InitType, StepType, <1>1, PTL DEF Spec
-----------------------------------------------------------------------------
(* Safety: what the stores hold.                                           *)

LEMMA InitItems == Init => ItemInv
  BY IdleFields DEF Init, ItemInv, IdsAreDrawn, ItemsWritten, ItemsApart, Removed,
     RecordedIsStored, AckedIsStored, DeletedStaysGone, ListedIsSearchable

\* The steps of an upsert.
LEMMA UpsertItems ==
    ASSUME TypeInv, ItemInv, NEW p \in Processes, Upsert(p)
    PROVE  ItemInv'
<1> USE IdleFields DEF TypeInv, TypeOK, LocalsOK, ItemInv, stores, drawn, history
<1>1. ASSUME NEW r \in Requests, AnswerAgain(p, r)
      PROVE  ItemInv'
  \* The result on record is of ids that are stored.
  BY <1>1 DEF AnswerAgain, Answers, IdsAreDrawn, ItemsWritten, ItemsApart, Removed,
     Unknown, RecordedIsStored, AckedIsStored, DeletedStaysGone, ListedIsSearchable
<1>2. ASSUME NEW r \in Requests, BeginUpsert(p, r)
      PROVE  ItemInv'
  BY <1>2 DEF BeginUpsert, NextItem, IdsAreDrawn, ItemsWritten, ItemsApart, Removed,
     Unknown, RecordedIsStored, AckedIsStored, DeletedStaysGone, ListedIsSearchable
<1>3. ASSUME NEW i \in Ids, PutVector(p, i)
      PROVE  ItemInv'
  <2> USE <1>3 DEF PutVector
  <2>1. Unknown(i) /\ i \notin gone
    \* Whatever knows an id knows a drawn one.
    BY DEF Unknown, IdsAreDrawn
  <2>2. IdsAreDrawn' /\ ItemsWritten'
    BY <2>1 DEF IdsAreDrawn, ItemsWritten, Unknown
  <2>3. ItemsApart'
    BY DEF ItemsApart, ItemsWritten
  <2>4. Removed' /\ DeletedStaysGone'
    BY <2>1 DEF Removed, DeletedStaysGone, Unknown
  <2>5. RecordedIsStored' /\ AckedIsStored' /\ ListedIsSearchable'
    BY DEF RecordedIsStored, AckedIsStored, ListedIsSearchable
  <2> QED BY <2>2, <2>3, <2>4, <2>5
<1>4. CASE PutRow(p)
  <2> USE <1>4 DEF PutRow, Goes
  <2>1. Unknown(call[p].id) /\ call[p].id \in vec \cap drawnIds
    BY DEF ItemsWritten
  <2>2. IdsAreDrawn'
    BY <2>1 DEF IdsAreDrawn
  <2>3. ItemsWritten' /\ ItemsApart'
    \* Another row about to be written is another id's.
    BY <2>1 DEF ItemsWritten, ItemsApart, Unknown
  <2>4. Removed' /\ DeletedStaysGone'
    BY <2>1 DEF Removed, DeletedStaysGone, IdsAreDrawn, Unknown
  <2>5. RecordedIsStored' /\ AckedIsStored' /\ ListedIsSearchable'
    BY <2>1 DEF RecordedIsStored, AckedIsStored, ListedIsSearchable
  <2> QED BY <2>2, <2>3, <2>4, <2>5
<1>5. CASE PutLinks(p)
  <2> USE <1>5 DEF PutLinks, NextItem
  <2>1. /\ call[p].id \in drawnIds
        /\ call[p].id \notin targeted => call[p].id \in vec \cap meta
    BY DEF ItemsWritten
  <2>2. IdsAreDrawn'
    BY <2>1 DEF IdsAreDrawn
  <2>3. ASSUME NEW i \in Ids, Unknown(i), i # call[p].id PROVE Unknown(i)'
    BY <2>3 DEF Unknown
  <2>4. ItemsWritten'
    \* Another row about to be written is another id's.
    BY <2>1, <2>3 DEF ItemsWritten, ItemsApart
  <2>5. ItemsApart'
    BY DEF ItemsApart
  <2>6. Removed'
    BY DEF Removed
  <2>7. RecordedIsStored' /\ AckedIsStored' /\ DeletedStaysGone' /\ ListedIsSearchable'
    BY DEF RecordedIsStored, AckedIsStored, DeletedStaysGone, ListedIsSearchable
  <2> QED BY <2>2, <2>4, <2>5, <2>6, <2>7
<1>6. CASE Remember(p)
  <2> USE <1>6 DEF Remember, Goes
  <2>1. call[p].stored \subseteq drawnIds
    BY DEF IdsAreDrawn
  <2>2. IdsAreDrawn' /\ ItemsWritten' /\ ItemsApart' /\ Removed'
    \* Whatever is stored is drawn, and no row of it is still to be written.
    BY <2>1 DEF IdsAreDrawn, ItemsWritten, ItemsApart, Removed, Unknown
  <2>3. RecordedIsStored'
    BY DEF RecordedIsStored, ItemsWritten
  <2>4. AckedIsStored' /\ DeletedStaysGone' /\ ListedIsSearchable'
    BY DEF AckedIsStored, DeletedStaysGone, ListedIsSearchable
  <2> QED BY <2>2, <2>3, <2>4
<1>7. CASE Reply(p)
  <2> USE <1>7 DEF Reply, Answers
  <2>1. IdsAreDrawn' /\ ItemsWritten' /\ ItemsApart' /\ Removed'
    BY DEF IdsAreDrawn, ItemsWritten, ItemsApart, Removed, Unknown
  <2>2. AckedIsStored' /\ RecordedIsStored'
    BY DEF AckedIsStored, RecordedIsStored, ItemsWritten
  <2>3. DeletedStaysGone' /\ ListedIsSearchable'
    BY DEF DeletedStaysGone, ListedIsSearchable
  <2> QED BY <2>1, <2>2, <2>3
<1> QED
  BY <1>1, <1>2, <1>3, <1>4, <1>5, <1>6, <1>7 DEF Upsert

\* The steps of a delete: it can set out only to remove ids that are drawn
\* and known, and takes from the stores only what it has set out to remove.
LEMMA DeleteItems ==
    ASSUME TypeInv, ItemInv, NEW p \in Processes, Delete(p)
    PROVE  ItemInv'
<1> USE IdleFields DEF TypeInv, TypeOK, ItemInv, stores, drawn, history
<1>1. call[p].targets \subseteq targeted /\ call[p].todo \subseteq targeted
  BY DEF Removed
<1>2. CASE DropVectors(p)
  <2> USE <1>2 DEF DropVectors, Goes
  <2>1. IdsAreDrawn' /\ ItemsApart'
    BY DEF IdsAreDrawn, ItemsApart
  <2>2. ItemsWritten' /\ RecordedIsStored' /\ AckedIsStored' /\ ListedIsSearchable'
    BY <1>1 DEF ItemsWritten, Unknown, RecordedIsStored, AckedIsStored, ListedIsSearchable
  <2>3. Removed' /\ DeletedStaysGone'
    BY DEF Removed, DeletedStaysGone
  <2> QED BY <2>1, <2>2, <2>3
<1>3. CASE DropNodes(p)
  <2> USE <1>3 DEF DropNodes
  <2>1. IdsAreDrawn' /\ ItemsApart'
    BY DEF IdsAreDrawn, ItemsApart
  <2>2. ItemsWritten' /\ RecordedIsStored' /\ AckedIsStored' /\ ListedIsSearchable'
    BY <1>1 DEF ItemsWritten, Unknown, RecordedIsStored, AckedIsStored, ListedIsSearchable
  <2>3. Removed' /\ DeletedStaysGone'
    BY DEF Removed, DeletedStaysGone
  <2> QED BY <2>1, <2>2, <2>3
<1>4. ASSUME NEW i \in Ids, DropRow(p, i)
      PROVE  ItemInv'
  <2> USE <1>4 DEF DropRow
  <2>1. IdsAreDrawn' /\ ItemsApart'
    BY DEF IdsAreDrawn, ItemsApart
  <2>2. ItemsWritten' /\ RecordedIsStored' /\ AckedIsStored' /\ ListedIsSearchable'
    BY <1>1 DEF ItemsWritten, Unknown, RecordedIsStored, AckedIsStored, ListedIsSearchable
  <2>3. Removed' /\ DeletedStaysGone'
    BY DEF Removed, DeletedStaysGone
  <2> QED BY <2>1, <2>2, <2>3
<1>5. ASSUME NEW t \in Tokens, NEW all \in BOOLEAN, NEW ids \in SUBSET Ids,
             Preview(p, t, all, ids)
      PROVE  ItemInv'
  BY <1>5 DEF Preview, IdsAreDrawn, ItemsWritten, ItemsApart, Removed, Unknown,
     RecordedIsStored, AckedIsStored, DeletedStaysGone, ListedIsSearchable
<1>6. ASSUME NEW t \in Tokens, Refuse(p, t)
      PROVE  ItemInv'
  BY <1>6 DEF Refuse, Forget, IdsAreDrawn, ItemsWritten, ItemsApart, Removed, Unknown,
     RecordedIsStored, AckedIsStored, DeletedStaysGone, ListedIsSearchable
<1>7. ASSUME NEW t \in Tokens, Confirm(p, t)
      PROVE  ItemInv'
  BY <1>7 DEF Confirm, Forget, Valid, Held, IdsAreDrawn, ItemsWritten, ItemsApart,
     Removed, Unknown, RecordedIsStored, AckedIsStored, DeletedStaysGone, ListedIsSearchable
<1>8. CASE ListAll(p)
  BY <1>8 DEF ListAll, IdsAreDrawn, ItemsWritten, ItemsApart, Removed, Unknown,
     RecordedIsStored, AckedIsStored, DeletedStaysGone, ListedIsSearchable
<1>9. CASE EndDelete(p)
  \* No row is left to delete, so nothing of the targets is left at all.
  BY <1>9 DEF EndDelete, IdsAreDrawn, ItemsWritten, ItemsApart, Removed, Unknown,
     RecordedIsStored, AckedIsStored, DeletedStaysGone, ListedIsSearchable
<1> QED
  BY <1>2, <1>3, <1>4, <1>5, <1>6, <1>7, <1>8, <1>9 DEF Delete

LEMMA StepItems == TypeInv /\ ItemInv /\ [Next]_vars => ItemInv'
<1> SUFFICES ASSUME TypeInv, ItemInv, [Next]_vars PROVE ItemInv'
  OBVIOUS
<1>1. ASSUME NEW p \in Processes, Fail(p) \/ Crash(p)
      PROVE  ItemInv'
  BY <1>1, IdleFields DEF Fail, Crash, Held, stores, drawn, history, TypeInv, TypeOK,
     ItemInv, IdsAreDrawn, ItemsWritten, ItemsApart, Removed, Unknown,
     RecordedIsStored, AckedIsStored, DeletedStaysGone, ListedIsSearchable
<1>2. CASE Tick
  BY <1>2 DEF Tick, stores, drawn, history, TypeInv, TypeOK, Gate, ItemInv,
     IdsAreDrawn, ItemsWritten, ItemsApart, Removed, Unknown,
     RecordedIsStored, AckedIsStored, DeletedStaysGone, ListedIsSearchable
<1>3. CASE UNCHANGED vars
  BY <1>3 DEF vars, stores, drawn, history, ItemInv,
     IdsAreDrawn, ItemsWritten, ItemsApart, Removed, Unknown,
     RecordedIsStored, AckedIsStored, DeletedStaysGone, ListedIsSearchable
<1> QED
  BY <1>1, <1>2, <1>3, UpsertItems, DeleteItems DEF Next

-----------------------------------------------------------------------------
(* Safety: what is on record for a keyed request and what was given.       *)

RecordInv == CallsRecorded /\ GivenIsRecorded

LEMMA InitRecord == Init => RecordInv
  BY IdleFields, MemoryAssumption
     DEF Init, RecordInv, CallsRecorded, GivenIsRecorded, Upserting

\* The steps that record, answer, or begin to store for a request.
LEMMA RequestRecord ==
    ASSUME TypeInv, RecordInv, NEW p \in Processes, NEW r \in Requests,
           AnswerAgain(p, r) \/ BeginUpsert(p, r)
    PROVE  RecordInv'
<1> USE IdleFields DEF TypeInv, TypeOK, stores, history, RecordInv
<1>1. CASE AnswerAgain(p, r)
  <2>1. idem[r] = [ids |-> idem[r].ids] /\ r \in Keyed
    BY <1>1 DEF AnswerAgain, Result
  <2>2. CallsRecorded'
    BY <1>1, <2>1 DEF AnswerAgain, CallsRecorded, StoresFor, Upserting
  <2>3. GivenIsRecorded'
    BY <1>1 DEF AnswerAgain, GivenIsRecorded
  <2> QED BY <2>2, <2>3
<1>2. CASE BeginUpsert(p, r)
  <2>1. CallsRecorded'
    \* Who finds another process at the request makes them overlap.
    BY <1>2 DEF BeginUpsert, CallsRecorded, StoresFor, Upserting, NextItem
  <2>2. GivenIsRecorded'
    BY <1>2 DEF BeginUpsert, GivenIsRecorded
  <2> QED BY <2>1, <2>2
<1> QED BY <1>1, <1>2

LEMMA ResultRecord ==
    ASSUME TypeInv, RecordInv, NEW p \in Processes, Remember(p) \/ Reply(p)
    PROVE  RecordInv'
<1> USE IdleFields DEF TypeInv, TypeOK, stores, history, RecordInv
<1>1. CASE Remember(p)
  <2>1. [ids |-> call[p].stored] # NoResult
    BY MemoryAssumption DEF Call, Result
  <2>2. CallsRecorded'
    BY <1>1, <2>1 DEF Remember, Goes, CallsRecorded, StoresFor, Upserting
  <2>3. GivenIsRecorded'
    \* Nothing was on record, so nothing was given, unless calls overlapped.
    BY <1>1, <2>1 DEF Remember, CallsRecorded, GivenIsRecorded, Upserting
  <2> QED BY <2>2, <2>3
<1>2. CASE Reply(p)
  <2>1. CallsRecorded'
    BY <1>2 DEF Reply, Answers, CallsRecorded, StoresFor, Upserting
  <2>2. GivenIsRecorded'
    BY <1>2 DEF Reply, Answers, CallsRecorded, GivenIsRecorded
  <2> QED BY <2>1, <2>2
<1> QED BY <1>1, <1>2

\* All other steps leave records and results alone, and take a call at most
\* from one store call of an upsert to the next, or out of it.
LEMMA QuietRecord ==
    ASSUME TypeInv, RecordInv, UNCHANGED <<idem, results, overlapped>>,
           \A q \in Processes :
               \/ call'[q].pc \notin Upserting \cup {"reply"}
               \/ /\ call[q].pc \in Upserting /\ call'[q].pc \in Upserting
                  /\ call'[q].request = call[q].request
               \/ call'[q] = call[q]
    PROVE  RecordInv'
<1>1. \A q \in Processes, r \in Requests : StoresFor(q, r)' => StoresFor(q, r)
  BY DEF StoresFor, Upserting
<1>2. CallsRecorded'
  <2> SUFFICES ASSUME NEW p \in Processes, (call[p].request \in Keyed)',
                      (call[p].pc \in Upserting \cup {"reply"})'
               PROVE  /\ (call[p].pc = "reply" => idem[call[p].request] # NoResult)'
                      /\ (call[p].request \notin overlapped =>
                            /\ call[p].pc = "reply" => idem[call[p].request] = [ids |-> call[p].stored]
                            /\ call[p].pc \in Upserting =>
                                 /\ idem[call[p].request] = NoResult
                                 /\ \A q \in Processes \ {p} : ~StoresFor(q, call[p].request))'
    BY DEF CallsRecorded
  <2>1. call[p].request \in Keyed /\ call[p].request = call'[p].request
    BY DEF Upserting
  <2>2. call[p].request \in Requests
    BY <2>1, MemoryAssumption
  <2>3. \/ call'[p].pc = "reply" /\ call[p].pc = "reply" /\ call'[p].stored = call[p].stored
        \/ call'[p].pc # "reply" /\ call'[p].pc \in Upserting /\ call[p].pc \in Upserting
    BY DEF Upserting
  <2>4. /\ call[p].pc = "reply" => idem[call[p].request] # NoResult
        /\ call[p].request \notin overlapped =>
             /\ call[p].pc = "reply" => idem[call[p].request] = [ids |-> call[p].stored]
             /\ call[p].pc \in Upserting =>
                  /\ idem[call[p].request] = NoResult
                  /\ \A q \in Processes \ {p} : ~StoresFor(q, call[p].request)
    BY <2>1 DEF RecordInv, CallsRecorded
  <2>5. CASE call'[p].pc = "reply" /\ call[p].pc = "reply" /\ call'[p].stored = call[p].stored
    BY <2>1, <2>4, <2>5 DEF Upserting
  <2>6. CASE call'[p].pc # "reply" /\ call'[p].pc \in Upserting /\ call[p].pc \in Upserting
    BY <1>1, <2>1, <2>2, <2>4, <2>6
  <2> QED BY <2>3, <2>5, <2>6
<1>3. GivenIsRecorded'
  BY DEF RecordInv, GivenIsRecorded
<1> QED BY <1>2, <1>3 DEF RecordInv

LEMMA StepRecord == TypeInv /\ RecordInv /\ [Next]_vars => RecordInv'
<1> SUFFICES ASSUME TypeInv, RecordInv, [Next]_vars PROVE RecordInv'
  OBVIOUS
<1> USE IdleFields DEF TypeInv, TypeOK, stores, history, Goes
<1>1. ASSUME NEW p \in Processes, NEW i \in Ids,
             PutVector(p, i) \/ PutRow(p) \/ PutLinks(p)
      PROVE  RecordInv'
  BY <1>1, QuietRecord DEF PutVector, PutRow, PutLinks, NextItem, Upserting, Call
<1>2. ASSUME NEW p \in Processes, Delete(p)
      PROVE  RecordInv'
  <2>1. UNCHANGED <<idem, results, overlapped>>
    BY <1>2 DEF Delete, Preview, Refuse, Confirm, ListAll, DropVectors, DropNodes,
       DropRow, EndDelete
  <2>2. /\ \A q \in Processes \ {p} : call'[q] = call[q]
        /\ call'[p].pc \notin Upserting \cup {"reply"} \/ call'[p] = call[p]
    <3>1. ASSUME NEW t \in Tokens, Confirm(p, t)
          PROVE  (\A q \in Processes \ {p} : call'[q] = call[q]) /\ call'[p].pc \notin Upserting \cup {"reply"}
      <4> DEFINE ids == IF pending[t].all THEN {} ELSE pending[t].ids
                 at == IF pending[t].all THEN "list" ELSE "dropVectors"
                 start == [Idle EXCEPT !.pc = at, !.targets = ids]
      <4>1. call' = [call EXCEPT ![p] = start]
        BY <3>1 DEF Confirm
      <4>2. at \in {"list", "dropVectors"}
        OBVIOUS
      <4>3. start.pc = at
        <5> HIDE DEF at, ids
        <5> QED BY DEF Idle
      <4> HIDE DEF at, ids, start
      <4>4. call'[p] = start /\ \A q \in Processes \ {p} : call'[q] = call[q]
        BY <4>1
      <4>5. start.pc \notin Upserting \cup {"reply"}
        BY <4>2, <4>3 DEF Upserting
      <4>6. call'[p].pc \notin Upserting \cup {"reply"}
        BY <4>4, <4>5, Zenon
      <4> QED BY <4>4, <4>6
    <3>2. CASE ListAll(p) \/ DropVectors(p) \/ DropNodes(p) \/ EndDelete(p)
      BY <3>2 DEF ListAll, DropVectors, DropNodes, EndDelete, Upserting, Call, Deleting, Removing
    <3>3. ASSUME NEW i \in Ids, DropRow(p, i)
          PROVE  (\A q \in Processes \ {p} : call'[q] = call[q]) /\ call'[p].pc \notin Upserting \cup {"reply"}
      BY <3>3 DEF DropRow, Upserting, Call
    <3>4. CASE call' = call
      BY <3>4
    <3> QED
      BY <1>2, <3>1, <3>2, <3>3, <3>4 DEF Delete, Preview, Refuse
  <2> QED BY <2>1, <2>2, QuietRecord
<1>3. ASSUME NEW p \in Processes, Fail(p) \/ Crash(p)
      PROVE  RecordInv'
  BY <1>3, QuietRecord DEF Fail, Crash, Upserting
<1>4. CASE Tick \/ UNCHANGED vars
  BY <1>4, QuietRecord DEF Tick, vars
<1>5. ASSUME NEW p \in Processes, Upsert(p)
      PROVE  RecordInv'
  <2>1. CASE \E r \in Requests : AnswerAgain(p, r) \/ BeginUpsert(p, r)
    BY <2>1, RequestRecord
  <2>2. CASE Remember(p) \/ Reply(p)
    BY <2>2, ResultRecord
  <2>3. CASE \E i \in Ids : PutVector(p, i)
    BY <2>3, <1>1
  <2>4. CASE PutRow(p) \/ PutLinks(p)
    BY <2>4, QuietRecord DEF PutRow, PutLinks, NextItem, Upserting, Call
  <2> QED
    BY <1>5, <2>1, <2>2, <2>3, <2>4 DEF Upsert
<1> QED
  BY <1>2, <1>3, <1>4, <1>5 DEF Next

\* StoreInv holds of every reachable state.
THEOREM StoreSafety == Spec => []StoreInv
<1>1. Init => TypeInv /\ StoreInv
  BY InitType, InitItems, InitRecord DEF StoreInv, RecordInv
<1>2. TypeInv /\ StoreInv /\ [Next]_vars => (TypeInv /\ StoreInv)'
  BY StepType, StepItems, StepRecord DEF StoreInv, RecordInv
<1> QED
  BY <1>1, <1>2, PTL DEF Spec

\* Ids a client was given are in all three stores until a delete sets out to
\* remove them: upsert acknowledges an item only after its last write.
THEOREM AckedSafety == Spec => []AckedIsStored
<1>1. StoreInv => AckedIsStored
  BY DEF StoreInv, ItemInv
<1> QED
  BY StoreSafety, <1>1, PTL

\* What delete reported removed stays out of search and listings.
THEOREM DeletedSafety == Spec => []DeletedStaysGone
<1>1. StoreInv => DeletedStaysGone
  BY DEF StoreInv, ItemInv
<1> QED
  BY StoreSafety, <1>1, PTL

\* A listed item has its vector unless a delete has set out to remove it.
THEOREM ListedSafety == Spec => []ListedIsSearchable
<1>1. StoreInv => ListedIsSearchable
  BY DEF StoreInv, ItemInv
<1> QED
  BY StoreSafety, <1>1, PTL

\* What is given for a keyed request is on record, what is on record is stored
\* until a delete sets out to remove it, given or not, and no second result is
\* given unless two calls were storing for the key at once.
THEOREM RememberedSafety == Spec => []AckedIsRemembered
<1>1. StoreInv => AckedIsRemembered
  BY DEF StoreInv, ItemInv, RecordedIsStored, GivenIsRecorded, AckedIsRemembered
<1> QED
  BY StoreSafety, <1>1, PTL
===============================================================================
