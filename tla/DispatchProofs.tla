--------------------------- MODULE DispatchProofs ---------------------------
(***************************************************************************)
(* For any jobs, dispatchers and bounds: the types of OutboxDispatch, and  *)
(* that a row marked as enqueued is queued under its present identifier.   *)
(***************************************************************************)
EXTENDS OutboxDispatch, TLAPS

\* The queue is empty and no row exists.
LEMMA DispatchInit == Init => DispatchInv
  BY DispatchAssumption
     DEF DispatchAssumption, Init, DispatchInv, TypeOK, SentIsQueued, MarkingIsQueued,
         NoRow, Row, Record, Points

\* The mark keeps the type and the identifier of a row.
LEMMA MarkedRowType ==
    ASSUME NEW row \in Row
    PROVE  MarkedRow(row) \in Row /\ MarkedRow(row).gen = row.gen
  BY DEF MarkedRow, Row

\* Every action keeps the invariant.
LEMMA DispatchStep == DispatchInv /\ [Next]_vars => DispatchInv'
<1> SUFFICES ASSUME DispatchInv, [Next]_vars PROVE DispatchInv'
  OBVIOUS
<1> USE DispatchAssumption DEF DispatchAssumption
<1>1. CASE UNCHANGED vars
  BY <1>1 DEF vars, DispatchInv, TypeOK, SentIsQueued, MarkingIsQueued
<1>2. ASSUME NEW j \in Jobs, Issue(j) PROVE DispatchInv'
  BY <1>2 DEF Issue, DispatchInv, TypeOK, SentIsQueued, MarkingIsQueued, Row
<1>3. ASSUME NEW j \in Jobs, Withdraw(j) PROVE DispatchInv'
  BY <1>3 DEF Withdraw, DispatchInv, TypeOK, SentIsQueued, MarkingIsQueued, Row, NoRow
<1>4. ASSUME NEW j \in Jobs, LeaseLapses(j) PROVE DispatchInv'
  BY <1>4 DEF LeaseLapses, DispatchInv, TypeOK, SentIsQueued, MarkingIsQueued, Row
<1>5. ASSUME NEW d \in Dispatchers, ClaimOutbox(d) PROVE DispatchInv'
  BY <1>5 DEF ClaimOutbox, Candidates, Pending, DispatchInv, TypeOK, SentIsQueued,
              MarkingIsQueued, Row, Record, Points
<1>6. ASSUME NEW d \in Dispatchers, NextRecord(d) PROVE DispatchInv'
  BY <1>6 DEF NextRecord, DispatchInv, TypeOK, SentIsQueued, MarkingIsQueued, Points
<1>7. ASSUME NEW d \in Dispatchers, Enqueue(d) PROVE DispatchInv'
  BY <1>7 DEF Enqueue, Fault, DispatchInv, TypeOK, SentIsQueued, MarkingIsQueued, Points
<1>8. ASSUME NEW d \in Dispatchers, Mark(d) PROVE DispatchInv'
  <2>. \A j \in Jobs : outbox[j] \in Row
    BY DEF DispatchInv, TypeOK
  <2>0. outbox' \in [Jobs -> Row] /\ \A j \in Jobs : outbox'[j].gen = outbox[j].gen
    <3>1. CASE outbox' = outbox
      BY <3>1 DEF DispatchInv, TypeOK
    <3>2. CASE outbox' = [j \in Jobs |-> IF Names(d, j) THEN MarkedRow(outbox[j]) ELSE outbox[j]]
      BY <3>2, MarkedRowType
    <3> QED
      BY <1>8, <3>1, <3>2 DEF Mark
  <2>1. TypeOK'
    <3>1. pc' \in [Dispatchers -> Points] /\ current' \in [Dispatchers -> SUBSET Record]
      BY <1>8 DEF Mark, DispatchInv, TypeOK, Points
    <3>2. faults' \in 0..MaxFaults
      BY <1>8 DEF Mark, Fault, DispatchInv, TypeOK
    <3> QED
      BY <1>8, <2>0, <3>1, <3>2 DEF Mark, DispatchInv, TypeOK
  <2>2. SentIsQueued'
    <3> SUFFICES ASSUME NEW j \in Jobs, outbox'[j].sent
                 PROVE  [job |-> j, gen |-> outbox'[j].gen] \in queued'
      BY DEF SentIsQueued
    <3>1. outbox'[j].gen = outbox[j].gen /\ queued' = queued
      BY <1>8, <2>0 DEF Mark
    <3>2. CASE outbox[j].sent
      BY <3>1, <3>2 DEF DispatchInv, SentIsQueued
    <3>3. CASE ~outbox[j].sent
      <4>1. Names(d, j) /\ pc[d] = "mark"
        BY <1>8, <3>3 DEF Mark
      <4>2. PICK r \in current[d] : r.job = j /\ r.gen = outbox[j].gen
        BY <4>1 DEF Names
      <4>3. r \in queued /\ r \in Record
        BY <4>1, <4>2 DEF DispatchInv, MarkingIsQueued, TypeOK
      <4>4. r = [job |-> j, gen |-> outbox[j].gen]
        BY <4>2, <4>3 DEF Record
      <4> QED
        BY <3>1, <4>3, <4>4
    <3> QED
      BY <3>2, <3>3
  <2>3. MarkingIsQueued'
    BY <1>8 DEF Mark, DispatchInv, TypeOK, MarkingIsQueued, Points
  <2> QED
    BY <2>1, <2>2, <2>3 DEF DispatchInv
<1>9. ASSUME NEW d \in Dispatchers, Release(d) PROVE DispatchInv'
  BY <1>9 DEF Release, Names, DispatchInv, TypeOK, SentIsQueued, MarkingIsQueued, Points, Row
<1>10. ASSUME NEW d \in Dispatchers, Die(d) PROVE DispatchInv'
  BY <1>10 DEF Die, Fault, DispatchInv, TypeOK, SentIsQueued, MarkingIsQueued, Points
<1> QED
  BY <1>1, <1>2, <1>3, <1>4, <1>5, <1>6, <1>7, <1>8, <1>9, <1>10 DEF Next, Dispatch

\* Rows, queued jobs, and what each dispatcher holds keep their types, whatever
\* leases lapse and whichever dispatchers die.
THEOREM TypeCorrect == Spec => []TypeOK
<1>1. DispatchInv => TypeOK
  BY DEF DispatchInv
<1> QED
  BY <1>1, DispatchInit, DispatchStep, PTL DEF Spec

\* A row that markOutboxEnqueued has marked is in BullMQ's hands under the
\* identifier it carries.
THEOREM SentIsAlwaysQueued == Spec => [](TypeOK /\ SentIsQueued)
<1>1. DispatchInv => TypeOK /\ SentIsQueued
  BY DEF DispatchInv
<1> QED
  BY <1>1, DispatchInit, DispatchStep, PTL DEF Spec
=============================================================================
