--------------------------- MODULE OutboxDispatch ---------------------------
(***************************************************************************)
(* The hand-off of social_publish_queue_outbox rows to BullMQ              *)
(* (publishing.queue.ts, the outbox statements of                          *)
(* pg-publish-outbox.repository.ts, publish-worker.bootstrap.ts): several  *)
(* worker processes claim batches of rows under a lease, add the queue job *)
(* of each row and mark the row, while the user gives rows new queue       *)
(* identifiers or removes them.                                            *)
(*                                                                         *)
(* The queue identifier of a row is its number among those the row's job   *)
(* was given. A lease is absent, in force or lapsed.                       *)
(***************************************************************************)
EXTENDS Naturals, FiniteSets

CONSTANTS
    Jobs,         \* publish jobs
    Dispatchers,  \* worker processes, each with one pass at a time (`dispatching`)
    Limit,        \* rows one pass claims, 100 in the code
    MaxGens,      \* bound: queue identifiers per job
    MaxFaults     \* bound: Redis errors, database errors and process deaths

ASSUME DispatchAssumption ==
    /\ IsFiniteSet(Jobs)
    /\ Limit \in Nat \ {0} /\ MaxGens \in Nat /\ MaxFaults \in Nat

VARIABLES
    outbox,   \* each job's outbox row; gen is 0 when there is none
    gens,     \* queue identifiers each job was given so far
    queued,   \* records BullMQ was given a queue job for
    pc,       \* where each dispatcher stands
    batch,    \* the records it has claimed and not handled yet
    current,  \* the record it handles
    faults    \* faults so far

vars == <<outbox, gens, queued, pc, batch, current, faults>>

Row    == [gen : 0..MaxGens, sent : BOOLEAN, lease : {"none", "held", "lapsed"}]
Record == [job : Jobs, gen : 1..MaxGens]
NoRow  == [gen |-> 0, sent |-> FALSE, lease |-> "none"]
Points == {"idle", "next", "enqueue", "mark", "release"}

Init ==
    /\ outbox = [j \in Jobs |-> NoRow]
    /\ gens = [j \in Jobs |-> 0]
    /\ queued = {}
    /\ pc = [d \in Dispatchers |-> "idle"]
    /\ batch = [d \in Dispatchers |-> {}]
    /\ current = [d \in Dispatchers |-> {}]
    /\ faults = 0

-----------------------------------------------------------------------------
(* The trigger of migration 014.                                           *)

\* A job is approved, rescheduled or retried: its row starts again under a new
\* identifier. A job that was cancelled is not approved again.
Issue(j) ==
    /\ gens[j] < MaxGens
    /\ gens[j] > 0 => outbox[j].gen > 0
    /\ gens' = [gens EXCEPT ![j] = gens[j] + 1]
    /\ outbox' = [outbox EXCEPT ![j] = [gen |-> gens[j] + 1, sent |-> FALSE, lease |-> "none"]]
    /\ UNCHANGED <<queued, pc, batch, current, faults>>

\* A job is cancelled.
Withdraw(j) ==
    /\ outbox[j].gen > 0
    /\ outbox' = [outbox EXCEPT ![j] = NoRow]
    /\ UNCHANGED <<gens, queued, pc, batch, current, faults>>

LeaseLapses(j) ==
    /\ outbox[j].lease = "held"
    /\ outbox' = [outbox EXCEPT ![j].lease = "lapsed"]
    /\ UNCHANGED <<gens, queued, pc, batch, current, faults>>

-----------------------------------------------------------------------------
(* dispatchPending.                                                        *)

\* Mutant: a job that is not approved is a candidate as well.
PendingUnapproved(row) == ~row.sent /\ row.lease # "held"
\* Mutant: a row whose dispatcher died with its lease is left alone.
PendingUnleased(row) == row.gen > 0 /\ ~row.sent /\ row.lease = "none"
Pending(row) == row.gen > 0 /\ ~row.sent /\ row.lease # "held"

\* claimOutbox: at most Limit pending rows, all of them if there are fewer.
Candidates(S) ==
    LET pending == {j \in Jobs : Pending(outbox[j])}
    IN  /\ S \subseteq pending
        /\ IF Cardinality(pending) <= Limit THEN S = pending ELSE Cardinality(S) = Limit

ClaimOutbox(d) ==
    /\ pc[d] = "idle"
    /\ \E S \in SUBSET Jobs :
          /\ S # {} /\ Candidates(S)
          /\ outbox' = [j \in Jobs |-> IF j \in S THEN [outbox[j] EXCEPT !.lease = "held"] ELSE outbox[j]]
          /\ batch' = [batch EXCEPT ![d] = {[job |-> j, gen |-> outbox[j].gen] : j \in S}]
    /\ pc' = [pc EXCEPT ![d] = "next"]
    /\ UNCHANGED <<gens, queued, current, faults>>

\* The loop over the records, and its end.
NextRecord(d) ==
    /\ pc[d] = "next"
    /\ IF batch[d] = {}
       THEN /\ pc' = [pc EXCEPT ![d] = "idle"]
            /\ UNCHANGED <<batch, current>>
       ELSE \E r \in batch[d] :
            /\ current' = [current EXCEPT ![d] = {r}]
            /\ batch' = [batch EXCEPT ![d] = batch[d] \ {r}]
            /\ pc' = [pc EXCEPT ![d] = "enqueue"]
    /\ UNCHANGED <<outbox, gens, queued, faults>>

Fault == faults < MaxFaults /\ faults' = faults + 1

\* enqueue: BullMQ adds one queue job per identifier and ignores a repetition. A
\* call that fails may have added it all the same.
Enqueue(d) ==
    /\ pc[d] = "enqueue"
    /\ \/ /\ queued' = queued \cup current[d]
          /\ pc' = [pc EXCEPT ![d] = "mark"]
          /\ UNCHANGED faults
       \/ /\ queued' \in {queued, queued \cup current[d]}
          /\ pc' = [pc EXCEPT ![d] = "release"]
          /\ Fault
    /\ UNCHANGED <<outbox, gens, batch, current>>

\* Mutant: the row is found by its job alone.
NamesAnyRow(d, j) == \E r \in current[d] : r.job = j /\ outbox[j].gen > 0
Names(d, j) == \E r \in current[d] : r.job = j /\ r.gen = outbox[j].gen

MarkedRow(row) == [row EXCEPT !.sent = TRUE, !.lease = "none"]

\* markOutboxEnqueued, or the release of the row when it fails.
Mark(d) ==
    /\ pc[d] = "mark"
    /\ \/ /\ outbox' = [j \in Jobs |-> IF Names(d, j) THEN MarkedRow(outbox[j]) ELSE outbox[j]]
          /\ pc' = [pc EXCEPT ![d] = "next"]
          /\ current' = [current EXCEPT ![d] = {}]
          /\ UNCHANGED faults
       \/ /\ pc' = [pc EXCEPT ![d] = "release"]
          /\ Fault
          /\ UNCHANGED <<outbox, current>>
    /\ UNCHANGED <<gens, queued, batch>>

\* releaseOutbox, whatever the row's sent has become.
Release(d) ==
    /\ pc[d] = "release"
    /\ outbox' = [j \in Jobs |-> IF Names(d, j) THEN [outbox[j] EXCEPT !.lease = "none"]
                                 ELSE outbox[j]]
    /\ pc' = [pc EXCEPT ![d] = "next"]
    /\ current' = [current EXCEPT ![d] = {}]
    /\ UNCHANGED <<gens, queued, batch, faults>>

\* The process dies. An error that leaves dispatchPending (of claimOutbox or of
\* releaseOutbox) does the same: nothing handles the rejection of dispatch().
Die(d) ==
    /\ pc[d] # "idle"
    /\ Fault
    /\ pc' = [pc EXCEPT ![d] = "idle"]
    /\ batch' = [batch EXCEPT ![d] = {}]
    /\ current' = [current EXCEPT ![d] = {}]
    /\ UNCHANGED <<outbox, gens, queued>>

Dispatch(d) == ClaimOutbox(d) \/ NextRecord(d) \/ Enqueue(d) \/ Mark(d) \/ Release(d)

Next ==
    \/ \E j \in Jobs : Issue(j) \/ Withdraw(j) \/ LeaseLapses(j)
    \/ \E d \in Dispatchers : Dispatch(d) \/ Die(d)

Spec == Init /\ [][Next]_vars

\* Leases lapse, and a process polls (and is restarted after its death) for ever.
\* Nobody owes the dispatcher an approval, a cancellation or a fault.
FairSpec ==
    /\ Spec
    /\ \A j \in Jobs : WF_vars(LeaseLapses(j))
    /\ \A d \in Dispatchers : WF_vars(Dispatch(d))

-----------------------------------------------------------------------------
\* The variables hold values of their types.
TypeOK ==
    /\ outbox \in [Jobs -> Row]
    /\ gens \in [Jobs -> 0..MaxGens]
    /\ queued \in SUBSET Record
    /\ pc \in [Dispatchers -> Points]
    /\ batch \in [Dispatchers -> SUBSET Record]
    /\ current \in [Dispatchers -> SUBSET Record]
    /\ faults \in 0..MaxFaults

\* A row marked as enqueued has its queue job at BullMQ under the identifier the
\* row carries now: no mark that comes after a reschedule, from whichever
\* dispatcher, hides the new identifier from the next pass.
SentIsQueued == \A j \in Jobs : outbox[j].sent => [job |-> j, gen |-> outbox[j].gen] \in queued

\* Between the queue's answer and the mark the record in hand is queued.
MarkingIsQueued == \A d \in Dispatchers : pc[d] = "mark" => current[d] \subseteq queued

\* The inductive invariant of SentIsQueued.
DispatchInv == TypeOK /\ SentIsQueued /\ MarkingIsQueued

\* The identifier a row carries is queued in the end, or replaced, or withdrawn:
\* a lost answer, a failed statement or a dead dispatcher only delays it.
EventuallyQueued ==
    \A j \in Jobs : \A g \in 1..MaxGens :
        outbox[j].gen = g ~> (outbox[j].gen # g \/ [job |-> j, gen |-> g] \in queued)
=============================================================================
