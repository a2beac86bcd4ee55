---------------------------- MODULE PublishProofs ----------------------------
(***************************************************************************)
(* Proofs about PublishWorker for any number of workers, queue jobs,       *)
(* attempts, crashes and database errors. The theorems with the assumption *)
(* Deployed need that BullMQ takes only dead workers for stalled ones and  *)
(* that no adapter repeats a write; those about the row, in the part on    *)
(* rows, need neither. The last part, for FaultFree, is the safety behind  *)
(* the liveness of the worker: what is approved has an attempt before it.  *)
(***************************************************************************)
EXTENDS PublishInvariant, TLAPS

-----------------------------------------------------------------------------
(* Types.                                                                  *)

LEMMA RowTypes ==
    ASSUME NEW r \in Job
    PROVE  /\ Claimed(r) \in Job /\ Marked(r) \in Job /\ Confirmed(r) \in Job
           /\ Published(r) \in Job /\ Rescheduled(r) \in Job /\ Cancelled(r) \in Job
           /\ Retried(r) \in Job
           /\ r.retries \in Nat
  <1>1. Claimed(r) \in Job /\ Marked(r) \in Job /\ r.retries \in Nat
    BY DEF Claimed, Marked, Job, Statuses, InProgress, Leases, RetryAt
  <1>2. Confirmed(r) \in Job /\ Published(r) \in Job
    BY DEF Confirmed, Published, Job, Statuses, InProgress, Leases, RetryAt
  <1>3. Rescheduled(r) \in Job /\ Cancelled(r) \in Job /\ Retried(r) \in Job
    BY DEF Rescheduled, Cancelled, Retried, Job, Statuses, InProgress, Leases, RetryAt
  <1>4. QED
    BY <1>1, <1>2, <1>3

LEMMA FailureTypes ==
    ASSUME NEW r \in Job, NEW n \in Nat, NEW b \in BOOLEAN
    PROVE  Deferred(r, n, b) \in Job /\ Rejected(r, n, b) \in Job
  BY DEF Deferred, Rejected, Job, Statuses, InProgress, Leases, RetryAt

LEMMA TimeTypes ==
    ASSUME NEW r \in Job
    PROVE  /\ [r EXCEPT !.due = TRUE] \in Job
           /\ [r EXCEPT !.lease = "lapsed"] \in Job
           /\ [r EXCEPT !.retryAt = "due"] \in Job
  BY DEF Job, Leases, RetryAt

LEMMA QueueJobTypes ==
    ASSUME NEW job \in QueueJob
    PROVE  /\ StalledJob(job) \in QueueJob
           /\ [job EXCEPT !.holder = NoWorker] \in QueueJob
           /\ \A w \in Workers : [job EXCEPT !.state = "active", !.holder = w] \in QueueJob
           /\ \A s \in QueueStates : [job EXCEPT !.state = s] \in QueueJob
  <1> USE DEF QueueJob, QueueStates
  <1>1. CASE job.stalls < MaxStalls
    <2>1. job.stalls + 1 \in Nat
      OBVIOUS
    <2>2. [job EXCEPT !.state = "waiting", !.holder = NoWorker, !.stalls = job.stalls + 1] \in QueueJob
      BY <2>1
    <2>3. StalledJob(job) \in QueueJob
      BY <1>1, <2>2 DEF StalledJob
    <2>4. QED
      BY <2>3
  <1>2. CASE ~(job.stalls < MaxStalls)
    BY <1>2 DEF StalledJob
  <1>3. QED
    BY <1>1, <1>2

LEMMA SettledJobTypes ==
    ASSUME NEW job \in QueueJob, NEW outcome \in Settling
    PROVE  SettledJob(job, outcome) \in QueueJob
  <1> USE DEF QueueJob, QueueStates
  <1> DEFINE quiet == /\ row.retryAt = "pending" => BackoffOutlastsRetryAt(job.attempts + 1, row.retries)
                      /\ row.lease = "held" => ShortLease
             over == outcome = "terminal" \/ job.attempts + 1 >= MaxAttempts
             next == IF over THEN "failed" ELSE "backoff"
  <1>1. job.attempts + 1 \in Nat /\ quiet \in BOOLEAN /\ next \in {"failed", "backoff"}
    BY WorkerAssumption DEF WorkerAssumption
  <1> HIDE DEF quiet, next
  <1>2. [job EXCEPT !.state = "completed", !.holder = NoWorker] \in QueueJob
    OBVIOUS
  <1>3. [job EXCEPT !.state = next, !.holder = NoWorker, !.attempts = job.attempts + 1,
                    !.quiet = quiet] \in QueueJob
    BY <1>1
  <1>4. QED
    BY <1>2, <1>3 DEF SettledJob, quiet, next

LEMMA CallTypes ==
    ASSUME NEW c \in Local
    PROVE  /\ NoCall \in Local
           /\ \A g \in Gens : [NoCall EXCEPT !.gen = g] \in Local
           /\ c.retries \in Nat /\ c.retries + 1 \in Nat
           /\ \A n \in Nat : [c EXCEPT !.retries = n] \in Local
           /\ \A b \in BOOLEAN : [c EXCEPT !.accepted = b] \in Local
           /\ \A code \in FailureCodes : FailureCounted(c, code) \in Local
  <1>1. 0 \in 0..MaxGens /\ Gens \subseteq 0..MaxGens
    BY WorkerAssumption DEF WorkerAssumption, Gens
  <1> HIDE DEF Gens
  <1>2. NoCall \in Local /\ \A g \in Gens : [NoCall EXCEPT !.gen = g] \in Local
    BY <1>1 DEF Local, NoCall
  <1>3. c.retries \in Nat /\ c.retries + 1 \in Nat
    BY DEF Local
  <1>4. /\ \A n \in Nat : [c EXCEPT !.retries = n] \in Local
        /\ \A b \in BOOLEAN : [c EXCEPT !.accepted = b] \in Local
    BY DEF Local
  <1>5. ASSUME NEW code PROVE FailureCounted(c, code) \in Local
    <2>1. Retryable(code) \in BOOLEAN
      BY DEF Retryable
    <2>2. QED
      BY <1>3, <2>1 DEF Local, FailureCounted
  <1>6. QED
    BY <1>2, <1>3, <1>4, <1>5

-----------------------------------------------------------------------------
LEMMA TypeInit == Init => TypeOK
  <1> SUFFICES ASSUME Init PROVE TypeOK
    OBVIOUS
  <1>1. MaxGens \in Nat /\ 0 \in 0..MaxGens
    BY WorkerAssumption DEF WorkerAssumption
  <1>2. row \in Job
    BY DEF Init, NewJob, Job, Statuses, Leases, RetryAt
  <1>3. queue \in [Gens -> QueueJob]
    BY DEF Init, NewQueueJob, QueueJob, QueueStates
  <1>4. local \in [Workers -> Local]
    BY <1>1 DEF Init, Local, NoCall
  <1>5. pc \in [Workers -> Points]
    BY DEF Init, Points
  <1>6. 0 \in 0..MaxGens /\ 0 \in Nat /\ 0 \in Int /\ 0 <= 0 /\ FALSE \in BOOLEAN
    BY <1>1
  <1>7. QED
    BY <1>2, <1>3, <1>4, <1>5, <1>6 DEF Init, TypeOK

LEMMA TypeUser == ASSUME TypeOK, User PROVE TypeOK'
  <1>1. MaxGens \in Nat
    BY WorkerAssumption DEF WorkerAssumption
  <1>2. row' \in Job
    BY RowTypes DEF TypeOK, User, Schedule, Retry, Cancel
  <1>3. outbox' \in 0..MaxGens /\ gens' \in 0..MaxGens /\ outbox' <= gens'
    BY <1>1 DEF TypeOK, User, Schedule, Retry, Cancel, IssueQueueId
  <1>4. UNCHANGED <<alerted, queue, pc, local, provider, faults>>
    BY DEF User, Schedule, Retry, Cancel
  <1>5. QED
    BY <1>2, <1>3, <1>4 DEF TypeOK, provider, faults

LEMMA TypeTime == ASSUME TypeOK, Time PROVE TypeOK'
  <1>1. row' \in Job
    BY TimeTypes DEF TypeOK, Time, ScheduleComes, LeaseLapses, RetryComesDue
  <1>2. QED
    BY <1>1 DEF TypeOK, Time, ScheduleComes, LeaseLapses, RetryComesDue, provider, faults

LEMMA TypeQueue == ASSUME TypeOK, NEW g \in Gens, BullMq(g) PROVE TypeOK'
  <1>1. {"delayed", "waiting"} \subseteq QueueStates
    BY DEF QueueStates
  <1>2. queue[g] \in QueueJob
    BY DEF TypeOK
  <1>3. queue' \in [Gens -> QueueJob]
    <2>1. CASE Dispatch(g)
      BY <1>1, <1>2, <2>1, QueueJobTypes DEF TypeOK, Dispatch
    <2>2. CASE Promote(g)
      BY <1>1, <1>2, <2>2, QueueJobTypes DEF TypeOK, Promote
    <2>3. CASE FindStalled(g)
      BY <1>2, <2>3, QueueJobTypes DEF TypeOK, FindStalled
    <2>4. ASSUME NEW w \in Workers, Deliver(w, g) PROVE queue' \in [Gens -> QueueJob]
      BY <1>2, <2>4, QueueJobTypes DEF TypeOK, Deliver
    <2>5. QED
      BY <2>1, <2>2, <2>3, <2>4 DEF BullMq
  <1>4. pc' \in [Workers -> Points]
    BY DEF TypeOK, BullMq, Dispatch, Promote, FindStalled, Deliver, Points
  <1>5. local' \in [Workers -> Local]
    <2>1. local \in [Workers -> Local]
      BY DEF TypeOK
    <2>2. CASE local' = local
      BY <2>1, <2>2
    <2>3. ASSUME NEW w \in Workers, Deliver(w, g) PROVE local' \in [Workers -> Local]
      BY <2>1, <2>3, CallTypes DEF TypeOK, Deliver
    <2>4. QED
      BY <2>2, <2>3 DEF BullMq, Dispatch, Promote, FindStalled
  <1>6. UNCHANGED <<store, provider, faults>>
    BY DEF BullMq, Dispatch, Promote, FindStalled, Deliver
  <1>7. QED
    BY <1>3, <1>4, <1>5, <1>6 DEF TypeOK, store, provider, faults

\* The claim's branch, Mark's target and the throw of a lost statement are points.
LEMMA GoToTypes ==
    ASSUME TypeOK, NEW w \in Workers, NEW point \in Points, GoTo(w, point)
    PROVE  pc' \in [Workers -> Points] /\ crashes' \in Nat /\ errors' \in Nat
  BY DEF GoTo, TypeOK, faults, Points, Settling

LEMMA TypeProcess == ASSUME TypeOK, NEW w \in Workers, Process(w) PROVE TypeOK'
  <1> USE DEF store, provider, faults
  <1> DEFINE point == CASE row.status = "remote_confirmed" -> "save"
                        [] row.status # "remote_confirmed" /\ row.keyed -> "reconcile"
                        [] OTHER -> "mark"
  <1>1. CASE Claim(w)
    <2>1. point \in Points
      BY DEF Points, Working
    <2>2. row' \in Job /\ local' \in [Workers -> Local]
      BY <1>1, RowTypes, CallTypes DEF Claim, TypeOK
    <2>3. GoTo(w, point)
      BY <1>1 DEF Claim
    <2>4. QED
      BY <1>1, <2>1, <2>2, <2>3, GoToTypes DEF Claim, TypeOK
  <1>2. CASE ClaimNothing(w)
    BY <1>2 DEF ClaimNothing, TypeOK, Points, Settling
  <1>3. CASE Reconcile(w)
    <2>0. local[w] \in Local /\ [local[w] EXCEPT !.retries = local[w].retries + 1] \in Local
      BY CallTypes DEF TypeOK
    <2>1. local' \in [Workers -> Local]
      BY <1>3, <2>0 DEF Reconcile, TypeOK
    <2>2. pc' \in [Workers -> Points]
      BY <1>3 DEF Reconcile, TypeOK, Points, Working
    <2>3. QED
      BY <1>3, <2>1, <2>2 DEF Reconcile, TypeOK
  <1>4. CASE Mark(w)
    <2>0. [local[w] EXCEPT !.retries = row.retries] \in Local /\ Marked(row) \in Job
      BY RowTypes, CallTypes DEF TypeOK
    <2>1. row' \in Job /\ local' \in [Workers -> Local]
      BY <1>4, <2>0 DEF Mark, TypeOK
    <2>2. {"publish", "confirm", "throw"} \subseteq Points
      BY DEF Points, Working, Settling
    <2>3. pc' \in [Workers -> Points] /\ crashes' \in Nat /\ errors' \in Nat
      BY <1>4, <2>2, GoToTypes DEF Mark, TypeOK
    <2>4. QED
      BY <1>4, <2>1, <2>3 DEF Mark, TypeOK
  <1>5. CASE Send(w)
    <2>1. local' \in [Workers -> Local]
      <3>1. \A b \in BOOLEAN : [local[w] EXCEPT !.accepted = b] \in Local
        BY CallTypes DEF TypeOK
      <3>2. QED
        BY <1>5, <3>1 DEF Send, TypeOK
    <2>2. open' \in Int /\ posts' \in Nat
      BY <1>5 DEF Send, TypeOK
    <2>3. pc' \in [Workers -> Points]
      BY <1>5 DEF Send, TypeOK, Points, Working
    <2>4. QED
      BY <1>5, <2>1, <2>2, <2>3 DEF Send, TypeOK
  <1>6. CASE AnswerPublished(w)
    BY <1>6 DEF AnswerPublished, TypeOK, Points, Working
  <1>7. CASE AnswerFailure(w)
    <2>1. local' \in [Workers -> Local]
      <3>1. \A code \in FailureCodes : FailureCounted(local[w], code) \in Local
        BY CallTypes DEF TypeOK
      <3>2. QED
        BY <1>7, <3>1 DEF AnswerFailure, TypeOK
    <2>2. open' \in Int
      BY <1>7 DEF AnswerFailure, TypeOK
    <2>3. pc' \in [Workers -> Points]
      BY <1>7 DEF AnswerFailure, TypeOK, Points, Working
    <2>4. QED
      BY <1>7, <2>1, <2>2, <2>3 DEF AnswerFailure, TypeOK
  <1>8. CASE Recheck(w)
    BY <1>8 DEF Recheck, TypeOK, Points, Working
  <1>9. CASE Confirm(w)
    <2>1. row' \in Job
      BY <1>9, RowTypes DEF Confirm, TypeOK
    <2>2. {"save", "throw"} \subseteq Points
      BY DEF Points, Working, Settling
    <2>3. pc' \in [Workers -> Points] /\ crashes' \in Nat /\ errors' \in Nat
      BY <1>9, <2>2, GoToTypes DEF Confirm, TypeOK
    <2>4. QED
      BY <1>9, <2>1, <2>3 DEF Confirm, TypeOK
  <1>10. CASE Save(w)
    <2>1. row' \in Job
      BY <1>10, RowTypes DEF Save, TypeOK
    <2>2. "return" \in Points
      BY DEF Points, Settling
    <2>3. QED
      BY <1>10, <2>1, <2>2, GoToTypes DEF Save, TypeOK
  <1>11. ASSUME NEW failed \in Job, NEW retryPending \in BOOLEAN,
                RecordFailure(w, failed, retryPending)
         PROVE  TypeOK'
    <2>1. {"throw", "terminal"} \subseteq Points
      BY DEF Points, Settling
    <2>2. pc' \in [Workers -> Points] /\ crashes' \in Nat /\ errors' \in Nat
      BY <1>11, <2>1, GoToTypes DEF RecordFailure
    <2>3. QED
      BY <1>11, <2>2 DEF RecordFailure, TypeOK
  <1>12. CASE Defer(w)
    <2>1. ShouldRetryPublish(TRUE, local[w].retries) \in BOOLEAN /\ local[w].retries \in Nat
      BY CallTypes DEF ShouldRetryPublish, TypeOK
    <2>2. QED
      BY <1>11, <1>12, <2>1, FailureTypes DEF Defer, TypeOK
  <1>13. CASE Reject(w)
    <2>1. ShouldRetryPublish(local[w].retryable, local[w].retries) \in BOOLEAN /\ local[w].retries \in Nat
      BY CallTypes DEF ShouldRetryPublish, TypeOK
    <2>2. QED
      BY <1>11, <1>13, <2>1, FailureTypes DEF Reject, TypeOK
  <1>14. CASE Settle(w)
    <2>1. queue' \in [Gens -> QueueJob]
      BY <1>14, SettledJobTypes DEF Settle, TypeOK
    <2>2. local' \in [Workers -> Local] /\ pc' \in [Workers -> Points]
      BY <1>14, CallTypes DEF Settle, TypeOK, Points
    <2>3. QED
      BY <1>14, <2>1, <2>2 DEF Settle, TypeOK
  <1>15. QED
    BY <1>1, <1>2, <1>3, <1>4, <1>5, <1>6, <1>7, <1>8, <1>9, <1>10, <1>12, <1>13, <1>14 DEF Process

LEMMA TypeFault == ASSUME TypeOK, NEW w \in Workers, DatabaseError(w) \/ Crash(w) PROVE TypeOK'
  <1> USE DEF store, provider
  <1>1. CASE DatabaseError(w)
    BY <1>1 DEF DatabaseError, TypeOK, Points, Settling
  <1>2. CASE Crash(w)
    <2>1. queue' \in [Gens -> QueueJob]
      BY <1>2, QueueJobTypes DEF Crash, TypeOK
    <2>2. pc' \in [Workers -> Points] /\ local' \in [Workers -> Local]
      BY <1>2, CallTypes DEF Crash, TypeOK, Points
    <2>3. QED
      BY <1>2, <2>1, <2>2 DEF Crash, TypeOK
  <1>3. QED
    BY <1>1, <1>2

LEMMA TypeStep == ASSUME TypeOK, [Next]_vars PROVE TypeOK'
  <1>1. CASE UNCHANGED vars
    BY <1>1 DEF vars, TypeOK
  <1>2. QED
    BY <1>1, TypeUser, TypeTime, TypeQueue, TypeProcess, TypeFault DEF Next

\* Whatever the deployment, the variables keep their types.
THEOREM TypeCorrect == Spec => []TypeOK
  BY TypeInit, TypeStep, PTL DEF Spec

-----------------------------------------------------------------------------
(* Safety: the invariant is preserved.                                     *)

\* A call that works is the only one: it holds the row's queue job.
LEMMA LoneCall ==
    ASSUME IInv, NEW v \in Workers, NEW w \in Workers,
           pc[v] \in Working, pc[w] # "idle", local[w].gen = outbox
    PROVE  v = w
  BY DEF IInv, HoldsQueueJob, OnlyCurrentQueueJobWorks, Working

\* A call that does not leave its queue job keeps it, if it may work on.
LEMMA CallFrame ==
    ASSUME IInv, NEW w \in Workers, pc[w] # "idle", UNCHANGED <<queue, outbox>>,
           \A v \in Workers : local'[v].gen = local[v].gen,
           \A v \in Workers \ {w} : pc'[v] = pc[v],
           pc'[w] \in Working => local[w].gen = outbox
    PROVE  OnlyCurrentQueueJobWorks' /\ \A v \in Workers : HoldsQueueJob(v)'
  BY DEF IInv, HoldsQueueJob, OnlyCurrentQueueJobWorks

\* A worker that is not working asks nothing of the row and the provider.
LEMMA AtRest ==
    ASSUME NEW v \in Workers, pc'[v] \notin Working
    PROVE  RowFollows(v)' /\ ProviderFollows(v)'
  BY DEF RowFollows, ProviderFollows, Working

LEMMA InvInit == Init => IInv
  <1> SUFFICES ASSUME Init PROVE IInv
    OBVIOUS
  <1>1. \A w \in Workers : pc[w] = "idle"
    BY DEF Init
  <1>2. \A w \in Workers : HoldsQueueJob(w) /\ RowFollows(w) /\ ProviderFollows(w)
    BY <1>1 DEF HoldsQueueJob, RowFollows, ProviderFollows
  <1>3. OnlyCurrentQueueJobWorks
    BY <1>1 DEF OnlyCurrentQueueJobWorks, Working
  <1>4. RowAndProvider
    BY DEF Init, NewJob, RowAndProvider, RowShape, NoBlindRepeat, OpenWriteHasKey, PublishedIsReal
  <1>5. QED
    BY TypeInit, <1>2, <1>3, <1>4 DEF IInv

\* The user acts only while no call works (UserActsOnIdleJob).
LEMMA IInvUserIdle == IInv => UserActsOnIdleJob
  <1> SUFFICES ASSUME IInv, UserMayAct
               PROVE  open = 0 /\ posts = 0 /\ \A w \in Workers : pc[w] \notin Working
    BY DEF UserActsOnIdleJob
  <1>1. row.status \in {"waiting", "retrying", "failed"} /\ ~row.keyed
    BY DEF UserMayAct, Schedulable, Cancellable, Retriable
  <1>2. open = 0 /\ posts = 0
    BY <1>1 DEF IInv, TypeOK, RowAndProvider, OpenWriteHasKey
  <1>3. ASSUME NEW w \in Workers PROVE pc[w] \notin Working
    BY <1>1 DEF IInv, RowFollows, Working
  <1>4. QED
    BY <1>2, <1>3

LEMMA InvUser == ASSUME IInv, User PROVE IInv'
  <1>1. TypeOK'
    BY TypeUser DEF IInv
  <1>2. UserMayAct
    BY DEF User, Schedule, Retry, Cancel, UserMayAct
  <1>3. open = 0 /\ posts = 0 /\ \A w \in Workers : pc[w] \notin Working
    BY <1>2, IInvUserIdle DEF UserActsOnIdleJob
  <1>4. UNCHANGED <<queue, pc, local, open, posts>>
    BY DEF User, Schedule, Retry, Cancel, provider
  <1>5. \A w \in Workers : HoldsQueueJob(w)' /\ RowFollows(w)' /\ ProviderFollows(w)'
    BY <1>3, <1>4, AtRest DEF IInv, HoldsQueueJob
  <1>6. OnlyCurrentQueueJobWorks'
    BY <1>3, <1>4 DEF OnlyCurrentQueueJobWorks
  <1>7. RowAndProvider'
    <2>1. row' \in {Rescheduled(row), Retried(row), Cancelled(row)} /\ ~row.keyed
      BY DEF User, Schedule, Retry, Cancel, Schedulable, Cancellable, Retriable
    <2>2. row.ref => row.status \notin {"waiting", "retrying", "failed"}
      BY DEF IInv, RowAndProvider, RowShape
    <2>3. row.status \in {"waiting", "retrying", "failed"}
      BY DEF User, Schedule, Retry, Cancel, Schedulable, Cancellable, Retriable
    <2>4. QED
      BY <1>3, <1>4, <2>1, <2>2, <2>3
      DEF IInv, TypeOK, Job, RowAndProvider, RowShape, NoBlindRepeat, OpenWriteHasKey,
          PublishedIsReal, Rescheduled, Retried, Cancelled
  <1>8. QED
    BY <1>1, <1>5, <1>6, <1>7 DEF IInv

LEMMA InvTime == ASSUME IInv, Time PROVE IInv'
  <1>1. TypeOK'
    BY TypeTime DEF IInv
  <1>2. UNCHANGED <<outbox, queue, pc, local, open, posts>>
    BY DEF Time, ScheduleComes, LeaseLapses, RetryComesDue, provider
  <1>3. row'.status = row.status /\ row'.keyed = row.keyed /\ row'.ref = row.ref
    BY DEF Time, ScheduleComes, LeaseLapses, RetryComesDue, IInv, TypeOK, Job
  <1>4. QED
    BY <1>1, <1>2, <1>3
    DEF IInv, HoldsQueueJob, RowFollows, ProviderFollows, OnlyCurrentQueueJobWorks,
        RowAndProvider, RowShape, NoBlindRepeat, OpenWriteHasKey, PublishedIsReal

LEMMA InvQueue == ASSUME Deployed, IInv, NEW g \in Gens, BullMq(g) PROVE IInv'
  <1>1. TypeOK'
    BY TypeQueue DEF IInv
  <1>2. UNCHANGED <<row, outbox, open, posts>>
    BY DEF BullMq, Dispatch, Promote, FindStalled, Deliver, store, provider
  <1>3. RowAndProvider'
    BY <1>2 DEF IInv, RowAndProvider, RowShape, NoBlindRepeat, OpenWriteHasKey, PublishedIsReal
  <1>4. CASE Dispatch(g) \/ Promote(g) \/ FindStalled(g)
    <2>1. UNCHANGED <<pc, local>>
      BY <1>4 DEF Dispatch, Promote, FindStalled
    <2>2. queue[g].state # "active" \/ queue[g].holder = NoWorker
      BY <1>4 DEF Dispatch, Promote, FindStalled, Deployed
    <2>3. \A h \in Gens \ {g} : queue'[h] = queue[h]
      BY <1>4 DEF Dispatch, Promote, FindStalled, IInv, TypeOK
    <2>4. \A w \in Workers : HoldsQueueJob(w)'
      BY <2>1, <2>2, <2>3, WorkerAssumption DEF WorkerAssumption, IInv, HoldsQueueJob
    <2>5. QED
      BY <1>1, <1>2, <1>3, <2>1, <2>4
      DEF IInv, RowFollows, ProviderFollows, OnlyCurrentQueueJobWorks
  <1>5. ASSUME NEW w \in Workers, Deliver(w, g) PROVE IInv'
    <2>1. pc[w] = "idle" /\ queue[g].state = "waiting"
      BY <1>5 DEF Deliver
    <2>2. pc'[w] = "claim" /\ local'[w].gen = g
      BY <1>5 DEF Deliver, IInv, TypeOK, NoCall
    <2>3. queue'[g].state = "active" /\ queue'[g].holder = w
      BY <1>5 DEF Deliver, IInv, TypeOK, QueueJob
    <2>4. \A v \in Workers \ {w} : pc'[v] = pc[v] /\ local'[v] = local[v]
      BY <1>5 DEF Deliver, IInv, TypeOK
    <2>5. \A h \in Gens \ {g} : queue'[h] = queue[h]
      BY <1>5 DEF Deliver, IInv, TypeOK
    <2>6. \A v \in Workers : HoldsQueueJob(v)'
      BY <2>1, <2>2, <2>3, <2>4, <2>5 DEF IInv, HoldsQueueJob
    <2>7. OnlyCurrentQueueJobWorks'
      BY <1>2, <2>2, <2>4 DEF IInv, OnlyCurrentQueueJobWorks, Working
    <2>8. RowFollows(w)' /\ ProviderFollows(w)'
      BY <2>2, AtRest DEF Working
    <2>9. \A v \in Workers \ {w} : RowFollows(v)' /\ ProviderFollows(v)'
      BY <1>2, <2>4 DEF IInv, RowFollows, ProviderFollows
    <2>10. QED
      BY <1>1, <1>3, <2>6, <2>7, <2>8, <2>9 DEF IInv
  <1>6. QED
    BY <1>4, <1>5 DEF BullMq

\* A step of w's call preserves the invariant if it leaves what concerns w and
\* what concerns row and provider in order; a step that changes row or provider
\* belongs to the current queue job, so that no other call works.
LEMMA CallStep ==
    ASSUME IInv, TypeOK', NEW w \in Workers, pc[w] # "idle", UNCHANGED <<queue, outbox>>,
           \A v \in Workers : local'[v].gen = local[v].gen,
           \A v \in Workers \ {w} : pc'[v] = pc[v] /\ local'[v] = local[v],
           pc'[w] \in Working => local[w].gen = outbox,
           local[w].gen = outbox \/ UNCHANGED <<row, open, posts>>,
           RowFollows(w)', ProviderFollows(w)', RowAndProvider'
    PROVE  IInv'
  <1>1. OnlyCurrentQueueJobWorks' /\ \A v \in Workers : HoldsQueueJob(v)'
    BY CallFrame
  <1>2. ASSUME NEW v \in Workers \ {w} PROVE RowFollows(v)' /\ ProviderFollows(v)'
    <2>1. CASE local[w].gen = outbox
      BY <2>1, LoneCall, AtRest
    <2>2. CASE UNCHANGED <<row, open, posts>>
      BY <2>2 DEF IInv, RowFollows, ProviderFollows
    <2>3. QED
      BY <2>1, <2>2
  <1>3. QED
    BY <1>1, <1>2 DEF IInv

\* GoTo leads to the point or to the throw, and moves no other call.
LEMMA GoToPoint ==
    ASSUME TypeOK, NEW w \in Workers, NEW point, GoTo(w, point)
    PROVE  pc'[w] \in {point, "throw"} /\ \A v \in Workers \ {w} : pc'[v] = pc[v]
  BY DEF GoTo, TypeOK

LEMMA InvClaim == ASSUME IInv, TypeOK', NEW w \in Workers, Claim(w) PROVE IInv'
  <1> DEFINE point == CASE row.status = "remote_confirmed" -> "save"
                        [] row.status # "remote_confirmed" /\ row.keyed -> "reconcile"
                        [] OTHER -> "mark"
  <1>1. pc'[w] \in {point, "throw"} /\ \A v \in Workers \ {w} : pc'[v] = pc[v]
    BY GoToPoint DEF Claim, IInv
  <1>2. \A v \in Workers : local'[v].gen = local[v].gen
    BY DEF Claim, IInv, TypeOK, Local
  <1>3. \A v \in Workers \ {w} : local'[v] = local[v]
    BY DEF Claim, IInv, TypeOK
  <1>4. /\ row'.status = IF row.status = "remote_confirmed" THEN row.status ELSE "claimed"
        /\ row'.keyed = row.keyed /\ row'.ref = row.ref
    BY DEF Claim, Claimed, IInv, TypeOK, Job
  <1>5. row.status \notin {"published"} /\ UNCHANGED <<open, posts>>
    BY DEF Claim, Claimable, provider
  <1>6. open > 0 => row.keyed
    BY DEF IInv, RowAndProvider, OpenWriteHasKey
  <1>7. open \in Int /\ posts \in Nat /\ posts <= open
    BY DEF IInv, RowAndProvider, TypeOK
  <1>8. RowFollows(w)'
    BY <1>1, <1>4 DEF RowFollows
  <1>9. ProviderFollows(w)'
    BY <1>1, <1>5, <1>6, <1>7 DEF ProviderFollows
  <1>10. RowAndProvider'
    BY <1>4, <1>5
    DEF IInv, RowAndProvider, RowShape, NoBlindRepeat, OpenWriteHasKey, PublishedIsReal
  <1>11. pc[w] # "idle" /\ local[w].gen = outbox /\ UNCHANGED <<queue, outbox>>
    BY DEF Claim
  <1> HIDE DEF point
  <1>12. QED
    BY <1>1, <1>2, <1>3, <1>8, <1>9, <1>10, <1>11, CallStep

\* A working call belongs to the current queue job.
LEMMA WorkingIsCurrent ==
    ASSUME IInv, NEW w \in Workers, pc[w] \in Working
    PROVE  pc[w] # "idle" /\ local[w].gen = outbox
  BY DEF IInv, OnlyCurrentQueueJobWorks, Working

\* Steps that touch neither row nor provider.
LEMMA InvQuiet ==
    ASSUME Deployed, IInv, TypeOK', NEW w \in Workers,
           ClaimNothing(w) \/ Reconcile(w) \/ AnswerPublished(w) \/ Recheck(w) \/ DatabaseError(w)
    PROVE  IInv'
  <1> USE DEF ClaimNothing, Reconcile, AnswerPublished, Recheck, DatabaseError
  <1>1. UNCHANGED <<row, open, posts, queue, outbox>>
    BY DEF store, provider
  <1>2. pc[w] # "idle" /\ (pc'[w] \in Working => pc[w] \in Working)
    BY DEF IInv, TypeOK, Working
  <1>3. \A v \in Workers \ {w} : pc'[v] = pc[v] /\ local'[v] = local[v]
    BY DEF IInv, TypeOK
  <1>4. \A v \in Workers : local'[v].gen = local[v].gen
    BY DEF IInv, TypeOK, Local
  <1>5. RowFollows(w)'
    BY <1>1 DEF Deployed, IInv, TypeOK, RowFollows
  <1>6. ProviderFollows(w)'
    BY <1>1 DEF Deployed, IInv, TypeOK, ProviderFollows, Found
  <1>7. RowAndProvider'
    BY <1>1 DEF IInv, RowAndProvider, RowShape, NoBlindRepeat, OpenWriteHasKey, PublishedIsReal
  <1>8. pc'[w] \in Working => local[w].gen = outbox
    BY <1>2, WorkingIsCurrent
  <1> HIDE DEF ClaimNothing, Reconcile, AnswerPublished, Recheck, DatabaseError
  <1>9. QED
    BY <1>1, <1>2, <1>3, <1>4, <1>5, <1>6, <1>7, <1>8, CallStep

\* What every working step leaves alone.
LEMMA WorkFrame ==
    ASSUME IInv, NEW w \in Workers,
           Mark(w) \/ Send(w) \/ AnswerFailure(w) \/ Confirm(w) \/ Save(w) \/ Defer(w) \/ Reject(w)
    PROVE  /\ pc[w] \in Working /\ pc[w] # "idle" /\ local[w].gen = outbox
           /\ UNCHANGED <<queue, outbox>>
           /\ \A v \in Workers \ {w} : pc'[v] = pc[v] /\ local'[v] = local[v]
           /\ \A v \in Workers : local'[v].gen = local[v].gen
  <1> USE DEF Mark, Send, AnswerFailure, Confirm, Save, Defer, Reject, RecordFailure
  <1>1. pc[w] \in Working
    BY DEF Working
  <1>2. UNCHANGED <<queue, outbox>>
    BY DEF store
  <1>3. \A v \in Workers \ {w} : pc'[v] = pc[v]
    BY DEF GoTo, IInv, TypeOK
  <1>4. \A v \in Workers \ {w} : local'[v] = local[v]
    BY DEF IInv, TypeOK
  <1>5. \A v \in Workers : local'[v].gen = local[v].gen
    <2>1. \A code \in FailureCodes : FailureCounted(local[w], code).gen = local[w].gen
      BY DEF IInv, TypeOK, Local, FailureCounted
    <2>2. CASE AnswerFailure(w)
      BY <2>1, <2>2 DEF IInv, TypeOK
    <2>3. CASE Mark(w)
      BY <2>3 DEF IInv, TypeOK, Local
    <2>4. CASE Send(w)
      <3>1. \A b \in BOOLEAN : [local[w] EXCEPT !.accepted = b].gen = local[w].gen
        BY DEF IInv, TypeOK, Local
      <3>2. QED
        BY <2>4, <3>1 DEF IInv, TypeOK
    <2>5. CASE Confirm(w) \/ Save(w) \/ Defer(w) \/ Reject(w)
      BY <2>5
    <2>6. QED
      BY <2>2, <2>3, <2>4, <2>5
  <1>6. QED
    BY <1>1, <1>2, <1>3, <1>4, <1>5, WorkingIsCurrent

LEMMA InvMark == ASSUME IInv, TypeOK', NEW w \in Workers, Mark(w) PROVE IInv'
  <1>1. row.status = "claimed" /\ row.ref = FALSE
    BY DEF Mark, IInv, RowFollows, RowAndProvider, RowShape, TypeOK, Job
  <1>2. row' = Marked(row) /\ UNCHANGED <<open, posts>>
    BY <1>1 DEF Mark, Markable, provider
  <1>3. row'.status = "remote_requesting" /\ row'.keyed = TRUE /\ row'.ref = FALSE
    BY <1>1, <1>2 DEF Marked, IInv, TypeOK, Job
  <1>4. pc'[w] \in {IF pc[w] = "mark" THEN "publish" ELSE "confirm", "throw"}
    BY <1>1, GoToPoint DEF Mark, Markable, IInv
  <1>5. RowFollows(w)'
    BY <1>3, <1>4 DEF RowFollows
  <1>6. ProviderFollows(w)'
    BY <1>2, <1>4 DEF ProviderFollows, IInv, Mark
  <1>7. RowAndProvider'
    BY <1>2, <1>3
    DEF IInv, RowAndProvider, RowShape, NoBlindRepeat, OpenWriteHasKey, PublishedIsReal
  <1>8. QED
    BY <1>5, <1>6, <1>7, WorkFrame, CallStep

LEMMA InvSend == ASSUME Deployed, IInv, TypeOK', NEW w \in Workers, Send(w) PROVE IInv'
  <1>1. row.status = "remote_requesting" /\ row.keyed /\ open = 0 /\ posts = 0
    BY DEF Send, IInv, RowFollows, ProviderFollows, RowAndProvider, TypeOK
  <1>2. /\ UNCHANGED row /\ open' = 1
        /\ posts' = IF local'[w].accepted THEN 1 ELSE 0
    BY <1>1 DEF Send, Deployed, store, IInv, TypeOK, Local
  <1>3. pc'[w] = "inflight"
    BY DEF Send, IInv, TypeOK
  <1>4. RowFollows(w)' /\ ProviderFollows(w)'
    BY <1>1, <1>2, <1>3 DEF RowFollows, ProviderFollows
  <1>5. RowAndProvider'
    BY <1>1, <1>2
    DEF IInv, RowAndProvider, RowShape, NoBlindRepeat, OpenWriteHasKey, PublishedIsReal
  <1>6. QED
    BY <1>4, <1>5, WorkFrame, CallStep

LEMMA InvAnswerFailure ==
    ASSUME IInv, TypeOK', NEW w \in Workers, AnswerFailure(w) PROVE IInv'
  <1>1. row.status = "remote_requesting" /\ row.keyed /\ open = 1
    BY DEF AnswerFailure, IInv, RowFollows, ProviderFollows
  <1>2. PICK code \in FailureCodes :
          /\ local[w].accepted => Ambiguous(code)
          /\ pc' = [pc EXCEPT ![w] = IF Ambiguous(code) THEN "recheck" ELSE "reject"]
          /\ open' = IF Ambiguous(code) THEN open ELSE open - 1
    BY DEF AnswerFailure
  <1>3. UNCHANGED <<row, posts>> /\ (posts > 0 => local[w].accepted)
    BY DEF AnswerFailure, store, IInv, ProviderFollows
  <1>4. RowFollows(w)' /\ ProviderFollows(w)'
    BY <1>1, <1>2, <1>3 DEF RowFollows, ProviderFollows, IInv, TypeOK
  <1>5. RowAndProvider'
    BY <1>1, <1>2, <1>3
    DEF IInv, TypeOK, RowAndProvider, RowShape, NoBlindRepeat, OpenWriteHasKey, PublishedIsReal
  <1>6. QED
    BY <1>4, <1>5, WorkFrame, CallStep

LEMMA InvConfirm == ASSUME IInv, TypeOK', NEW w \in Workers, Confirm(w) PROVE IInv'
  <1>1. row.status = "remote_requesting" /\ row.keyed /\ posts > 0
    BY DEF Confirm, IInv, RowFollows, ProviderFollows
  <1>2. row'.status = "remote_confirmed" /\ row'.keyed = row.keyed /\ row'.ref = TRUE
    BY <1>1 DEF Confirm, Confirmable, Confirmed, IInv, TypeOK, Job
  <1>3. UNCHANGED <<open, posts>> /\ pc'[w] \in {"save", "throw"}
    BY <1>1, GoToPoint DEF Confirm, Confirmable, provider, IInv
  <1>4. RowFollows(w)' /\ ProviderFollows(w)'
    BY <1>2, <1>3 DEF RowFollows, ProviderFollows
  <1>5. RowAndProvider'
    BY <1>1, <1>2, <1>3
    DEF IInv, RowAndProvider, RowShape, NoBlindRepeat, OpenWriteHasKey, PublishedIsReal
  <1>6. QED
    BY <1>4, <1>5, WorkFrame, CallStep

LEMMA InvSave == ASSUME IInv, TypeOK', NEW w \in Workers, Save(w) PROVE IInv'
  <1>1. row.status = "remote_confirmed"
    BY DEF Save, IInv, RowFollows
  <1>2. row'.status = "published" /\ row'.keyed = row.keyed /\ row'.ref = row.ref
    BY <1>1 DEF Save, Savable, Published, IInv, TypeOK, Job
  <1>3. UNCHANGED <<open, posts>> /\ pc'[w] \in {"return", "throw"}
    BY GoToPoint DEF Save, provider, IInv
  <1>4. RowFollows(w)' /\ ProviderFollows(w)'
    BY <1>3 DEF RowFollows, ProviderFollows
  <1>5. RowAndProvider'
    BY <1>1, <1>2, <1>3
    DEF IInv, RowAndProvider, RowShape, NoBlindRepeat, OpenWriteHasKey, PublishedIsReal
  <1>6. QED
    BY <1>4, <1>5, WorkFrame, CallStep

LEMMA InvDefer == ASSUME IInv, TypeOK', NEW w \in Workers, Defer(w) PROVE IInv'
  <1>1. row.status \in {"claimed", "remote_requesting"} /\ row.keyed /\ row.ref = FALSE
    BY DEF Defer, IInv, RowFollows, RowAndProvider, RowShape, TypeOK, Job
  <1>2. /\ row'.status \in {"remote_requesting", "failed"}
        /\ row'.keyed = row.keyed /\ row'.ref = row.ref
    BY <1>1 DEF Defer, RecordFailure, Failable, Deferred, IInv, TypeOK, Job
  <1>3. UNCHANGED <<open, posts>> /\ pc'[w] \in {"throw", "terminal"}
    BY GoToPoint DEF Defer, RecordFailure, provider, IInv
  <1>4. RowFollows(w)' /\ ProviderFollows(w)'
    BY <1>3 DEF RowFollows, ProviderFollows
  <1>5. RowAndProvider'
    BY <1>1, <1>2, <1>3
    DEF IInv, RowAndProvider, RowShape, NoBlindRepeat, OpenWriteHasKey, PublishedIsReal
  <1>6. QED
    BY <1>4, <1>5, WorkFrame, CallStep

LEMMA InvReject == ASSUME IInv, TypeOK', NEW w \in Workers, Reject(w) PROVE IInv'
  <1>1. row.status = "remote_requesting" /\ row.ref = FALSE /\ open = 0
    BY DEF Reject, IInv, RowFollows, ProviderFollows, RowAndProvider, RowShape, TypeOK, Job
  <1>2. /\ row'.status \in {"retrying", "failed"}
        /\ row'.keyed = FALSE /\ row'.ref = row.ref
    BY <1>1 DEF Reject, RecordFailure, Failable, Rejected, IInv, TypeOK, Job
  <1>3. UNCHANGED <<open, posts>> /\ pc'[w] \in {"throw", "terminal"}
    BY GoToPoint DEF Reject, RecordFailure, provider, IInv
  <1>4. RowFollows(w)' /\ ProviderFollows(w)'
    BY <1>3 DEF RowFollows, ProviderFollows
  <1>5. RowAndProvider'
    BY <1>1, <1>2, <1>3
    DEF IInv, RowAndProvider, RowShape, NoBlindRepeat, OpenWriteHasKey, PublishedIsReal
  <1>6. QED
    BY <1>4, <1>5, WorkFrame, CallStep

\* A call that ends frees its queue job, and no other.
LEMMA InvEnd == ASSUME IInv, TypeOK', NEW w \in Workers, Settle(w) \/ Crash(w) PROVE IInv'
  <1>1. pc[w] # "idle" /\ UNCHANGED <<row, outbox, open, posts>>
    BY DEF Settle, Crash, Settling, store, provider
  <1>2. pc'[w] = "idle" /\ \A v \in Workers \ {w} : pc'[v] = pc[v] /\ local'[v] = local[v]
    BY DEF Settle, Crash, IInv, TypeOK
  <1>3. \A g \in Gens : queue[g].holder # w => queue'[g] = queue[g]
    BY DEF Settle, Crash, IInv, TypeOK
  <1>4. \A v \in Workers : HoldsQueueJob(v)'
    BY <1>2, <1>3 DEF IInv, HoldsQueueJob
  <1>5. RowFollows(w)' /\ ProviderFollows(w)'
    BY <1>2, AtRest DEF Working
  <1>6. \A v \in Workers \ {w} : RowFollows(v)' /\ ProviderFollows(v)'
    BY <1>1, <1>2 DEF IInv, RowFollows, ProviderFollows
  <1>7. OnlyCurrentQueueJobWorks'
    BY <1>1, <1>2 DEF IInv, OnlyCurrentQueueJobWorks, Working
  <1>8. RowAndProvider'
    BY <1>1 DEF IInv, RowAndProvider, RowShape, NoBlindRepeat, OpenWriteHasKey, PublishedIsReal
  <1>9. QED
    BY <1>4, <1>5, <1>6, <1>7, <1>8 DEF IInv

LEMMA InvStep == ASSUME Deployed, IInv, [Next]_vars PROVE IInv'
  <1>1. TypeOK'
    BY TypeStep DEF IInv
  <1>2. CASE UNCHANGED vars
    BY <1>1, <1>2
    DEF vars, IInv, HoldsQueueJob, RowFollows, ProviderFollows, OnlyCurrentQueueJobWorks,
        RowAndProvider, RowShape, NoBlindRepeat, OpenWriteHasKey, PublishedIsReal
  <1>3. ASSUME NEW w \in Workers, Process(w) PROVE IInv'
    BY <1>1, <1>3, InvClaim, InvQuiet, InvMark, InvSend, InvAnswerFailure, InvConfirm, InvSave,
       InvDefer, InvReject, InvEnd DEF Process
  <1>4. ASSUME NEW w \in Workers, DatabaseError(w) \/ Crash(w) PROVE IInv'
    BY <1>1, <1>4, InvQuiet, InvEnd
  <1>5. QED
    BY <1>2, <1>3, <1>4, InvUser, InvTime, InvQueue DEF Next

\* With BullMQ's locks honoured the invariant holds, for any number of workers,
\* queue jobs, attempts, crashes and database errors.
THEOREM InvariantHolds == ASSUME Deployed PROVE Spec => []IInv
  BY InvInit, InvStep, PTL DEF Spec

\* The worker never repeats a write whose outcome is unresolved: the key is
\* persisted before the write, and outlives every crash.
THEOREM NoSecondWrite == ASSUME Deployed PROVE Spec => [](NoBlindRepeat /\ OpenWriteHasKey)
  <1>1. IInv => NoBlindRepeat /\ OpenWriteHasKey
    BY DEF IInv, RowAndProvider
  <1>2. QED
    BY <1>1, InvariantHolds, PTL

\* No job is ever published twice, whatever crashes, is delivered again, is retried
\* or is rescheduled: a post found at the provider keeps its write open for ever,
\* and an open write admits no other.
THEOREM PublishedOnce == ASSUME Deployed PROVE Spec => [](posts <= 1)
  <1>1. IInv => posts <= 1
    BY DEF IInv, RowAndProvider, NoBlindRepeat, TypeOK
  <1>2. QED
    BY <1>1, InvariantHolds, PTL

\* Rescheduling, cancelling and retrying happen only when nothing was or is
\* being published, although they look at nothing but the row.
THEOREM UserSafety == ASSUME Deployed PROVE Spec => []UserActsOnIdleJob
  BY IInvUserIdle, InvariantHolds, PTL

\* A published row has a post at the provider, its key and its reference.
THEOREM PublishedSafety == ASSUME Deployed PROVE Spec => []PublishedIsReal
  <1>1. IInv => PublishedIsReal
    BY DEF IInv, RowAndProvider
  <1>2. QED
    BY <1>1, InvariantHolds, PTL

\* No call of a replaced queue identifier goes beyond its claim.
THEOREM CurrentQueueJobSafety == ASSUME Deployed PROVE Spec => []OnlyCurrentQueueJobWorks
  <1>1. IInv => OnlyCurrentQueueJobWorks
    BY DEF IInv
  <1>2. QED
    BY <1>1, InvariantHolds, PTL

-----------------------------------------------------------------------------
(* Refinement: the worker's statements implement the durable state machine *)
(* of PublishLifecycle. Every step is one of its steps, or changes nothing *)
(* it sees.                                                                *)

\* A step that leaves the row's state and key and the provider alone.
Stutter == UNCHANGED <<row.status, row.keyed, open, posts>>
Step    == Lifecycle!Next \/ Stutter

LEMMA RefineInit == Init => Lifecycle!Init
  BY DEF Init, NewJob, Lifecycle!Init

LEMMA RefineUser == ASSUME IInv, User PROVE Step
  <1>1. row \in Job /\ open = 0 /\ UNCHANGED <<open, posts>>
    BY IInvUserIdle DEF IInv, TypeOK, User, Schedule, Retry, Cancel, provider,
                        UserActsOnIdleJob, UserMayAct
  <1>2. CASE Schedule
    BY <1>1, <1>2 DEF Schedule, Rescheduled, Step, Stutter, Job
  <1>3. CASE Retry
    <2>1. row'.status = "waiting" /\ row.status = "failed" /\ ~row.keyed /\ row'.keyed = row.keyed
      BY <1>1, <1>3 DEF Retry, Retriable, Retried, Job
    <2>2. Lifecycle!Repeat
      BY <1>1, <2>1 DEF Lifecycle!Repeat, Lifecycle!Move
    <2>3. QED
      BY <2>2 DEF Step, Lifecycle!Next
  <1>4. CASE Cancel
    <2>1. /\ row'.status = "cancelled" /\ row.status \in {"waiting", "retrying", "failed"}
          /\ ~row.keyed /\ row'.keyed = row.keyed
      BY <1>1, <1>4 DEF Cancel, Cancellable, Cancelled, Job
    <2>2. Lifecycle!Withdraw
      BY <1>1, <2>1 DEF Lifecycle!Withdraw, Lifecycle!Move
    <2>3. QED
      BY <2>2 DEF Step, Lifecycle!Next
  <1>5. QED
    BY <1>2, <1>3, <1>4 DEF User

LEMMA RefineClaim == ASSUME IInv, NEW w \in Workers, Claim(w) PROVE Step
  <1>1. /\ row'.status = IF row.status = "remote_confirmed" THEN row.status ELSE "claimed"
        /\ row'.keyed = row.keyed /\ UNCHANGED <<open, posts>>
        /\ row.status \in {"waiting", "retrying", "claimed", "remote_requesting", "remote_confirmed"}
    BY DEF Claim, Claimable, Claimed, provider, IInv, TypeOK, Job
  <1>2. QED
    BY <1>1 DEF Step, Stutter, Lifecycle!Next, Lifecycle!Claim, Lifecycle!Move

LEMMA RefineMark == ASSUME IInv, NEW w \in Workers, Mark(w) PROVE Step
  <1>1. row.status = "claimed"
    BY DEF Mark, IInv, RowFollows
  <1>2. row'.status = "remote_requesting" /\ row'.keyed = TRUE /\ UNCHANGED <<open, posts>>
    BY <1>1 DEF Mark, Markable, Marked, provider, IInv, TypeOK, Job
  <1>3. Lifecycle!Request
    BY <1>1, <1>2 DEF Lifecycle!Request, Lifecycle!Move
  <1>4. QED
    BY <1>3 DEF Step, Lifecycle!Next

LEMMA RefineSend == ASSUME Deployed, IInv, NEW w \in Workers, Send(w) PROVE Step
  <1>1. row.status = "remote_requesting" /\ row.keyed /\ open = 0
    BY DEF Send, IInv, RowFollows, ProviderFollows
  <1>2. row' = row /\ open' = 1 /\ posts' \in {posts, posts + 1}
    BY <1>1 DEF Send, store
  <1>3. Lifecycle!Write
    BY <1>1, <1>2 DEF Lifecycle!Write
  <1>4. QED
    BY <1>3 DEF Step, Lifecycle!Next

LEMMA RefineAnswerFailure == ASSUME IInv, NEW w \in Workers, AnswerFailure(w) PROVE Step
  <1>1. open = 1 /\ UNCHANGED <<row, posts>> /\ (open' = open \/ (open' = 0 /\ ~local[w].accepted))
    BY DEF AnswerFailure, store, IInv, ProviderFollows
  <1>2. ~local[w].accepted => posts = 0
    BY DEF AnswerFailure, IInv, ProviderFollows, TypeOK
  <1>3. QED
    BY <1>1, <1>2 DEF Step, Stutter, Lifecycle!Next, Lifecycle!Refute

LEMMA RefineConfirm == ASSUME IInv, NEW w \in Workers, Confirm(w) PROVE Step
  <1>1. row.status = "remote_requesting" /\ posts > 0
    BY DEF Confirm, IInv, RowFollows, ProviderFollows
  <1>2. row'.status = "remote_confirmed" /\ row'.keyed = row.keyed /\ UNCHANGED <<open, posts>>
    BY <1>1 DEF Confirm, Confirmable, Confirmed, provider, IInv, TypeOK, Job
  <1>3. Lifecycle!Confirm
    BY <1>1, <1>2 DEF Lifecycle!Confirm, Lifecycle!Move
  <1>4. QED
    BY <1>3 DEF Step, Lifecycle!Next

LEMMA RefineSave == ASSUME IInv, NEW w \in Workers, Save(w) PROVE Step
  <1>1. row.status = "remote_confirmed"
    BY DEF Save, IInv, RowFollows
  <1>2. row'.status = "published" /\ row'.keyed = row.keyed /\ UNCHANGED <<open, posts>>
    BY <1>1 DEF Save, Savable, Published, provider, IInv, TypeOK, Job
  <1>3. Lifecycle!Finish
    BY <1>1, <1>2 DEF Lifecycle!Finish, Lifecycle!Move
  <1>4. QED
    BY <1>3 DEF Step, Lifecycle!Next

LEMMA RefineDefer == ASSUME IInv, NEW w \in Workers, Defer(w) PROVE Step
  <1>1. row.status \in {"claimed", "remote_requesting"}
    BY DEF Defer, IInv, RowFollows
  <1>2. /\ row'.status \in {"remote_requesting", "failed"} /\ row'.keyed = row.keyed
        /\ UNCHANGED <<open, posts>>
    BY <1>1 DEF Defer, RecordFailure, Failable, Deferred, provider, IInv, TypeOK, Job
  <1>3. Lifecycle!Defer
    BY <1>1, <1>2 DEF Lifecycle!Defer, Lifecycle!Move
  <1>4. QED
    BY <1>3 DEF Step, Lifecycle!Next

LEMMA RefineReject == ASSUME IInv, NEW w \in Workers, Reject(w) PROVE Step
  <1>1. row.status = "remote_requesting" /\ open = 0
    BY DEF Reject, IInv, RowFollows, ProviderFollows
  <1>2. /\ row'.status \in {"retrying", "failed"} /\ row'.keyed = FALSE
        /\ UNCHANGED <<open, posts>>
    BY <1>1 DEF Reject, RecordFailure, Failable, Rejected, provider, IInv, TypeOK, Job
  <1>3. Lifecycle!Fail
    BY <1>1, <1>2 DEF Lifecycle!Fail, Lifecycle!Move
  <1>4. QED
    BY <1>3 DEF Step, Lifecycle!Next

\* Time, the queue, faults, and the steps of a call between its statements.
LEMMA RefineOther ==
    ASSUME TypeOK,
           \/ Time
           \/ \E g \in Gens : BullMq(g)
           \/ \E w \in Workers : \/ ClaimNothing(w) \/ Reconcile(w) \/ AnswerPublished(w)
                                 \/ Recheck(w) \/ Settle(w) \/ DatabaseError(w) \/ Crash(w)
           \/ UNCHANGED vars
    PROVE  Stutter
  <1>1. CASE Time
    <2>1. row \in Job
      BY DEF TypeOK
    <2>2. row' \in {[row EXCEPT !.due = TRUE], [row EXCEPT !.lease = "lapsed"], [row EXCEPT !.retryAt = "due"]}
      BY <1>1 DEF Time, ScheduleComes, LeaseLapses, RetryComesDue
    <2>3. row'.status = row.status /\ row'.keyed = row.keyed
      BY <2>1, <2>2 DEF Job
    <2>4. UNCHANGED provider
      BY <1>1 DEF Time, ScheduleComes, LeaseLapses, RetryComesDue
    <2>5. QED
      BY <2>3, <2>4 DEF provider, Stutter
  <1>2. CASE \E g \in Gens : BullMq(g)
    BY <1>2 DEF BullMq, Dispatch, Promote, FindStalled, Deliver, store, provider, Stutter
  <1>3. CASE \E w \in Workers : \/ ClaimNothing(w) \/ Reconcile(w) \/ AnswerPublished(w)
                                \/ Recheck(w) \/ Settle(w) \/ DatabaseError(w) \/ Crash(w)
    BY <1>3 DEF ClaimNothing, Reconcile, AnswerPublished, Recheck, Settle, DatabaseError, Crash,
                store, provider, Stutter
  <1>4. CASE UNCHANGED vars
    BY <1>4 DEF vars, Stutter
  <1>5. QED
    BY <1>1, <1>2, <1>3, <1>4

LEMMA RefineStep == ASSUME Deployed, IInv, [Next]_vars PROVE [Lifecycle!Next]_Lifecycle!vars
  <1>1. Step
    <2>1. ASSUME NEW w \in Workers, Process(w) \/ DatabaseError(w) \/ Crash(w) PROVE Step
      <3>1. CASE \/ ClaimNothing(w) \/ Reconcile(w) \/ AnswerPublished(w)
                 \/ Recheck(w) \/ Settle(w) \/ DatabaseError(w) \/ Crash(w)
        BY <3>1, RefineOther DEF IInv, Step
      <3>2. CASE \/ Claim(w) \/ Mark(w) \/ Send(w) \/ AnswerFailure(w) \/ Confirm(w) \/ Save(w)
                 \/ Defer(w) \/ Reject(w)
        BY <3>2, RefineClaim, RefineMark, RefineSend, RefineAnswerFailure, RefineConfirm,
           RefineSave, RefineDefer, RefineReject
      <3>3. QED
        BY <2>1, <3>1, <3>2 DEF Process
    <2>2. QED
      BY <2>1, RefineUser, RefineOther DEF Next, IInv, Step
  <1>2. QED
    BY <1>1 DEF Step, Stutter, Lifecycle!vars

\* For any number of workers and faults, as long as BullMQ's locks are honoured,
\* the rows follow the documented state machine (docs/publish-idempotency.md and
\* docs/publishing-queue.md): one open write at a time, refuted before a retry.
THEOREM Refinement == ASSUME Deployed PROVE Spec => ImplementsLifecycle
  BY RefineInit, RefineStep, InvariantHolds, PTL DEF Spec, ImplementsLifecycle, Lifecycle!Spec

-----------------------------------------------------------------------------
(* Rows: what the conditions in the row's own UPDATE statements guarantee  *)
(* in every deployment, also when BullMQ hands a queue job to a second     *)
(* worker while the first is still working on it, and a call that lost its *)
(* row goes on from a stale copy.                                          *)

\* The failure count a call holds, before and after it has counted a failure.
CallBudget(w) ==
    /\ pc[w] \in Working => local[w].retries <= MaxAttempts
    /\ pc[w] \in {"reconcile", "mark", "publish", "inflight"} => local[w].retries < MaxAttempts

\* What the statements maintain: only confirmed rows carry a remote reference,
\* failed rows have an alert, and the budget holds in the row and in every call.
RowInv ==
    /\ TypeOK
    /\ row.ref => row.status \in {"remote_confirmed", "published"}
    /\ FailedIsAlerted
    /\ RetryBudget
    /\ \A w \in Workers : CallBudget(w)

\* The row's share of RowInv.
RowOK == /\ row.ref => row.status \in {"remote_confirmed", "published"}
         /\ FailedIsAlerted
         /\ RetryBudget

-----------------------------------------------------------------------------
LEMMA AttemptsPositive == MaxAttempts \in Nat /\ MaxAttempts > 0
  BY MaxAttemptsAssumption DEF MaxAttemptsAssumption

LEMMA RowInit == Init => RowInv
  BY TypeInit, AttemptsPositive
  DEF Init, NewJob, NoCall, RowInv, FailedIsAlerted, RetryBudget, CallBudget, Working

\* A step that changes no call's point or failure count keeps the calls' budgets.
LEMMA BudgetFrame ==
    ASSUME RowInv, \A w \in Workers : pc'[w] = pc[w] \/ pc'[w] \notin Working,
           \A w \in Workers : pc'[w] \in Working => local'[w].retries = local[w].retries
    PROVE  \A w \in Workers : CallBudget(w)'
  BY DEF RowInv, CallBudget, Working

LEMMA RowUser == ASSUME RowInv, User PROVE RowInv'
  <1>1. TypeOK'
    BY TypeUser DEF RowInv
  <1>2. UNCHANGED <<pc, local, alerted>>
    BY DEF User, Schedule, Retry, Cancel
  <1>3. RowOK'
    <2>1. CASE Schedule
      BY <2>1, <1>2 DEF Schedule, Rescheduled, RowInv, TypeOK, Job, RowOK, FailedIsAlerted, RetryBudget
    <2>2. CASE Retry
      BY <2>2, <1>2, AttemptsPositive
      DEF Retry, Retriable, Retried, RowInv, TypeOK, Job, RowOK, FailedIsAlerted, RetryBudget
    <2>3. CASE Cancel
      BY <2>3, <1>2
      DEF Cancel, Cancellable, Cancelled, RowInv, TypeOK, Job, RowOK, FailedIsAlerted, RetryBudget
    <2>4. QED
      BY <2>1, <2>2, <2>3 DEF User
  <1>4. QED
    BY <1>1, <1>2, <1>3, BudgetFrame DEF RowInv, RowOK

LEMMA RowTime == ASSUME RowInv, Time PROVE RowInv'
  <1>1. TypeOK'
    BY TypeTime DEF RowInv
  <1>2. UNCHANGED <<pc, local, alerted>>
    BY DEF Time, ScheduleComes, LeaseLapses, RetryComesDue
  <1>3. row'.status = row.status /\ row'.ref = row.ref /\ row'.retries = row.retries
    BY DEF Time, ScheduleComes, LeaseLapses, RetryComesDue, RowInv, TypeOK, Job
  <1>4. QED
    BY <1>1, <1>2, <1>3, BudgetFrame DEF RowInv, FailedIsAlerted, RetryBudget

LEMMA RowQueue == ASSUME RowInv, NEW g \in Gens, BullMq(g) PROVE RowInv'
  <1>1. TypeOK'
    BY TypeQueue DEF RowInv
  <1>2. UNCHANGED <<row, alerted>>
    BY DEF BullMq, Dispatch, Promote, FindStalled, Deliver, store
  <1>3. CASE Dispatch(g) \/ Promote(g) \/ FindStalled(g)
    <2>1. UNCHANGED <<pc, local>>
      BY <1>3 DEF Dispatch, Promote, FindStalled
    <2>2. QED
      BY <1>1, <1>2, <2>1, BudgetFrame DEF RowInv, FailedIsAlerted, RetryBudget
  <1>4. ASSUME NEW w \in Workers, Deliver(w, g) PROVE RowInv'
    <2>1. pc'[w] = "claim" /\ \A v \in Workers \ {w} : pc'[v] = pc[v] /\ local'[v] = local[v]
      BY <1>4 DEF Deliver, RowInv, TypeOK
    <2>2. \A v \in Workers : CallBudget(v)'
      BY <2>1 DEF RowInv, CallBudget, Working
    <2>3. QED
      BY <1>1, <1>2, <2>2 DEF RowInv, FailedIsAlerted, RetryBudget
  <1>5. QED
    BY <1>3, <1>4 DEF BullMq

\* A step of w's call: others keep their budgets.
LEMMA BudgetStep ==
    ASSUME RowInv, NEW w \in Workers, CallBudget(w)',
           \A v \in Workers \ {w} : pc'[v] = pc[v] /\ local'[v] = local[v]
    PROVE  \A v \in Workers : CallBudget(v)'
  BY DEF RowInv, CallBudget

LEMMA RowClaim == ASSUME RowInv, TypeOK', NEW w \in Workers, Claim(w) PROVE RowInv'
  <1>1. \A v \in Workers \ {w} : pc'[v] = pc[v] /\ local'[v] = local[v]
    BY DEF Claim, GoTo, RowInv, TypeOK
  <1>2. row.status \in Statuses \ {"failed", "cancelled", "published"}
    BY DEF Claim, Claimable, Statuses, InProgress
  <1>3. local'[w].retries = row.retries
    BY DEF Claim, RowInv, TypeOK, Local
  <1>4. row.retries < MaxAttempts /\ row.retries \in Nat
    BY <1>2 DEF RowInv, RetryBudget, TypeOK, Job
  <1>5. CallBudget(w)'
    BY <1>3, <1>4, AttemptsPositive DEF CallBudget
  <1>6. /\ row'.status = IF row.status = "remote_confirmed" THEN row.status ELSE "claimed"
        /\ row'.ref = row.ref /\ row'.retries = row.retries
    BY DEF Claim, Claimed, RowInv, TypeOK, Job
  <1>7. RowOK'
    BY <1>2, <1>4, <1>6, AttemptsPositive DEF Claim, RowInv, RowOK, FailedIsAlerted, RetryBudget
  <1>8. QED
    BY <1>1, <1>5, <1>7, BudgetStep DEF RowInv, RowOK

LEMMA RowQuiet ==
    ASSUME RowInv, TypeOK', NEW w \in Workers,
           \/ ClaimNothing(w) \/ Reconcile(w) \/ Send(w) \/ AnswerPublished(w) \/ AnswerFailure(w)
           \/ Recheck(w) \/ Settle(w) \/ DatabaseError(w) \/ Crash(w)
    PROVE  RowInv'
  <1> USE DEF ClaimNothing, Reconcile, Send, AnswerPublished, AnswerFailure, Recheck, Settle,
              DatabaseError, Crash
  <1>1. UNCHANGED <<row, alerted>>
    BY DEF store
  <1>2. \A v \in Workers \ {w} : pc'[v] = pc[v] /\ local'[v] = local[v]
    BY DEF RowInv, TypeOK
  <1>3. CallBudget(w)'
    <2>1. CASE ClaimNothing(w) \/ AnswerPublished(w) \/ Recheck(w) \/ Settle(w) \/ DatabaseError(w) \/ Crash(w)
      BY <2>1 DEF RowInv, CallBudget, TypeOK, Working, Settling
    <2>2. CASE Reconcile(w)
      BY <2>2, AttemptsPositive DEF RowInv, CallBudget, TypeOK, Local, Working
    <2>3. CASE Send(w)
      <3>1. \A b \in BOOLEAN : [local[w] EXCEPT !.accepted = b].retries = local[w].retries
        BY DEF RowInv, TypeOK, Local
      <3>2. QED
        BY <2>3, <3>1 DEF RowInv, CallBudget, TypeOK, Working
    <2>4. CASE AnswerFailure(w)
      <3>0. local[w] \in Local
        BY DEF RowInv, TypeOK
      <3>1. ASSUME NEW code \in FailureCodes
            PROVE  FailureCounted(local[w], code).retries = local[w].retries + 1
        <4>1. \A c \in Local : [c EXCEPT !.retries = @ + 1, !.retryable = Retryable(code)].retries = c.retries + 1
          BY DEF Local
        <4>2. QED
          BY <3>0, <4>1 DEF FailureCounted
      <3>2. local[w].retries \in Nat /\ local[w].retries < MaxAttempts
        BY <2>4 DEF RowInv, TypeOK, Local, CallBudget
      <3>3. local'[w].retries = local[w].retries + 1 /\ pc'[w] \in {"recheck", "reject"}
        BY <2>4, <3>1 DEF RowInv, TypeOK
      <3>4. QED
        BY <3>2, <3>3, AttemptsPositive DEF CallBudget
    <2>5. QED
      BY <2>1, <2>2, <2>3, <2>4
  <1> HIDE DEF ClaimNothing, Reconcile, Send, AnswerPublished, AnswerFailure, Recheck, Settle,
               DatabaseError, Crash
  <1>4. QED
    BY <1>1, <1>2, <1>3, BudgetStep DEF RowInv, FailedIsAlerted, RetryBudget

LEMMA RowMark == ASSUME RowInv, TypeOK', NEW w \in Workers, Mark(w) PROVE RowInv'
  <1>1. \A v \in Workers \ {w} : pc'[v] = pc[v] /\ local'[v] = local[v]
    BY DEF Mark, GoTo, RowInv, TypeOK
  <1>2. CASE Markable(row)
    <2>1. row.retries < MaxAttempts /\ row.retries \in Nat /\ row.ref = FALSE
      BY <1>2 DEF Markable, RowInv, RetryBudget, TypeOK, Job
    <2>2. local'[w].retries = row.retries
      BY <1>2 DEF Mark, RowInv, TypeOK, Local
    <2>3. CallBudget(w)'
      BY <2>1, <2>2, AttemptsPositive DEF CallBudget
    <2>4. row'.status = "remote_requesting" /\ row'.ref = row.ref /\ row'.retries = row.retries
      BY <1>2 DEF Mark, Marked, RowInv, TypeOK, Job
    <2>5. RowOK'
      BY <2>1, <2>4, AttemptsPositive DEF RowOK, FailedIsAlerted, RetryBudget
    <2>6. QED
      BY <1>1, <2>3, <2>5, BudgetStep DEF RowInv, RowOK
  <1>3. CASE ~Markable(row)
    <2>1. UNCHANGED <<row, alerted, local>> /\ pc'[w] = "throw"
      BY <1>3 DEF Mark, RowInv, TypeOK
    <2>2. QED
      BY <1>1, <2>1, BudgetStep DEF RowInv, FailedIsAlerted, RetryBudget, CallBudget, Working
  <1>4. QED
    BY <1>2, <1>3

LEMMA RowSuccess == ASSUME RowInv, TypeOK', NEW w \in Workers, Confirm(w) \/ Save(w) PROVE RowInv'
  <1>1. \A v \in Workers : pc'[v] = pc[v] \/ pc'[v] \in {"save", "throw", "return"}
    BY DEF Confirm, Save, GoTo, RowInv, TypeOK
  <1>2. pc[w] \in Working /\ UNCHANGED <<local, alerted>> /\ \A v \in Workers \ {w} : pc'[v] = pc[v]
    BY DEF Confirm, Save, GoTo, RowInv, TypeOK, Working
  <1>3. CallBudget(w)'
    BY <1>1, <1>2 DEF RowInv, CallBudget
  <1>4. \/ row' = row
        \/ Confirmable(row) /\ row' = Confirmed(row)
        \/ Savable(row) /\ row' = Published(row)
    BY DEF Confirm, Save
  <1>5. RowOK'
    BY <1>2, <1>4 DEF Confirmable, Confirmed, Savable, Published, RowInv, TypeOK, Job, RowOK,
                      FailedIsAlerted, RetryBudget
  <1>6. QED
    BY <1>2, <1>3, <1>5, BudgetStep DEF RowInv, RowOK

LEMMA RowFailure == ASSUME RowInv, TypeOK', NEW w \in Workers, Defer(w) \/ Reject(w) PROVE RowInv'
  <1>1. PICK failed \in Job, retryPending \in BOOLEAN :
          /\ RecordFailure(w, failed, retryPending)
          /\ \/ failed = Deferred(row, local[w].retries, retryPending)
             \/ failed = Rejected(row, local[w].retries, retryPending)
          /\ retryPending => local[w].retries <= RetryDelays
    <2> DEFINE n == local[w].retries
    <2>1. \A retryable : /\ ShouldRetryPublish(retryable, n) \in BOOLEAN
                         /\ ShouldRetryPublish(retryable, n) => n <= RetryDelays
      BY DEF ShouldRetryPublish
    <2>2. \A b \in BOOLEAN : Deferred(row, n, b) \in Job /\ Rejected(row, n, b) \in Job
      BY FailureTypes, CallTypes DEF RowInv, TypeOK
    <2>3. CASE Defer(w)
      <3>1. PICK b \in BOOLEAN : (b => n <= RetryDelays) /\ RecordFailure(w, Deferred(row, n, b), b)
        BY <2>1, <2>3 DEF Defer
      <3>2. QED
        BY <2>2, <3>1
    <2>4. CASE Reject(w)
      <3>1. PICK b \in BOOLEAN : (b => n <= RetryDelays) /\ RecordFailure(w, Rejected(row, n, b), b)
        BY <2>1, <2>4 DEF Reject
      <3>2. QED
        BY <2>2, <3>1
    <2>5. QED
      BY <2>3, <2>4
  <1>2. pc'[w] \in {"throw", "terminal"} /\ local' = local /\ \A v \in Workers \ {w} : pc'[v] = pc[v]
    BY <1>1 DEF RecordFailure, GoTo, RowInv, TypeOK
  <1>3. local[w].retries \in Nat /\ local[w].retries <= MaxAttempts
    BY DEF Defer, Reject, RowInv, TypeOK, Local, CallBudget, Working
  <1>4. CallBudget(w)'
    BY <1>2 DEF CallBudget, Working
  <1>5. CASE Failable(row)
    <2>1. row.ref = FALSE /\ row' = failed /\ alerted' = (alerted \/ ~retryPending)
      BY <1>1, <1>5 DEF RecordFailure, Failable, RowInv, TypeOK, Job
    <2>2. /\ row'.status \in {"remote_requesting", "retrying", "failed"}
          /\ retryPending <=> row'.status # "failed"
          /\ row'.retries = local[w].retries /\ row'.ref = FALSE
      BY <1>1, <2>1 DEF Deferred, Rejected, RowInv, TypeOK, Job
    <2>3. FailedIsAlerted'
      BY <2>1, <2>2 DEF FailedIsAlerted
    <2>4. RetryBudget'
      BY <1>1, <1>3, <2>2, AttemptsPositive DEF RetryBudget, RetryDelays
    <2>5. RowOK'
      BY <2>2, <2>3, <2>4 DEF RowOK
    <2>6. QED
      BY <1>2, <1>4, <2>5, BudgetStep DEF RowInv, RowOK
  <1>6. CASE ~Failable(row)
    <2>1. row' = row /\ alerted' = alerted
      BY <1>1, <1>6 DEF RecordFailure, RowInv, TypeOK
    <2>2. QED
      BY <1>2, <1>4, <2>1, BudgetStep DEF RowInv, FailedIsAlerted, RetryBudget
  <1>7. QED
    BY <1>5, <1>6

LEMMA RowStep == ASSUME RowInv, [Next]_vars PROVE RowInv'
  <1>1. TypeOK'
    BY TypeStep DEF RowInv
  <1>2. CASE UNCHANGED vars
    BY <1>1, <1>2 DEF vars, RowInv, FailedIsAlerted, RetryBudget, CallBudget
  <1>3. ASSUME NEW w \in Workers, Process(w) \/ DatabaseError(w) \/ Crash(w) PROVE RowInv'
    BY <1>1, <1>3, RowClaim, RowQuiet, RowMark, RowSuccess, RowFailure DEF Process
  <1>4. QED
    BY <1>2, <1>3, RowUser, RowTime, RowQueue DEF Next

THEOREM RowInvariant == Spec => []RowInv
  BY RowInit, RowStep, PTL DEF Spec

\* A failed job has its alert, and the failure count stays within the attempts
\* of a queue job, in every deployment.
THEOREM FailureSafety == Spec => [](FailedIsAlerted /\ RetryBudget)
  <1>1. RowInv => FailedIsAlerted /\ RetryBudget
    BY DEF RowInv
  <1>2. QED
    BY <1>1, RowInvariant, PTL

LEMMA KeptStep ==
    ASSUME RowInv, [Next]_vars
    PROVE  [row.ref => /\ row'.ref
                       /\ row.status = "published" => row'.status = "published"
                       /\ row'.status \in {"remote_confirmed", "published"}]_vars
  <1> SUFFICES ASSUME Next, row.ref
               PROVE  /\ row'.ref
                      /\ row.status = "published" => row'.status = "published"
                      /\ row'.status \in {"remote_confirmed", "published"}
    OBVIOUS
  <1>1. row.status \in {"remote_confirmed", "published"} /\ row \in Job
    BY DEF RowInv, TypeOK
  <1>2. CASE User
    BY <1>1, <1>2 DEF User, Schedule, Retry, Cancel, Schedulable, Retriable, Cancellable
  <1>3. CASE Time
    BY <1>1, <1>3 DEF Time, ScheduleComes, LeaseLapses, RetryComesDue, Job
  <1>4. ASSUME NEW g \in Gens, BullMq(g) PROVE UNCHANGED row
    BY <1>4 DEF BullMq, Dispatch, Promote, FindStalled, Deliver, store
  <1>5. ASSUME NEW w \in Workers, Process(w) \/ DatabaseError(w) \/ Crash(w)
        PROVE  \/ row' = row
               \/ row.status = "remote_confirmed" /\ row' \in {Claimed(row), Published(row)}
    BY <1>1, <1>5
    DEF Process, Claim, ClaimNothing, Reconcile, Mark, Send, AnswerPublished, AnswerFailure, Recheck,
        Confirm, Save, Defer, Reject, Settle, DatabaseError, Crash, RecordFailure, store,
        Claimable, Markable, Confirmable, Savable, Failable
  <1>6. QED
    BY <1>1, <1>2, <1>3, <1>4, <1>5 DEF Next, Claimed, Published, Job

\* Once confirmed, always confirmed: no other call of this or of an earlier queue
\* job, and no user, takes back a recorded publication.
THEOREM ConfirmedForever == Spec => ConfirmedIsKept
  BY RowInvariant, KeptStep, PTL DEF Spec, ConfirmedIsKept

-----------------------------------------------------------------------------
(* Nothing is forgotten while no worker dies and the database answers.     *)

LEMMA CarriedInit == ASSUME Init PROVE CarriedOn
  <1>1. \A w \in Workers : pc[w] = "idle"
    BY DEF Init
  <1>2. \A g \in Gens : queue[g].state = "absent" /\ queue[g].attempts = 0
    BY DEF Init, NewQueueJob
  <1>3. outbox = 0 /\ gens = 0 /\ row.retries = 0 /\ crashes = 0 /\ errors = 0
    BY DEF Init, NewJob
  <1>4. Issued
    BY <1>2, <1>3 DEF Issued
  <1>5. QueueCarries
    BY <1>3 DEF QueueCarries, Gens
  <1>6. QED
    BY <1>1, <1>3, <1>4, <1>5 DEF CarriedOn, CallCarries

\* Of two calls, at most one was delivered by the present queue job.
LEMMA OneCallCarries ==
    ASSUME IInv, NEW v \in Workers, NEW w \in Workers, pc[v] # "idle", pc[w] # "idle",
           local[v].gen = outbox, local[w].gen = outbox
    PROVE  v = w
  BY DEF IInv, HoldsQueueJob

\* A new identifier has no queue job yet, and no call.
LEMMA FreshIdentifier ==
    ASSUME IInv, CarriedOn, IssueQueueId
    PROVE  /\ outbox' = gens' /\ outbox' \in Gens /\ outbox' > gens
           /\ queue[outbox'].state = "absent" /\ queue[outbox'].attempts = 0
           /\ \A w \in Workers : pc[w] # "idle" => local[w].gen # outbox'
  <1>1. gens \in Nat /\ MaxGens \in Nat /\ gens < MaxGens
    BY WorkerAssumption DEF WorkerAssumption, IInv, TypeOK, IssueQueueId
  <1>2. outbox' = gens + 1 /\ gens' = gens + 1
    BY DEF IssueQueueId
  <1>3. outbox' \in Gens /\ outbox' > gens
    BY <1>1, <1>2 DEF Gens
  <1>4. queue[outbox'].state = "absent" /\ queue[outbox'].attempts = 0
    BY <1>3 DEF CarriedOn, Issued
  <1>5. \A w \in Workers : pc[w] # "idle" => local[w].gen # outbox'
    BY <1>4 DEF IInv, HoldsQueueJob
  <1>6. QED
    BY <1>2, <1>3, <1>4, <1>5

LEMMA CarriedUser == ASSUME IInv, CarriedOn, User PROVE CarriedOn'
  <1>1. UNCHANGED <<queue, pc, local, crashes, errors>>
    BY DEF User, Schedule, Retry, Cancel, faults
  <1>2. row \in Job
    BY DEF IInv, TypeOK
  <1>3. CASE Schedule \/ Retry
    <2>1. IssueQueueId
      BY <1>3 DEF Schedule, Retry
    <2>2. row'.status = "waiting" /\ row'.retries = 0
      <3>1. CASE Schedule
        BY <1>2, <3>1 DEF Schedule, Schedulable, Rescheduled, CarriedOn, Issued, Job
      <3>2. CASE Retry
        BY <1>2, <3>2 DEF Retry, Retried, Job
      <3>3. QED
        BY <1>3, <3>1, <3>2
    <2>3. gens \in Nat
      BY DEF IInv, TypeOK
    <2>4. Issued'
      BY <1>1, <2>1, <2>2, <2>3, FreshIdentifier DEF CarriedOn, Issued, Gens
    <2>5. QueueCarries'
      BY <1>1, <2>1, <2>2, FreshIdentifier DEF QueueCarries
    <2>6. \A w \in Workers : CallCarries(w)'
      BY <1>1, <2>1, FreshIdentifier DEF CallCarries
    <2>7. QED
      BY <1>1, <2>4, <2>5, <2>6 DEF CarriedOn
  <1>4. CASE Cancel
    <2>1. outbox' = 0 /\ gens' = gens /\ row'.status = "cancelled"
      BY <1>2, <1>4 DEF Cancel, Cancelled, Job
    <2>2. Issued'
      BY <1>1, <2>1 DEF CarriedOn, Issued
    <2>3. QueueCarries'
      BY <2>1 DEF QueueCarries, Gens
    <2>4. \A w \in Workers : CallCarries(w)'
      BY <1>1, <2>1 DEF CallCarries, IInv, HoldsQueueJob, Gens
    <2>5. QED
      BY <1>1, <2>2, <2>3, <2>4 DEF CarriedOn
  <1>5. QED
    BY <1>3, <1>4 DEF User

\* Time takes nothing from a row that can be claimed, or will be.
LEMMA TimeCarries ==
    ASSUME TypeOK, Time
    PROVE  /\ row'.status = row.status /\ row'.retries = row.retries
           /\ row.due => row'.due
           /\ Claimable(row) => Claimable(row')
           /\ AwaitsRetry => AwaitsRetry'
  <1>1. row \in Job
    BY DEF TypeOK
  <1>2. CASE ScheduleComes
    BY <1>1, <1>2 DEF ScheduleComes, Claimable, AwaitsRetry, Job
  <1>3. CASE LeaseLapses
    BY <1>1, <1>3 DEF LeaseLapses, Claimable, AwaitsRetry, Job
  <1>4. CASE RetryComesDue
    BY <1>1, <1>4 DEF RetryComesDue, Claimable, AwaitsRetry, Job
  <1>5. QED
    BY <1>2, <1>3, <1>4 DEF Time

LEMMA CarriedTime == ASSUME IInv, CarriedOn, Time PROVE CarriedOn'
  <1>1. UNCHANGED <<outbox, gens, queue, pc, local, crashes, errors>>
    BY DEF Time, ScheduleComes, LeaseLapses, RetryComesDue, faults
  <1>2. /\ row'.status = row.status /\ row'.retries = row.retries
        /\ row.due => row'.due
        /\ Claimable(row) => Claimable(row')
        /\ AwaitsRetry => AwaitsRetry'
    BY TimeCarries DEF IInv
  <1>3. Settled' <=> Settled
    BY <1>2 DEF Settled
  <1>4. Issued'
    BY <1>1, <1>2 DEF CarriedOn, Issued
  <1>5. QueueCarries'
    BY <1>1, <1>2, <1>3 DEF CarriedOn, QueueCarries
  <1>6. ASSUME NEW w \in Workers PROVE CallCarries(w)'
    BY <1>1, <1>2, <1>3 DEF CarriedOn, CallCarries
  <1>7. QED
    BY <1>1, <1>4, <1>5, <1>6 DEF CarriedOn

\* Steps of BullMQ on the queue job of another identifier.
LEMMA OtherQueueJob ==
    ASSUME IInv, CarriedOn, NEW g \in Gens, g # outbox, queue[g].state # "absent",
           \A h \in Gens \ {g} : queue'[h] = queue[h], UNCHANGED <<row, outbox, gens>>
    PROVE  Issued' /\ (outbox \in Gens => queue'[outbox] = queue[outbox])
  BY DEF CarriedOn, Issued

LEMMA CarriedDispatch == ASSUME IInv, CarriedOn, NEW g \in Gens, Dispatch(g) PROVE CarriedOn'
  <1>1. UNCHANGED <<row, outbox, gens, pc, local, crashes, errors>>
    BY DEF Dispatch, store, faults
  <1>2. /\ queue[g].state = "absent" /\ g <= gens
        /\ queue'[g].state = "delayed" /\ queue'[g].attempts = queue[g].attempts
        /\ \A h \in Gens \ {g} : queue'[h] = queue[h]
    BY DEF Dispatch, IInv, TypeOK, QueueJob
  <1>3. Issued'
    <2>1. gens \in Nat /\ g \in Nat
      BY DEF IInv, TypeOK, Gens
    <2>2. QED
      BY <1>1, <1>2, <2>1 DEF CarriedOn, Issued
  <1>4. QueueCarries'
    BY <1>1, <1>2 DEF CarriedOn, QueueCarries, AwaitsRetry, Settled
  <1>5. ASSUME NEW w \in Workers PROVE CallCarries(w)'
    <2>1. outbox \in Gens => queue'[outbox].attempts = queue[outbox].attempts
      BY <1>2
    <2>2. pc[w] # "idle" => local[w].gen \in Gens
      BY DEF IInv, HoldsQueueJob
    <2>3. QED
      BY <1>1, <2>1, <2>2 DEF CarriedOn, CallCarries, AwaitsRetry, Settled
  <1>6. QED
    BY <1>1, <1>3, <1>4, <1>5 DEF CarriedOn

\* The delay and the backoff end when the row is claimable.
LEMMA PromotedClaimable ==
    ASSUME Deployed, IInv, CarriedOn, outbox \in Gens, Promote(outbox)
    PROVE  Claimable(row) /\ queue[outbox].attempts = row.retries
  <1>1. CASE queue[outbox].state = "delayed"
    BY <1>1 DEF CarriedOn, QueueCarries, Promote, Claimable
  <1>2. CASE queue[outbox].state = "backoff"
    <2>1. AwaitsRetry /\ queue[outbox].quiet /\ queue[outbox].attempts = row.retries
      BY <1>2 DEF CarriedOn, QueueCarries
    <2>2. row.retryAt # "pending" /\ row.retryAt \in RetryAt
      BY <1>2, <2>1 DEF Promote, Deployed, IInv, TypeOK, Job
    <2>3. QED
      BY <2>1, <2>2 DEF AwaitsRetry, Claimable, RetryAt
  <1>3. QED
    BY <1>1, <1>2 DEF Promote

LEMMA CarriedPromote == ASSUME Deployed, IInv, CarriedOn, NEW g \in Gens, Promote(g) PROVE CarriedOn'
  <1>1. UNCHANGED <<row, outbox, gens, pc, local, crashes, errors>>
    BY DEF Promote, store, faults
  <1>2. /\ queue[g].state \in {"delayed", "backoff"}
        /\ queue'[g].state = "waiting" /\ queue'[g].attempts = queue[g].attempts
        /\ \A h \in Gens \ {g} : queue'[h] = queue[h]
    BY DEF Promote, IInv, TypeOK, QueueJob
  <1>3. Issued'
    BY <1>1, <1>2 DEF CarriedOn, Issued
  <1>4. QueueCarries'
    <2>1. CASE g = outbox
      BY <1>1, <1>2, <2>1, PromotedClaimable DEF QueueCarries
    <2>2. CASE g # outbox
      BY <1>1, <1>2, <2>2 DEF CarriedOn, QueueCarries, AwaitsRetry, Settled
    <2>3. QED
      BY <2>1, <2>2
  <1>5. ASSUME NEW w \in Workers PROVE CallCarries(w)'
    <2>1. outbox \in Gens => queue'[outbox].attempts = queue[outbox].attempts
      BY <1>2
    <2>2. pc[w] # "idle" => local[w].gen \in Gens
      BY DEF IInv, HoldsQueueJob
    <2>3. QED
      BY <1>1, <2>1, <2>2 DEF CarriedOn, CallCarries, AwaitsRetry, Settled
  <1>6. QED
    BY <1>1, <1>3, <1>4, <1>5 DEF CarriedOn

\* Only an outdated queue job can be found stalled: the present one has its worker.
LEMMA CarriedStalled == ASSUME Deployed, IInv, CarriedOn, NEW g \in Gens, FindStalled(g) PROVE CarriedOn'
  <1>1. UNCHANGED <<row, outbox, gens, pc, local, crashes, errors>>
    BY DEF FindStalled, store, faults
  <1>2. queue[g].state = "active" /\ queue[g].holder = NoWorker
    BY DEF FindStalled, Deployed
  <1>3. \A h \in Gens \ {g} : queue'[h] = queue[h]
    BY DEF FindStalled, IInv, TypeOK
  <1>4. g # outbox
    BY <1>2, WorkerAssumption DEF WorkerAssumption, CarriedOn, QueueCarries
  <1>5. Issued' /\ (outbox \in Gens => queue'[outbox] = queue[outbox])
    BY <1>1, <1>2, <1>3, <1>4, OtherQueueJob
  <1>6. QueueCarries'
    BY <1>1, <1>5 DEF CarriedOn, QueueCarries, AwaitsRetry, Settled
  <1>7. ASSUME NEW w \in Workers PROVE CallCarries(w)'
    <2>1. pc[w] # "idle" => local[w].gen \in Gens
      BY DEF IInv, HoldsQueueJob
    <2>2. QED
      BY <1>1, <1>5, <2>1 DEF CarriedOn, CallCarries, AwaitsRetry, Settled
  <1>8. QED
    BY <1>1, <1>5, <1>6, <1>7 DEF CarriedOn

LEMMA CarriedDeliver ==
    ASSUME IInv, CarriedOn, NEW w \in Workers, NEW g \in Gens, Deliver(w, g)
    PROVE  CarriedOn'
  <1>1. UNCHANGED <<row, outbox, gens, crashes, errors>>
    BY DEF Deliver, store, faults
  <1>2. pc[w] = "idle" /\ pc'[w] = "claim" /\ local'[w].gen = g
    BY DEF Deliver, IInv, TypeOK, NoCall
  <1>3. \A v \in Workers \ {w} : pc'[v] = pc[v] /\ local'[v] = local[v]
    BY DEF Deliver, IInv, TypeOK
  <1>4. /\ queue[g].state = "waiting" /\ queue'[g].state = "active" /\ queue'[g].holder = w
        /\ queue'[g].attempts = queue[g].attempts
        /\ \A h \in Gens \ {g} : queue'[h] = queue[h]
    BY DEF Deliver, IInv, TypeOK, QueueJob
  <1>5. Issued'
    BY <1>1, <1>4 DEF CarriedOn, Issued
  <1>6. QueueCarries'
    <2>1. CASE g = outbox
      BY <1>1, <1>2, <1>4, <2>1 DEF QueueCarries
    <2>2. CASE g # outbox
      <3>1. ASSUME outbox \in Gens, queue[outbox].state = "active"
            PROVE  LET v == queue[outbox].holder
                   IN  v \in Workers /\ pc'[v] # "idle" /\ local'[v].gen = outbox
        BY <1>2, <1>3, <3>1 DEF CarriedOn, QueueCarries
      <3>2. QED
        BY <1>1, <1>4, <2>2, <3>1 DEF CarriedOn, QueueCarries, AwaitsRetry, Settled
    <2>3. QED
      BY <2>1, <2>2
  <1>7. CallCarries(w)'
    <2>1. g = outbox => Claimable(row) /\ queue[g].attempts = row.retries
      BY <1>4 DEF CarriedOn, QueueCarries
    <2>2. Claimable(row) => row.due
      BY DEF Claimable
    <2>3. QED
      BY <1>1, <1>2, <1>4, <2>1, <2>2 DEF CallCarries, Working
  <1>8. ASSUME NEW v \in Workers \ {w} PROVE CallCarries(v)'
    <2>1. pc[v] # "idle" => local[v].gen \in Gens
      BY DEF IInv, HoldsQueueJob
    <2>2. outbox \in Gens => queue'[outbox].attempts = queue[outbox].attempts
      BY <1>4
    <2>3. QED
      BY <1>1, <1>3, <2>1, <2>2 DEF CarriedOn, CallCarries, AwaitsRetry, Settled
  <1>9. QED
    BY <1>1, <1>5, <1>6, <1>7, <1>8 DEF CarriedOn

\* Without errors every statement of a call leads on.
LEMMA NoDetour ==
    ASSUME FaultFree, IInv, CarriedOn, NEW w \in Workers, NEW point, GoTo(w, point)
    PROVE  /\ pc'[w] = point /\ \A v \in Workers \ {w} : pc'[v] = pc[v]
           /\ UNCHANGED faults
  BY DEF FaultFree, CarriedOn, GoTo, IInv, TypeOK

\* A step of the present call concerns no other call, and leaves the queue job to it.
LEMMA CallGoesOn ==
    ASSUME IInv, CarriedOn, NEW w \in Workers, pc[w] # "idle", local[w].gen = outbox,
           UNCHANGED <<queue, outbox, gens, faults>>,
           \A v \in Workers \ {w} : pc'[v] = pc[v] /\ local'[v] = local[v],
           local'[w].gen = local[w].gen, pc'[w] # "idle",
           row'.status # "waiting", CallCarries(w)'
    PROVE  CarriedOn'
  <1>1. outbox \in Gens /\ queue[outbox].state = "active" /\ queue[outbox].holder = w
    BY DEF IInv, HoldsQueueJob
  <1>2. Issued'
    BY <1>1 DEF CarriedOn, Issued, Gens
  <1>3. QueueCarries'
    BY <1>1 DEF QueueCarries
  <1>4. ASSUME NEW v \in Workers \ {w} PROVE CallCarries(v)'
    BY OneCallCarries DEF CallCarries
  <1>5. QED
    BY <1>2, <1>3, <1>4 DEF CarriedOn, faults

LEMMA CarriedClaim == ASSUME FaultFree, IInv, CarriedOn, NEW w \in Workers, Claim(w) PROVE CarriedOn'
  <1> DEFINE point == CASE row.status = "remote_confirmed" -> "save"
                        [] row.status # "remote_confirmed" /\ row.keyed -> "reconcile"
                        [] OTHER -> "mark"
  <1>1. /\ pc[w] = "claim" /\ Claimable(row) /\ local[w].gen = outbox
        /\ UNCHANGED <<queue, outbox, gens>>
    BY DEF Claim
  <1>2. pc'[w] \in {"save", "reconcile", "mark"} /\ UNCHANGED faults /\ \A v \in Workers \ {w} : pc'[v] = pc[v]
    <2>1. GoTo(w, point)
      BY DEF Claim
    <2>2. point \in {"save", "reconcile", "mark"}
      OBVIOUS
    <2> HIDE DEF point
    <2>3. QED
      BY <2>1, <2>2, NoDetour
  <1>3. row'.status # "waiting" /\ row'.due = row.due /\ row'.retries = row.retries
    BY DEF Claim, Claimed, IInv, TypeOK, Job
  <1>4. /\ local'[w].gen = local[w].gen /\ local'[w].retries = row.retries
        /\ \A v \in Workers \ {w} : local'[v] = local[v]
    BY DEF Claim, IInv, TypeOK, Local
  <1>5. row.due /\ queue[outbox].attempts = row.retries
    BY <1>1 DEF CarriedOn, CallCarries
  <1>6. CallCarries(w)'
    BY <1>1, <1>2, <1>3, <1>4, <1>5 DEF CallCarries
  <1>7. QED
    BY <1>1, <1>2, <1>3, <1>4, <1>6, CallGoesOn

\* A call that finds nothing to claim is outdated.
LEMMA VainIsOutdated ==
    ASSUME CarriedOn, NEW w \in Workers, ClaimNothing(w)
    PROVE  local[w].gen # outbox
  BY DEF CarriedOn, CallCarries, ClaimNothing

LEMMA CarriedClaimNothing == ASSUME IInv, CarriedOn, NEW w \in Workers, ClaimNothing(w) PROVE CarriedOn'
  <1>1. UNCHANGED <<row, outbox, gens, queue, local, crashes, errors>>
    BY DEF ClaimNothing, store, faults
  <1>2. \A v \in Workers \ {w} : pc'[v] = pc[v]
    BY DEF ClaimNothing, IInv, TypeOK
  <1>3. local[w].gen # outbox
    BY VainIsOutdated
  <1>4. Issued'
    BY <1>1 DEF CarriedOn, Issued
  <1>5. QueueCarries'
    BY <1>1, <1>2, <1>3 DEF CarriedOn, QueueCarries, AwaitsRetry, Settled
  <1>6. ASSUME NEW v \in Workers PROVE CallCarries(v)'
    BY <1>1, <1>2, <1>3 DEF CarriedOn, CallCarries, AwaitsRetry, Settled
  <1>7. QED
    BY <1>1, <1>4, <1>5, <1>6 DEF CarriedOn

\* A working call belongs to the present queue job, and has found an unsettled row.
LEMMA WorkCarries ==
    ASSUME IInv, CarriedOn, NEW w \in Workers, pc[w] \in Working
    PROVE  /\ local[w].gen = outbox /\ pc[w] # "idle" /\ row \in Job
           /\ row.status \in InProgress
           /\ row.due /\ queue[outbox].attempts = row.retries
           /\ pc[w] \in {"reconcile", "mark", "publish", "inflight"} => local[w].retries = row.retries
           /\ pc[w] \in {"recheck", "defer", "reject"} => local[w].retries = row.retries + 1
  <1>1. local[w].gen = outbox /\ pc[w] # "idle" /\ row \in Job
    BY DEF IInv, TypeOK, OnlyCurrentQueueJobWorks, Working
  <1>2. row.status \in InProgress
    BY DEF IInv, RowFollows, Working, InProgress
  <1>3. QED
    BY <1>1, <1>2 DEF CarriedOn, CallCarries

\* The steps of a call that leave the row alone.
LEMMA CarriedQuiet ==
    ASSUME FaultFree, IInv, CarriedOn, NEW w \in Workers,
           Reconcile(w) \/ AnswerPublished(w) \/ Recheck(w) \/ Send(w) \/ AnswerFailure(w)
    PROVE  CarriedOn'
  <1>1. /\ pc[w] \in Working /\ UNCHANGED <<row, outbox, gens, queue, faults>>
        /\ \A v \in Workers \ {w} : pc'[v] = pc[v] /\ local'[v] = local[v]
    BY DEF Reconcile, AnswerPublished, Recheck, Send, AnswerFailure, store, Working, IInv, TypeOK
  <1>2. local \in [Workers -> Local] /\ local[w] \in Local /\ pc \in [Workers -> Points]
    BY DEF IInv, TypeOK
  <1>3. /\ local'[w].gen = local[w].gen
        /\ \/ pc[w] = "reconcile" /\ pc'[w] = "remark"
           \/ pc[w] = "reconcile" /\ pc'[w] = "defer" /\ local'[w].retries = local[w].retries + 1
           \/ pc'[w] = "confirm"
           \/ pc[w] = "recheck" /\ pc'[w] = "defer" /\ local'[w].retries = local[w].retries
           \/ pc[w] = "publish" /\ pc'[w] = "inflight" /\ local'[w].retries = local[w].retries
           \/ pc[w] = "inflight" /\ pc'[w] \in {"recheck", "reject"} /\ local'[w].retries = local[w].retries + 1
    <2>1. CASE Reconcile(w)
      BY <1>2, <2>1 DEF Reconcile, FaultFree, Deployed, Local
    <2>2. CASE AnswerPublished(w) \/ Recheck(w)
      BY <1>2, <2>2 DEF AnswerPublished, Recheck
    <2>3. CASE Send(w)
      <3>1. \A b \in BOOLEAN : /\ [local[w] EXCEPT !.accepted = b].gen = local[w].gen
                               /\ [local[w] EXCEPT !.accepted = b].retries = local[w].retries
        BY <1>2 DEF Local
      <3>2. QED
        BY <1>2, <2>3, <3>1 DEF Send
    <2>4. CASE AnswerFailure(w)
      <3>1. \A code \in FailureCodes : /\ FailureCounted(local[w], code).gen = local[w].gen
                                       /\ FailureCounted(local[w], code).retries = local[w].retries + 1
        BY <1>2 DEF FailureCounted, Local
      <3>2. QED
        BY <1>2, <2>4, <3>1 DEF AnswerFailure
    <2>5. QED
      BY <2>1, <2>2, <2>3, <2>4
  <1>4. CallCarries(w)'
    BY <1>1, <1>3, WorkCarries DEF CallCarries, Working
  <1>5. pc'[w] # "idle" /\ row'.status # "waiting"
    BY <1>1, <1>3, WorkCarries DEF InProgress
  <1>6. QED
    BY <1>1, <1>3, <1>4, <1>5, WorkCarries, CallGoesOn

\* The statements of a call that does not fail.
LEMMA CarriedStatement ==
    ASSUME FaultFree, IInv, CarriedOn, NEW w \in Workers, Mark(w) \/ Confirm(w) \/ Save(w)
    PROVE  CarriedOn'
  <1>1. /\ pc[w] \in Working /\ UNCHANGED <<outbox, gens, queue>>
        /\ \A v \in Workers \ {w} : pc'[v] = pc[v] /\ local'[v] = local[v]
        /\ local'[w].gen = local[w].gen
    BY WorkFrame DEF Mark, Confirm, Save
  <1>2. row \in Job /\ local \in [Workers -> Local]
    BY DEF IInv, TypeOK
  <1>3. /\ UNCHANGED faults /\ row'.due = row.due /\ row'.retries = row.retries
        /\ \/ pc'[w] = "publish" /\ row'.status = "remote_requesting" /\ local'[w].retries = row.retries
           \/ pc'[w] = "confirm" /\ row'.status = "remote_requesting"
           \/ pc'[w] = "save" /\ row'.status = "remote_confirmed"
           \/ pc'[w] = "return" /\ row'.status = "published"
    <2>1. CASE Mark(w)
      <3>1. Markable(row)
        BY <2>1 DEF Mark, Markable, IInv, RowFollows
      <3>2. row' = Marked(row) /\ local' = [local EXCEPT ![w].retries = row.retries]
        BY <2>1, <3>1 DEF Mark
      <3>3. GoTo(w, IF pc[w] = "mark" THEN "publish" ELSE "confirm")
        BY <2>1, <3>1 DEF Mark
      <3>4. pc'[w] = (IF pc[w] = "mark" THEN "publish" ELSE "confirm") /\ UNCHANGED faults
        BY <3>3, NoDetour
      <3>5. row'.due = row.due /\ row'.retries = row.retries /\ row'.status = "remote_requesting"
        BY <1>2, <3>2 DEF Marked, Job
      <3>6. local'[w].retries = row.retries
        BY <1>2, <3>2 DEF Local
      <3>7. QED
        BY <3>4, <3>5, <3>6
    <2>2. CASE Confirm(w)
      <3>1. Confirmable(row)
        BY <2>2 DEF Confirm, Confirmable, IInv, RowFollows
      <3>2. row' = Confirmed(row) /\ GoTo(w, "save")
        BY <2>2, <3>1 DEF Confirm
      <3>3. QED
        BY <1>2, <3>2, NoDetour DEF Confirmed, Job
    <2>3. CASE Save(w)
      <3>1. Savable(row)
        BY <2>3 DEF Save, Savable, IInv, RowFollows
      <3>2. row' = Published(row) /\ GoTo(w, "return")
        BY <2>3, <3>1 DEF Save
      <3>3. QED
        BY <1>2, <3>2, NoDetour DEF Published, Job
    <2>4. QED
      BY <2>1, <2>2, <2>3
  <1>4. CallCarries(w)'
    BY <1>1, <1>3, WorkCarries DEF CallCarries, Settled
  <1>5. QED
    BY <1>1, <1>3, <1>4, WorkCarries, CallGoesOn

\* A failure is thrown to BullMQ only when the row awaits another attempt.
LEMMA CarriedFailure ==
    ASSUME FaultFree, IInv, CarriedOn, NEW w \in Workers, Defer(w) \/ Reject(w)
    PROVE  CarriedOn'
  <1>1. /\ pc[w] \in {"defer", "reject"} /\ pc[w] \in Working /\ UNCHANGED <<outbox, gens, queue>>
        /\ \A v \in Workers \ {w} : pc'[v] = pc[v] /\ local'[v] = local[v]
        /\ local'[w].gen = local[w].gen
    BY WorkFrame DEF Defer, Reject, RecordFailure
  <1>2. row \in Job /\ local[w].retries \in Nat /\ MaxAttempts \in Nat
    BY MaxAttemptsAssumption DEF IInv, TypeOK, Local
  <1>3. Failable(row)
    BY <1>1 DEF Failable, IInv, RowFollows
  <1>4. PICK retryPending \in BOOLEAN :
           /\ retryPending => local[w].retries < MaxAttempts
           /\ row' \in {Deferred(row, local[w].retries, retryPending), Rejected(row, local[w].retries, retryPending)}
           /\ GoTo(w, IF retryPending THEN "throw" ELSE "terminal")
    <2>1. \A retryable \in BOOLEAN : /\ ShouldRetryPublish(retryable, local[w].retries) \in BOOLEAN
                                     /\ ShouldRetryPublish(retryable, local[w].retries) => local[w].retries < MaxAttempts
      BY <1>2 DEF ShouldRetryPublish, RetryDelays
    <2>2. local[w].retryable \in BOOLEAN
      BY DEF IInv, TypeOK, Local
    <2>3. CASE Defer(w)
      BY <1>3, <2>1, <2>3 DEF Defer, RecordFailure
    <2>4. CASE Reject(w)
      BY <1>3, <2>1, <2>2, <2>4 DEF Reject, RecordFailure
    <2>5. QED
      BY <2>3, <2>4
  <1>5. pc'[w] = (IF retryPending THEN "throw" ELSE "terminal") /\ UNCHANGED faults
    BY <1>4, NoDetour
  <1>6. /\ row'.retries = local[w].retries /\ row'.due = row.due /\ row'.lease = "none"
        /\ IF retryPending THEN row'.status \in {"retrying", "remote_requesting"} /\ row'.retryAt = "pending"
                           ELSE row'.status = "failed"
    BY <1>2, <1>4 DEF Deferred, Rejected, Job
  <1>7. local[w].retries = queue[outbox].attempts + 1 /\ row.due
    BY <1>1, WorkCarries
  <1>8. CallCarries(w)'
    BY <1>1, <1>4, <1>5, <1>6, <1>7 DEF CallCarries, AwaitsRetry, Settled, Working
  <1>9. pc'[w] # "idle" /\ row'.status # "waiting"
    BY <1>5, <1>6
  <1>10. QED
    BY <1>1, <1>5, <1>8, <1>9, WorkCarries, CallGoesOn

\* What the queue makes of a call that ends.
LEMMA SettledJobIs ==
    ASSUME NEW job \in QueueJob, NEW outcome \in Settling
    PROVE  /\ outcome = "return" => SettledJob(job, outcome).state = "completed"
           /\ outcome = "terminal" => SettledJob(job, outcome).state = "failed"
           /\ outcome = "throw" /\ job.attempts + 1 < MaxAttempts =>
                 /\ SettledJob(job, outcome).state = "backoff"
                 /\ SettledJob(job, outcome).attempts = job.attempts + 1
                 /\ row.retries = job.attempts + 1 /\ row.lease = "none" => SettledJob(job, outcome).quiet
  <1>1. job.attempts \in Nat /\ MaxAttempts \in Nat
    BY MaxAttemptsAssumption DEF QueueJob
  <1>2. CASE outcome = "return"
    BY <1>2 DEF SettledJob, QueueJob
  <1>3. CASE outcome = "terminal"
    BY <1>3 DEF SettledJob, QueueJob
  <1>4. CASE outcome = "throw" /\ job.attempts + 1 < MaxAttempts
    <2> DEFINE quiet == /\ row.retryAt = "pending" => BackoffOutlastsRetryAt(job.attempts + 1, row.retries)
                        /\ row.lease = "held" => ShortLease
    <2>1. row.retries = job.attempts + 1 /\ row.lease = "none" => quiet
      BY <1>1 DEF BackoffOutlastsRetryAt
    <2>2. ~(outcome = "terminal" \/ job.attempts + 1 >= MaxAttempts)
      BY <1>1, <1>4
    <2>3. SettledJob(job, outcome) =
             [job EXCEPT !.state = "backoff", !.holder = NoWorker, !.attempts = job.attempts + 1, !.quiet = quiet]
      BY <1>4, <2>2 DEF SettledJob
    <2> HIDE DEF quiet
    <2>4. QED
      BY <1>4, <2>1, <2>3 DEF QueueJob
  <1>5. QED
    BY <1>2, <1>3, <1>4

LEMMA CarriedSettle == ASSUME IInv, CarriedOn, NEW w \in Workers, Settle(w) PROVE CarriedOn'
  <1> DEFINE g == local[w].gen
  <1>1. /\ pc[w] \in Settling /\ pc[w] # "idle" /\ UNCHANGED <<row, outbox, gens, crashes, errors>>
        /\ pc'[w] = "idle" /\ \A v \in Workers \ {w} : pc'[v] = pc[v] /\ local'[v] = local[v]
    BY DEF Settle, Settling, store, faults, IInv, TypeOK
  <1>2. g \in Gens /\ queue[g].state = "active" /\ queue[g].holder = w /\ queue[g] \in QueueJob
    BY <1>1 DEF IInv, HoldsQueueJob, TypeOK
  <1>3. /\ queue'[g] = SettledJob(queue[g], pc[w])
        /\ \A h \in Gens \ {g} : queue'[h] = queue[h]
    BY <1>2 DEF Settle, IInv, TypeOK
  <1>4. ~(g > gens)
    BY <1>2 DEF CarriedOn, Issued
  <1> HIDE DEF g
  <1>5. Issued'
    BY <1>1, <1>3, <1>4 DEF CarriedOn, Issued
  <1>6. QueueCarries'
    <2>1. CASE g = outbox
      <3>1. pc[w] \in {"return", "terminal"} => Settled
        BY <1>1, <2>1 DEF CarriedOn, CallCarries, g
      <3>2. pc[w] = "throw" => /\ AwaitsRetry /\ row.retries < MaxAttempts
                               /\ row.retries = queue[g].attempts + 1
        BY <1>1, <2>1 DEF CarriedOn, CallCarries, g
      <3>3. row.retries = queue[g].attempts + 1 /\ row.retries < MaxAttempts => queue[g].attempts + 1 < MaxAttempts
        OBVIOUS
      <3>4. \/ queue'[g].state \in {"completed", "failed"} /\ Settled
            \/ queue'[g].state = "backoff" /\ AwaitsRetry /\ queue'[g].quiet /\ queue'[g].attempts = row.retries
        BY <1>1, <1>2, <1>3, <3>1, <3>2, <3>3, SettledJobIs DEF Settling, AwaitsRetry
      <3>5. QED
        BY <1>1, <2>1, <3>4 DEF QueueCarries, AwaitsRetry, Settled
    <2>2. CASE g # outbox
      <3>1. outbox \in Gens => queue'[outbox] = queue[outbox]
        BY <1>3, <2>2
      <3>2. ASSUME outbox \in Gens, queue[outbox].state = "active"
            PROVE  LET v == queue[outbox].holder
                   IN  v \in Workers /\ pc'[v] # "idle" /\ local'[v].gen = outbox
        BY <1>1, <2>2, <3>2 DEF CarriedOn, QueueCarries, g
      <3>3. QED
        BY <1>1, <3>1, <3>2 DEF CarriedOn, QueueCarries, AwaitsRetry, Settled
    <2>3. QED
      BY <2>1, <2>2
  <1>7. ASSUME NEW v \in Workers PROVE CallCarries(v)'
    <2>1. CASE v = w
      BY <1>1, <2>1 DEF CallCarries
    <2>2. CASE v # w /\ pc[v] # "idle" /\ local[v].gen = outbox
      <3>1. outbox \in Gens /\ g # outbox
        BY <1>1, <2>2, OneCallCarries DEF IInv, HoldsQueueJob, g
      <3>2. QED
        BY <1>1, <1>3, <2>2, <3>1 DEF CarriedOn, CallCarries, AwaitsRetry, Settled
    <2>3. CASE v # w /\ ~(pc[v] # "idle" /\ local[v].gen = outbox)
      BY <1>1, <2>3 DEF CallCarries
    <2>4. QED
      BY <2>1, <2>2, <2>3
  <1>8. QED
    BY <1>1, <1>5, <1>6, <1>7 DEF CarriedOn

LEMMA CarriedStep == ASSUME FaultFree, IInv, CarriedOn, [Next]_vars PROVE CarriedOn'
  <1>1. CASE User \/ Time
    BY <1>1, CarriedUser, CarriedTime
  <1>2. ASSUME NEW g \in Gens, BullMq(g) PROVE CarriedOn'
    BY <1>2, CarriedDispatch, CarriedPromote, CarriedStalled, CarriedDeliver DEF BullMq, FaultFree
  <1>3. ASSUME NEW w \in Workers, Process(w) PROVE CarriedOn'
    BY <1>3, CarriedClaim, CarriedClaimNothing, CarriedQuiet, CarriedStatement, CarriedFailure, CarriedSettle
    DEF Process
  <1>4. ASSUME NEW w \in Workers, DatabaseError(w) \/ Crash(w) PROVE FALSE
    BY <1>4 DEF DatabaseError, Crash, CarriedOn, FaultFree
  <1>5. CASE UNCHANGED vars
    BY <1>5 DEF vars, CarriedOn, Issued, QueueCarries, CallCarries, AwaitsRetry, Settled
  <1>6. QED
    BY <1>1, <1>2, <1>3, <1>4, <1>5 DEF Next

\* The invariant of this part: while no worker dies and the database answers, the queue
\* job of an unsettled row, or the call that works for it, carries the row's next
\* attempt, and its attempts made are the row's retry count.
THEOREM CarriedOnHolds == ASSUME FaultFree PROVE Spec => [](IInv /\ CarriedOn)
  <1>1. Init => IInv /\ CarriedOn
    BY InvInit, CarriedInit
  <1>2. IInv /\ CarriedOn /\ [Next]_vars => IInv' /\ CarriedOn'
    BY InvStep, CarriedStep DEF FaultFree
  <1>3. QED
    BY <1>1, <1>2, PTL DEF Spec

\* While no worker dies and the database answers, an approved job that is not settled
\* always has its next attempt before it, however often its failures are retried, and
\* however the user reschedules, retries or cancels: the two counters, retry_count and
\* BullMQ's attempts, never part, so no backoff ends before next_retry_at.
THEOREM NothingIsForgotten == ASSUME FaultFree PROVE Spec => []NextAttemptComes
  <1>1. ASSUME IInv, CarriedOn, gens > 0, ~Settled
        PROVE  /\ outbox \in Gens
               /\ \/ queue[outbox].state \in {"absent", "delayed", "backoff"}
                  \/ queue[outbox].state = "waiting" /\ Claimable(row)
                  \/ \E w \in Workers : local[w].gen = outbox /\ pc[w] \notin {"idle", "return", "terminal"}
    <2>1. outbox \in Gens
      <3>1. outbox \in 0..MaxGens /\ gens \in Nat /\ MaxGens \in Nat
        BY <1>1, WorkerAssumption DEF IInv, TypeOK, WorkerAssumption
      <3>2. outbox # 0
        BY <1>1, <3>1 DEF CarriedOn, Issued, Settled
      <3>3. QED
        BY <3>1, <3>2 DEF Gens
    <2>2. queue[outbox].state \in QueueStates
      BY <1>1, <2>1 DEF IInv, TypeOK, QueueJob
    <2>3. CASE queue[outbox].state = "active"
      <3>1. PICK w \in Workers : pc[w] # "idle" /\ local[w].gen = outbox
        BY <1>1, <2>1, <2>3 DEF CarriedOn, QueueCarries
      <3>2. pc[w] \notin {"return", "terminal"}
        BY <1>1, <3>1 DEF CarriedOn, CallCarries
      <3>3. QED
        BY <2>1, <3>1, <3>2
    <2>4. CASE queue[outbox].state # "active"
      BY <1>1, <2>1, <2>2, <2>4 DEF CarriedOn, QueueCarries, QueueStates
    <2>5. QED
      BY <2>3, <2>4
  <1>2. IInv /\ CarriedOn => NextAttemptComes
    BY <1>1 DEF NextAttemptComes
  <1>3. QED
    BY <1>2, CarriedOnHolds, PTL

\* Nor does the present queue job ever complete because its delivery found nothing to
\* claim: it is promoted only when the row can be claimed.
THEOREM DeliveriesClaim == ASSUME FaultFree PROVE Spec => NoDeliveryInVain
  <1>1. CarriedOn /\ [Next]_vars => \A w \in Workers : ClaimNothing(w) => local[w].gen # outbox
    BY VainIsOutdated
  <1>2. QED
    BY <1>1, CarriedOnHolds, PTL DEF Spec, NoDeliveryInVain
=============================================================================
