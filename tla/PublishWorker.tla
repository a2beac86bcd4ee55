---------------------------- MODULE PublishWorker ----------------------------
(***************************************************************************)
(* The publication of one social_publish_jobs row: the worker's processor  *)
(* (publish-worker.processor.ts, publishing.service.ts) between its        *)
(* awaits, the BullMQ deliveries that start it, the provider it writes to, *)
(* and the user's schedule, cancel and retry.                              *)
(*                                                                         *)
(* Every statement on the row is one action. A worker that has claimed the *)
(* row goes on from the copy it holds, whatever becomes of the row.        *)
(***************************************************************************)
EXTENDS PublishJobStore

CONSTANTS
    Workers,       \* BullMQ worker slots, each in a process of its own
    NoWorker,      \* the holder of a queue job nobody works on
    MaxGens,       \* bound: queue identifiers the row is given
    MaxStalls,     \* BullMQ's maxStalledCount
    MaxCrashes,    \* bound: worker crashes
    MaxErrors,     \* bound: database errors seen by workers
    LiveStall,     \* may BullMQ take a worker that is only slow for a stalled one?
    ShortLease,    \* is the lease no longer than the shortest backoff (its default)?
    Reconcilable,  \* does the adapter implement reconcilePublish?
    Idempotent     \* does the adapter declare supportsIdempotentPublish?

ASSUME WorkerAssumption ==
    /\ NoWorker \notin Workers
    /\ MaxGens \in Nat /\ MaxStalls \in Nat /\ MaxCrashes \in Nat /\ MaxErrors \in Nat
    /\ {LiveStall, ShortLease, Reconcilable, Idempotent} \subseteq BOOLEAN

VARIABLES
    row,      \* the row of social_publish_jobs
    outbox,   \* the generation its outbox row carries as queue_job_id, 0 for no row
    gens,     \* queue identifiers generated so far
    alerted,  \* a social_publish_failure_alerts row exists
    queue,    \* BullMQ's record of each generation's queue job
    pc,       \* where each worker's call of process() stands
    local,    \* what that call holds: the row it was returned, and the outcome
    open,     \* provider writes sent that no definite rejection has answered
    posts,    \* posts the provider has published for this job
    crashes, errors   \* faults so far

vars == <<row, outbox, gens, alerted, queue, pc, local, open, posts, crashes, errors>>
store == <<row, outbox, gens, alerted>>
provider == <<open, posts>>
faults == <<crashes, errors>>

Gens == 1..MaxGens
QueueStates == {"absent", "delayed", "waiting", "backoff", "active", "completed", "failed"}
QueueJob == [state : QueueStates, holder : Workers \cup {NoWorker}, attempts : Nat,
             stalls : Nat, quiet : BOOLEAN]
NewQueueJob == [state |-> "absent", holder |-> NoWorker, attempts |-> 0,
                stalls |-> 0, quiet |-> FALSE]

\* After a claim the call is Working until it settles with the queue: it
\* returns, throws an error BullMQ retries, or throws an unrecoverable one.
Working  == {"save", "reconcile", "remark", "mark", "publish", "inflight",
             "recheck", "confirm", "defer", "reject"}
Settling == {"return", "throw", "terminal"}
Points   == {"idle", "claim"} \cup Working \cup Settling

Local == [gen : 0..MaxGens, retries : Nat, retryable : BOOLEAN, accepted : BOOLEAN]
NoCall == [gen |-> 0, retries |-> 0, retryable |-> FALSE, accepted |-> FALSE]

Init ==
    /\ row = NewJob
    /\ outbox = 0 /\ gens = 0 /\ alerted = FALSE
    /\ queue = [g \in Gens |-> NewQueueJob]
    /\ pc = [w \in Workers |-> "idle"]
    /\ local = [w \in Workers |-> NoCall]
    /\ open = 0 /\ posts = 0
    /\ crashes = 0 /\ errors = 0

-----------------------------------------------------------------------------
(* The user. A post is approved, rescheduled, cancelled or retried in one  *)
(* transaction that locks the row; the trigger of migration 014 gives a    *)
(* waiting row a fresh queue identifier and removes that of a cancelled one.*)

\* Mutant: the new identifier is not counted as issued.
IssueUncounted ==
    /\ gens < MaxGens
    /\ gens' = gens
    /\ outbox' = gens + 1
IssueQueueId ==
    /\ gens < MaxGens
    /\ gens' = gens + 1
    /\ outbox' = gens + 1

Schedule ==
    /\ Schedulable(row)
    /\ row' = Rescheduled(row)
    /\ IssueQueueId
    /\ UNCHANGED <<alerted, queue, pc, local, provider, faults>>

Retry ==
    /\ Retriable(row)
    /\ row' = Retried(row)
    /\ IssueQueueId
    /\ UNCHANGED <<alerted, queue, pc, local, provider, faults>>

Cancel ==
    /\ Cancellable(row)
    /\ row' = Cancelled(row)
    /\ outbox' = 0
    /\ UNCHANGED <<gens, alerted, queue, pc, local, provider, faults>>

-----------------------------------------------------------------------------
(* Time.                                                                   *)

ScheduleComes ==
    /\ gens > 0 /\ ~row.due
    /\ row' = [row EXCEPT !.due = TRUE]
    /\ UNCHANGED <<outbox, gens, alerted, queue, pc, local, provider, faults>>

LeaseLapses ==
    /\ row.lease = "held"
    /\ row' = [row EXCEPT !.lease = "lapsed"]
    /\ UNCHANGED <<outbox, gens, alerted, queue, pc, local, provider, faults>>

RetryComesDue ==
    /\ row.retryAt = "pending"
    /\ row' = [row EXCEPT !.retryAt = "due"]
    /\ UNCHANGED <<outbox, gens, alerted, queue, pc, local, provider, faults>>

-----------------------------------------------------------------------------
(* BullMQ.                                                                 *)

\* The dispatcher adds the queue job of a generation once (its id is the
\* BullMQ job id), perhaps after the row has moved on to a later generation.
Dispatch(g) ==
    /\ g <= gens
    /\ queue[g].state = "absent"
    /\ queue' = [queue EXCEPT ![g].state = "delayed"]
    /\ UNCHANGED <<store, pc, local, provider, faults>>

\* The initial delay ends with the scheduled time. A backoff that outlasts the
\* times the failed call left in the row does not end before them; one that
\* does not (quiet is false), or any under LiveStall, may end earlier.
Promote(g) ==
    /\ \/ queue[g].state = "delayed" /\ (g = outbox => row.due)
       \/ /\ queue[g].state = "backoff"
          /\ (queue[g].quiet /\ ~LiveStall /\ g = outbox)
                => row.retryAt # "pending" /\ row.lease # "held"
    /\ queue' = [queue EXCEPT ![g].state = "waiting"]
    /\ UNCHANGED <<store, pc, local, provider, faults>>

Deliver(w, g) ==
    /\ pc[w] = "idle"
    /\ queue[g].state = "waiting"
    /\ queue' = [queue EXCEPT ![g] = [@ EXCEPT !.state = "active", !.holder = w]]
    /\ pc' = [pc EXCEPT ![w] = "claim"]
    /\ local' = [local EXCEPT ![w] = [NoCall EXCEPT !.gen = g]]
    /\ UNCHANGED <<store, provider, faults>>

\* The stalled check finds a queue job whose lock has expired: its worker is
\* gone, or (LiveStall) has been too busy or cut off to renew it.
StalledJob(job) ==
    IF job.stalls < MaxStalls
    THEN [job EXCEPT !.state = "waiting", !.holder = NoWorker, !.stalls = job.stalls + 1]
    ELSE [job EXCEPT !.state = "failed", !.holder = NoWorker]

FindStalled(g) ==
    /\ queue[g].state = "active"
    /\ queue[g].holder = NoWorker \/ LiveStall
    /\ queue' = [queue EXCEPT ![g] = StalledJob(queue[g])]
    /\ UNCHANGED <<store, pc, local, provider, faults>>
-----------------------------------------------------------------------------
(* The processor.                                                          *)

\* The next point of w's call, or, when the statement's outcome is lost to a
\* database error, the throw of that error.
GoTo(w, point) ==
    \/ pc' = [pc EXCEPT ![w] = point] /\ UNCHANGED faults
    \/ /\ errors < MaxErrors
       /\ errors' = errors + 1
       /\ pc' = [pc EXCEPT ![w] = "throw"]
       /\ UNCHANGED crashes

\* The statement of w's call fails and has no effect.
DatabaseError(w) ==
    /\ pc[w] \in {"claim", "save", "remark", "mark", "confirm", "defer", "reject"}
    /\ errors < MaxErrors
    /\ errors' = errors + 1
    /\ pc' = [pc EXCEPT ![w] = "throw"]
    /\ UNCHANGED <<store, queue, local, provider, crashes>>

\* Mutant: the claim does not ask which queue job delivers.
ClaimForAnyQueueJob(w) ==
    /\ pc[w] = "claim"
    /\ Claimable(row)
    /\ row' = Claimed(row)
    /\ local' = [local EXCEPT ![w].retries = row.retries]
    /\ GoTo(w, CASE row.status = "remote_confirmed" -> "save"
                 [] row.status # "remote_confirmed" /\ row.keyed -> "reconcile"
                 [] OTHER -> "mark")
    /\ UNCHANGED <<outbox, gens, alerted, queue, provider>>

\* claimPublishJob, and the branch process() takes on the row it returns.
Claim(w) ==
    /\ pc[w] = "claim"
    /\ Claimable(row) /\ local[w].gen = outbox
    /\ row' = Claimed(row)
    /\ local' = [local EXCEPT ![w].retries = row.retries]
    /\ GoTo(w, CASE row.status = "remote_confirmed" -> "save"
                 [] row.status # "remote_confirmed" /\ row.keyed -> "reconcile"
                 [] OTHER -> "mark")
    /\ UNCHANGED <<outbox, gens, alerted, queue, provider>>

\* No row matches: process() returns null, and BullMQ completes the queue job.
ClaimNothing(w) ==
    /\ pc[w] = "claim"
    /\ ~(Claimable(row) /\ local[w].gen = outbox)
    /\ pc' = [pc EXCEPT ![w] = "return"]
    /\ UNCHANGED <<store, queue, local, provider, faults>>

\* reconcile: an adapter with a lookup may find the post, if there is one.
Found == Reconcilable /\ posts > 0

\* Mutant: an unresolved write is repeated whatever the provider.
ReconcileOrRepeat(w) ==
    /\ pc[w] = "reconcile"
    /\ \/ Found /\ pc' = [pc EXCEPT ![w] = "remark"]
       \/ pc' = [pc EXCEPT ![w] = "mark"]
    /\ UNCHANGED <<store, queue, local, provider, faults>>

\* Before any write of this call: the key says an earlier call may have written.
Reconcile(w) ==
    /\ pc[w] = "reconcile"
    /\ \/ /\ Found
          /\ pc' = [pc EXCEPT ![w] = "remark"]
          /\ UNCHANGED local
       \/ /\ Idempotent
          /\ pc' = [pc EXCEPT ![w] = "mark"]
          /\ UNCHANGED local
       \/ /\ ~Idempotent
          /\ pc' = [pc EXCEPT ![w] = "defer"]
          /\ local' = [local EXCEPT ![w].retries = @ + 1]
    /\ UNCHANGED <<store, queue, provider, faults>>

\* markRemoteRequesting, before a write or before confirming a post just found;
\* the call goes on with the row it returns, and throws when none matches.
Mark(w) ==
    /\ pc[w] \in {"mark", "remark"}
    /\ IF Markable(row)
       THEN /\ row' = Marked(row)
            /\ local' = [local EXCEPT ![w].retries = row.retries]
            /\ GoTo(w, IF pc[w] = "mark" THEN "publish" ELSE "confirm")
       ELSE /\ pc' = [pc EXCEPT ![w] = "throw"]
            /\ UNCHANGED <<row, local, faults>>
    /\ UNCHANGED <<outbox, gens, alerted, queue, provider>>

\* adapter.publish sends the write; the provider may or may not publish the post
\* (an adapter may also fail before it sends anything). An idempotent provider
\* publishes once however often the same key is sent.
Send(w) ==
    /\ pc[w] = "publish"
    /\ \E accepted \in BOOLEAN :
          /\ local' = [local EXCEPT ![w].accepted = accepted]
          /\ posts' = IF accepted /\ ~(Idempotent /\ posts > 0) THEN posts + 1 ELSE posts
    /\ open' = open + 1
    /\ pc' = [pc EXCEPT ![w] = "inflight"]
    /\ UNCHANGED <<store, queue, faults>>

\* The adapter returns a remote post id.
AnswerPublished(w) ==
    /\ pc[w] = "inflight"
    /\ local[w].accepted
    /\ pc' = [pc EXCEPT ![w] = "confirm"]
    /\ UNCHANGED <<store, queue, local, provider, faults>>

\* What fail() returns: one more failure, and whether its code may be retried.
FailureCounted(call, code) ==
    [call EXCEPT !.retries = @ + 1, !.retryable = Retryable(code)]

\* The adapter throws, and publish() classifies the error and counts a failure.
\* A provider that published the post answers, if at all, with an ambiguous one.
AnswerFailure(w) ==
    /\ pc[w] = "inflight"
    /\ \E code \in FailureCodes :
          /\ local[w].accepted => Ambiguous(code)
          /\ local' = [local EXCEPT ![w] = FailureCounted(@, code)]
          /\ pc' = [pc EXCEPT ![w] = IF Ambiguous(code) THEN "recheck" ELSE "reject"]
          /\ open' = IF Ambiguous(code) THEN open ELSE open - 1
    /\ UNCHANGED <<store, queue, posts, faults>>

\* Mutant: an unresolved outcome is taken for a confirmation.
RecheckOptimistically(w) ==
    /\ pc[w] = "recheck"
    /\ pc' = [pc EXCEPT ![w] = "confirm"]
    /\ UNCHANGED <<store, queue, local, provider, faults>>

\* Reconciliation after an ambiguous answer of this call's own write.
Recheck(w) ==
    /\ pc[w] = "recheck"
    /\ \/ Found /\ pc' = [pc EXCEPT ![w] = "confirm"]
       \/ pc' = [pc EXCEPT ![w] = "defer"]
    /\ UNCHANGED <<store, queue, local, provider, faults>>

\* persistSuccess, first half: confirmRemotePublication, which throws when no
\* row matches.
Confirm(w) ==
    /\ pc[w] = "confirm"
    /\ IF Confirmable(row)
       THEN row' = Confirmed(row) /\ GoTo(w, "save")
       ELSE pc' = [pc EXCEPT ![w] = "throw"] /\ UNCHANGED <<row, faults>>
    /\ UNCHANGED <<outbox, gens, alerted, queue, local, provider>>

\* persistSuccess, second half, or all that is left to do after a crash between
\* the two: saveExecution of a success (and its social_posts row).
Save(w) ==
    /\ pc[w] = "save"
    /\ row' = IF Savable(row) THEN Published(row) ELSE row
    /\ GoTo(w, "return")
    /\ UNCHANGED <<outbox, gens, alerted, queue, local, provider>>

\* Mutant: the alert is forgotten.
RecordFailureSilently(w, failed, retryPending) ==
    /\ row' = IF Failable(row) THEN failed ELSE row
    /\ alerted' = alerted
    /\ GoTo(w, IF retryPending THEN "throw" ELSE "terminal")
    /\ UNCHANGED <<outbox, gens, queue, local, provider>>

\* A failure is written to the row (if it is still there to fail), with an alert
\* in the same transaction when the failure is terminal, and then thrown.
RecordFailure(w, failed, retryPending) ==
    /\ row' = IF Failable(row) THEN failed ELSE row
    /\ alerted' = (alerted \/ (Failable(row) /\ ~retryPending))
    /\ GoTo(w, IF retryPending THEN "throw" ELSE "terminal")
    /\ UNCHANGED <<outbox, gens, queue, local, provider>>

\* deferAmbiguousRemoteOutcome.
Defer(w) ==
    /\ pc[w] = "defer"
    /\ LET retryPending == ShouldRetryPublish(TRUE, local[w].retries)
       IN  RecordFailure(w, Deferred(row, local[w].retries, retryPending), retryPending)

\* saveExecution of a definite failure.
Reject(w) ==
    /\ pc[w] = "reject"
    /\ LET retryPending == ShouldRetryPublish(local[w].retryable, local[w].retries)
       IN  RecordFailure(w, Rejected(row, local[w].retries, retryPending), retryPending)

\* BullMQ learns how process() ended, unless the queue job is no longer w's.
SettledJob(job, outcome) ==
    LET attempts == job.attempts + 1
        over == outcome = "terminal" \/ attempts >= MaxAttempts
    IN  IF outcome = "return" THEN [job EXCEPT !.state = "completed", !.holder = NoWorker]
        ELSE [job EXCEPT !.state = IF over THEN "failed" ELSE "backoff",
                         !.holder = NoWorker, !.attempts = attempts,
                         !.quiet = /\ row.retryAt = "pending" =>
                                         BackoffOutlastsRetryAt(attempts, row.retries)
                                   /\ row.lease = "held" => ShortLease]

Settle(w) ==
    /\ pc[w] \in Settling
    /\ LET g == local[w].gen
       IN  queue' = IF queue[g].state = "active" /\ queue[g].holder = w
                    THEN [queue EXCEPT ![g] = SettledJob(@, pc[w])]
                    ELSE queue
    /\ pc' = [pc EXCEPT ![w] = "idle"]
    /\ local' = [local EXCEPT ![w] = NoCall]
    /\ UNCHANGED <<store, provider, faults>>

\* The worker's process dies, and with it the call; a write in flight stays sent.
Crash(w) ==
    /\ pc[w] # "idle"
    /\ crashes < MaxCrashes
    /\ crashes' = crashes + 1
    /\ queue' = [g \in Gens |-> IF queue[g].holder = w THEN [queue[g] EXCEPT !.holder = NoWorker]
                                                      ELSE queue[g]]
    /\ pc' = [pc EXCEPT ![w] = "idle"]
    /\ local' = [local EXCEPT ![w] = NoCall]
    /\ UNCHANGED <<store, provider, errors>>

-----------------------------------------------------------------------------
User  == Schedule \/ Retry \/ Cancel
Time  == ScheduleComes \/ LeaseLapses \/ RetryComesDue
BullMq(g) == Dispatch(g) \/ Promote(g) \/ FindStalled(g) \/ \E w \in Workers : Deliver(w, g)
Process(w) ==
    \/ Claim(w) \/ ClaimNothing(w) \/ Reconcile(w) \/ Mark(w) \/ Send(w)
    \/ AnswerPublished(w) \/ AnswerFailure(w) \/ Recheck(w) \/ Confirm(w) \/ Save(w)
    \/ Defer(w) \/ Reject(w) \/ Settle(w)

Next ==
    \/ User
    \/ Time
    \/ \E g \in Gens : BullMq(g)
    \/ \E w \in Workers : Process(w) \/ DatabaseError(w) \/ Crash(w)

Spec == Init /\ [][Next]_vars

\* Time passes, the dispatcher polls, BullMQ delivers and workers run. Users,
\* crashes and database errors owe nobody anything.
Fairness ==
    /\ WF_vars(ScheduleComes) /\ WF_vars(LeaseLapses) /\ WF_vars(RetryComesDue)
    /\ \A g \in Gens : WF_vars(BullMq(g))
    /\ \A w \in Workers : WF_vars(Process(w))

FairSpec == Spec /\ Fairness
=============================================================================
