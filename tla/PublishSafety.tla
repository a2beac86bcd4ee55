---------------------------- MODULE PublishSafety ----------------------------
(***************************************************************************)
(* The properties of PublishWorker.                                        *)
(***************************************************************************)
EXTENDS PublishWorker

\* The variables hold values of their types.
TypeOK ==
    /\ row \in Job
    /\ outbox \in 0..MaxGens /\ gens \in 0..MaxGens /\ outbox <= gens
    /\ alerted \in BOOLEAN
    /\ queue \in [Gens -> QueueJob]
    /\ pc \in [Workers -> Points]
    /\ local \in [Workers -> Local]
    /\ open \in Int /\ posts \in Nat
    /\ crashes \in Nat /\ errors \in Nat

-----------------------------------------------------------------------------
(* One worker slot at a time, as long as BullMQ only takes dead workers for *)
(* stalled ones.                                                            *)

\* The worker never sends a second write while the outcome of an earlier one
\* is unresolved (docs/publish-idempotency.md:28, migration 013:1), whatever
\* crashes, database errors, lapsed leases and user actions come in between.
NoBlindRepeat == open <= 1

\* A write that is not refuted is recorded in the row: after any crash the next
\* claim sees the key and reconciles (remote_request_key persisted before
\* Adapter.publish and cleared only by a definite rejection).
OpenWriteHasKey == open > 0 => row.keyed

\* Whenever the guards of schedule, cancel or retry in post.service.ts let the
\* user act on the job, nothing was published, no write is open and no worker
\* is in the middle of a call for it.
UserMayAct == Schedulable(row) \/ Cancellable(row) \/ Retriable(row)
UserActsOnIdleJob ==
    UserMayAct => open = 0 /\ posts = 0 /\ \A w \in Workers : pc[w] \notin Working

\* No call that goes beyond its claim belongs to a queue identifier that a
\* reschedule, retry or cancel has replaced (docs/editorial-workflow.md:8).
OnlyCurrentQueueJobWorks == \A w \in Workers : pc[w] \in Working => local[w].gen = outbox

\* The worker's row updates implement the documented durable state machine.
Lifecycle == INSTANCE PublishLifecycle WITH state <- row.status, keyed <- row.keyed
ImplementsLifecycle == Lifecycle!Spec

-----------------------------------------------------------------------------
(* Also with two workers on one queue job, one of them taken for stalled.  *)

\* A job reported confirmed or published has its key, its remote reference and
\* a post at the provider: no stale call can confirm what was not published.
PublishedIsReal ==
    row.status \in {"remote_confirmed", "published"} => row.keyed /\ row.ref /\ posts > 0

\* Once the remote post is recorded the row only moves on to published: no late
\* failure, deferral, claim or user action of another call takes it back.
ConfirmedIsKept ==
    [][row.ref => /\ row'.ref
                  /\ row.status = "published" => row'.status = "published"
                  /\ row'.status \in {"remote_confirmed", "published"}]_vars

\* A failed job has an alert row (insertFinalFailureAudit in both transactions
\* that can fail a job).
FailedIsAlerted == row.status = "failed" => alerted

\* The failure count never exceeds the attempts a queue job has, and a job that
\* can still be claimed has not used them up (the last failure is terminal).
RetryBudget ==
    /\ row.retries <= MaxAttempts
    /\ row.status \notin {"failed", "cancelled"} => row.retries < MaxAttempts

-----------------------------------------------------------------------------
(* What must eventually happen.                                            *)

\* An approved job is eventually published, failed or cancelled. Without worker
\* crashes and database errors it holds.
Settled == row.status \in {"published", "failed", "cancelled"}
EventuallySettled == [](gens > 0 => <>Settled)

-----------------------------------------------------------------------------
(* Statements of the documents that the code does not meet.                *)

\* A call interrupted during the remote request is examined again once its
\* lease has lapsed (docs/editorial-workflow.md:10).
InterruptedRequestIsReexamined ==
    (row.status = "remote_requesting" /\ row.lease = "lapsed")
        ~> (row.lease # "lapsed" \/ row.status # "remote_requesting")
=============================================================================
