--------------------------- MODULE PublishJobStore ---------------------------
(***************************************************************************)
(* The statements that read and write one row of social_publish_jobs, as   *)
(* operators on the row: pg-publish-outbox.repository.ts for the worker,   *)
(* post.service.ts and pg-post.repository.ts for the user.                 *)
(*                                                                         *)
(* A timestamp is kept only as far as the statements compare it with       *)
(* now(): a lease is absent, in force or lapsed; a retry time is absent,   *)
(* ahead or reached; the scheduled time is reached or not.                 *)
(***************************************************************************)
EXTENDS PublishRetryPolicy

InProgress == {"claimed", "remote_requesting", "remote_confirmed"}
Statuses   == InProgress \cup {"waiting", "published", "failed", "retrying", "cancelled"}

Leases  == {"none", "held", "lapsed"}
RetryAt == {"none", "pending", "due"}

\* keyed: remote_request_key IS NOT NULL (its value is a function of the job id).
\* ref:   remote_post_id and published_at are set.
Job == [status : Statuses, keyed : BOOLEAN, lease : Leases, retryAt : RetryAt,
        retries : Nat, due : BOOLEAN, ref : BOOLEAN]

NewJob == [status |-> "waiting", keyed |-> FALSE, lease |-> "none", retryAt |-> "none",
           retries |-> 0, due |-> FALSE, ref |-> FALSE]

-----------------------------------------------------------------------------
(* The worker's statements: WHERE clause, then SET clause.                 *)

Claimable(r) ==
    /\ r.due
    /\ \/ r.status = "waiting"
       \/ r.status = "retrying" /\ r.retryAt = "due"
       \/ r.status = "claimed" /\ r.lease = "lapsed"
       \/ r.status = "remote_requesting" /\ (r.retryAt = "due" \/ r.lease = "lapsed")
       \/ r.status = "remote_confirmed" /\ r.lease # "held"

\* Mutant: a confirmed row is claimed like any other.
ClaimedAnew(r) == [r EXCEPT !.status = "claimed", !.lease = "held", !.retryAt = "none"]
Claimed(r) ==
    [r EXCEPT !.status = IF r.status = "remote_confirmed" THEN @ ELSE "claimed",
              !.lease = "held", !.retryAt = "none"]

\* The key in the statement is the stable key of the job, so its second
\* condition (no key, or the same key) always holds.
Markable(r) == r.status = "claimed"
\* Mutant: the key is not persisted before the write.
MarkedWithoutKey(r) ==
    [r EXCEPT !.status = "remote_requesting", !.lease = "held", !.retryAt = "none"]
Marked(r) ==
    [r EXCEPT !.status = "remote_requesting", !.keyed = TRUE,
              !.lease = "held", !.retryAt = "none"]

\* Mutant: the confirmation does not look at the status.
ConfirmableInAnyStatus(r) == r \in Job
Confirmable(r) == r.status = "remote_requesting"
Confirmed(r) ==
    [r EXCEPT !.status = "remote_confirmed", !.ref = TRUE,
              !.lease = "none", !.retryAt = "none"]

Savable(r) == r.status = "remote_confirmed"
Published(r) == [r EXCEPT !.status = "published", !.lease = "none", !.retryAt = "none"]

\* recordAmbiguousRemoteOutcome and the failure branch of saveExecution.
\* Mutant: a late failure overwrites a confirmed row.
FailableConfirmed(r) == r.status \in InProgress
Failable(r) == r.status \in {"claimed", "remote_requesting"}

\* Mutant: an unresolved outcome drops the key, as a definite one does.
DeferredWithoutKey(r, failures, retryPending) ==
    [r EXCEPT !.status = IF retryPending THEN "remote_requesting" ELSE "failed",
              !.retries = failures, !.lease = "none", !.keyed = FALSE,
              !.retryAt = IF retryPending THEN "pending" ELSE "none"]
Deferred(r, failures, retryPending) ==
    [r EXCEPT !.status = IF retryPending THEN "remote_requesting" ELSE "failed",
              !.retries = failures, !.lease = "none",
              !.retryAt = IF retryPending THEN "pending" ELSE "none"]

Rejected(r, failures, retryPending) ==
    [r EXCEPT !.status = IF retryPending THEN "retrying" ELSE "failed",
              !.retries = failures, !.lease = "none", !.keyed = FALSE,
              !.retryAt = IF retryPending THEN "pending" ELSE "none"]

-----------------------------------------------------------------------------
(* The user's transactions on a post with this one job.                    *)

\* A cancelled job is the whole of its post, so the post is cancelled as well
\* and schedule refuses it.
Schedulable(r) == r.status = "waiting" /\ ~r.keyed
Rescheduled(r) == [r EXCEPT !.due = FALSE]

\* Mutant: cancel looks at the status only.
CancellableByStatus(r) == r.status \in {"waiting", "retrying", "failed"}
Cancellable(r) == r.status \in {"waiting", "retrying", "failed"} /\ ~r.keyed
Cancelled(r) == [r EXCEPT !.status = "cancelled", !.retryAt = "none"]

\* Mutant: retry looks at the status only.
RetriableByStatus(r) == r.status = "failed"
Retriable(r) == r.status = "failed" /\ ~r.keyed /\ ~r.ref
Retried(r) ==
    [r EXCEPT !.status = "waiting", !.due = TRUE, !.retries = 0, !.retryAt = "none"]
=============================================================================
