--------------------------- MODULE PublishInvariant ---------------------------
(***************************************************************************)
(* The inductive invariant of PublishWorker for a deployment in which      *)
(* BullMQ takes only dead workers for stalled ones and no adapter repeats  *)
(* a write (as none in src/ does).                                         *)
(***************************************************************************)
EXTENDS PublishSafety

Deployed == LiveStall = FALSE /\ Idempotent = FALSE

\* A worker in a call holds the queue job that called it.
HoldsQueueJob(w) ==
    pc[w] # "idle" =>
        /\ local[w].gen \in Gens
        /\ queue[local[w].gen].state = "active"
        /\ queue[local[w].gen].holder = w

\* While a call works, the row is as the call left it.
RowFollows(w) ==
    /\ pc[w] \in {"reconcile", "mark", "remark"} => row.status = "claimed"
    /\ pc[w] \in {"reconcile", "remark"} => row.keyed
    /\ pc[w] \in {"publish", "inflight", "recheck", "confirm", "reject"}
          => row.status = "remote_requesting" /\ row.keyed
    /\ pc[w] = "defer" => row.status \in {"claimed", "remote_requesting"} /\ row.keyed
    /\ pc[w] = "save" => row.status = "remote_confirmed"

\* What a call may assume of the provider.
ProviderFollows(w) ==
    /\ pc[w] \in {"mark", "publish", "reject"} => open = 0
    /\ pc[w] = "inflight" => open = 1 /\ (posts > 0 => local[w].accepted)
    /\ pc[w] \in {"confirm", "remark"} => posts > 0
    /\ pc[w] = "inflight" /\ local[w].accepted => posts > 0

\* Rows that are not being worked on and not unresolved carry no key, and only
\* confirmed rows a remote reference.
RowShape ==
    /\ row.status \in {"waiting", "retrying", "cancelled"} => ~row.keyed
    /\ row.ref => row.status \in {"remote_confirmed", "published"}

\* Row and provider agree, whoever works.
RowAndProvider ==
    /\ RowShape
    /\ NoBlindRepeat
    /\ posts <= open
    /\ OpenWriteHasKey
    /\ PublishedIsReal

\* The inductive invariant: a current call holds its queue job alone, finds the
\* row as it left it, and a write that may have published has its key in the row.
IInv ==
    /\ TypeOK
    /\ \A w \in Workers : HoldsQueueJob(w) /\ RowFollows(w) /\ ProviderFollows(w)
    /\ OnlyCurrentQueueJobWorks
    /\ RowAndProvider

-----------------------------------------------------------------------------
(* That nothing is forgotten while no worker dies and the database answers: *)
(* what EventuallySettled rests on, without its fairness.                   *)

FaultFree == Deployed /\ MaxCrashes = 0 /\ MaxErrors = 0

\* An approved job that is not settled has its next attempt before it: its queue job
\* will be delivered, and will find the row claimable, or a call is under way that
\* has not ended (docs/publishing-queue.md: retries of BullMQ and next_retry_at).
NextAttemptComes ==
    gens > 0 /\ ~Settled =>
        /\ outbox \in Gens
        /\ \/ queue[outbox].state \in {"absent", "delayed", "backoff"}
           \/ queue[outbox].state = "waiting" /\ Claimable(row)
           \/ \E w \in Workers : local[w].gen = outbox /\ pc[w] \notin {"idle", "return", "terminal"}

\* No delivery of the present queue identifier finds nothing to claim, which would
\* complete the queue job and leave the row to nobody.
NoDeliveryInVain == [][\A w \in Workers : ClaimNothing(w) => local[w].gen # outbox]_vars

\* A failed attempt has left the row to the next one.
AwaitsRetry ==
    /\ row.status \in {"retrying", "remote_requesting"} /\ row.due
    /\ row.lease = "none" /\ row.retryAt # "none"

\* What the state of the present queue job says of the row. BullMQ has counted as many
\* attempts as the row has failures, so its backoff outlasts next_retry_at.
QueueCarries ==
    outbox \in Gens =>
        LET job == queue[outbox] IN
        /\ job.state \in {"absent", "delayed"} =>
              row.status = "waiting" /\ row.retries = 0 /\ job.attempts = 0
        /\ job.state = "waiting" => Claimable(row) /\ job.attempts = row.retries
        /\ job.state = "backoff" => AwaitsRetry /\ job.quiet /\ job.attempts = row.retries
        /\ job.state = "active" =>
              job.holder \in Workers /\ pc[job.holder] # "idle" /\ local[job.holder].gen = outbox
        /\ job.state \in {"completed", "failed"} => Settled

\* What a call for the present queue job knows: how many failures there were, and
\* that it leaves the row settled or to another attempt.
CallCarries(w) ==
    pc[w] # "idle" /\ local[w].gen = outbox =>
        /\ pc[w] = "claim" => Claimable(row)
        /\ pc[w] \in Working \cup {"claim"} => row.due /\ queue[outbox].attempts = row.retries
        /\ pc[w] \in {"reconcile", "mark", "publish", "inflight"} => local[w].retries = row.retries
        /\ pc[w] \in {"recheck", "defer", "reject"} => local[w].retries = row.retries + 1
        /\ pc[w] = "throw" => /\ AwaitsRetry /\ row.retries < MaxAttempts
                              /\ row.retries = queue[outbox].attempts + 1
        /\ pc[w] \in {"return", "terminal"} => Settled

\* Identifiers that were not issued are unused, and a job loses its own only when it
\* is cancelled.
Issued ==
    /\ \A g \in Gens : g > gens => queue[g].state = "absent" /\ queue[g].attempts = 0
    /\ outbox = 0 => gens = 0 \/ row.status = "cancelled"
    /\ row.status = "waiting" => row.retries = 0

\* The inductive invariant, beside IInv.
CarriedOn ==
    /\ crashes = 0 /\ errors = 0
    /\ Issued /\ QueueCarries /\ \A w \in Workers : CallCarries(w)
=============================================================================
