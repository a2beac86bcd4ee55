------------------------- MODULE PublishRetryPolicy -------------------------
(***************************************************************************)
(* How a failed provider call is classified, and when it is tried again:   *)
(* publish-failure.ts and publish-retry.policy.ts.                         *)
(***************************************************************************)
EXTENDS Integers

CONSTANT MaxAttempts     \* PUBLISH_MAX_ATTEMPTS: executions of one queue job

ASSUME MaxAttemptsAssumption == MaxAttempts \in Nat \ {0}

\* PublishFailureCode.
FailureCodes == {"TOKEN_EXPIRED", "PERMISSION_DENIED", "RATE_LIMITED", "UPSTREAM_SERVER_ERROR",
                 "NETWORK_ERROR", "INVALID_REQUEST", "UNKNOWN_ERROR"}

\* classifyPublishFailure: only 429, 5xx, network and unclassified errors may be
\* tried again, and of these only 429 proves that nothing was published.
Retryable(code) == code \notin {"TOKEN_EXPIRED", "PERMISSION_DENIED", "INVALID_REQUEST"}
Ambiguous(code) == code \in {"UPSTREAM_SERVER_ERROR", "NETWORK_ERROR", "UNKNOWN_ERROR"}

\* PUBLISH_RETRY_DELAYS_MS has one delay after each failure but the last.
RetryDelays == MaxAttempts - 1

\* Mutant: a fourth retry after the fourth failure.
RetriesOnceTooOften(retryable, failureCount) == retryable /\ failureCount <= RetryDelays + 1
ShouldRetryPublish(retryable, failureCount) == retryable /\ failureCount <= RetryDelays

\* retryDelayForFailure and retryDelayForBullMq index the same increasing list,
\* the first by the job's failure count, the second by BullMQ's own count of
\* attempts. The queue's backoff outlasts next_retry_at when its index is not lower.
BackoffOutlastsRetryAt(attemptsMade, failureCount) == attemptsMade >= failureCount
=============================================================================
