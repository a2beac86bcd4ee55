----------------------------- MODULE PostSafety -----------------------------
(***************************************************************************)
(* The properties of PostEditorial.                                        *)
(***************************************************************************)
EXTENDS PostEditorial

\* The variables hold values of their types.
TypeOK ==
    /\ post \in [status : {"draft", "scheduled", "completed", "partially_failed", "cancelled"},
                 revision : 1..MaxRevision + 1, text : Texts]
    /\ jobs \in [Jobs -> Row]
    /\ outbox \in [Jobs -> Times \cup {NoRow}]
    /\ usable \subseteq Jobs
    /\ now \in Times
    /\ view \in [Sessions -> [revision : Nat, text : Texts \cup {NoText}]]
    /\ approved \in Texts \cup {NoText}
    /\ copy \in [Jobs -> Texts \cup {NoText}]
    /\ remote \in [Jobs -> Remote]

\* What reaches a platform is the content the approving session had in view
\* (approvedRevision, docs/editorial-workflow.md:7), on every platform the same,
\* whatever other sessions saved, rescheduled or retried in between.
PublishedAsApproved == \A j \in Jobs : remote[j].text \in {NoText, approved}

\* A draft has no queue rows, and its jobs were never touched by a worker
\* (migration 014:1 and the guard of claimPublishJob).
DraftNeverQueued ==
    post.status = "draft" =>
        \A j \in Jobs : outbox[j] = NoRow /\ jobs[j].status = "waiting" /\ remote[j].posts = 0

\* A job of an approved post that waits is queued for exactly its own time: no
\* approval, reschedule or retry leaves it out of the outbox or at an old time.
WaitingIsQueued ==
    post.status # "draft" =>
        \A j \in With(jobs, {"waiting"}) : outbox[j] = jobs[j].at

\* A job a worker has taken up keeps its queue row until it is published or
\* cancelled: without it no later delivery can claim the job (the EXISTS of
\* claimPublishJob).
UnfinishedIsQueued ==
    \A j \in With(jobs, InProgress \cup {"retrying", "failed"}) : outbox[j] # NoRow

\* Nothing is claimed, requested or published before the scheduled time, and the
\* time of a job a worker has touched does not move.
NotBeforeItsTime ==
    \A j \in Jobs : jobs[j].status \notin {"waiting", "cancelled"} => jobs[j].at <= now

\* Cancelling closes the post: what is not published by then is cancelled, is out
\* of the outbox, and may have no post at its provider.
CancelClosesPost ==
    With(jobs, {"cancelled"}) # {} =>
        \A j \in Jobs : \/ jobs[j].status = "published"
                        \/ jobs[j].status = "cancelled" /\ outbox[j] = NoRow /\ remote[j].posts = 0

\* The stored status agrees with the jobs where the guards rely on it: schedule
\* for a cancelled post, the trigger for a waiting job.
StoredStatusIsCurrent ==
    /\ post.status = "cancelled" <=> With(jobs, {"cancelled"}) = Jobs
    /\ With(jobs, {"waiting", "retrying", "failed"} \cup InProgress) # {} =>
           post.status \in {"draft", "scheduled"}

\* Each job, under the user's transactions on all of them, is still the one
\* PublishLifecycle describes and the worker relies on.
Life(j) == INSTANCE PublishLifecycle WITH
    state <- jobs[j].status, keyed <- jobs[j].keyed, open <- remote[j].open, posts <- remote[j].posts
EachJobLives ==
    /\ \A j \in Jobs : Life(j)!Init
    /\ [][\A j \in Jobs : [Life(j)!Next]_(Life(j)!vars)]_vars

-----------------------------------------------------------------------------
(* The inductive invariant of these properties.                            *)

\* A session that has the present revision in view has the present content.
ViewsAreTrue ==
    \A e \in Sessions : /\ view[e].revision <= post.revision
                        /\ view[e].revision = post.revision => view[e].text = post.text

\* What has been approved, queued or read by a worker is the present content.
ContentIsFixed ==
    /\ approved \in {NoText, post.text}
    /\ \A j \in Jobs : /\ outbox[j] # NoRow => approved = post.text
                       /\ copy[j] # NoText => copy[j] = approved
                       /\ jobs[j].status \in InProgress => copy[j] # NoText
                       /\ remote[j].text \in {NoText, copy[j]}
    /\ post.status = "draft" => approved = NoText

\* The key, the status and the provider of one job.
KeyAndProvider ==
    \A j \in Jobs :
        /\ jobs[j].status \in {"waiting", "retrying", "cancelled"} => ~jobs[j].keyed
        /\ jobs[j].status \in {"remote_requesting", "remote_confirmed", "published"} => jobs[j].keyed
        /\ ~jobs[j].keyed => remote[j].open = 0
        /\ remote[j].open = 0 => remote[j].posts = 0

PostInv ==
    /\ TypeOK /\ ViewsAreTrue /\ ContentIsFixed /\ KeyAndProvider
    /\ DraftNeverQueued /\ WaitingIsQueued /\ UnfinishedIsQueued /\ NotBeforeItsTime
    /\ CancelClosesPost /\ StoredStatusIsCurrent

=============================================================================
