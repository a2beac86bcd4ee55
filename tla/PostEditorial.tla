---------------------------- MODULE PostEditorial ----------------------------
(***************************************************************************)
(* A post with one publish job per target account: the draft, its approval *)
(* and the transactions of the user on all of its jobs at once             *)
(* (post.service.ts, PgPostRepository.mutate, the trigger of migration     *)
(* 014), while workers publish the jobs.                                   *)
(*                                                                         *)
(* A transaction locks the post and its jobs, so each is one action. A     *)
(* session acts on the revision it loaded last, however old it is. What a  *)
(* worker does to its job is as coarse as PublishLifecycle states it.      *)
(***************************************************************************)
EXTENDS Naturals

CONSTANTS
    Jobs,         \* the targets chosen when the post was created
    Sessions,     \* the owner's browser sessions
    Texts,        \* contents a draft may be given
    NoText,       \* nothing loaded, approved, copied or published yet
    NoRow,        \* a job without a row in the outbox
    MaxTime,      \* bound: the clock
    MaxRevision   \* bound: revisions of the post

ASSUME EditorialAssumption ==
    /\ Jobs # {}
    /\ NoText \notin Texts /\ NoRow \notin Nat
    /\ MaxTime \in Nat /\ MaxRevision \in Nat

VARIABLES
    post,      \* the row of posts: stored status, revision, content
    jobs,      \* the rows of social_publish_jobs: status, request key, scheduled_at
    outbox,    \* the scheduled_at of each job's row of social_publish_queue_outbox
    usable,    \* targets whose account is active, unexpired and has its scopes
    now,       \* the clock
    view,      \* the revision and content each session has loaded
    approved,  \* the content the approving session had in view
    copy,      \* the content read with the last claim of each job
    remote     \* at the provider: unresolved writes, posts, and the content posted

vars == <<post, jobs, outbox, usable, now, view, approved, copy, remote>>

InProgress  == {"claimed", "remote_requesting", "remote_confirmed"}
JobStatuses == InProgress \cup {"waiting", "published", "failed", "retrying", "cancelled"}
Times  == 0..MaxTime
Row    == [status : JobStatuses, keyed : BOOLEAN, at : Times]
Remote == [open : Nat, posts : Nat, text : Texts \cup {NoText}]

\* create: a draft, and jobs that wait for the time the request names.
Init ==
    /\ \E text \in Texts : post = [status |-> "draft", revision |-> 1, text |-> text]
    /\ \E t \in Times : jobs = [j \in Jobs |-> [status |-> "waiting", keyed |-> FALSE, at |-> t]]
    /\ outbox = [j \in Jobs |-> NoRow]
    /\ usable = Jobs
    /\ now = 0
    /\ view = [e \in Sessions |-> [revision |-> 0, text |-> NoText]]
    /\ approved = NoText
    /\ copy = [j \in Jobs |-> NoText]
    /\ remote = [j \in Jobs |-> [open |-> 0, posts |-> 0, text |-> NoText]]

-----------------------------------------------------------------------------
With(rows, S) == {j \in Jobs : rows[j].status \in S}

\* Mutant: the early returns in another order.
SummarizeFailedFirst(rows) ==
    IF With(rows, {"failed", "cancelled"}) = Jobs THEN "failed"
    ELSE IF With(rows, {"published"}) = Jobs THEN "completed"
    ELSE IF With(rows, {"failed", "cancelled"}) # {} THEN "partially_failed"
    ELSE "scheduled"

SummarizeStatus(rows) ==
    IF With(rows, {"cancelled"}) = Jobs THEN "cancelled"
    ELSE IF With(rows, {"published"}) = Jobs THEN "completed"
    ELSE IF With(rows, InProgress) # {} THEN "publishing"
    ELSE IF With(rows, {"failed", "cancelled"}) = Jobs THEN "failed"
    ELSE IF With(rows, {"failed", "cancelled"}) # {} THEN "partially_failed"
    ELSE "scheduled"

-----------------------------------------------------------------------------
(* The outbox.                                                             *)

\* The trigger on an UPDATE of a job's status or scheduled_at, with the status
\* its post has by then.
Triggered(old, new, status, queued) ==
    IF new.status = "waiting" /\ status = "scheduled"
    THEN IF old.status = new.status /\ old.at = new.at THEN queued ELSE new.at
    ELSE IF new.status = "cancelled" THEN NoRow ELSE queued

\* Mutant: the trigger alone fills the outbox.
RequeuedByTrigger(from, to, rows) ==
    [j \in Jobs |-> IF rows[j] = jobs[j] THEN outbox[j]
                    ELSE Triggered(jobs[j], rows[j], to, outbox[j])]

\* mutate writes only the jobs that changed, and on approval inserts the rows
\* the trigger has not: those of jobs whose scheduled_at stays as created.
Requeued(from, to, rows) ==
    LET triggered == RequeuedByTrigger(from, to, rows)
    IN  [j \in Jobs |->
            IF from = "draft" /\ to = "scheduled" /\ rows[j].status = "waiting" /\ triggered[j] = NoRow
            THEN rows[j].at ELSE triggered[j]]

-----------------------------------------------------------------------------
(* The user.                                                               *)

\* findOwned, list or preview.
Load(e) ==
    /\ view' = [view EXCEPT ![e] = [revision |-> post.revision, text |-> post.text]]
    /\ UNCHANGED <<post, jobs, outbox, usable, now, approved, copy, remote>>

\* Mutant: the revision is not compared.
MutateAnyRevision(e, status, text, rows) ==
    /\ view[e].revision > 0
    /\ post.revision < MaxRevision
    /\ status = "scheduled" => With(rows, {"waiting"}) \subseteq usable
    /\ post' = [status |-> status, revision |-> post.revision + 1, text |-> text]
    /\ jobs' = rows
    /\ outbox' = Requeued(post.status, status, rows)
    /\ UNCHANGED <<usable, now, view, copy, remote>>

\* mutate: the revision the session sends is compared, the accounts of the jobs
\* that will wait are checked, and the new post and jobs are written.
Mutate(e, status, text, rows) ==
    /\ view[e].revision = post.revision
    /\ post.revision < MaxRevision
    /\ status = "scheduled" => With(rows, {"waiting"}) \subseteq usable
    /\ post' = [status |-> status, revision |-> post.revision + 1, text |-> text]
    /\ jobs' = rows
    /\ outbox' = Requeued(post.status, status, rows)
    /\ UNCHANGED <<usable, now, view, copy, remote>>

Update(e, text) ==
    /\ post.status = "draft"
    /\ Mutate(e, post.status, text, jobs)
    /\ UNCHANGED approved

\* Mutant: the request key is not looked at.
ReschedulableByStatus(row) == row.status \in {"waiting", "failed", "cancelled"}
Reschedulable(row) == row.status \in {"waiting", "cancelled"} /\ ~row.keyed

Schedule(e, t) ==
    /\ t > now
    /\ \A j \in Jobs : Reschedulable(jobs[j])
    /\ post.status # "cancelled"
    /\ Mutate(e, "scheduled", post.text,
              [j \in Jobs |-> IF jobs[j].status = "cancelled" THEN jobs[j]
                              ELSE [jobs[j] EXCEPT !.status = "waiting", !.at = t]])
    /\ approved' = view[e].text

\* Mutant: one job in progress, or left unresolved, does not stop the others.
BlocksNothing(row) == row.status = "remote_confirmed"
BlocksCancel(row) == row.status \in InProgress \/ (row.keyed /\ row.status # "published")

Cancel(e) ==
    /\ \A j \in Jobs : ~BlocksCancel(jobs[j])
    /\ LET rows == [j \in Jobs |-> IF jobs[j].status \in {"waiting", "retrying", "failed"}
                                   THEN [jobs[j] EXCEPT !.status = "cancelled"] ELSE jobs[j]]
       IN  Mutate(e, SummarizeStatus(rows), post.text, rows)
    /\ UNCHANGED approved

\* A failed job has no remote_post_id, so its key decides.
Retry(e, j) ==
    /\ jobs[j].status = "failed" /\ ~jobs[j].keyed
    /\ Mutate(e, "scheduled", post.text,
              [jobs EXCEPT ![j] = [jobs[j] EXCEPT !.status = "waiting", !.at = now]])
    /\ UNCHANGED approved

-----------------------------------------------------------------------------
(* The accounts and the clock.                                             *)

Disconnect(j) ==
    /\ usable' = usable \ {j}
    /\ UNCHANGED <<post, jobs, outbox, now, view, approved, copy, remote>>

Reconnect(j) ==
    /\ usable' = usable \cup {j}
    /\ UNCHANGED <<post, jobs, outbox, now, view, approved, copy, remote>>

Tick ==
    /\ now < MaxTime
    /\ now' = now + 1
    /\ UNCHANGED <<post, jobs, outbox, usable, view, approved, copy, remote>>

-----------------------------------------------------------------------------
(* The workers.                                                            *)

\* Mutant: a claim does not look at the scheduled time.
ClaimEarly(j) ==
    /\ outbox[j] # NoRow /\ post.status # "draft"
    /\ jobs[j].status \in {"waiting", "retrying", "claimed", "remote_requesting"}
    /\ jobs' = [jobs EXCEPT ![j].status = "claimed"]
    /\ copy' = [copy EXCEPT ![j] = post.text]
    /\ UNCHANGED <<post, outbox, usable, now, view, approved, remote>>

\* Mutant: the claim takes the queue row with it.
ClaimConsuming(j) ==
    /\ jobs[j].at <= now
    /\ outbox[j] # NoRow /\ post.status # "draft"
    /\ jobs[j].status \in {"waiting", "retrying", "claimed", "remote_requesting"}
    /\ jobs' = [jobs EXCEPT ![j].status = "claimed"]
    /\ copy' = [copy EXCEPT ![j] = post.text]
    /\ outbox' = [outbox EXCEPT ![j] = NoRow]
    /\ UNCHANGED <<post, usable, now, view, approved, remote>>

\* claimPublishJob for the queue job that the outbox row names.
Claim(j) ==
    /\ jobs[j].at <= now
    /\ outbox[j] # NoRow /\ post.status # "draft"
    /\ jobs[j].status \in {"waiting", "retrying", "claimed", "remote_requesting"}
    /\ jobs' = [jobs EXCEPT ![j].status = "claimed"]
    /\ copy' = [copy EXCEPT ![j] = post.text]
    /\ UNCHANGED <<post, outbox, usable, now, view, approved, remote>>

\* The worker's other statements on its job.
Move(j, from, to, keyed) ==
    /\ jobs[j].status \in from
    /\ jobs' = [jobs EXCEPT ![j] = [jobs[j] EXCEPT !.status = to, !.keyed = keyed]]
    /\ UNCHANGED <<post, outbox, usable, now, view, approved, copy, remote>>

Request(j) == Move(j, {"claimed"}, "remote_requesting", TRUE)
Defer(j)   == \E to \in {"remote_requesting", "failed"} :
                 jobs[j].keyed /\ Move(j, {"claimed", "remote_requesting"}, to, TRUE)
Reject(j)  == \E to \in {"retrying", "failed"} :
                 remote[j].open = 0 /\ Move(j, {"remote_requesting"}, to, FALSE)
Confirm(j) == remote[j].posts > 0 /\ Move(j, {"remote_requesting"}, "remote_confirmed", TRUE)
Finish(j)  == Move(j, {"remote_confirmed"}, "published", TRUE)

\* The provider.
Write(j) ==
    /\ jobs[j].status = "remote_requesting" /\ jobs[j].keyed /\ remote[j].open = 0
    /\ \/ remote' = [remote EXCEPT ![j] = [open |-> 1, posts |-> remote[j].posts + 1, text |-> copy[j]]]
       \/ remote' = [remote EXCEPT ![j].open = 1]
    /\ UNCHANGED <<post, jobs, outbox, usable, now, view, approved, copy>>

Refute(j) ==
    /\ jobs[j].status = "remote_requesting" /\ remote[j].open = 1 /\ remote[j].posts = 0
    /\ remote' = [remote EXCEPT ![j].open = 0]
    /\ UNCHANGED <<post, jobs, outbox, usable, now, view, approved, copy>>

Work(j) == \/ Claim(j) \/ Request(j) \/ Write(j) \/ Refute(j)
           \/ Defer(j) \/ Reject(j) \/ Confirm(j) \/ Finish(j)

-----------------------------------------------------------------------------
User(e) ==
    \/ Load(e) \/ Cancel(e)
    \/ \E text \in Texts : Update(e, text)
    \/ \E t \in Times : Schedule(e, t)
    \/ \E j \in Jobs : Retry(e, j)

Next ==
    \/ \E e \in Sessions : User(e)
    \/ \E j \in Jobs : Work(j) \/ Disconnect(j) \/ Reconnect(j)
    \/ Tick

Spec == Init /\ [][Next]_vars
=============================================================================
