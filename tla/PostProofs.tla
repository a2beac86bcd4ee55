----------------------------- MODULE PostProofs -----------------------------
(***************************************************************************)
(* For any targets, sessions, contents and bounds: the inductive invariant *)
(* of PostEditorial, and with it that what is published was approved, that *)
(* what waits is queued for its time, and that a cancelled post is closed. *)
(***************************************************************************)
EXTENDS PostSafety, TLAPS

\* The share of one job in PostInv.
JobOK(j) ==
    /\ post.status = "draft" =>
           outbox[j] = NoRow /\ jobs[j].status = "waiting" /\ remote[j].posts = 0
    /\ post.status # "draft" /\ jobs[j].status = "waiting" => outbox[j] = jobs[j].at
    /\ jobs[j].status \in InProgress \cup {"retrying", "failed"} => outbox[j] # NoRow
    /\ jobs[j].status \notin {"waiting", "cancelled"} => jobs[j].at <= now
    /\ jobs[j].status \in {"waiting", "retrying", "cancelled"} => ~jobs[j].keyed
    /\ jobs[j].status \in {"remote_requesting", "remote_confirmed", "published"} => jobs[j].keyed
    /\ ~jobs[j].keyed => remote[j].open = 0
    /\ remote[j].open = 0 => remote[j].posts = 0
    /\ outbox[j] # NoRow => approved = post.text
    /\ copy[j] # NoText => copy[j] = approved
    /\ jobs[j].status \in InProgress => copy[j] # NoText
    /\ remote[j].text \in {NoText, copy[j]}

\* The share of the post.
ApprovalOK ==
    /\ approved \in {NoText, post.text}
    /\ post.status = "draft" => approved = NoText

Done(k) == \/ jobs[k].status = "published"
           \/ jobs[k].status = "cancelled" /\ outbox[k] = NoRow /\ remote[k].posts = 0
ClosedOK == (\E j \in Jobs : jobs[j].status = "cancelled") => \A k \in Jobs : Done(k)

Ended == {"published", "cancelled"}
StoredOK ==
    /\ post.status = "cancelled" <=> \A j \in Jobs : jobs[j].status = "cancelled"
    /\ \A j \in Jobs : jobs[j].status \notin Ended => post.status \in {"draft", "scheduled"}

Parts == /\ TypeOK /\ ViewsAreTrue /\ ApprovalOK /\ ClosedOK /\ StoredOK
         /\ \A j \in Jobs : JobOK(j)

-----------------------------------------------------------------------------
\* Row types, as the other proofs use them.
LEMMA RowFields ==
    ASSUME TypeOK, NEW j \in Jobs
    PROVE  /\ jobs[j] \in Row /\ jobs[j].status \in JobStatuses
           /\ jobs[j].keyed \in BOOLEAN /\ jobs[j].at \in Times
           /\ remote[j] \in Remote
  BY DEF TypeOK, Row

\* PostInv, told job by job.
LEMMA PartsAreInv == TypeOK => (PostInv <=> Parts)
<1> SUFFICES ASSUME TypeOK PROVE PostInv <=> Parts
  OBVIOUS
<1>1. CancelClosesPost <=> ClosedOK
  <2>1. With(jobs, {"cancelled"}) # {} <=> \E j \in Jobs : jobs[j].status = "cancelled"
    BY DEF With
  <2> QED
    BY <2>1 DEF CancelClosesPost, ClosedOK, Done
<1>2. StoredStatusIsCurrent <=> StoredOK
  <2>1. With(jobs, {"cancelled"}) = Jobs <=> \A j \in Jobs : jobs[j].status = "cancelled"
    BY DEF With
  <2>2. With(jobs, {"waiting", "retrying", "failed"} \cup InProgress) # {}
          <=> \E j \in Jobs : jobs[j].status \notin Ended
    BY RowFields DEF With, Ended, JobStatuses, InProgress
  <2> QED
    BY <2>1, <2>2 DEF StoredStatusIsCurrent, StoredOK
<1>3. /\ ContentIsFixed /\ KeyAndProvider /\ DraftNeverQueued /\ WaitingIsQueued
      /\ UnfinishedIsQueued /\ NotBeforeItsTime
      <=> ApprovalOK /\ \A j \in Jobs : JobOK(j)
  <2>1. UnfinishedIsQueued <=> \A j \in Jobs : jobs[j].status \in InProgress \cup {"retrying", "failed"} => outbox[j] # NoRow
    BY DEF UnfinishedIsQueued, With
  <2>2. WaitingIsQueued <=> \A j \in Jobs : post.status # "draft" /\ jobs[j].status = "waiting" => outbox[j] = jobs[j].at
    BY DEF WaitingIsQueued, With
  <2> QED
    BY <2>1, <2>2 DEF ContentIsFixed, KeyAndProvider, DraftNeverQueued, NotBeforeItsTime, ApprovalOK, JobOK
<1> QED
  BY <1>1, <1>2, <1>3 DEF PostInv, Parts

\* A draft just created.
LEMMA PostInit == Init => Parts
<1> SUFFICES ASSUME Init PROVE Parts
  OBVIOUS
<1> USE EditorialAssumption DEF EditorialAssumption, Init
<1>1. TypeOK
  BY DEF TypeOK, Row, Remote, Times, JobStatuses
<1>2. ViewsAreTrue
  BY DEF ViewsAreTrue
<1>3. ApprovalOK /\ ClosedOK /\ StoredOK
  BY DEF ApprovalOK, ClosedOK, StoredOK, Ended
<1>4. \A j \in Jobs : JobOK(j)
  <2> SUFFICES ASSUME NEW j \in Jobs PROVE JobOK(j)
    OBVIOUS
  <2>1. jobs[j].status = "waiting" /\ jobs[j].keyed = FALSE /\ post.status = "draft"
    OBVIOUS
  <2>2. outbox[j] = NoRow /\ copy[j] = NoText /\ remote[j] = [open |-> 0, posts |-> 0, text |-> NoText]
    OBVIOUS
  <2> QED
    BY <2>1, <2>2 DEF JobOK, InProgress
<1> QED
  BY <1>1, <1>2, <1>3, <1>4 DEF Parts

-----------------------------------------------------------------------------
(* Workers and the provider.                                               *)

\* What a step of j's worker or provider leaves alone, and where it goes.
WorkStep(j) ==
    /\ UNCHANGED <<post, outbox, usable, now, view, approved>>
    /\ jobs' \in [Jobs -> Row] /\ copy' \in [Jobs -> Texts \cup {NoText}] /\ remote' \in [Jobs -> Remote]
    /\ \A k \in Jobs \ {j} : jobs'[k] = jobs[k] /\ copy'[k] = copy[k] /\ remote'[k] = remote[k]
    /\ jobs[j].status \notin Ended
    /\ jobs'[j].status # "cancelled"

\* Such a step keeps everything if it keeps what is said of j.
LEMMA WorkFrame ==
    ASSUME Parts, NEW j \in Jobs, WorkStep(j), JobOK(j)'
    PROVE  Parts'
<1>1. TypeOK'
  BY DEF WorkStep, Parts, TypeOK
<1>2. ViewsAreTrue' /\ ApprovalOK'
  BY DEF WorkStep, Parts, ViewsAreTrue, ApprovalOK
<1>3. \A k \in Jobs : JobOK(k)'
  BY DEF WorkStep, Parts, JobOK
<1>4. ~\E k \in Jobs : jobs[k].status = "cancelled"
  BY DEF WorkStep, Parts, ClosedOK, Done, Ended
<1>5. ClosedOK'
  BY <1>4 DEF WorkStep, ClosedOK
<1>6. StoredOK'
  BY <1>4 DEF WorkStep, Parts, StoredOK
<1> QED
  BY <1>1, <1>2, <1>3, <1>5, <1>6 DEF Parts

LEMMA ClaimKeeps == ASSUME Parts, NEW j \in Jobs, Claim(j) PROVE Parts'
<1>1. JobOK(j) /\ TypeOK /\ jobs[j] \in Row /\ post.text \in Texts /\ ApprovalOK
  BY RowFields DEF Parts, TypeOK
<1>2. jobs'[j].status = "claimed" /\ jobs'[j].keyed = jobs[j].keyed /\ jobs'[j].at = jobs[j].at
  BY <1>1 DEF Claim, TypeOK, Row
<1>3. WorkStep(j)
  BY <1>1 DEF Claim, WorkStep, TypeOK, Row, JobStatuses, InProgress, Ended
<1>4. copy'[j] = post.text /\ remote' = remote /\ approved = post.text
  BY <1>1 DEF Claim, TypeOK, JobOK
<1>5. JobOK(j)'
  <2>1. remote[j].text \in {NoText, copy'[j]}
    BY <1>1, <1>4 DEF JobOK
  <2> QED
    BY <1>1, <1>2, <1>4, <2>1, EditorialAssumption DEF Claim, JobOK, InProgress, EditorialAssumption
<1> QED
  BY <1>3, <1>5, WorkFrame

\* The worker's other statements.
LEMMA MoveKeeps ==
    ASSUME Parts, NEW j \in Jobs, NEW from, NEW to \in JobStatuses \ {"waiting", "cancelled"},
           NEW keyed \in BOOLEAN,
           Move(j, from, to, keyed), from \subseteq InProgress,
           to \in {"remote_requesting", "remote_confirmed", "published"} => keyed,
           to = "retrying" => ~keyed,
           ~keyed => remote[j].open = 0
    PROVE  Parts'
<1>1. JobOK(j) /\ TypeOK /\ jobs[j] \in Row
  BY RowFields DEF Parts
<1>2. jobs'[j].status = to /\ jobs'[j].keyed = keyed /\ jobs'[j].at = jobs[j].at /\ jobs[j].status \in InProgress
  BY <1>1 DEF Move, TypeOK, Row
<1>3. WorkStep(j)
  BY <1>1, <1>2 DEF Move, WorkStep, TypeOK, Row, InProgress, Ended
<1>4. JobOK(j)'
  BY <1>1, <1>2 DEF Move, JobOK, InProgress
<1> QED
  BY <1>3, <1>4, WorkFrame

LEMMA ProviderKeeps == ASSUME Parts, NEW j \in Jobs, Write(j) \/ Refute(j) PROVE Parts'
<1>1. JobOK(j) /\ TypeOK /\ remote[j] \in Remote
  BY RowFields DEF Parts
<1>2. jobs[j].status = "remote_requesting"
  BY DEF Write, Refute
<1>3. UNCHANGED <<post, jobs, outbox, usable, now, view, approved, copy>>
  BY DEF Write, Refute
<1>4. CASE Write(j)
  <2>1. /\ remote' \in [Jobs -> Remote]
        /\ remote'[j].open = 1 /\ remote'[j].text \in {remote[j].text, copy[j]}
        /\ \A k \in Jobs \ {j} : remote'[k] = remote[k]
    <3>1. CASE remote' = [remote EXCEPT ![j] = [open |-> 1, posts |-> remote[j].posts + 1, text |-> copy[j]]]
      BY <1>1, <3>1 DEF TypeOK, Remote
    <3>2. CASE remote' = [remote EXCEPT ![j].open = 1]
      BY <1>1, <3>2 DEF TypeOK, Remote
    <3> QED
      BY <1>4, <3>1, <3>2 DEF Write
  <2>2. WorkStep(j)
    BY <1>1, <1>2, <1>3, <2>1 DEF WorkStep, TypeOK, Ended
  <2>3. JobOK(j)'
    BY <1>1, <1>2, <1>3, <1>4, <2>1 DEF JobOK, Write, InProgress
  <2> QED
    BY <2>2, <2>3, WorkFrame
<1>5. CASE Refute(j)
  <2>1. /\ remote' \in [Jobs -> Remote]
        /\ remote'[j].posts = 0 /\ remote'[j].text = remote[j].text
        /\ \A k \in Jobs \ {j} : remote'[k] = remote[k]
    BY <1>1, <1>5 DEF Refute, TypeOK, Remote
  <2>2. WorkStep(j)
    BY <1>1, <1>2, <1>3, <2>1 DEF WorkStep, TypeOK, Ended
  <2>3. JobOK(j)'
    BY <1>1, <1>2, <1>3, <2>1 DEF JobOK, InProgress
  <2> QED
    BY <2>2, <2>3, WorkFrame
<1> QED
  BY <1>4, <1>5

LEMMA WorkKeeps == ASSUME Parts, NEW j \in Jobs, Work(j) PROVE Parts'
<1>1. JobOK(j) /\ jobs[j].keyed \in BOOLEAN
  BY RowFields DEF Parts
<1> USE DEF JobStatuses, InProgress
<1>2. CASE Request(j)
  <2>1. Move(j, {"claimed"}, "remote_requesting", TRUE)
    BY <1>2 DEF Request
  <2>2. {"claimed"} \subseteq InProgress /\ "remote_requesting" \in JobStatuses \ {"waiting", "cancelled"}
    OBVIOUS
  <2> QED
    BY <2>1, <2>2, MoveKeeps
<1>3. CASE Defer(j)
  BY <1>3, MoveKeeps DEF Defer
<1>4. CASE Reject(j)
  BY <1>4, MoveKeeps DEF Reject
<1>5. CASE Confirm(j)
  <2>1. Move(j, {"remote_requesting"}, "remote_confirmed", TRUE)
    BY <1>5 DEF Confirm
  <2>2. {"remote_requesting"} \subseteq InProgress /\ "remote_confirmed" \in JobStatuses \ {"waiting", "cancelled"}
    OBVIOUS
  <2> QED
    BY <2>1, <2>2, MoveKeeps
<1>6. CASE Finish(j)
  <2>1. Move(j, {"remote_confirmed"}, "published", TRUE)
    BY <1>6 DEF Finish
  <2>2. {"remote_confirmed"} \subseteq InProgress /\ "published" \in JobStatuses \ {"waiting", "cancelled"}
    OBVIOUS
  <2> QED
    BY <2>1, <2>2, MoveKeeps
<1> QED
  BY <1>2, <1>3, <1>4, <1>5, <1>6, ClaimKeeps, ProviderKeeps DEF Work

-----------------------------------------------------------------------------
(* The user, the accounts and the clock.                                   *)

\* What Requeued makes of the outbox row of one job.
LEMMA RequeuedRow ==
    ASSUME TypeOK, NEW status, NEW rows \in [Jobs -> Row], NEW j \in Jobs
    PROVE  LET row == Requeued(post.status, status, rows)[j]
           IN  /\ row \in {outbox[j], NoRow, rows[j].at}
               /\ rows[j] = jobs[j] /\ (post.status # "draft" \/ status # "scheduled") => row = outbox[j]
               /\ rows[j].status = "cancelled" /\ jobs[j].status # "cancelled" => row = NoRow
               /\ /\ rows[j].status = "waiting" /\ status = "scheduled"
                  /\ \/ post.status = "draft" /\ outbox[j] = NoRow
                     \/ jobs[j].status # "waiting"
                     \/ outbox[j] = jobs[j].at
                  => row = rows[j].at
<1>1. jobs[j] \in Row /\ rows[j] \in Row
  BY RowFields
<1> QED
  BY <1>1 DEF Requeued, RequeuedByTrigger, Triggered

\* The statuses a transaction can store.
PostStatuses == {"draft", "scheduled", "completed", "partially_failed", "cancelled"}

\* The post, the sessions' views and the types after any transaction.
LEMMA MutateFrame ==
    ASSUME Parts, NEW e \in Sessions, NEW status \in PostStatuses, NEW text \in Texts,
           NEW rows \in [Jobs -> Row], Mutate(e, status, text, rows),
           approved' \in Texts \cup {NoText}
    PROVE  /\ TypeOK' /\ ViewsAreTrue'
           /\ post'.status = status /\ post'.text = text
           /\ jobs' = rows /\ outbox' = Requeued(post.status, status, rows)
           /\ UNCHANGED <<usable, now, view, copy, remote>>
           /\ view[e].text = post.text
<1>1. TypeOK /\ ViewsAreTrue /\ post.revision \in Nat
  BY EditorialAssumption DEF Parts, TypeOK, EditorialAssumption
<1>2. post' = [status |-> status, revision |-> post.revision + 1, text |-> text]
      /\ post.revision < MaxRevision
  BY DEF Mutate
<1>3. outbox' \in [Jobs -> Times \cup {NoRow}]
  <2>1. \A j \in Jobs : outbox[j] \in Times \cup {NoRow} /\ rows[j].at \in Times
    BY <1>1 DEF TypeOK, Row
  <2>2. \A j \in Jobs : Requeued(post.status, status, rows)[j] \in Times \cup {NoRow}
    BY <1>1, <2>1, RequeuedRow
  <2>3. outbox' = [j \in Jobs |-> Requeued(post.status, status, rows)[j]]
    BY DEF Mutate, Requeued
  <2> QED
    BY <2>2, <2>3
<1>4. TypeOK'
  <2>1. post' \in [status : PostStatuses, revision : 1..MaxRevision + 1, text : Texts]
    BY <1>1, <1>2, EditorialAssumption DEF EditorialAssumption, TypeOK
  <2> QED
    BY <1>1, <1>3, <2>1 DEF Mutate, TypeOK, PostStatuses
<1>5. ViewsAreTrue'
  <2>1. \A x \in Sessions : view[x].revision \in Nat
    BY <1>1 DEF TypeOK
  <2> QED
    BY <1>1, <1>2, <2>1 DEF Mutate, ViewsAreTrue
<1>6. view[e].text = post.text
  BY <1>1 DEF Mutate, ViewsAreTrue
<1> QED
  BY <1>2, <1>4, <1>5, <1>6 DEF Mutate

LEMMA UpdateKeeps == ASSUME Parts, NEW e \in Sessions, NEW text \in Texts, Update(e, text) PROVE Parts'
<1>1. TypeOK /\ jobs \in [Jobs -> Row] /\ post.status = "draft" /\ approved' = approved
      /\ approved = NoText
  BY DEF Parts, TypeOK, Update, ApprovalOK
<1>2. Mutate(e, "draft", text, jobs)
  BY <1>1 DEF Update
<1>3. /\ TypeOK' /\ ViewsAreTrue' /\ post'.status = "draft" /\ post'.text = text /\ jobs' = jobs
      /\ outbox' = Requeued("draft", "draft", jobs)
      /\ UNCHANGED <<usable, now, view, copy, remote>>
  BY <1>1, <1>2, MutateFrame DEF PostStatuses, TypeOK
<1>4. \A j \in Jobs : outbox'[j] = outbox[j]
  BY <1>1, <1>3, RequeuedRow
<1>5. \A j \in Jobs : JobOK(j)'
  BY <1>1, <1>3, <1>4 DEF Parts, JobOK, InProgress
<1>6. ApprovalOK' /\ ClosedOK' /\ StoredOK'
  BY <1>1, <1>3, <1>4 DEF Parts, ApprovalOK, ClosedOK, Done, StoredOK
<1> QED
  BY <1>3, <1>5, <1>6 DEF Parts

LEMMA ScheduleKeeps == ASSUME Parts, NEW e \in Sessions, NEW t \in Times, Schedule(e, t) PROVE Parts'
<1>1. TypeOK /\ post.text \in Texts /\ ApprovalOK /\ \A j \in Jobs : JobOK(j) /\ jobs[j] \in Row
  BY RowFields DEF Parts, TypeOK
<1>2. \A j \in Jobs : jobs[j].status = "waiting" /\ ~jobs[j].keyed
  BY <1>1 DEF Schedule, Reschedulable, Parts, ClosedOK, Done, StoredOK
<1> DEFINE rows == [j \in Jobs |-> IF jobs[j].status = "cancelled" THEN jobs[j]
                                   ELSE [jobs[j] EXCEPT !.status = "waiting", !.at = t]]
<1>3. rows \in [Jobs -> Row] /\ \A j \in Jobs : /\ rows[j].status = "waiting" /\ rows[j].at = t
                                              /\ rows[j].keyed = jobs[j].keyed
  BY <1>1, <1>2 DEF Row, JobStatuses
<1>4. Mutate(e, "scheduled", post.text, rows) /\ approved' = view[e].text
  BY DEF Schedule
<1> HIDE DEF rows
<1>5. approved' \in Texts \cup {NoText}
  BY <1>1, <1>4 DEF TypeOK
<1>6. /\ TypeOK' /\ ViewsAreTrue' /\ post'.status = "scheduled" /\ post'.text = post.text /\ jobs' = rows
      /\ outbox' = Requeued(post.status, "scheduled", rows)
      /\ UNCHANGED <<usable, now, view, copy, remote>>
      /\ approved' = post.text
  BY <1>1, <1>3, <1>4, <1>5, MutateFrame DEF PostStatuses
<1>7. \A j \in Jobs : outbox'[j] = t
  BY <1>1, <1>2, <1>3, <1>6, RequeuedRow DEF JobOK
<1>8. \A j \in Jobs : copy[j] # NoText => copy[j] = post.text
  BY <1>1 DEF JobOK, ApprovalOK
<1>9. \A j \in Jobs : JobOK(j)'
  BY <1>1, <1>2, <1>3, <1>6, <1>7, <1>8 DEF JobOK, InProgress
<1>10. ApprovalOK' /\ ClosedOK' /\ StoredOK'
  BY <1>3, <1>6, EditorialAssumption DEF ApprovalOK, ClosedOK, StoredOK, EditorialAssumption
<1> QED
  BY <1>6, <1>9, <1>10 DEF Parts

\* The status cancel stores once every job is published or cancelled.
LEMMA SummaryOfEnded ==
    ASSUME NEW rows \in [Jobs -> Row], \A j \in Jobs : rows[j].status \in Ended
    PROVE  /\ SummarizeStatus(rows) \in {"completed", "partially_failed", "cancelled"}
           /\ SummarizeStatus(rows) = "cancelled" <=> \A j \in Jobs : rows[j].status = "cancelled"
<1>1. With(rows, {"cancelled"}) = Jobs <=> \A j \in Jobs : rows[j].status = "cancelled"
  BY DEF With
<1>2. With(rows, InProgress) = {}
  BY DEF With, InProgress, Ended
<1>3. With(rows, {"failed", "cancelled"}) = With(rows, {"cancelled"})
  BY DEF With, Ended
<1>4. With(rows, {"cancelled"}) = {} => With(rows, {"published"}) = Jobs
  BY DEF With, Ended
<1> QED
  BY <1>1, <1>2, <1>3, <1>4 DEF SummarizeStatus

LEMMA CancelKeeps == ASSUME Parts, NEW e \in Sessions, Cancel(e) PROVE Parts'
<1>1. TypeOK /\ post.text \in Texts /\ ApprovalOK /\ \A j \in Jobs : JobOK(j) /\ jobs[j] \in Row
  BY RowFields DEF Parts, TypeOK
<1>2. \A j \in Jobs : jobs[j].status \notin InProgress /\ (jobs[j].keyed => jobs[j].status = "published")
  BY DEF Cancel, BlocksCancel
<1> DEFINE rows == [j \in Jobs |-> IF jobs[j].status \in {"waiting", "retrying", "failed"}
                                   THEN [jobs[j] EXCEPT !.status = "cancelled"] ELSE jobs[j]]
           status == SummarizeStatus(rows)
<1>3. /\ rows \in [Jobs -> Row]
      /\ \A j \in Jobs :
            /\ rows[j].keyed = jobs[j].keyed /\ rows[j].at = jobs[j].at
            /\ \/ jobs[j].status \in {"waiting", "retrying", "failed"} /\ rows[j].status = "cancelled"
               \/ jobs[j].status \in Ended /\ rows[j] = jobs[j]
  BY <1>1, <1>2 DEF Row, JobStatuses, InProgress, Ended
<1>4. Mutate(e, status, post.text, rows) /\ approved' = approved
  BY DEF Cancel
<1> HIDE DEF rows
<1>5. \A j \in Jobs : rows[j].status \in Ended
  BY <1>3 DEF Ended
<1>6. /\ status \in {"completed", "partially_failed", "cancelled"}
      /\ status = "cancelled" <=> \A j \in Jobs : rows[j].status = "cancelled"
  BY <1>3, <1>5, SummaryOfEnded
<1> HIDE DEF status
<1>7. /\ TypeOK' /\ ViewsAreTrue' /\ post'.status = status /\ post'.text = post.text /\ jobs' = rows
      /\ outbox' = Requeued(post.status, status, rows)
      /\ UNCHANGED <<usable, now, view, copy, remote>>
  BY <1>1, <1>3, <1>4, <1>6, MutateFrame DEF PostStatuses, TypeOK
<1>8. \A j \in Jobs : \/ jobs[j].status \notin Ended /\ outbox'[j] = NoRow
                      \/ jobs[j].status \in Ended /\ outbox'[j] = outbox[j]
  BY <1>1, <1>3, <1>6, <1>7, RequeuedRow DEF Ended
<1>9. \A j \in Jobs : outbox'[j] \in {outbox[j], NoRow}
  BY <1>8
<1>10. \A j \in Jobs : JobOK(j)'
  BY <1>1, <1>2, <1>3, <1>5, <1>6, <1>7, <1>9, <1>4, <1>8 DEF JobOK, InProgress, Ended
<1>11. \A j \in Jobs : rows[j].status = "cancelled" => outbox'[j] = NoRow /\ remote[j].posts = 0
  <2> SUFFICES ASSUME NEW j \in Jobs, rows[j].status = "cancelled"
               PROVE  outbox'[j] = NoRow /\ remote[j].posts = 0
    OBVIOUS
  <2>1. CASE jobs[j].status = "cancelled"
    BY <1>8, <2>1 DEF Parts, ClosedOK, Done, Ended
  <2>2. CASE jobs[j].status # "cancelled"
    BY <1>1, <1>2, <1>3, <1>8, <2>2 DEF JobOK, Ended
  <2> QED
    BY <2>1, <2>2
<1>12. ApprovalOK' /\ ClosedOK' /\ StoredOK'
  BY <1>1, <1>4, <1>5, <1>6, <1>7, <1>11 DEF ApprovalOK, ClosedOK, Done, StoredOK, Ended
<1> QED
  BY <1>7, <1>10, <1>12 DEF Parts

LEMMA RetryKeeps == ASSUME Parts, NEW e \in Sessions, NEW j \in Jobs, Retry(e, j) PROVE Parts'
<1>1. TypeOK /\ post.text \in Texts /\ ApprovalOK /\ \A k \in Jobs : JobOK(k) /\ jobs[k] \in Row
  BY RowFields DEF Parts, TypeOK
<1>2. jobs[j].status = "failed" /\ ~jobs[j].keyed /\ post.status = "scheduled" /\ now \in Times
  BY <1>1 DEF Retry, JobOK, Parts, StoredOK, Ended, TypeOK
<1> DEFINE rows == [jobs EXCEPT ![j] = [jobs[j] EXCEPT !.status = "waiting", !.at = now]]
<1>3. /\ rows \in [Jobs -> Row]
      /\ rows[j].status = "waiting" /\ rows[j].at = now /\ rows[j].keyed = jobs[j].keyed
      /\ \A k \in Jobs \ {j} : rows[k] = jobs[k]
  BY <1>1, <1>2 DEF TypeOK, Row, JobStatuses
<1>4. Mutate(e, "scheduled", post.text, rows) /\ approved' = approved
  BY DEF Retry
<1> HIDE DEF rows
<1>5. /\ TypeOK' /\ ViewsAreTrue' /\ post'.status = "scheduled" /\ post'.text = post.text /\ jobs' = rows
      /\ outbox' = Requeued("scheduled", "scheduled", rows)
      /\ UNCHANGED <<usable, now, view, copy, remote>>
  BY <1>1, <1>2, <1>3, <1>4, MutateFrame DEF PostStatuses, TypeOK
<1>6. outbox'[j] = now /\ \A k \in Jobs \ {j} : outbox'[k] = outbox[k]
  BY <1>1, <1>2, <1>3, <1>5, RequeuedRow

<1>7. approved = post.text
  BY <1>1, <1>2, EditorialAssumption DEF JobOK, EditorialAssumption
<1>8. \A k \in Jobs : JobOK(k)'
  <2>1. JobOK(j)'
    BY <1>1, <1>2, <1>3, <1>4, <1>5, <1>6, <1>7, EditorialAssumption DEF JobOK, InProgress, Times, EditorialAssumption
  <2>2. ASSUME NEW k \in Jobs \ {j} PROVE JobOK(k)'
    BY <1>1, <1>2, <1>3, <1>4, <1>5, <1>6, <1>7 DEF JobOK, InProgress
  <2> QED
    BY <2>1, <2>2
<1>9. \A k \in Jobs : jobs'[k].status # "cancelled"
  BY <1>2, <1>3, <1>5 DEF Parts, ClosedOK, Done
<1>10. ApprovalOK' /\ ClosedOK' /\ StoredOK'
  BY <1>4, <1>5, <1>7, <1>9, EditorialAssumption DEF EditorialAssumption, ApprovalOK, ClosedOK, StoredOK, Parts
<1> QED
  BY <1>5, <1>8, <1>10 DEF Parts

\* Loading, the accounts and the clock.
LEMMA AroundKeeps ==
    ASSUME Parts,
           \/ \E e \in Sessions : Load(e)
           \/ \E j \in Jobs : Disconnect(j) \/ Reconnect(j)
           \/ Tick
    PROVE  Parts'
<1>1. TypeOK /\ ViewsAreTrue /\ \A j \in Jobs : jobs[j].at \in Times
  BY RowFields DEF Parts
<1>2. UNCHANGED <<post, jobs, outbox, approved, copy, remote>>
  BY DEF Load, Disconnect, Reconnect, Tick
<1>3. ApprovalOK' /\ ClosedOK' /\ StoredOK'
  BY <1>2 DEF Parts, ApprovalOK, ClosedOK, Done, StoredOK
<1>4. now' \in Times /\ now \in Times /\ now <= now'
  BY <1>1, EditorialAssumption DEF TypeOK, Times, Load, Disconnect, Reconnect, Tick, EditorialAssumption
<1>5. \A j \in Jobs : JobOK(j)'
  BY <1>1, <1>2, <1>4 DEF Parts, JobOK, Times
<1>6. usable' \subseteq Jobs
  BY <1>1 DEF TypeOK, Load, Disconnect, Reconnect, Tick
<1>7. view' \in [Sessions -> [revision : Nat, text : Texts \cup {NoText}]] /\ ViewsAreTrue'
  <2>1. CASE \E e \in Sessions : Load(e)
    <3>1. PICK e \in Sessions : Load(e)
      BY <2>1
    <3>2. post.revision \in Nat /\ post.text \in Texts
      BY <1>1, EditorialAssumption DEF TypeOK, EditorialAssumption
    <3> QED
      BY <1>1, <3>1, <3>2 DEF Load, TypeOK, ViewsAreTrue
  <2>2. CASE view' = view
    BY <1>1, <1>2, <2>2 DEF TypeOK, ViewsAreTrue
  <2> QED
    BY <2>1, <2>2 DEF Disconnect, Reconnect, Tick
<1>8. TypeOK'
  BY <1>1, <1>2, <1>4, <1>6, <1>7 DEF TypeOK
<1> QED
  BY <1>3, <1>5, <1>7, <1>8 DEF Parts

-----------------------------------------------------------------------------
LEMMA PostStep == Parts /\ [Next]_vars => Parts'
<1> SUFFICES ASSUME Parts, [Next]_vars PROVE Parts'
  OBVIOUS
<1>1. ASSUME NEW e \in Sessions, User(e) PROVE Parts'
  <2>1. post.text \in Texts
    BY DEF Parts, TypeOK
  <2> QED
    BY <1>1, UpdateKeeps, ScheduleKeeps, CancelKeeps, RetryKeeps, AroundKeeps DEF User
<1>2. ASSUME NEW j \in Jobs, Work(j) \/ Disconnect(j) \/ Reconnect(j) PROVE Parts'
  BY <1>2, WorkKeeps, AroundKeeps
<1>3. CASE Tick
  BY <1>3, AroundKeeps
<1>4. CASE UNCHANGED vars
  BY <1>4 DEF vars, Parts, TypeOK, ViewsAreTrue, ApprovalOK, ClosedOK, Done, StoredOK, JobOK
<1> QED
  BY <1>1, <1>2, <1>3, <1>4 DEF Next

\* The inductive invariant: in every reachable state of any number of jobs and
\* sessions, all of PostSafety's invariants hold together.
THEOREM PostInvariant == Spec => []PostInv
<1>1. Init => Parts
  BY PostInit
<1>2. Parts /\ [Next]_vars => Parts'
  BY PostStep
<1>3. Parts => PostInv
  BY PartsAreInv DEF Parts
<1> QED
  BY <1>1, <1>2, <1>3, PTL DEF Spec

\* What reaches a platform is the content the approving session had in view,
\* the same on every platform.
THEOREM ApprovedContentOnly == Spec => []PublishedAsApproved
<1>1. Parts => PublishedAsApproved
  BY DEF Parts, JobOK, PublishedAsApproved
<1> QED
  BY <1>1, PostInit, PostStep, PTL DEF Spec

\* A waiting job of an approved post is queued for exactly its time.
THEOREM WaitingJobsAreQueued == Spec => []WaitingIsQueued
<1>1. PostInv => WaitingIsQueued
  BY DEF PostInv
<1> QED
  BY <1>1, PostInvariant, PTL

\* A cancelled post has published jobs and closed jobs, and nothing else.
THEOREM CancelIsFinal == Spec => []CancelClosesPost
<1>1. PostInv => CancelClosesPost
  BY DEF PostInv
<1> QED
  BY <1>1, PostInvariant, PTL

\* The types of PostEditorial: rows, queue, views and provider keep their shape.
THEOREM TypeCorrect == Spec => []TypeOK
<1>1. PostInv => TypeOK
  BY DEF PostInv
<1> QED
  BY <1>1, PostInvariant, PTL

\* Whatever a worker took up and has not finished, failed jobs included, has a row
\* in the outbox: the EXISTS of claimPublishJob lets a later delivery claim it.
THEOREM UnfinishedJobsAreQueued == Spec => []UnfinishedIsQueued
<1>1. PostInv => UnfinishedIsQueued
  BY DEF PostInv
<1> QED
  BY <1>1, PostInvariant, PTL

\* Neither an approval nor a reschedule nor a retry lets a worker touch a job
\* before its scheduled_at, and none moves that time later under it.
THEOREM NothingBeforeItsTime == Spec => []NotBeforeItsTime
<1>1. PostInv => NotBeforeItsTime
  BY DEF PostInv
<1> QED
  BY <1>1, PostInvariant, PTL

-----------------------------------------------------------------------------
(* Refinement: each job lives the life of PublishLifecycle. A transaction  *)
(* of the user is a step, or a stutter, of every job's life at once.       *)

LifeStep(j) == [Life(j)!Next]_(Life(j)!vars)

\* A job whose status, key and provider stay as they are lives on unchanged.
LEMMA SameLife ==
    ASSUME NEW j \in Jobs,
           jobs'[j].status = jobs[j].status, jobs'[j].keyed = jobs[j].keyed, remote'[j] = remote[j]
    PROVE  LifeStep(j)
  BY DEF LifeStep, Life!vars

\* A worker's step, or the provider's, is a step of its own job and of no other.
LEMMA WorkLives ==
    ASSUME Parts, NEW j \in Jobs, NEW k \in Jobs, Work(k)
    PROVE  LifeStep(j)
<1>1. jobs \in [Jobs -> Row] /\ remote \in [Jobs -> Remote] /\ JobOK(j)
  BY DEF Parts, TypeOK
<1>2. CASE j # k
  <2>1. jobs'[j] = jobs[j] /\ remote'[j] = remote[j]
    BY <1>1, <1>2 DEF Work, Claim, Request, Write, Refute, Defer, Reject, Confirm, Finish, Move
  <2> QED
    BY <2>1, SameLife
<1>3. CASE j = k
  <2>1. ASSUME NEW from, NEW to \in JobStatuses, NEW keyed \in BOOLEAN, Move(k, from, to, keyed)
        PROVE  /\ jobs[j].status \in from
               /\ jobs'[j].status = to /\ jobs'[j].keyed = keyed
               /\ remote' = remote
    BY <1>1, <1>3, <2>1 DEF Move, Row
  <2> USE DEF LifeStep, Life!Next, Life!Move, JobStatuses, InProgress
  <2>2. CASE Claim(k)
    BY <1>1, <1>3, <2>2 DEF Claim, Row, Life!Claim
  <2>3. CASE Request(k)
    <3>1. Life(j)!Request
      BY <2>1, <2>3 DEF Request, Life!Request
    <3> QED
      BY <3>1
  <2>4. CASE Write(k)
    <3>1. /\ remote'[j].open = 1
          /\ remote'[j].posts \in {remote[j].posts, remote[j].posts + 1}
          /\ jobs' = jobs
      BY <1>1, <1>3, <2>4 DEF Write, Remote
    <3>2. Life(j)!Write
      BY <1>3, <2>4, <3>1 DEF Write, Life!Write
    <3> QED
      BY <3>2
  <2>5. CASE Refute(k)
    <3>1. Life(j)!Refute
      BY <1>1, <1>3, <2>5 DEF Refute, Remote, Life!Refute
    <3> QED
      BY <3>1
  <2>6. CASE Defer(k)
    <3>1. Life(j)!Defer
      BY <1>3, <2>1, <2>6 DEF Defer, Life!Defer
    <3> QED
      BY <3>1
  <2>7. CASE Reject(k)
    <3>1. Life(j)!Fail
      BY <1>3, <2>1, <2>7 DEF Reject, Life!Fail
    <3> QED
      BY <3>1
  <2>8. CASE Confirm(k)
    <3>1. jobs[j].keyed = TRUE
      BY <1>1, <1>3, <2>8 DEF Confirm, Move, JobOK, Row
    <3>2. Life(j)!Confirm
      BY <1>3, <2>1, <2>8, <3>1 DEF Confirm, Life!Confirm
    <3> QED
      BY <3>2
  <2>9. CASE Finish(k)
    <3>1. jobs[j].keyed = TRUE
      BY <1>1, <1>3, <2>9 DEF Finish, Move, JobOK, Row
    <3>2. Life(j)!Finish
      BY <2>1, <2>9, <3>1 DEF Finish, Life!Finish
    <3> QED
      BY <3>2
  <2> QED
    BY <2>2, <2>3, <2>4, <2>5, <2>6, <2>7, <2>8, <2>9 DEF Work
<1> QED
  BY <1>2, <1>3

\* Cancel withdraws the jobs that certainly published nothing, and only them.
LEMMA CancelLives ==
    ASSUME Parts, NEW j \in Jobs, NEW e \in Sessions, Cancel(e)
    PROVE  LifeStep(j)
<1>1. JobOK(j) /\ jobs[j] \in Row /\ remote' = remote
  BY RowFields DEF Parts, Cancel, Mutate
<1>2. jobs'[j] = IF jobs[j].status \in {"waiting", "retrying", "failed"}
                 THEN [jobs[j] EXCEPT !.status = "cancelled"] ELSE jobs[j]
  BY DEF Cancel, Mutate
<1>3. CASE jobs[j].status \in {"waiting", "retrying", "failed"}
  <2>1. ~jobs[j].keyed /\ remote[j].open = 0
    BY <1>1, <1>3 DEF Cancel, BlocksCancel, JobOK
  <2>2. Life(j)!Withdraw
    BY <1>1, <1>2, <1>3, <2>1 DEF Row, Life!Withdraw, Life!Move
  <2> QED
    BY <2>2 DEF LifeStep, Life!Next
<1>4. CASE jobs[j].status \notin {"waiting", "retrying", "failed"}
  BY <1>1, <1>2, <1>4, SameLife
<1> QED
  BY <1>3, <1>4

\* A retry repeats the life of the one job it names.
LEMMA RetryLives ==
    ASSUME Parts, NEW j \in Jobs, NEW e \in Sessions, NEW k \in Jobs, Retry(e, k)
    PROVE  LifeStep(j)
<1>1. /\ JobOK(k) /\ jobs \in [Jobs -> Row] /\ jobs[k] \in Row /\ remote' = remote
      /\ jobs' = [jobs EXCEPT ![k] = [jobs[k] EXCEPT !.status = "waiting", !.at = now]]
  BY RowFields DEF Parts, TypeOK, Retry, Mutate
<1>2. CASE j = k
  <2>1. jobs[j].status = "failed" /\ ~jobs[j].keyed /\ remote[j].open = 0
    BY <1>1, <1>2 DEF Retry, JobOK
  <2>2. jobs'[j].status = "waiting" /\ jobs'[j].keyed = jobs[j].keyed
    BY <1>1, <1>2 DEF Row
  <2>3. Life(j)!Repeat
    BY <1>1, <2>1, <2>2 DEF Life!Repeat, Life!Move
  <2> QED
    BY <2>3 DEF LifeStep, Life!Next
<1>3. CASE j # k
  BY <1>1, <1>3, SameLife
<1> QED
  BY <1>2, <1>3

\* An approval or a reschedule finds every job waiting, and leaves it so: a job
\* that is cancelled belongs to a closed post.
LEMMA ScheduleLives ==
    ASSUME Parts, NEW e \in Sessions, NEW t \in Times, Schedule(e, t)
    PROVE  \A j \in Jobs : LifeStep(j)
<1>1. \A j \in Jobs : JobOK(j) /\ jobs[j] \in Row
  BY RowFields DEF Parts
<1>2. \A j \in Jobs : jobs[j].status = "waiting"
  BY <1>1 DEF Schedule, Reschedulable, Parts, ClosedOK, Done, StoredOK
<1> DEFINE rows == [j \in Jobs |-> IF jobs[j].status = "cancelled" THEN jobs[j]
                                   ELSE [jobs[j] EXCEPT !.status = "waiting", !.at = t]]
<1>3. \A j \in Jobs : rows[j].status = jobs[j].status /\ rows[j].keyed = jobs[j].keyed
  BY <1>1, <1>2 DEF Row
<1>4. Mutate(e, "scheduled", post.text, rows)
  BY DEF Schedule
<1> HIDE DEF rows
<1>5. jobs' = rows /\ remote' = remote
  BY <1>4 DEF Mutate
<1> QED
  BY <1>3, <1>5, SameLife

LEMMA StepLives == ASSUME Parts, [Next]_vars, NEW j \in Jobs PROVE LifeStep(j)
<1>1. ASSUME NEW e \in Sessions, User(e) PROVE LifeStep(j)
  <2>1. CASE Load(e) \/ \E text \in Texts : Update(e, text)
    BY <2>1, SameLife DEF Load, Update, Mutate
  <2> QED
    BY <1>1, <2>1, CancelLives, RetryLives, ScheduleLives DEF User
<1>2. ASSUME NEW k \in Jobs, Work(k) PROVE LifeStep(j)
  BY <1>2, WorkLives
<1>3. ASSUME NEW k \in Jobs, Disconnect(k) \/ Reconnect(k) PROVE LifeStep(j)
  BY <1>3, SameLife DEF Disconnect, Reconnect
<1>4. CASE Tick \/ UNCHANGED vars
  BY <1>4, SameLife DEF Tick, vars
<1> QED
  BY <1>1, <1>2, <1>3, <1>4 DEF Next

\* Whatever approvals, reschedules, cancellations and retries the user makes on
\* all targets at once, each job's row and its writes behave as the worker's
\* protocol assumes: no withdrawal or repeat of what may have been published, and
\* no second write while one is unresolved.
THEOREM JobsLive == Spec => EachJobLives
<1>1. ASSUME Init PROVE \A j \in Jobs : Life(j)!Init
  <2> SUFFICES ASSUME NEW j \in Jobs PROVE Life(j)!Init
    OBVIOUS
  <2>1. jobs[j].status = "waiting" /\ jobs[j].keyed = FALSE
    BY <1>1 DEF Init
  <2>2. remote[j].open = 0 /\ remote[j].posts = 0
    BY <1>1 DEF Init
  <2> QED
    BY <2>1, <2>2 DEF Life!Init
<1>2. Parts /\ [Next]_vars => [\A j \in Jobs : [Life(j)!Next]_(Life(j)!vars)]_vars
  BY StepLives DEF LifeStep
<1> QED
  BY <1>1, <1>2, PostInit, PostStep, PTL DEF Spec, EachJobLives

\* One write of the life of a job at a time, and one post of it at most.
OneWrite(j) == remote[j].posts <= remote[j].open /\ remote[j].open <= 1

LEMMA LifeKeepsOneWrite ==
    ASSUME NEW j \in Jobs, remote[j] \in Remote, remote'[j] \in Remote, LifeStep(j), OneWrite(j)
    PROVE  OneWrite(j)'
<1>1. CASE UNCHANGED <<remote[j].open, remote[j].posts>>
  BY <1>1 DEF OneWrite
<1>2. CASE Life(j)!Write
  BY <1>2 DEF OneWrite, Remote, Life!Write
<1>3. CASE Life(j)!Refute
  BY <1>3 DEF OneWrite, Remote, Life!Refute
<1> QED
  BY <1>1, <1>2, <1>3
     DEF LifeStep, Life!vars, Life!Next, Life!Move, Life!Claim, Life!Request, Life!Defer,
         Life!Fail, Life!Confirm, Life!Finish, Life!Withdraw, Life!Repeat

\* No target receives the post twice, however often the user retries or reschedules
\* it: what PublishLifecycle promises of one job holds of all of them.
THEOREM PublishedOnceEach == Spec => [](\A j \in Jobs : remote[j].posts <= 1)
<1> DEFINE Once == \A j \in Jobs : OneWrite(j)
<1>1. ASSUME Init PROVE Once
  <2> SUFFICES ASSUME NEW j \in Jobs PROVE OneWrite(j)
    OBVIOUS
  <2>1. remote[j].open = 0 /\ remote[j].posts = 0
    BY <1>1 DEF Init
  <2> QED
    BY <2>1 DEF OneWrite
<1>2. Parts /\ Parts' /\ [Next]_vars /\ Once => Once'
  BY StepLives, LifeKeepsOneWrite, RowFields DEF Parts, TypeOK
<1>3. Parts /\ Once => \A j \in Jobs : remote[j].posts <= 1
  <2> SUFFICES ASSUME Parts, Once, NEW j \in Jobs PROVE remote[j].posts <= 1
    OBVIOUS
  <2>1. remote[j].open \in Nat /\ remote[j].posts \in Nat
    BY RowFields DEF Parts, Remote
  <2> QED
    BY <2>1 DEF OneWrite
<1> QED
  BY <1>1, <1>2, <1>3, PostInit, PostStep, PTL DEF Spec
=============================================================================
