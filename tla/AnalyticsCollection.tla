------------------------ MODULE AnalyticsCollection ------------------------
(***************************************************************************)
(* The collection of analytics (backend/src/analytics, scheduler, runtime):*)
(* scheduler processes that claim published jobs whose snapshot is stale,  *)
(* ask the platforms, store snapshots for the dashboards, release what     *)
(* failed, and show life in the heartbeat row that /health/ready reads.    *)
(*                                                                         *)
(* Jobs are numbered in the order of published_at. Of the metrics only     *)
(* captured_at is modelled, as the number of the platform's answer. A      *)
(* lease lapses, and a snapshot and a heartbeat become stale, as events:   *)
(* the database's clock decides.                                           *)
(***************************************************************************)
EXTENDS Naturals, Sequences, FiniteSets, Functions, FiniteSetsExt

CONSTANTS
    N,           \* number of publish jobs
    Collectors,  \* scheduler processes, such as the old and the new one of a deployment
    Limit,       \* targets one pass claims, ANALYTICS_COLLECTION_BATCH_SIZE
    Broken,      \* jobs whose platform never gives metrics: no URL, no grant, post deleted
    MaxTrouble,  \* bound: lapses of a live holder's lease, failed requests and saves
    MaxAged,     \* bound: snapshots that become stale
    MaxDeaths    \* bound: process deaths

Jobs == 1..N

ASSUME CollectionAssumption ==
    /\ N \in Nat /\ Limit \in Nat \ {0} /\ Broken \subseteq Jobs /\ IsFiniteSet(Collectors)
    /\ MaxTrouble \in Nat /\ MaxAged \in Nat /\ MaxDeaths \in Nat

VARIABLES
    job,        \* each job's lease, and whether its last snapshot is young enough
    published,  \* how many jobs are published
    heartbeat,  \* whether the scheduler's heartbeat is young enough
    pc,         \* where each process stands in collectAnalytics
    batch,      \* the targets it has claimed and not handled yet, with the one in hand
    current,    \* the target in hand
    answer,     \* the answer in hand, by its number; 0 without one
    snapshots,  \* social_metrics: the answers stored for each job, as they were inserted
    reads,      \* answers the platform gave for each job, which X bills
    trouble,    \* lapses, failed requests and failed saves of each job so far
    aged,       \* how often each job's snapshot has become stale
    deaths      \* deaths so far

vars == <<job, published, heartbeat, pc, batch, current, answer, snapshots,
          reads, trouble, aged, deaths>>

Points == {"idle", "next", "answered", "failed", "beat"}
Target == [lease : {"none", "held", "lapsed"}, fresh : BOOLEAN]

Init ==
    /\ job = [j \in Jobs |-> [lease |-> "none", fresh |-> FALSE]]
    /\ published = 0
    /\ heartbeat = FALSE
    /\ pc = [c \in Collectors |-> "idle"]
    /\ batch = [c \in Collectors |-> {}]
    /\ current = [c \in Collectors |-> {}]
    /\ answer = [c \in Collectors |-> 0]
    /\ snapshots = [j \in Jobs |-> <<>>]
    /\ reads = [j \in Jobs |-> 0]
    /\ trouble = [j \in Jobs |-> 0]
    /\ aged = [j \in Jobs |-> 0]
    /\ deaths = 0

-----------------------------------------------------------------------------
(* The rows and the clock.                                                 *)

\* saveExecution publishes the next job, with its row in social_posts.
Publish ==
    /\ published < N
    /\ published' = published + 1
    /\ UNCHANGED <<job, heartbeat, pc, batch, current, answer, snapshots, reads, trouble, aged, deaths>>

InHand(j) == \E c \in Collectors : j \in batch[c]
InBounds == SumFunction(trouble) < MaxTrouble
Troubled(j) == trouble' = [trouble EXCEPT ![j] = trouble[j] + 1]

\* A lease no process is left to clear lapses whatever the bound.
LeaseLapses(j) ==
    /\ job[j].lease = "held"
    /\ job' = [job EXCEPT ![j].lease = "lapsed"]
    /\ IF InHand(j) THEN InBounds /\ Troubled(j) ELSE UNCHANGED trouble
    /\ UNCHANGED <<published, heartbeat, pc, batch, current, answer, snapshots, reads, aged, deaths>>

SnapshotAges(j) ==
    /\ job[j].fresh /\ SumFunction(aged) < MaxAged
    /\ job' = [job EXCEPT ![j].fresh = FALSE]
    /\ aged' = [aged EXCEPT ![j] = aged[j] + 1]
    /\ UNCHANGED <<published, heartbeat, pc, batch, current, answer, snapshots, reads, trouble, deaths>>

HeartbeatAges ==
    /\ heartbeat
    /\ heartbeat' = FALSE
    /\ UNCHANGED <<job, published, pc, batch, current, answer, snapshots, reads, trouble, aged, deaths>>

-----------------------------------------------------------------------------
(* A pass of collectAnalytics; `collecting` keeps a process to one.        *)

\* Mutant: a lease is never taken over.
UnleasedDue(j) == j <= published /\ job[j].lease = "none" /\ ~job[j].fresh
\* Mutant: the status is not looked at.
AnyDue(j) == job[j].lease # "held" /\ ~job[j].fresh
\* Mutant: the lease is not looked at.
StaleDue(j) == j <= published /\ ~job[j].fresh
\* The candidates of claimCollectionTargets.
Due(j) == j <= published /\ job[j].lease # "held" /\ ~job[j].fresh

\* The first Limit of them by published_at.
Targets == {j \in Jobs : Due(j) /\ Cardinality({i \in Jobs : i < j /\ Due(i)}) < Limit}

\* Where a process goes on when these targets are left.
Continue(c, left) == pc' = [pc EXCEPT ![c] = IF left = {} THEN "beat" ELSE "next"]

Claim(c) ==
    /\ pc[c] = "idle"
    /\ job' = [j \in Jobs |-> IF j \in Targets THEN [job[j] EXCEPT !.lease = "held"] ELSE job[j]]
    /\ batch' = [batch EXCEPT ![c] = Targets]
    /\ Continue(c, Targets)
    /\ UNCHANGED <<published, heartbeat, current, answer, snapshots, reads, trouble, aged, deaths>>

\* getAnalytics of the adapter: the platform answers with a metric.
Answers(c, j) ==
    /\ j \notin Broken
    /\ reads' = [reads EXCEPT ![j] = reads[j] + 1]
    /\ answer' = [answer EXCEPT ![c] = reads'[j]]
    /\ pc' = [pc EXCEPT ![c] = "answered"]
    /\ UNCHANGED trouble

\* It throws: no credential or URL, no answer or an error, or no numeric metric.
Throws(c, j) ==
    /\ IF j \in Broken THEN UNCHANGED trouble ELSE InBounds /\ Troubled(j)
    /\ pc' = [pc EXCEPT ![c] = "failed"]
    /\ UNCHANGED <<reads, answer>>

\* The next target of collectDue's loop.
Fetch(c) ==
    /\ pc[c] = "next"
    /\ \E j \in batch[c] :
          /\ current' = [current EXCEPT ![c] = {j}]
          /\ Answers(c, j) \/ Throws(c, j)
    /\ UNCHANGED <<job, published, heartbeat, batch, snapshots, aged, deaths>>

\* The target in hand is done with.
Handled(c) ==
    /\ batch' = [batch EXCEPT ![c] = batch[c] \ current[c]]
    /\ current' = [current EXCEPT ![c] = {}]
    /\ answer' = [answer EXCEPT ![c] = 0]
    /\ Continue(c, batch[c] \ current[c])

\* saveSnapshot's transaction stores the metrics and clears the lease, whoever holds it.
Stored(c, j) ==
    /\ job' = [job EXCEPT ![j] = [lease |-> "none", fresh |-> TRUE]]
    /\ snapshots' = [snapshots EXCEPT ![j] = Append(snapshots[j], answer[c])]

Save(c) ==
    /\ pc[c] = "answered"
    /\ \E j \in current[c] : Stored(c, j)
    /\ Handled(c)
    /\ UNCHANGED <<published, heartbeat, reads, trouble, aged, deaths>>

\* saveSnapshot fails, with its effect if only the answer to COMMIT was lost.
SaveFails(c) ==
    /\ pc[c] = "answered" /\ InBounds
    /\ \E j \in current[c] : Troubled(j) /\ (Stored(c, j) \/ UNCHANGED <<job, snapshots>>)
    /\ pc' = [pc EXCEPT ![c] = "failed"]
    /\ UNCHANGED <<published, heartbeat, batch, current, answer, reads, aged, deaths>>

\* releaseCollectionClaim clears the lease, whoever holds it; its failure is logged.
Release(c) ==
    /\ pc[c] = "failed"
    /\ job' = [j \in Jobs |-> IF j \in current[c] THEN [job[j] EXCEPT !.lease = "none"] ELSE job[j]]
    /\ Handled(c)
    /\ UNCHANGED <<published, heartbeat, snapshots, reads, trouble, aged, deaths>>

ReleaseFails(c) ==
    /\ pc[c] = "failed" /\ InBounds
    /\ \E j \in current[c] : Troubled(j)
    /\ Handled(c)
    /\ UNCHANGED <<job, published, heartbeat, snapshots, reads, aged, deaths>>

\* Mutant: a pass in which a target failed is not counted as a sign of life.
BeatIfClean(c) ==
    /\ pc[c] = "beat"
    /\ heartbeat' = (heartbeat \/ \A j \in Jobs : j <= published => job[j].fresh)
    /\ pc' = [pc EXCEPT ![c] = "idle"]
    /\ UNCHANGED <<job, published, batch, current, answer, snapshots, reads, trouble, aged, deaths>>
\* beat('scheduler') ends a pass, whatever came of its targets.
Beat(c) ==
    /\ pc[c] = "beat"
    /\ heartbeat' = TRUE
    /\ pc' = [pc EXCEPT ![c] = "idle"]
    /\ UNCHANGED <<job, published, batch, current, answer, snapshots, reads, trouble, aged, deaths>>

\* The process dies and is started again.
Die(c) ==
    /\ pc[c] # "idle" /\ deaths < MaxDeaths
    /\ deaths' = deaths + 1
    /\ batch' = [batch EXCEPT ![c] = {}]
    /\ current' = [current EXCEPT ![c] = {}]
    /\ answer' = [answer EXCEPT ![c] = 0]
    /\ pc' = [pc EXCEPT ![c] = "idle"]
    /\ UNCHANGED <<job, published, heartbeat, snapshots, reads, trouble, aged>>

Pass(c) == Claim(c) \/ Fetch(c) \/ Save(c) \/ Release(c) \/ Beat(c)

Next ==
    \/ Publish \/ HeartbeatAges
    \/ \E j \in Jobs : LeaseLapses(j) \/ SnapshotAges(j)
    \/ \E c \in Collectors : Pass(c) \/ SaveFails(c) \/ ReleaseFails(c) \/ Die(c)

Spec == Init /\ [][Next]_vars

\* Time passes, and each process starts a pass at its interval and goes on with
\* it: every request has a timeout. That requests succeed again is the bound on
\* trouble, and that the batch keeps pace with the stale snapshots the one on aged.
FairSpec ==
    /\ Spec
    /\ \A j \in Jobs : WF_vars(LeaseLapses(j))
    /\ \A c \in Collectors : WF_vars(Pass(c))

-----------------------------------------------------------------------------
(* What the API reads of it.                                               *)

\* /health/ready, with the scheduler required.
Ready == heartbeat

\* Mutant: the snapshot that was stored last.
Inserted(j) == IF snapshots[j] = <<>> THEN 0 ELSE snapshots[j][Len(snapshots[j])]
\* The snapshot of each job that campaignDashboard and postDashboard sum up: the
\* one captured last; none at first.
Latest(j) == IF snapshots[j] = <<>> THEN 0 ELSE Max(Range(snapshots[j]))

-----------------------------------------------------------------------------
\* The variables hold values of their types; a process works on a target of its
\* batch, and every target is a published job.
TypeOK ==
    /\ job \in [Jobs -> Target]
    /\ published \in 0..N
    /\ heartbeat \in BOOLEAN
    /\ pc \in [Collectors -> Points]
    /\ batch \in [Collectors -> SUBSET Jobs] /\ current \in [Collectors -> SUBSET Jobs]
    /\ \A c \in Collectors : current[c] \subseteq batch[c] /\ \A j \in batch[c] : j <= published
    /\ answer \in [Collectors -> Nat] /\ snapshots \in [Jobs -> Seq(Nat)]
    /\ reads \in [Jobs -> Nat] /\ trouble \in [Jobs -> Nat] /\ aged \in [Jobs -> Nat]
    /\ deaths \in 0..MaxDeaths

\* However the unfenced releases and saves of several processes meet, a platform is
\* read again (and X bills it again) only for a cause: the last snapshot became
\* stale, a lease lapsed, something failed, or a process died.
ReadsHaveACause == \A j \in Jobs : reads[j] <= 1 + aged[j] + trouble[j] + deaths

\* However late a process stores an answer, no dashboard goes back to metrics
\* older than those it has shown.
DashboardNeverGoesBack == [][\A j \in Jobs : Latest(j)' >= Latest(j)]_vars

\* As long as fewer jobs are broken than one pass claims, every other published job
\* gets a snapshot, and a new one when it is stale; and readiness sees the scheduler
\* alive again and again, whichever targets fail.
CollectionKeepsUp ==
    /\ \A j \in Jobs \ Broken : (j <= published /\ ~job[j].fresh) ~> job[j].fresh
    /\ []<>Ready
=============================================================================
