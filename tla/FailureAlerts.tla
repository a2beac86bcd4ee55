--------------------------- MODULE FailureAlerts ---------------------------
(***************************************************************************)
(* The delivery of social_publish_failure_alerts rows to the webhook       *)
(* (failure-alert.service.ts, migrations 010 and 015): several worker      *)
(* processes claim batches of alerts under a lease of 30 seconds, post     *)
(* them one after the other with 10 seconds for each, and mark them. A     *)
(* batch of 20 outlasts its lease, so an alert may be in several hands.    *)
(*                                                                         *)
(* A lease is absent, in force or lapsed; next_delivery_at is a flag.      *)
(***************************************************************************)
EXTENDS Naturals, FiniteSets

CONSTANTS
    Alerts,      \* alerts, one per publish job that failed for good
    Workers,     \* worker processes, each with one pass at a time (`dispatching`)
    Limit,       \* alerts one pass claims, 20 in the code
    MaxTrouble,  \* bound: lapsed leases and failed deliveries of one alert
    MaxDeaths    \* bound: process deaths

ASSUME AlertAssumption ==
    /\ IsFiniteSet(Alerts) /\ IsFiniteSet(Workers)
    /\ Limit \in Nat \ {0} /\ MaxTrouble \in Nat /\ MaxDeaths \in Nat

VARIABLES
    row,      \* each alert's row; status "absent" when there is none
    pc,       \* where each worker stands in dispatchPending
    batch,    \* the alerts it has claimed and not handled yet, with the one in hand
    current,  \* the alert in hand
    received, \* alerts the webhook has accepted
    trouble,  \* lapsed leases and failed deliveries of each alert so far
    deaths    \* deaths so far

vars == <<row, pc, batch, current, received, trouble, deaths>>

Statuses == {"absent", "pending", "processing", "failed", "delivered"}
Points   == {"idle", "next", "accepted", "refused"}
AlertRow == [status : Statuses, due : BOOLEAN, lease : {"none", "held", "lapsed"}, attempts : Nat]

Init ==
    /\ row = [a \in Alerts |-> [status |-> "absent", due |-> FALSE, lease |-> "none", attempts |-> 0]]
    /\ pc = [w \in Workers |-> "idle"]
    /\ batch = [w \in Workers |-> {}]
    /\ current = [w \in Workers |-> {}]
    /\ received = {}
    /\ trouble = [a \in Alerts |-> 0]
    /\ deaths = 0

-----------------------------------------------------------------------------
(* The rows and the clock.                                                 *)

\* saveExecution of a job that failed for good.
Raise(a) ==
    /\ row[a].status = "absent"
    /\ row' = [row EXCEPT ![a] = [row[a] EXCEPT !.status = "pending", !.due = TRUE]]
    /\ UNCHANGED <<pc, batch, current, received, trouble, deaths>>

InHand(a) == \E w \in Workers : a \in batch[w]
Troubled(a) == trouble' = [trouble EXCEPT ![a] = trouble[a] + 1]

\* A lease no worker is left to release lapses whatever the bound.
LeaseLapses(a) ==
    /\ row[a].lease = "held"
    /\ trouble[a] < MaxTrouble \/ ~InHand(a)
    /\ row' = [row EXCEPT ![a].lease = "lapsed"]
    /\ Troubled(a)
    /\ UNCHANGED <<pc, batch, current, received, deaths>>

\* The five minutes after a failed delivery are over.
FallsDue(a) ==
    /\ row[a].status = "failed" /\ ~row[a].due
    /\ row' = [row EXCEPT ![a].due = TRUE]
    /\ UNCHANGED <<pc, batch, current, received, trouble, deaths>>

-----------------------------------------------------------------------------
(* dispatchPending.                                                        *)

\* Mutant: an alert whose worker died with its lease is left alone.
UnleasedCandidate(r) == r.status \in {"pending", "failed"} /\ r.due
\* Mutant: an alert in processing is taken whatever its lease.
HeldCandidate(r) == r.status = "processing" \/ (r.status \in {"pending", "failed"} /\ r.due)
Candidate(r) ==
    \/ r.status \in {"pending", "failed"} /\ r.due
    \/ r.status = "processing" /\ r.lease = "lapsed"

\* At most Limit candidates, all of them if there are fewer.
Taken(S) ==
    LET candidates == {a \in Alerts : Candidate(row[a])}
    IN  /\ S \subseteq candidates
        /\ IF Cardinality(candidates) <= Limit THEN S = candidates ELSE Cardinality(S) = Limit

ClaimedRow(r) == [r EXCEPT !.status = "processing", !.lease = "held", !.attempts = r.attempts + 1]

Claim(w) ==
    /\ pc[w] = "idle"
    /\ \E S \in SUBSET Alerts :
          /\ S # {} /\ Taken(S)
          /\ row' = [a \in Alerts |-> IF a \in S THEN ClaimedRow(row[a]) ELSE row[a]]
          /\ batch' = [batch EXCEPT ![w] = S]
    /\ pc' = [pc EXCEPT ![w] = "next"]
    /\ UNCHANGED <<current, received, trouble, deaths>>

\* Mutant: an answer that is not ok counts as one.
PostUnchecked(w) ==
    /\ pc[w] = "next"
    /\ \E a \in batch[w] :
          /\ current' = [current EXCEPT ![w] = {a}]
          /\ \/ received' = received \cup {a} /\ UNCHANGED trouble
             \/ trouble[a] < MaxTrouble /\ Troubled(a) /\ UNCHANGED received
    /\ pc' = [pc EXCEPT ![w] = "accepted"]
    /\ UNCHANGED <<row, batch, deaths>>

\* fetch: the webhook accepts and the answer arrives, or there is no good answer,
\* whether the webhook has accepted or not.
Post(w) ==
    /\ pc[w] = "next"
    /\ \E a \in batch[w] :
          /\ current' = [current EXCEPT ![w] = {a}]
          /\ \/ /\ received' = received \cup {a}
                /\ pc' = [pc EXCEPT ![w] = "accepted"]
                /\ UNCHANGED trouble
             \/ /\ trouble[a] < MaxTrouble
                /\ received' \in {received, received \cup {a}}
                /\ pc' = [pc EXCEPT ![w] = "refused"]
                /\ Troubled(a)
    /\ UNCHANGED <<row, batch, deaths>>

\* The end of an alert, and of the loop.
Handled(w) ==
    /\ batch' = [batch EXCEPT ![w] = batch[w] \ current[w]]
    /\ current' = [current EXCEPT ![w] = {}]
    /\ pc' = [pc EXCEPT ![w] = IF batch[w] = current[w] THEN "idle" ELSE "next"]

\* Mutant: the mark does not ask for an alert in processing.
AnyMarked(w) == current[w]
\* A mark touches the alert while it is in processing, whoever processes it.
Marked(w) == {a \in current[w] : row[a].status = "processing"}

DeliveredRow(r) == [r EXCEPT !.status = "delivered", !.lease = "none"]
\* Mutant: the lease stays.
FailedWithLease(r) == [r EXCEPT !.status = "failed", !.due = FALSE]
FailedRow(r) == [r EXCEPT !.status = "failed", !.due = FALSE, !.lease = "none"]

MarkDelivered(w) ==
    /\ pc[w] = "accepted"
    /\ row' = [a \in Alerts |-> IF a \in Marked(w) THEN DeliveredRow(row[a]) ELSE row[a]]
    /\ Handled(w)
    /\ UNCHANGED <<received, trouble, deaths>>

\* The mark of a delivery fails, after its effect or before it: the catch block
\* takes it for a failed delivery.
MarkBreaks(w) ==
    /\ pc[w] = "accepted"
    /\ \E a \in current[w] : trouble[a] < MaxTrouble /\ Troubled(a)
    /\ \/ row' = [a \in Alerts |-> IF a \in Marked(w) THEN DeliveredRow(row[a]) ELSE row[a]]
       \/ UNCHANGED row
    /\ pc' = [pc EXCEPT ![w] = "refused"]
    /\ UNCHANGED <<batch, current, received, deaths>>

MarkFailed(w) ==
    /\ pc[w] = "refused"
    /\ row' = [a \in Alerts |-> IF a \in Marked(w) THEN FailedRow(row[a]) ELSE row[a]]
    /\ Handled(w)
    /\ UNCHANGED <<received, trouble, deaths>>

\* The process dies. An error of claim or of markFailed leaves dispatchPending and
\* does the same: nothing handles the rejection of dispatch().
Die(w) ==
    /\ pc[w] # "idle" /\ deaths < MaxDeaths
    /\ deaths' = deaths + 1
    /\ batch' = [batch EXCEPT ![w] = {}]
    /\ current' = [current EXCEPT ![w] = {}]
    /\ pc' = [pc EXCEPT ![w] = "idle"]
    /\ UNCHANGED <<row, received, trouble>>

Dispatch(w) == Claim(w) \/ Post(w) \/ MarkDelivered(w) \/ MarkFailed(w)

Next ==
    \/ \E a \in Alerts : Raise(a) \/ LeaseLapses(a) \/ FallsDue(a)
    \/ \E w \in Workers : Dispatch(w) \/ MarkBreaks(w) \/ Die(w)

Spec == Init /\ [][Next]_vars

\* Time passes, and each process polls (and is restarted after its death) for
\* ever. That the webhook accepts in the end is the bound on trouble.
FairSpec ==
    /\ Spec
    /\ \A a \in Alerts : WF_vars(LeaseLapses(a)) /\ WF_vars(FallsDue(a))
    /\ \A w \in Workers : WF_vars(Dispatch(w))

-----------------------------------------------------------------------------
\* The variables hold values of their types; a lease belongs to processing.
TypeOK ==
    /\ row \in [Alerts -> AlertRow]
    /\ \A a \in Alerts : row[a].status = "processing" <=> row[a].lease # "none"
    /\ pc \in [Workers -> Points]
    /\ batch \in [Workers -> SUBSET Alerts]
    /\ current \in [Workers -> SUBSET Alerts]
    /\ received \subseteq Alerts
    /\ trouble \in [Alerts -> Nat]
    /\ deaths \in 0..MaxDeaths

\* The webhook is told again only for a cause: every attempt after the first
\* follows a lease that lapsed or a delivery that failed (delivery_attempts).
AttemptsHaveACause == \A a \in Alerts : row[a].attempts <= 1 + trouble[a]

\* Whatever lapses, fails or dies in between, a failure is reported at least once
\* and is marked as delivered only after that, for ever; and it is in the end.
Delivery == INSTANCE AlertDelivery WITH
    raised <- {a \in Alerts : row[a].status # "absent"},
    closed <- {a \in Alerts : row[a].status = "delivered"}
DeliversAtLeastOnce == Delivery!Spec
=============================================================================
