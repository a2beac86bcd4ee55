--------------------------- MODULE AlertDelivery ---------------------------
(***************************************************************************)
(* What FailureAlertService promises of each terminal failure: its webhook *)
(* is told at least once, and the alert is closed after that, for ever.    *)
(***************************************************************************)
CONSTANT Alerts

VARIABLES
    raised,    \* alerts with a row in social_publish_failure_alerts
    received,  \* alerts the webhook has accepted at least once
    closed     \* alerts that are marked as delivered

vars == <<raised, received, closed>>

Init == raised = {} /\ received = {} /\ closed = {}

Raise(a) ==
    /\ raised' = raised \cup {a}
    /\ UNCHANGED <<received, closed>>

\* The webhook may be told again, even after the alert is closed.
Receive(a) ==
    /\ a \in raised
    /\ received' = received \cup {a}
    /\ UNCHANGED <<raised, closed>>

Close(a) ==
    /\ a \in received
    /\ closed' = closed \cup {a}
    /\ UNCHANGED <<raised, received>>

Next == \E a \in Alerts : Raise(a) \/ Receive(a) \/ Close(a)

Spec == Init /\ [][Next]_vars /\ \A a \in Alerts : WF_vars(Receive(a)) /\ WF_vars(Close(a))
=============================================================================
