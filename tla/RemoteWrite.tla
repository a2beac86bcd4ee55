---------------------------- MODULE RemoteWrite ----------------------------
(***************************************************************************)
(* What the worker takes an adapter's publish() for: one write at the      *)
(* provider, whose outcome is known, is known not to be a post, or is      *)
(* unknown. A failure that proves there is no post allows another call.    *)
(***************************************************************************)
EXTENDS Naturals

CONSTANT Attempts   \* 1..n: the calls of publish() for one job, in order

VARIABLES
    outcome,  \* what each call has come to
    posts     \* the calls whose post is at the provider

vars == <<outcome, posts>>

Init == outcome = [a \in Attempts |-> "none"] /\ posts = {}

Call(a) ==
    /\ outcome[a] = "none"
    /\ \A b \in Attempts : b < a => outcome[b] = "rejected"
    /\ outcome' = [outcome EXCEPT ![a] = "pending"]
    /\ UNCHANGED posts

\* The provider may act after its answer was given up, but never twice.
Publish(a) ==
    /\ outcome[a] \in {"pending", "unknown"}
    /\ posts = {}
    /\ posts' = {a}
    /\ UNCHANGED outcome

End(a) ==
    /\ outcome[a] = "pending"
    /\ \E end \in {"published", "rejected", "unknown"} :
          /\ end = "published" => a \in posts
          /\ end = "rejected"  => a \notin posts
          /\ outcome' = [outcome EXCEPT ![a] = end]
    /\ UNCHANGED posts

Next == \E a \in Attempts : Call(a) \/ Publish(a) \/ End(a)

Spec == Init /\ [][Next]_vars /\ \A a \in Attempts : WF_vars(End(a))
=============================================================================
