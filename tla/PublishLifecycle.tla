-------------------------- MODULE PublishLifecycle --------------------------
(***************************************************************************)
(* What the publication of one job promises: the durable state machine of  *)
(* its row, and when a write may reach the provider. Workers, leases,      *)
(* queue jobs and timing do not appear.                                    *)
(*                                                                         *)
(*   state   the row's status                                              *)
(*   keyed   the row carries its request key                               *)
(*   open    provider writes that may have published and are not refuted   *)
(*   posts   posts published                                               *)
(***************************************************************************)
EXTENDS Naturals

VARIABLES state, keyed, open, posts

vars == <<state, keyed, open, posts>>

Init == state = "waiting" /\ keyed = FALSE /\ open = 0 /\ posts = 0

\* The row moves while no write is sent or answered.
Move(from, to) == state \in from /\ state' \in to /\ UNCHANGED <<open, posts>>

Claim   == Move({"waiting", "retrying", "claimed", "remote_requesting"}, {"claimed"}) /\ UNCHANGED keyed
Request == Move({"claimed"}, {"remote_requesting"}) /\ keyed' = TRUE

\* A write needs its key in the row and no earlier write left open.
Write ==
    /\ state = "remote_requesting" /\ keyed /\ open = 0
    /\ open' = 1
    /\ posts' \in {posts, posts + 1}
    /\ UNCHANGED <<state, keyed>>

\* The provider refutes a write only if it published nothing.
Refute == open = 1 /\ posts = 0 /\ open' = 0 /\ UNCHANGED <<state, keyed, posts>>

\* An unresolved outcome keeps the key; a definite failure, once every write is
\* refuted, removes it.
Defer == Move({"claimed", "remote_requesting"}, {"remote_requesting", "failed"}) /\ UNCHANGED keyed
Fail  == open = 0 /\ Move({"remote_requesting"}, {"retrying", "failed"}) /\ keyed' = FALSE

Confirm == posts > 0 /\ Move({"remote_requesting"}, {"remote_confirmed"}) /\ UNCHANGED keyed
Finish  == Move({"remote_confirmed"}, {"published"}) /\ UNCHANGED keyed

\* The user withdraws or repeats only what certainly was not published.
Withdraw == ~keyed /\ open = 0 /\ Move({"waiting", "retrying", "failed"}, {"cancelled"}) /\ UNCHANGED keyed
Repeat   == ~keyed /\ open = 0 /\ Move({"failed"}, {"waiting"}) /\ UNCHANGED keyed

Next == Claim \/ Request \/ Write \/ Refute \/ Defer \/ Fail \/ Confirm \/ Finish \/ Withdraw \/ Repeat

Spec == Init /\ [][Next]_vars
=============================================================================
