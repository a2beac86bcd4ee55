-------------------------- MODULE ConsentRegister --------------------------
(***************************************************************************)
(* What connecting social accounts promises: the consent a user gives at a *)
(* platform is taken up at most once, and connects at most one account,    *)
(* once. An account that was disconnected comes back only by a consent     *)
(* that has not been used up.                                              *)
(***************************************************************************)
CONSTANTS
    Consents,
    Accounts,
    NoConsent   \* holder of an account that is not connected

VARIABLES
    consent,  \* "open", "taken" (by the requests that complete it) or "done"
    holder    \* the consent whose token each account holds

vars == <<consent, holder>>

Init ==
    /\ consent = [c \in Consents |-> "open"]
    /\ holder = [a \in Accounts |-> NoConsent]

Take(c) ==
    /\ consent[c] = "open"
    /\ consent' = [consent EXCEPT ![c] = "taken"]
    /\ UNCHANGED holder

\* Consents expire, are refused, or are lost on the way with the process that
\* completes them.
GiveUp(S) ==
    /\ \A c \in S : consent[c] # "done"
    /\ consent' = [c \in Consents |-> IF c \in S THEN "done" ELSE consent[c]]
    /\ UNCHANGED holder

Connect(c, a) ==
    /\ consent[c] = "taken"
    /\ consent' = [consent EXCEPT ![c] = "done"]
    /\ holder' = [holder EXCEPT ![a] = c]

Disconnect(a) ==
    /\ holder[a] # NoConsent
    /\ holder' = [holder EXCEPT ![a] = NoConsent]
    /\ UNCHANGED consent

Next ==
    \/ \E c \in Consents : Take(c) \/ \E a \in Accounts : Connect(c, a)
    \/ \E S \in SUBSET Consents : GiveUp(S)
    \/ \E a \in Accounts : Disconnect(a)

Spec == Init /\ [][Next]_vars
=============================================================================
