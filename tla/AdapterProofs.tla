--------------------------- MODULE AdapterProofs ---------------------------
(***************************************************************************)
(* Theorems of PlatformAdapters, for any number of calls, media items and  *)
(* polls and any set of refusals. The inductive invariant relates where    *)
(* the code of a request stands to the request at the provider and its row *)
(* in the ledger, and the answer of a call to the request that creates the *)
(* post.                                                                   *)
(***************************************************************************)
EXTENDS PlatformAdapters, TLAPS

-----------------------------------------------------------------------------
(* The inductive invariant.                                                *)

\* A request is at the provider only after its reservation, and a lane that reads a
\* 2xx answer, or is done, has had the request carried out.
LaneFollows(a, s) ==
    /\ lane[a][s] \in {"idle", "resolved", "reserved"} => remote[a][s] = "unsent"
    /\ lane[a][s] \in {"billed", "done"} => remote[a][s] = "accepted"
    /\ Metered /\ lane[a][s] \in {"reserved", "sent", "billed", "failing"} => ledger[a][s] # "none"
    /\ Metered /\ remote[a][s] # "unsent" => ledger[a][s] # "none"
    /\ ledger[a][s] = "succeeded" => remote[a][s] = "accepted"

\* No post, and none to come: the creating request was not made, or was refused.
NoPost(a) == remote[a][0] \in {"unsent", "refused"}

\* The creating request waits for all the others and decides what the call answers.
CreationFollows(a) ==
    /\ answer[a] = "pending" /\ lane[a][0] # "idle" =>
          \A s \in Requests \ {0} : lane[a][s] = "done"
    /\ remote[a][0] # "unsent" => \A s \in Requests \ {0} : remote[a][s] = "accepted"
    /\ answer[a] = "published" => remote[a][0] = "accepted"
    /\ Rejected(a) => NoPost(a)
    /\ lane[a][0] = "failing" /\ ~Ambiguous(FailureCode(error[a][0])) => NoPost(a)

\* Calls follow one another, each after the rejection of the one before.
CallsFollow ==
    \A a \in Attempts :
        /\ answer[a] = "none" => \A s \in Slots : lane[a][s] = "idle"
        /\ answer[a] # "none" => \A b \in Attempts : b < a => Rejected(b)

\* The container is polled while polls are left.
PollsLeft == \A a \in Attempts : polls[a] < MaxPolls \/ lane[a][2] \in {"done", "failed"}

IInv ==
    /\ TypeOK
    /\ \A a \in Attempts : \A s \in Slots : LaneFollows(a, s)
    /\ \A a \in Attempts : CreationFollows(a)
    /\ CallsFollow
    /\ PollsLeft
-----------------------------------------------------------------------------
(* Slots and error codes.                                                  *)

\* The slot of the analytics lies above those of any publish().
LEMMA RequestsAreSlots ==
    ASSUME platform \in Platforms, media \in Approved(platform)
    PROVE  /\ Reading \in Nat /\ 2 < Reading /\ 0 \in Slots /\ 2 \in Slots /\ Reading \in Slots
           /\ Slots \subseteq Nat /\ 0 \in Requests /\ Requests \subseteq Slots \ {Reading}
  <1>1. Reading \in Nat /\ 2 < Reading /\ MaxMedia < Reading
    BY AdapterAssumption DEF Reading
  <1>2. CASE platform = "x"
    <2>1. media \in 0..MaxMedia /\ Requests = 0..media
      BY <1>2 DEF Approved, Requests, XSlots
    <2>2. QED
      BY <1>1, <2>1, AdapterAssumption DEF Slots
  <1>3. CASE platform # "x"
    <2>1. Requests \subseteq {0, 1, 2} /\ 0 \in Requests
      BY <1>3 DEF Platforms, Requests, FacebookSlots, LinkedInSlots, ThreadsSlots, InstagramSlots
    <2>2. QED
      BY <1>1, <2>1 DEF Slots
  <1>4. QED
    BY <1>2, <1>3

LEMMA FailureCodeTypes ==
    ASSUME NEW e \in Errors
    PROVE  FailureCode(e) \in FailureCodes /\ FailureCode(e) \in Outcomes
  BY AdapterAssumption DEF Errors, LocalFaults, Network, Unknown, FailureCode, FailureCodes, Outcomes

\* The failures of a request that may have been carried out.
LEMMA LateFailures ==
    ASSUME NEW e \in {500, 503, Network, Unknown}
    PROVE  e \in Errors /\ Ambiguous(FailureCode(e))
  BY DEF Errors, LocalFaults, Network, Unknown, FailureCode, Ambiguous

\* A function of calls and slots that changes at one of them.
Elsewhere(f, g, a, s) == \A b \in Attempts : \A r \in Slots : b # a \/ r # s => g[b][r] = f[b][r]

LEMMA LaneAt ==
    ASSUME TypeOK, NEW a \in Attempts, NEW s \in Slots, NEW v \in Points,
           lane' = [lane EXCEPT ![a][s] = v]
    PROVE  /\ lane' \in [Attempts -> [Slots -> Points]]
           /\ lane'[a][s] = v /\ Elsewhere(lane, lane', a, s)
  BY DEF TypeOK, Elsewhere

LEMMA ErrorAt ==
    ASSUME TypeOK, NEW a \in Attempts, NEW s \in Slots, NEW v \in Errors,
           error' = [error EXCEPT ![a][s] = v]
    PROVE  /\ error' \in [Attempts -> [Slots -> Errors]]
           /\ error'[a][s] = v /\ Elsewhere(error, error', a, s)
  BY DEF TypeOK, Elsewhere

LEMMA RemoteAt ==
    ASSUME TypeOK, NEW a \in Attempts, NEW s \in Slots, NEW v \in {"unsent", "sent", "accepted", "refused"},
           remote' = [remote EXCEPT ![a][s] = v]
    PROVE  /\ remote' \in [Attempts -> [Slots -> {"unsent", "sent", "accepted", "refused"}]]
           /\ remote'[a][s] = v /\ Elsewhere(remote, remote', a, s)
  BY DEF TypeOK, Elsewhere

LEMMA LedgerAt ==
    ASSUME TypeOK, NEW a \in Attempts, NEW s \in Slots, NEW v \in {"none", "reserved", "succeeded", "failed"},
           ledger' = [ledger EXCEPT ![a][s] = v]
    PROVE  /\ ledger' \in [Attempts -> [Slots -> {"none", "reserved", "succeeded", "failed"}]]
           /\ ledger'[a][s] = v /\ Elsewhere(ledger, ledger', a, s)
  BY DEF TypeOK, Elsewhere

-----------------------------------------------------------------------------
(* What one step of a request does.                                        *)

\* The lane moves, and the answer only where a pending call ends.
Moves(a, s, p) ==
    /\ lane' \in [Attempts -> [Slots -> Points]] /\ answer' \in [Attempts -> Outcomes]
    /\ lane'[a][s] = p /\ Elsewhere(lane, lane', a, s)
    /\ \A b \in Attempts \ {a} : answer'[b] = answer[b]

LEMMA GoToMoves ==
    ASSUME TypeOK, NEW a \in Attempts, NEW s \in Slots, NEW p \in Points, GoTo(a, s, p)
    PROVE  Moves(a, s, p) /\ answer' = answer
  <1>1. /\ lane' \in [Attempts -> [Slots -> Points]] /\ lane'[a][s] = p
        /\ Elsewhere(lane, lane', a, s)
    BY LaneAt DEF GoTo
  <1>2. QED
    BY <1>1 DEF GoTo, Moves, TypeOK

LEMMA ThrowMoves ==
    ASSUME TypeOK, NEW a \in Attempts, NEW s \in Slots, NEW e, Throw(a, s, e),
           answer[a] = "pending" => e \in Errors
    PROVE  /\ Moves(a, s, "failed")
           /\ answer[a] # "pending" => answer'[a] = answer[a]
           /\ answer[a] = "pending" => answer'[a] = FailureCode(e) /\ answer'[a] \in FailureCodes
  <1>1. "failed" \in Points
    BY DEF Points
  <1>2. /\ lane' \in [Attempts -> [Slots -> Points]] /\ lane'[a][s] = "failed"
        /\ Elsewhere(lane, lane', a, s)
    BY <1>1, LaneAt DEF Throw
  <1>3. CASE answer[a] = "pending"
    <2>1. FailureCode(e) \in FailureCodes /\ FailureCode(e) \in Outcomes
      BY <1>3, FailureCodeTypes
    <2>2. QED
      BY <1>2, <1>3, <2>1 DEF Throw, Moves, TypeOK
  <1>4. CASE answer[a] # "pending"
    BY <1>2, <1>4 DEF Throw, Moves, TypeOK
  <1>5. QED
    BY <1>3, <1>4

LEMMA FinishMoves ==
    ASSUME TypeOK, NEW a \in Attempts, NEW s \in Slots, Finish(a, s)
    PROVE  Moves(a, s, "done") /\ answer'[a] = IF s = 0 THEN "published" ELSE answer[a]
  <1>1. "done" \in Points /\ "published" \in Outcomes
    BY DEF Points, Outcomes
  <1>2. /\ lane' \in [Attempts -> [Slots -> Points]] /\ lane'[a][s] = "done"
        /\ Elsewhere(lane, lane', a, s)
    BY <1>1, LaneAt DEF Finish
  <1>3. QED
    BY <1>1, <1>2 DEF Finish, Moves, TypeOK

\* The step of a request, seen from the other variables: what it never does.
Effect(a, s) ==
    /\ UNCHANGED <<platform, media>>
    /\ Runs(a, s) /\ lane[a][s] \notin {"done", "failed"}
    /\ lane[a][s] = "idle" => Ready(a, s)
    /\ \E p \in Points : Moves(a, s, p) /\ p # "idle"
    /\ \/ answer'[a] = answer[a]
       \/ answer[a] = "pending" /\ answer'[a] \in FailureCodes /\ lane'[a][s] = "failed"
       \/ answer[a] = "pending" /\ answer'[a] = "published" /\ s = 0 /\ lane'[a][s] = "done"
    /\ error' \in [Attempts -> [Slots -> Errors]] /\ Elsewhere(error, error', a, s)
    /\ remote' \in [Attempts -> [Slots -> {"unsent", "sent", "accepted", "refused"}]]
    /\ Elsewhere(remote, remote', a, s)
    /\ \/ remote'[a][s] = remote[a][s]
       \/ lane[a][s] \in {"resolved", "reserved"} /\ remote'[a][s] = "sent" /\ lane'[a][s] = "sent"
    /\ ledger' \in [Attempts -> [Slots -> {"none", "reserved", "succeeded", "failed"}]]
    /\ Elsewhere(ledger, ledger', a, s)
    /\ polls' \in [Attempts -> 0..MaxPolls]
    /\ \A b \in Attempts : polls'[b] = polls[b] \/ (b = a /\ s = 2 /\ (polls'[b] < MaxPolls \/ lane'[a][s] = "failed"))
    /\ LaneFollows(a, s)'
    /\ s = 0 /\ answer'[a] # answer[a] /\ Rejected(a)' => NoPost(a)'
    /\ s = 0 /\ lane'[a][s] = "failing" /\ ~Ambiguous(FailureCode(error'[a][s])) => NoPost(a)'

\* Where a lane stands before each step, and what a step that keeps the rest keeps.
LEMMA Unmoved ==
    ASSUME TypeOK, NEW a \in Attempts, NEW s \in Slots
    PROVE  /\ error' = error => error' \in [Attempts -> [Slots -> Errors]] /\ Elsewhere(error, error', a, s)
           /\ remote' = remote =>
                 /\ remote' \in [Attempts -> [Slots -> {"unsent", "sent", "accepted", "refused"}]]
                 /\ Elsewhere(remote, remote', a, s)
           /\ ledger' = ledger =>
                 /\ ledger' \in [Attempts -> [Slots -> {"none", "reserved", "succeeded", "failed"}]]
                 /\ Elsewhere(ledger, ledger', a, s)
           /\ polls' = polls => polls' \in [Attempts -> 0..MaxPolls]
  BY DEF TypeOK, Elsewhere

\* A step in which the request was not made yet, and is not made.
LEMMA BeforeRequest ==
    ASSUME IInv, NEW a \in Attempts, NEW s \in Slots,
           UNCHANGED <<platform, media, error, polls, remote>>, Runs(a, s),
           lane[a][s] \in {"idle", "resolved", "reserved"}, lane[a][s] = "idle" => Ready(a, s),
           ledger' \in [Attempts -> [Slots -> {"none", "reserved", "succeeded", "failed"}]],
           Elsewhere(ledger, ledger', a, s), ledger'[a][s] \in {ledger[a][s], "reserved"},
           NEW p \in {"resolved", "reserved", "failed"}, Moves(a, s, p),
           p = "reserved" => ledger'[a][s] # "none",
           \/ answer'[a] = answer[a]
           \/ answer[a] = "pending" /\ answer'[a] \in FailureCodes /\ p = "failed"
    PROVE  Effect(a, s)
  <1>1. TypeOK /\ LaneFollows(a, s) /\ remote[a][s] = "unsent"
    BY DEF IInv, LaneFollows
  <1>2. lane'[a][s] = p /\ p \in Points /\ p # "idle"
    BY DEF Moves, Points
  <1>3. LaneFollows(a, s)'
    BY <1>1, <1>2 DEF LaneFollows, Metered
  <1>4. s = 0 => NoPost(a)'
    BY <1>1 DEF NoPost
  <1>5. QED
    BY <1>1, <1>2, <1>3, <1>4, Unmoved DEF Effect

LEMMA ResolveEffect == ASSUME IInv, NEW a \in Attempts, NEW s \in Slots, Resolve(a, s) PROVE Effect(a, s)
  <1>1. /\ UNCHANGED <<platform, media, error, polls, remote, ledger>> /\ Runs(a, s)
        /\ lane[a][s] = "idle" /\ Ready(a, s) /\ TypeOK
    BY DEF Resolve, IInv
  <1>2. CASE GoTo(a, s, "resolved")
    <2>1. Moves(a, s, "resolved") /\ answer' = answer
      BY <1>1, <1>2, GoToMoves DEF Points
    <2>2. QED
      BY <1>1, <2>1, BeforeRequest, Unmoved
  <1>3. ASSUME NEW e \in LocalFaults \cup (IF s = Reading THEN {501} ELSE {}), Throw(a, s, e)
        PROVE  Effect(a, s)
    <2>1. s = Reading => answer[a] # "pending"
      BY <1>1, RequestsAreSlots DEF Runs, Collects, TypeOK
    <2>2. answer[a] = "pending" => e \in Errors
      BY <2>1 DEF Errors
    <2>3. Moves(a, s, "failed") /\ (answer'[a] = answer[a] \/ (answer[a] = "pending" /\ answer'[a] \in FailureCodes))
      BY <1>1, <1>3, <2>2, ThrowMoves
    <2>4. QED
      BY <1>1, <2>3, BeforeRequest, Unmoved
  <1>4. QED
    BY <1>2, <1>3 DEF Resolve

LEMMA TooDearEffect == ASSUME IInv, NEW a \in Attempts, NEW s \in Slots, TooDear(a, s) PROVE Effect(a, s)
  <1>1. /\ UNCHANGED <<platform, media, error, polls, remote, ledger>> /\ Runs(a, s)
        /\ lane[a][s] = "resolved" /\ TypeOK /\ Throw(a, s, 503) /\ 503 \in Errors
    BY DEF TooDear, IInv, Errors, LocalFaults
  <1>2. Moves(a, s, "failed") /\ (answer'[a] = answer[a] \/ (answer[a] = "pending" /\ answer'[a] \in FailureCodes))
    BY <1>1, ThrowMoves
  <1>3. QED
    BY <1>1, <1>2, BeforeRequest, Unmoved

LEMMA ReserveEffect == ASSUME IInv, NEW a \in Attempts, NEW s \in Slots, Reserve(a, s) PROVE Effect(a, s)
  <1>1. /\ UNCHANGED <<platform, media, error, polls, remote>> /\ Runs(a, s)
        /\ lane[a][s] = "resolved" /\ TypeOK
    BY DEF Reserve, IInv
  <1>2. ASSUME ledger' = [ledger EXCEPT ![a][s] = "reserved"]
        PROVE  /\ ledger' \in [Attempts -> [Slots -> {"none", "reserved", "succeeded", "failed"}]]
               /\ ledger'[a][s] = "reserved" /\ Elsewhere(ledger, ledger', a, s)
    BY <1>1, <1>2, LedgerAt
  <1>3. CASE GoTo(a, s, "reserved") /\ ledger' = [ledger EXCEPT ![a][s] = "reserved"]
    <2>1. Moves(a, s, "reserved") /\ answer' = answer
      BY <1>1, <1>3, GoToMoves DEF Points
    <2>2. QED
      BY <1>1, <1>2, <1>3, <2>1, BeforeRequest
  <1>4. ASSUME NEW e \in {Network, Unknown}, Throw(a, s, e),
               ledger' \in {ledger, [ledger EXCEPT ![a][s] = "reserved"]}
        PROVE  Effect(a, s)
    <2>1. Moves(a, s, "failed") /\ (answer'[a] = answer[a] \/ (answer[a] = "pending" /\ answer'[a] \in FailureCodes))
      BY <1>1, <1>4, ThrowMoves, LateFailures
    <2>2. /\ ledger' \in [Attempts -> [Slots -> {"none", "reserved", "succeeded", "failed"}]]
          /\ ledger'[a][s] \in {ledger[a][s], "reserved"} /\ Elsewhere(ledger, ledger', a, s)
      BY <1>1, <1>2, <1>4, Unmoved
    <2>3. QED
      BY <1>1, <2>1, <2>2, BeforeRequest
  <1>5. QED
    BY <1>3, <1>4 DEF Reserve

\* While a request of publish() runs in slot 0, its call is pending.
LEMMA CreationRuns ==
    ASSUME TypeOK, NEW a \in Attempts, Runs(a, 0)
    PROVE  answer[a] = "pending"
  BY RequestsAreSlots DEF Runs, Collects, TypeOK

\* An error of a request, which is settled first or thrown.
LEMMA FailsEffect ==
    ASSUME IInv, NEW a \in Attempts, NEW s \in Slots, NEW e \in Errors, Fails(a, s, e),
           UNCHANGED <<platform, media, polls, remote, ledger>>, Runs(a, s),
           lane[a][s] \in {"resolved", "reserved", "sent"},
           Metered => lane[a][s] \in {"reserved", "sent"},
           s = 0 /\ ~Ambiguous(FailureCode(e)) => NoPost(a)
    PROVE  Effect(a, s)
  <1>1. TypeOK /\ LaneFollows(a, s) /\ (s = 0 => answer[a] = "pending")
    BY CreationRuns DEF IInv
  <1>2. CASE Metered
    <2>1. Moves(a, s, "failing") /\ answer' = answer /\ "failing" \in Points
      BY <1>1, <1>2, GoToMoves DEF Fails, Points
    <2>2. CASE answer[a] = "pending"
      <3>1. /\ error' \in [Attempts -> [Slots -> Errors]] /\ error'[a][s] = e
            /\ Elsewhere(error, error', a, s)
        BY <1>1, <1>2, <2>2, ErrorAt DEF Fails
      <3>2. lane'[a][s] = "failing" /\ LaneFollows(a, s)'
        BY <1>1, <1>2, <2>1 DEF Moves, LaneFollows, Metered
      <3>3. s = 0 /\ ~Ambiguous(FailureCode(error'[a][s])) => NoPost(a)'
        BY <3>1 DEF NoPost
      <3>4. QED
        BY <1>1, <2>1, <3>1, <3>2, <3>3, Unmoved DEF Effect
    <2>3. CASE answer[a] # "pending"
      <3>1. error' = error
        BY <1>2, <2>3 DEF Fails
      <3>2. lane'[a][s] = "failing" /\ LaneFollows(a, s)'
        BY <1>1, <1>2, <2>1 DEF Moves, LaneFollows, Metered
      <3>3. QED
        BY <1>1, <2>1, <2>3, <3>1, <3>2, Unmoved DEF Effect
    <2>4. QED
      BY <2>2, <2>3
  <1>3. CASE ~Metered
    <2>1. /\ Moves(a, s, "failed") /\ error' = error /\ "failed" \in Points
          /\ answer[a] # "pending" => answer'[a] = answer[a]
          /\ answer[a] = "pending" => answer'[a] = FailureCode(e) /\ answer'[a] \in FailureCodes
      BY <1>1, <1>3, ThrowMoves DEF Fails, Points
    <2>2. lane'[a][s] = "failed" /\ LaneFollows(a, s)'
      BY <1>1, <1>3, <2>1 DEF Moves, LaneFollows, Metered
    <2>3. s = 0 /\ Rejected(a)' => NoPost(a)'
      BY <1>1, <2>1 DEF NoPost, Rejected
    <2>4. QED
      BY <1>1, <2>1, <2>2, <2>3, Unmoved DEF Effect
  <1>4. QED
    BY <1>2, <1>3

LEMMA TransmitEffect == ASSUME IInv, NEW a \in Attempts, NEW s \in Slots, Transmit(a, s) PROVE Effect(a, s)
  <1>1. /\ UNCHANGED <<platform, media, polls, ledger>> /\ Runs(a, s) /\ TypeOK /\ LaneFollows(a, s)
        /\ lane[a][s] \in {"resolved", "reserved"} /\ (Metered => lane[a][s] = "reserved")
        /\ remote[a][s] = "unsent"
    BY DEF Transmit, IInv, LaneFollows
  <1>2. CASE GoTo(a, s, "sent") /\ UNCHANGED error /\ remote' = [remote EXCEPT ![a][s] = "sent"]
    <2>1. Moves(a, s, "sent") /\ answer' = answer /\ "sent" \in Points
      BY <1>1, <1>2, GoToMoves DEF Points
    <2>2. /\ remote' \in [Attempts -> [Slots -> {"unsent", "sent", "accepted", "refused"}]]
          /\ remote'[a][s] = "sent" /\ Elsewhere(remote, remote', a, s)
      BY <1>1, <1>2, RemoteAt
    <2>3. lane'[a][s] = "sent" /\ LaneFollows(a, s)'
      BY <1>1, <2>1, <2>2 DEF Moves, LaneFollows, Metered
    <2>4. QED
      BY <1>1, <1>2, <2>1, <2>2, <2>3, Unmoved DEF Effect
  <1>3. ASSUME NEW e \in Unsendable(s), Fails(a, s, e), UNCHANGED remote PROVE Effect(a, s)
    <2>1. e \in Errors
      BY LateFailures DEF Unsendable
    <2>2. NoPost(a) \/ s # 0
      BY <1>1 DEF NoPost
    <2>3. QED
      BY <1>1, <1>3, <2>1, <2>2, FailsEffect
  <1>4. QED
    BY <1>2, <1>3 DEF Transmit

\* A 2xx answer: the request was carried out.
LEMMA AnswerOkEffect == ASSUME IInv, NEW a \in Attempts, NEW s \in Slots, AnswerOk(a, s) PROVE Effect(a, s)
  <1>1. /\ UNCHANGED <<platform, media, polls, remote, ledger>> /\ Runs(a, s) /\ TypeOK /\ LaneFollows(a, s)
        /\ lane[a][s] = "sent" /\ remote[a][s] = "accepted"
    BY DEF AnswerOk, IInv
  <1>2. CASE Metered /\ GoTo(a, s, "billed") /\ UNCHANGED error
    <2>1. Moves(a, s, "billed") /\ answer' = answer /\ "billed" \in Points
      BY <1>1, <1>2, GoToMoves DEF Points
    <2>2. lane'[a][s] = "billed" /\ LaneFollows(a, s)'
      BY <1>1, <2>1 DEF Moves, LaneFollows, Metered
    <2>3. QED
      BY <1>1, <1>2, <2>1, <2>2, Unmoved DEF Effect
  <1>3. CASE ~Metered /\ Finish(a, s) /\ UNCHANGED error
    <2>1. Moves(a, s, "done") /\ answer'[a] = (IF s = 0 THEN "published" ELSE answer[a]) /\ "done" \in Points
      BY <1>1, <1>3, FinishMoves DEF Points
    <2>2. lane'[a][s] = "done" /\ LaneFollows(a, s)'
      BY <1>1, <1>3, <2>1 DEF Moves, LaneFollows, Metered
    <2>3. s = 0 => answer[a] = "pending" /\ ~Rejected(a)'
      BY <1>1, <2>1, CreationRuns DEF Rejected, FailureCodes
    <2>4. QED
      BY <1>1, <1>3, <2>1, <2>2, <2>3, Unmoved DEF Effect
  <1>4. ASSUME NEW e \in Lacks(s), Fails(a, s, e) PROVE Effect(a, s)
    <2>1. e \in Errors /\ Ambiguous(FailureCode(e))
      BY LateFailures DEF Lacks
    <2>2. QED
      BY <1>1, <1>4, <2>1, FailsEffect
  <1>5. QED
    BY <1>2, <1>3, <1>4 DEF AnswerOk

\* Any other answer: a refusal of the creating request comes from a provider that refuses.
LEMMA AnswerErrorEffect ==
    ASSUME IInv, NEW a \in Attempts, NEW s \in Slots, AnswerError(a, s) PROVE Effect(a, s)
  <1>1. /\ UNCHANGED <<platform, media, polls, remote, ledger>> /\ Runs(a, s) /\ lane[a][s] = "sent"
    BY DEF AnswerError
  <1>2. PICK e \in Refusals \cup {500, Network} :
             Fails(a, s, e) /\ (e \in Refusals => remote[a][s] = "refused" \/ IsPoll(s))
    BY DEF AnswerError
  <1>3. e \in Errors
    BY DEF Errors, LocalFaults
  <1>4. s = 0 /\ ~Ambiguous(FailureCode(e)) => NoPost(a)
    BY <1>2, LateFailures DEF IsPoll, NoPost
  <1>5. QED
    BY <1>1, <1>2, <1>3, <1>4, FailsEffect

\* A poll of the container: the last one that finds it in progress fails the call.
LEMMA AnswerPollEffect ==
    ASSUME IInv, NEW a \in Attempts, NEW s \in Slots, AnswerPoll(a, s) PROVE Effect(a, s)
  <1>1. /\ UNCHANGED <<platform, media, error, remote, ledger>> /\ Runs(a, s) /\ TypeOK /\ LaneFollows(a, s)
        /\ lane[a][s] = "sent" /\ s = 2 /\ ~Metered
    BY DEF AnswerPoll, IInv, IsPoll, Metered
  <1>2. polls \in [Attempts -> 0..MaxPolls] /\ polls[a] < MaxPolls
    BY <1>1 DEF IInv, PollsLeft, TypeOK
  <1>3. ASSUME Throw(a, s, 503)
        PROVE  /\ Moves(a, s, "failed") /\ lane'[a][s] = "failed" /\ "failed" \in Points
               /\ (answer'[a] = answer[a] \/ (answer[a] = "pending" /\ answer'[a] \in FailureCodes))
               /\ LaneFollows(a, s)'
    <2>1. /\ Moves(a, s, "failed") /\ lane'[a][s] = "failed"
          /\ (answer'[a] = answer[a] \/ (answer[a] = "pending" /\ answer'[a] \in FailureCodes))
      BY <1>1, <1>3, ThrowMoves, LateFailures DEF Moves
    <2>2. QED
      BY <1>1, <2>1 DEF LaneFollows, Metered, Points
  <1>4. CASE remote[a][s] = "accepted" /\ Finish(a, s) /\ UNCHANGED polls
    <2>1. Moves(a, s, "done") /\ answer'[a] = answer[a] /\ "done" \in Points
      BY <1>1, <1>4, FinishMoves DEF Points
    <2>2. lane'[a][s] = "done" /\ LaneFollows(a, s)'
      BY <1>1, <1>4, <2>1 DEF Moves, LaneFollows, Metered
    <2>3. QED
      BY <1>1, <1>4, <2>1, <2>2, Unmoved DEF Effect
  <1>5. CASE remote[a][s] = "refused" /\ Throw(a, s, 503) /\ UNCHANGED polls
    BY <1>1, <1>3, <1>5, Unmoved DEF Effect
  <1>6. CASE /\ remote[a][s] = "sent"
             /\ polls' = [polls EXCEPT ![a] = polls[a] + 1]
             /\ IF polls'[a] < MaxPolls THEN UNCHANGED <<lane, answer>> ELSE Throw(a, s, 503)
    <2>1. /\ polls' \in [Attempts -> 0..MaxPolls]
          /\ \A b \in Attempts : b # a => polls'[b] = polls[b]
      BY <1>2, <1>6, AdapterAssumption
    <2>2. CASE polls'[a] < MaxPolls
      <3>1. Moves(a, s, "sent") /\ answer' = answer /\ lane' = lane /\ "sent" \in Points
        BY <1>1, <1>6, <2>2 DEF Moves, Elsewhere, Points, TypeOK
      <3>2. LaneFollows(a, s)'
        BY <1>1, <3>1 DEF LaneFollows, Metered
      <3>3. QED
        BY <1>1, <2>1, <2>2, <3>1, <3>2, Unmoved DEF Effect
    <2>3. CASE ~(polls'[a] < MaxPolls)
      BY <1>1, <1>3, <1>6, <2>1, <2>3, Unmoved DEF Effect
    <2>4. QED
      BY <2>2, <2>3
  <1>7. QED
    BY <1>4, <1>5, <1>6 DEF AnswerPoll

\* A settlement reports what the request has come to, if it reports at all.
LEMMA SettleEffect == ASSUME IInv, NEW a \in Attempts, NEW s \in Slots, Settle(a, s) PROVE Effect(a, s)
  <1>1. /\ UNCHANGED <<platform, media, polls, remote>> /\ Runs(a, s) /\ TypeOK /\ LaneFollows(a, s)
        /\ lane[a][s] \in {"billed", "failing"} /\ (s = 0 => answer[a] = "pending")
        /\ CreationFollows(a)
    BY CreationRuns DEF Settle, IInv
  <1>2. /\ error' \in [Attempts -> [Slots -> Errors]] /\ error'[a][s] = Network
        /\ Elsewhere(error, error', a, s)
    <2>1. error' = [error EXCEPT ![a][s] = Network] /\ Network \in Errors
      BY LateFailures DEF Settle
    <2>2. QED
      BY <1>1, <2>1, ErrorAt
  <1>3. /\ ledger' \in [Attempts -> [Slots -> {"none", "reserved", "succeeded", "failed"}]]
        /\ Elsewhere(ledger, ledger', a, s)
        /\ ledger'[a][s] \in {ledger[a][s], Verdict(a, s)}
    <2>1. Verdict(a, s) \in {"none", "reserved", "succeeded", "failed"}
      BY DEF Verdict
    <2>2. CASE ledger' = ledger
      BY <1>1, <2>2, Unmoved
    <2>3. CASE ledger' = [ledger EXCEPT ![a][s] = Verdict(a, s)]
      BY <1>1, <2>1, <2>3, LedgerAt
    <2>4. QED
      BY <2>2, <2>3 DEF Settle
  <1>4. ASSUME NEW p \in {"done", "failed"}, Moves(a, s, p), p = "done" => lane[a][s] = "billed"
        PROVE  p \in Points /\ lane'[a][s] = p /\ LaneFollows(a, s)'
    BY <1>1, <1>3, <1>4 DEF Moves, Points, LaneFollows, Metered, Verdict
  <1>5. CASE lane[a][s] = "billed" /\ Finish(a, s)
    <2>1. Moves(a, s, "done") /\ answer'[a] = (IF s = 0 THEN "published" ELSE answer[a])
      BY <1>1, <1>5, FinishMoves
    <2>2. s = 0 => ~Rejected(a)'
      BY <2>1 DEF Rejected, FailureCodes
    <2>3. QED
      BY <1>1, <1>2, <1>3, <1>4, <1>5, <2>1, <2>2, Unmoved DEF Effect
  <1>6. CASE \E e \in {503, error[a][s]} :
               Throw(a, s, e) /\ (e = 503 \/ (e = error[a][s] /\ lane[a][s] = "failing"))
    <2>1. PICK e \in {503, error[a][s]} :
               Throw(a, s, e) /\ (e = 503 \/ (e = error[a][s] /\ lane[a][s] = "failing"))
      BY <1>6
    <2>2. e \in Errors
      BY <1>1, <2>1, LateFailures DEF TypeOK
    <2>3. /\ Moves(a, s, "failed")
          /\ answer[a] # "pending" => answer'[a] = answer[a]
          /\ answer[a] = "pending" => answer'[a] = FailureCode(e) /\ answer'[a] \in FailureCodes
      BY <1>1, <2>1, <2>2, ThrowMoves
    <2>4. s = 0 /\ Rejected(a)' => NoPost(a)'
      BY <1>1, <2>1, <2>3, LateFailures DEF Rejected, NoPost, CreationFollows
    <2>5. QED
      BY <1>1, <1>2, <1>3, <1>4, <2>3, <2>4, Unmoved DEF Effect
  <1>7. QED
    BY <1>1, <1>5, <1>6 DEF Settle

LEMMA StepEffect == ASSUME IInv, NEW a \in Attempts, NEW s \in Slots, Step(a, s) PROVE Effect(a, s)
  BY ResolveEffect, TooDearEffect, ReserveEffect, TransmitEffect, AnswerOkEffect, AnswerErrorEffect,
     AnswerPollEffect, SettleEffect DEF Step

-----------------------------------------------------------------------------
(* The invariant is kept.                                                  *)

LEMMA InvInit == Init => IInv
  <1> SUFFICES ASSUME Init PROVE IInv
    OBVIOUS
  <1>1. platform \in Platforms /\ media \in Approved(platform) /\ 2 \in Slots /\ 0 \in Slots
    BY RequestsAreSlots DEF Init
  <1>2. Requests \subseteq Slots
    BY <1>1, RequestsAreSlots
  <1>3. TypeOK
    BY <1>1, LateFailures, AdapterAssumption DEF Init, TypeOK, Outcomes, Points
  <1>4. \A a \in Attempts : \A s \in Slots : LaneFollows(a, s)
    BY DEF Init, LaneFollows
  <1>5. \A a \in Attempts : CreationFollows(a)
    BY <1>1 DEF Init, CreationFollows, Rejected, FailureCodes
  <1>6. CallsFollow /\ PollsLeft
    BY <1>1, AdapterAssumption DEF Init, CallsFollow, PollsLeft
  <1>7. QED
    BY <1>3, <1>4, <1>5, <1>6 DEF IInv

\* A call that is no longer pending keeps its answer.
LEMMA EffectAnswers ==
    ASSUME IInv, NEW a \in Attempts, NEW s \in Slots, Effect(a, s)
    PROVE  /\ \A b \in Attempts : answer'[b] = answer[b] \/ (b = a /\ answer[b] = "pending" /\ answer'[b] # "none")
           /\ \A b \in Attempts : Rejected(b) => Rejected(b)'
           /\ answer[a] # "none"
           /\ \A b \in Attempts : answer'[b] = "none" <=> answer[b] = "none"
  <1>1. \A b \in Attempts : answer'[b] = answer[b] \/ (b = a /\ answer[b] = "pending" /\ answer'[b] # "none")
    BY DEF Effect, Moves, FailureCodes
  <1>2. answer[a] # "none"
    BY DEF Effect, Runs, Collects
  <1>3. \A b \in Attempts : Rejected(b) => Rejected(b)'
    BY <1>1 DEF Rejected, FailureCodes
  <1>4. QED
    BY <1>1, <1>2, <1>3

LEMMA EffectCreation ==
    ASSUME IInv, NEW a \in Attempts, NEW s \in Slots, Effect(a, s), NEW b \in Attempts
    PROVE  CreationFollows(b)'
  <1>1. /\ CreationFollows(b) /\ TypeOK
        /\ \A r \in Slots : LaneFollows(b, r) /\ (b # a \/ r # s => lane'[b][r] = lane[b][r] /\ remote'[b][r] = remote[b][r]
                                                                  /\ error'[b][r] = error[b][r])
    BY DEF IInv, Effect, Moves, Elsewhere
  <1>2. Requests' = Requests /\ Requests \subseteq Slots /\ 0 \in Requests /\ 0 \in Slots
    BY <1>1, RequestsAreSlots DEF Effect, Requests, XSlots, TypeOK
  <1>3. CASE b # a
    <2>1. answer'[b] = answer[b]
      BY <1>3, EffectAnswers
    <2>2. QED
      BY <1>1, <1>2, <1>3, <2>1 DEF CreationFollows, Rejected, NoPost
  <1>4. CASE b = a /\ s = 0
    <2>1. /\ answer[a] = "pending" /\ lane[a][0] \notin {"done", "failed"}
          /\ \A r \in Requests \ {0} : lane[a][r] = "done"
      <3>1. answer[a] = "pending" /\ lane[a][0] \notin {"done", "failed"}
        BY <1>1, <1>4, CreationRuns DEF Effect
      <3>2. CASE lane[a][0] = "idle"
        BY <1>4, <3>1, <3>2 DEF Effect, Ready
      <3>3. CASE lane[a][0] # "idle"
        BY <1>1, <1>4, <3>1, <3>3 DEF CreationFollows
      <3>4. QED
        BY <3>1, <3>2, <3>3
    <2>2. \A r \in Requests \ {0} : lane'[a][r] = "done" /\ remote'[a][r] = "accepted"
      BY <1>1, <1>2, <1>4, <2>1 DEF LaneFollows
    <2>3. answer'[a] = "published" => remote'[a][0] = "accepted"
      BY <1>4, <2>1 DEF Effect, LaneFollows, FailureCodes
    <2>4. Rejected(a)' => NoPost(a)'
      <3>1. ~Rejected(a)
        BY <2>1 DEF Rejected, FailureCodes
      <3>2. CASE answer'[a] = answer[a]
        BY <3>1, <3>2 DEF Rejected
      <3>3. CASE answer'[a] # answer[a]
        BY <1>4, <3>3 DEF Effect
      <3>4. QED
        BY <3>2, <3>3
    <2>5. lane'[a][0] = "failing" /\ ~Ambiguous(FailureCode(error'[a][0])) => NoPost(a)'
      BY <1>4 DEF Effect
    <2>6. QED
      BY <1>2, <1>4, <2>2, <2>3, <2>4, <2>5 DEF CreationFollows
  <1>5. CASE b = a /\ s # 0
    <2>1. lane'[a][0] = lane[a][0] /\ remote'[a][0] = remote[a][0] /\ error'[a][0] = error[a][0]
      BY <1>1, <1>2, <1>5
    <2>2. \A r \in Requests \ {0} : lane[a][r] = "done" => r # s
      BY <1>5 DEF Effect
    <2>3. \A r \in Requests \ {0} : (lane[a][r] = "done" => lane'[a][r] = "done")
                                    /\ (remote[a][r] = "accepted" => remote'[a][r] = "accepted")
      <3>1. remote[a][s] = "accepted" => remote'[a][s] = "accepted"
        BY <1>1, <1>5 DEF Effect, LaneFollows
      <3>2. QED
        BY <1>1, <1>2, <1>5, <2>2, <3>1
    <2>4. answer'[a] = "pending" => answer[a] = "pending"
      BY EffectAnswers DEF FailureCodes
    <2>5. answer'[a] # answer[a] => answer[a] = "pending" /\ answer'[a] # "published" /\ s \in Requests
      BY <1>1, <1>5, RequestsAreSlots DEF Effect, Runs, Collects, FailureCodes, TypeOK
    <2>6. answer'[a] # answer[a] => NoPost(a)
      <3>1. ASSUME answer'[a] # answer[a] PROVE lane[a][0] = "idle"
        BY <1>1, <1>5, <2>5, <3>1 DEF CreationFollows, Effect
      <3>2. LaneFollows(a, 0)
        BY <1>1, <1>2, <1>5
      <3>3. QED
        BY <3>1, <3>2 DEF LaneFollows, NoPost
    <2>7. Rejected(a)' => NoPost(a)'
      BY <1>1, <1>5, <2>1, <2>6 DEF CreationFollows, Rejected, NoPost
    <2>8. CreationFollows(a)
      BY <1>1, <1>5
    <2>9. answer'[a] = "published" => remote'[a][0] = "accepted"
      BY <2>1, <2>5, <2>8 DEF CreationFollows
    <2>10. answer'[a] = "pending" /\ lane'[a][0] # "idle" => \A r \in Requests \ {0} : lane'[a][r] = "done"
      BY <2>1, <2>3, <2>4, <2>8 DEF CreationFollows
    <2>11. remote'[a][0] # "unsent" => \A r \in Requests \ {0} : remote'[a][r] = "accepted"
      BY <2>1, <2>3, <2>8 DEF CreationFollows
    <2>12. lane'[a][0] = "failing" /\ ~Ambiguous(FailureCode(error'[a][0])) => NoPost(a)'
      BY <2>1, <2>8 DEF CreationFollows, NoPost
    <2>13. QED
      BY <1>2, <1>5, <2>7, <2>9, <2>10, <2>11, <2>12 DEF CreationFollows
  <1>6. QED
    BY <1>3, <1>4, <1>5

LEMMA EffectKeeps == ASSUME IInv, NEW a \in Attempts, NEW s \in Slots, Effect(a, s) PROVE IInv'
  <1>1. TypeOK'
    BY DEF IInv, TypeOK, Effect, Moves
  <1>2. ASSUME NEW b \in Attempts, NEW r \in Slots PROVE LaneFollows(b, r)'
    <2>1. CASE b = a /\ r = s
      BY <2>1 DEF Effect
    <2>2. CASE b # a \/ r # s
      <3>1. /\ lane'[b][r] = lane[b][r] /\ remote'[b][r] = remote[b][r] /\ ledger'[b][r] = ledger[b][r]
            /\ platform' = platform
        BY <2>2 DEF Effect, Moves, Elsewhere
      <3>2. QED
        BY <3>1 DEF IInv, LaneFollows, Metered
    <2>3. QED
      BY <2>1, <2>2
  <1>3. \A b \in Attempts : CreationFollows(b)'
    BY EffectCreation
  <1>4. CallsFollow'
    <2>1. ASSUME NEW b \in Attempts, answer'[b] = "none", NEW r \in Slots PROVE lane'[b][r] = "idle"
      <3>1. b # a /\ answer[b] = "none"
        BY <2>1, EffectAnswers
      <3>2. lane'[b][r] = lane[b][r]
        BY <3>1 DEF Effect, Moves, Elsewhere
      <3>3. QED
        BY <3>1, <3>2 DEF IInv, CallsFollow
    <2>2. ASSUME NEW b \in Attempts, answer'[b] # "none", NEW c \in Attempts, c < b PROVE Rejected(c)'
      BY <2>2, EffectAnswers DEF IInv, CallsFollow
    <2>3. QED
      BY <2>1, <2>2 DEF CallsFollow
  <1>5. PollsLeft'
    <2>1. 2 \in Slots
      BY RequestsAreSlots DEF IInv, TypeOK
    <2>2. ASSUME NEW b \in Attempts PROVE polls'[b] < MaxPolls \/ lane'[b][2] \in {"done", "failed"}
      <3>1. CASE polls'[b] = polls[b]
        <4>1. lane[b][2] \in {"done", "failed"} => lane'[b][2] = lane[b][2]
          BY <2>1 DEF Effect, Moves, Elsewhere
        <4>2. QED
          BY <3>1, <4>1 DEF IInv, PollsLeft
      <3>2. CASE polls'[b] # polls[b]
        BY <3>2 DEF Effect
      <3>3. QED
        BY <3>1, <3>2
    <2>3. QED
      BY <2>2 DEF PollsLeft
  <1>6. QED
    BY <1>1, <1>2, <1>3, <1>4, <1>5 DEF IInv

LEMMA CallKeeps == ASSUME IInv, NEW a \in Attempts, Call(a) PROVE IInv'
  <1>1. /\ UNCHANGED <<platform, media, lane, error, polls, remote, ledger>> /\ TypeOK
        /\ answer' = [answer EXCEPT ![a] = "pending"] /\ answer[a] = "none"
    BY DEF Call, IInv
  <1>2. \A b \in Attempts : b < a => Rejected(b)
    BY DEF Call, Attempts
  <1>3. \A b \in Attempts : /\ b # a => answer'[b] = answer[b]
                            /\ Rejected(b) => Rejected(b)' /\ answer[b] = answer'[b]
    BY <1>1 DEF Rejected, FailureCodes, TypeOK
  <1>4. answer'[a] = "pending" /\ lane[a][0] = "idle" /\ 0 \in Slots
    BY <1>1, RequestsAreSlots DEF IInv, CallsFollow, TypeOK
  <1>5. TypeOK'
    BY <1>1 DEF TypeOK, Outcomes
  <1>6. \A b \in Attempts : \A s \in Slots : LaneFollows(b, s)'
    BY <1>1 DEF IInv, LaneFollows, Metered
  <1>7. ASSUME NEW b \in Attempts PROVE CreationFollows(b)'
    <2>1. Requests' = Requests /\ CreationFollows(b)
      BY <1>1 DEF Requests, XSlots, IInv
    <2>2. QED
      BY <1>1, <1>3, <1>4, <2>1 DEF CreationFollows, Rejected, NoPost, FailureCodes
  <1>8. CallsFollow' /\ PollsLeft'
    BY <1>1, <1>2, <1>3, <1>4 DEF IInv, CallsFollow, PollsLeft
  <1>9. QED
    BY <1>5, <1>6, <1>7, <1>8 DEF IInv

LEMMA DecideKeeps == ASSUME IInv, NEW a \in Attempts, NEW s \in Slots, Decide(a, s) PROVE IInv'
  <1>1. UNCHANGED <<platform, media, answer, lane, error, polls, ledger>> /\ TypeOK /\ remote[a][s] = "sent"
    BY DEF Decide, code, IInv
  <1>2. PICK decision \in {"accepted", "refused"} : remote' = [remote EXCEPT ![a][s] = decision]
    BY DEF Decide
  <1>3. /\ remote' \in [Attempts -> [Slots -> {"unsent", "sent", "accepted", "refused"}]]
        /\ remote'[a][s] = decision /\ Elsewhere(remote, remote', a, s)
    BY <1>1, <1>2, RemoteAt
  <1>4. \A b \in Attempts : \A r \in Slots : remote'[b][r] = remote[b][r] \/ (remote[b][r] = "sent" /\ remote'[b][r] # "unsent")
    BY <1>1, <1>3 DEF Elsewhere
  <1>5. TypeOK'
    BY <1>1, <1>3 DEF TypeOK
  <1>6. ASSUME NEW b \in Attempts, NEW r \in Slots PROVE LaneFollows(b, r)'
    BY <1>1, <1>4 DEF IInv, LaneFollows, Metered
  <1>7. ASSUME NEW b \in Attempts PROVE CreationFollows(b)'
    <2>1. Requests' = Requests /\ CreationFollows(b) /\ Requests \subseteq Slots /\ 0 \in Slots
      BY <1>1, RequestsAreSlots DEF Requests, XSlots, IInv, TypeOK
    <2>2. \A r \in Requests \ {0} : remote[b][r] = "accepted" => remote'[b][r] = "accepted"
      BY <1>4, <2>1
    <2>3. NoPost(b) => NoPost(b)'
      BY <1>4, <2>1 DEF NoPost
    <2>4. /\ remote'[b][0] # "unsent" => remote[b][0] # "unsent"
          /\ remote[b][0] = "accepted" => remote'[b][0] = "accepted"
      BY <1>4, <2>1
    <2>5. QED
      BY <1>1, <2>1, <2>2, <2>3, <2>4 DEF CreationFollows, Rejected
  <1>8. CallsFollow' /\ PollsLeft'
    BY <1>1 DEF IInv, CallsFollow, PollsLeft, Rejected
  <1>9. QED
    BY <1>5, <1>6, <1>7, <1>8 DEF IInv

\* The death of a process changes what is known of a call, not what it has done.
LEMMA CrashKeeps == ASSUME IInv, NEW a \in Attempts, Crash(a) PROVE IInv'
  <1>1. /\ UNCHANGED <<platform, media, polls, remote, ledger>> /\ TypeOK /\ answer[a] = "pending"
        /\ answer' = [answer EXCEPT ![a] = "crashed"]
        /\ lane' = [lane EXCEPT ![a] = [s \in Slots |-> "failed"]]
        /\ error' = [error EXCEPT ![a] = [s \in Slots |-> Network]]
    BY DEF Crash, IInv
  <1>2. TypeOK'
    BY <1>1, LateFailures DEF TypeOK, Outcomes, Points
  <1>3. \A b \in Attempts : \A r \in Slots :
           lane'[b][r] = (IF b = a THEN "failed" ELSE lane[b][r]) /\ (b # a => error'[b][r] = error[b][r])
    BY <1>1 DEF TypeOK
  <1>4. \A b \in Attempts : answer'[b] = (IF b = a THEN "crashed" ELSE answer[b]) /\ (Rejected(b)' <=> Rejected(b))
    BY <1>1 DEF TypeOK, Rejected, FailureCodes
  <1>5. ASSUME NEW b \in Attempts, NEW r \in Slots PROVE LaneFollows(b, r)'
    BY <1>1, <1>3 DEF IInv, LaneFollows, Metered
  <1>6. ASSUME NEW b \in Attempts PROVE CreationFollows(b)'
    <2>1. Requests' = Requests /\ CreationFollows(b) /\ Requests \subseteq Slots /\ 0 \in Slots
      BY <1>1, RequestsAreSlots DEF Requests, XSlots, IInv, TypeOK
    <2>2. QED
      BY <1>1, <1>3, <1>4, <2>1 DEF CreationFollows, NoPost
  <1>7. 2 \in Slots
    BY <1>1, RequestsAreSlots DEF TypeOK
  <1>8. CallsFollow' /\ PollsLeft'
    BY <1>1, <1>3, <1>4, <1>7 DEF IInv, CallsFollow, PollsLeft
  <1>9. QED
    BY <1>2, <1>5, <1>6, <1>8 DEF IInv

\* A read that dies touches nothing but its lane.
LEMMA CrashReadingKeeps == ASSUME IInv, NEW a \in Attempts, CrashReading(a) PROVE IInv'
  <1>1. /\ UNCHANGED <<platform, media, error, polls, remote, ledger>> /\ TypeOK
        /\ lane[a][Reading] # "idle" /\ GoTo(a, Reading, "failed")
    BY DEF CrashReading, IInv
  <1>2. /\ Requests \subseteq Slots \ {Reading} /\ 0 \in Slots \ {Reading} /\ 2 \in Slots \ {Reading}
        /\ Reading \in Slots /\ Requests' = Requests
    <2>1. Requests' = Requests
      BY <1>1 DEF Requests, XSlots
    <2>2. QED
      BY <1>1, <2>1, RequestsAreSlots DEF TypeOK
  <1>3. Moves(a, Reading, "failed") /\ answer' = answer
    BY <1>1, <1>2, GoToMoves DEF Points
  <1>4. \A b \in Attempts : \A r \in Slots :
           lane'[b][r] = lane[b][r] \/ (lane[b][r] # "idle" /\ lane'[b][r] = "failed" /\ r = Reading)
    BY <1>1, <1>3 DEF Moves, Elsewhere
  <1>5. TypeOK'
    BY <1>1, <1>3 DEF TypeOK, Moves
  <1>6. ASSUME NEW b \in Attempts, NEW r \in Slots PROVE LaneFollows(b, r)'
    BY <1>1, <1>4 DEF IInv, LaneFollows, Metered
  <1>7. ASSUME NEW b \in Attempts PROVE CreationFollows(b)'
    <2>1. CreationFollows(b) /\ lane'[b][0] = lane[b][0] /\ \A r \in Requests : lane'[b][r] = lane[b][r]
      BY <1>2, <1>4 DEF IInv
    <2>2. QED
      BY <1>1, <1>2, <1>3, <2>1 DEF CreationFollows, Rejected, NoPost
  <1>8. CallsFollow' /\ PollsLeft'
    BY <1>1, <1>2, <1>3, <1>4 DEF IInv, CallsFollow, PollsLeft, Rejected
  <1>9. QED
    BY <1>5, <1>6, <1>7, <1>8 DEF IInv

LEMMA IInvStep == ASSUME IInv, [Next]_vars PROVE IInv'
  <1>1. CASE UNCHANGED vars
    <2>1. UNCHANGED <<platform, media, answer, lane, error, polls, remote, ledger>>
      BY <1>1 DEF vars
    <2>2. Requests' = Requests
      BY <2>1 DEF Requests, XSlots
    <2>3. TypeOK' /\ CallsFollow' /\ PollsLeft'
      BY <2>1 DEF IInv, TypeOK, CallsFollow, PollsLeft, Rejected
    <2>4. \A a \in Attempts : CreationFollows(a)' /\ \A s \in Slots : LaneFollows(a, s)'
      BY <2>1, <2>2 DEF IInv, CreationFollows, LaneFollows, NoPost, Rejected, Metered
    <2>5. QED
      BY <2>3, <2>4 DEF IInv
  <1>2. QED
    BY <1>1, CallKeeps, CrashKeeps, CrashReadingKeeps, StepEffect, EffectKeeps, DecideKeeps DEF Next

LEMMA InvariantHolds == Spec => []IInv
  BY InvInit, IInvStep, PTL DEF Spec

-----------------------------------------------------------------------------
(* The invariants of the runs.                                             *)

\* The variables keep their types, and no container is polled more than MaxPolls times.
THEOREM TypeCorrect == Spec => []TypeOK
  BY InvariantHolds, PTL DEF IInv

\* At most one call has a post: an earlier call was rejected, so it has none.
LEMMA OnePost == ASSUME IInv, NEW a \in Posts, NEW b \in Posts PROVE a = b
  <1>1. ASSUME NEW c \in Posts, NEW d \in Posts, c < d PROVE FALSE
    <2>1. c \in Attempts /\ d \in Attempts /\ remote[c][0] = "accepted" /\ remote[d][0] = "accepted" /\ 0 \in Slots
      BY RequestsAreSlots DEF Posts, IInv, TypeOK
    <2>2. answer[d] # "none"
      BY <2>1 DEF IInv, CallsFollow, LaneFollows
    <2>3. Rejected(c)
      BY <1>1, <2>1, <2>2 DEF IInv, CallsFollow
    <2>4. QED
      BY <2>1, <2>3 DEF IInv, CreationFollows, NoPost
  <1>2. a \in Nat /\ b \in Nat
    BY MaxAttemptsAssumption DEF Posts, Attempts
  <1>3. QED
    BY <1>1, <1>2

\* Whatever requests fail, are lost or go on after the answer: a call whose failure
\* clears the request key has no post and gets none, and there is one post at most.
THEOREM RejectionProvesNoPost == Spec => []RejectedIsUnpublished
  <1>1. IInv => RejectedIsUnpublished
    BY OnePost DEF RejectedIsUnpublished, IInv, CreationFollows, NoPost
  <1>2. QED
    BY <1>1, InvariantHolds, PTL

\* A post at the provider has its container and every upload behind it.
THEOREM PostsAreWhole == Spec => []PostIsWhole
  <1>1. ASSUME IInv PROVE PostIsWhole
    <2>1. ASSUME NEW a \in Posts, NEW s \in Requests PROVE remote[a][s] = "accepted"
      <3>1. a \in Attempts /\ remote[a][0] = "accepted"
        BY DEF Posts
      <3>2. CreationFollows(a)
        BY <1>1, <3>1 DEF IInv
      <3>3. QED
        BY <3>1, <3>2 DEF CreationFollows
    <2>2. QED
      BY <2>1 DEF PostIsWhole
  <1>2. QED
    BY <1>1, InvariantHolds, PTL

\* No request of the X adapter, an abandoned upload or a read included, is made without
\* a ledger row, and no row reports a success that X did not carry out.
THEOREM LedgerCovers == Spec => []LedgerCoversRequests
  <1>1. IInv => LedgerCoversRequests
    BY DEF IInv, LaneFollows, LedgerCoversRequests, Metered
  <1>2. QED
    BY <1>1, InvariantHolds, PTL

-----------------------------------------------------------------------------
(* The refinement of RemoteWrite, its safety part.                         *)

outcome == [a \in Attempts |->
              CASE answer[a] \in {"none", "pending", "published"} -> answer[a]
                [] Rejected(a) -> "rejected"
                [] OTHER       -> "unknown"]

LEMMA OutcomeIs ==
    ASSUME NEW a \in Attempts
    PROVE  /\ answer[a] \in {"none", "pending", "published"} => outcome[a] = answer[a]
           /\ Rejected(a) => outcome[a] = "rejected"
           /\ answer[a] \notin {"none", "pending", "published"} /\ ~Rejected(a) => outcome[a] = "unknown"
  <1>1. Rejected(a) => answer[a] \notin {"none", "pending", "published"}
    BY DEF Rejected, FailureCodes
  <1>2. QED
    BY <1>1 DEF outcome

LEMMA OutcomeBecomes ==
    ASSUME NEW a \in Attempts
    PROVE  /\ answer'[a] \in {"none", "pending", "published"} => outcome'[a] = answer'[a]
           /\ Rejected(a)' => outcome'[a] = "rejected"
           /\ answer'[a] \notin {"none", "pending", "published"} /\ ~Rejected(a)' => outcome'[a] = "unknown"
  <1>1. Rejected(a)' => answer'[a] \notin {"none", "pending", "published"}
    BY DEF Rejected, FailureCodes
  <1>2. QED
    BY <1>1 DEF outcome, Rejected

Refines == [Write!Next]_Write!vars

LEMMA RefineInit == Init => Write!Init
  <1> SUFFICES ASSUME Init PROVE Write!Init
    OBVIOUS
  <1>1. 0 \in Slots
    BY RequestsAreSlots DEF Init
  <1>2. Posts = {}
    BY <1>1 DEF Init, Posts
  <1>3. outcome = [a \in Attempts |-> "none"]
    BY OutcomeIs DEF outcome, Init
  <1>4. QED
    BY <1>2, <1>3 DEF Write!Init, outcome

\* The outcome of one pending call becomes known, or known not to be.
LEMMA EndRefines ==
    ASSUME NEW a \in Attempts, Posts' = Posts, answer[a] = "pending", answer'[a] \notin {"none", "pending"},
           \A b \in Attempts \ {a} : answer'[b] = answer[b],
           answer'[a] = "published" => a \in Posts,
           Rejected(a)' => a \notin Posts
    PROVE  Refines
  <1>1. \A b \in Attempts \ {a} : outcome'[b] = outcome[b]
    BY DEF outcome, Rejected
  <1>2. PICK end \in {"published", "rejected", "unknown"} :
           /\ end = outcome'[a]
           /\ end = "published" => a \in Posts
           /\ end = "rejected" => a \notin Posts
    BY OutcomeBecomes DEF FailureCodes, Rejected
  <1>3. outcome[a] = "pending" /\ outcome' = [outcome EXCEPT ![a] = end]
    <2>1. outcome[a] = "pending"
      BY OutcomeIs
    <2>2. outcome = [b \in Attempts |-> outcome[b]] /\ outcome' = [b \in Attempts |-> outcome'[b]]
      BY DEF outcome
    <2>3. QED
      BY <1>1, <1>2, <2>1, <2>2
  <1>4. Write!End(a)
    BY <1>2, <1>3 DEF Write!End, outcome
  <1>5. QED
    BY <1>4 DEF Refines, Write!Next

LEMMA StutterRefines ==
    ASSUME Posts' = Posts, UNCHANGED answer PROVE Refines
  <1>1. outcome' = outcome
    BY DEF outcome, Rejected
  <1>2. QED
    BY <1>1 DEF Refines, Write!vars, outcome

LEMMA RefineCall == ASSUME IInv, NEW a \in Attempts, Call(a) PROVE Refines
  <1>1. /\ answer[a] = "none" /\ answer'[a] = "pending" /\ Posts' = Posts
        /\ \A b \in Attempts \ {a} : answer'[b] = answer[b]
        /\ \A b \in Attempts : b < a => Rejected(b)
    BY DEF Call, Posts, IInv, TypeOK, Attempts
  <1>2. outcome[a] = "none" /\ \A b \in Attempts : b < a => outcome[b] = "rejected"
    BY <1>1, OutcomeIs
  <1>3. outcome' = [outcome EXCEPT ![a] = "pending"]
    <2>1. outcome'[a] = "pending" /\ \A b \in Attempts \ {a} : outcome'[b] = outcome[b]
      BY <1>1, OutcomeBecomes DEF outcome, Rejected
    <2>2. outcome = [b \in Attempts |-> outcome[b]] /\ outcome' = [b \in Attempts |-> outcome'[b]]
      BY DEF outcome
    <2>3. QED
      BY <2>1, <2>2
  <1>4. Write!Call(a)
    BY <1>1, <1>2, <1>3 DEF Write!Call, outcome
  <1>5. QED
    BY <1>4 DEF Refines, Write!Next

LEMMA RefineEffect == ASSUME IInv, NEW a \in Attempts, NEW s \in Slots, Effect(a, s) PROVE Refines
  <1>1. 0 \in Slots
    BY RequestsAreSlots DEF IInv, TypeOK
  <1>2. \A b \in Attempts : remote'[b][0] = "accepted" <=> remote[b][0] = "accepted"
    BY <1>1 DEF Effect, Elsewhere, IInv, LaneFollows
  <1>3. Posts' = Posts
    BY <1>2 DEF Posts
  <1>4. CASE answer' = answer
    BY <1>3, <1>4, StutterRefines
  <1>5. CASE answer' # answer
    <2>1. answer[a] = "pending" /\ answer'[a] \notin {"none", "pending"} /\ \A b \in Attempts \ {a} : answer'[b] = answer[b]
      <3>1. answer'[a] # answer[a]
        BY <1>5 DEF Effect, Moves, IInv, TypeOK
      <3>2. QED
        BY <3>1 DEF Effect, Moves, FailureCodes
    <2>2. CreationFollows(a)'
      BY EffectCreation
    <2>3. (answer'[a] = "published" => a \in Posts) /\ (Rejected(a)' => a \notin Posts)
      BY <1>2, <2>2 DEF CreationFollows, NoPost, Posts
    <2>4. QED
      BY <1>3, <2>1, <2>3, EndRefines
  <1>6. QED
    BY <1>4, <1>5

\* The provider creates the post: of a call that is not known to have none, the first.
LEMMA RefineDecide == ASSUME IInv, NEW a \in Attempts, NEW s \in Slots, Decide(a, s) PROVE Refines
  <1>1. /\ UNCHANGED answer /\ remote[a][s] = "sent" /\ 0 \in Slots
        /\ remote' \in {[remote EXCEPT ![a][s] = decision] : decision \in {"accepted", "refused"}}
    BY RequestsAreSlots DEF Decide, code, IInv, TypeOK
  <1>2. CASE s # 0 \/ remote' = [remote EXCEPT ![a][s] = "refused"]
    <2>1. \A b \in Attempts : remote'[b][0] = "accepted" <=> remote[b][0] = "accepted"
      <3>1. PICK decision \in {"accepted", "refused"} :
                 remote' = [remote EXCEPT ![a][s] = decision] /\ (s = 0 => decision = "refused")
        BY <1>1, <1>2
      <3>2. Elsewhere(remote, remote', a, s) /\ remote'[a][s] = decision
        BY <3>1, RemoteAt DEF IInv
      <3>3. QED
        BY <1>1, <3>1, <3>2 DEF Elsewhere
    <2>2. Posts' = Posts
      BY <2>1 DEF Posts
    <2>3. QED
      BY <1>1, <2>2, StutterRefines
  <1>3. CASE s = 0 /\ remote' = [remote EXCEPT ![a][s] = "accepted"]
    <2>1. ~Rejected(a) /\ answer[a] \notin {"none", "published"}
      BY <1>1, <1>3 DEF IInv, CallsFollow, LaneFollows, CreationFollows, NoPost
    <2>2. outcome[a] \in {"pending", "unknown"}
      BY <2>1, OutcomeIs
    <2>3. Posts' = Posts \cup {a}
      BY <1>1, <1>3 DEF Posts, IInv, TypeOK
    <2>4. Posts = {}
      <3>1. ASSUME NEW b \in Posts PROVE FALSE
        <4>1. b \in Attempts /\ a \in Attempts /\ remote[b][0] = "accepted" /\ b # a
          BY <1>1, <1>3 DEF Posts
        <4>2. answer[b] # "none"
          BY <1>1, <4>1 DEF IInv, CallsFollow, LaneFollows
        <4>3. b < a => Rejected(b)
          BY <2>1, <4>1 DEF IInv, CallsFollow
        <4>4. a < b => Rejected(a)
          BY <4>1, <4>2 DEF IInv, CallsFollow
        <4>5. ~Rejected(b)
          BY <4>1 DEF IInv, CreationFollows, NoPost
        <4>6. QED
          BY <2>1, <4>1, <4>3, <4>4, <4>5, MaxAttemptsAssumption DEF Attempts
      <3>2. QED
        BY <3>1
    <2>5. outcome' = outcome
      BY <1>1 DEF outcome, Rejected
    <2>6. Write!Publish(a)
      BY <2>2, <2>3, <2>4, <2>5 DEF Write!Publish, outcome
    <2>7. QED
      BY <2>6 DEF Refines, Write!Next
  <1>4. QED
    BY <1>1, <1>2, <1>3

LEMMA RefineCrash == ASSUME IInv, NEW a \in Attempts, Crash(a) \/ CrashReading(a) PROVE Refines
  <1>1. Posts' = Posts
    BY DEF Crash, CrashReading, Posts
  <1>2. CASE Crash(a)
    <2>1. /\ answer[a] = "pending" /\ answer'[a] = "crashed" /\ ~Rejected(a)'
          /\ \A b \in Attempts \ {a} : answer'[b] = answer[b]
      BY <1>2 DEF Crash, IInv, TypeOK, Rejected, FailureCodes
    <2>2. QED
      BY <1>1, <2>1, EndRefines
  <1>3. CASE CrashReading(a)
    BY <1>1, <1>3, StutterRefines DEF CrashReading, GoTo
  <1>4. QED
    BY <1>2, <1>3

LEMMA RefineStep == ASSUME IInv, [Next]_vars PROVE Refines
  <1>1. CASE UNCHANGED vars
    BY <1>1, StutterRefines DEF vars, Posts
  <1>2. QED
    BY <1>1, RefineCall, RefineCrash, StepEffect, RefineEffect, RefineDecide DEF Next

\* To the worker, publish() of each adapter is the single write of RemoteWrite: one
\* post at most, published when it says so and absent when the failure says so.
\* (That every call ends is ImplementsRemoteWrite's fairness, checked by TLC.)
THEOREM WriteRefinement == Spec => Write!Init /\ [][Write!Next]_Write!vars
  BY RefineInit, RefineStep, InvariantHolds, PTL DEF Spec, Refines

-----------------------------------------------------------------------------
(* What the worker relies on when it clears the request key of a row.      *)

\* The answer of a call is not taken back, by a late upload, a crash or another call;
\* and what was rejected has no post after the step either.
AnswersStand ==
    \A a \in Attempts :
        /\ answer[a] \notin {"none", "pending"} => answer'[a] = answer[a]
        /\ Rejected(a) => remote'[a][0] \in {"unsent", "refused"}

\* Requests of a call may be under way long after publish() has thrown, and X goes on to
\* decide about them. Yet a rejection stands: the worker clears the request key on it
\* and writes again, and no request of the old call becomes a post behind its back.
THEOREM RejectionStands == Spec => [][AnswersStand]_vars
  <1>1. ASSUME IInv, [Next]_vars, NEW a \in Attempts, answer[a] \notin {"none", "pending"}
        PROVE  answer'[a] = answer[a]
    <2>1. ASSUME NEW b \in Attempts, NEW s \in Slots, Effect(b, s) PROVE answer'[a] = answer[a]
      BY <1>1, <2>1, EffectAnswers
    <2>2. ASSUME NEW b \in Attempts, Call(b) \/ Crash(b) \/ CrashReading(b) PROVE answer'[a] = answer[a]
      BY <1>1, <2>2 DEF Call, Crash, CrashReading, GoTo, IInv, TypeOK
    <2>3. ASSUME NEW b \in Attempts, NEW s \in Slots, Decide(b, s) PROVE answer'[a] = answer[a]
      BY <2>3 DEF Decide, code
    <2>4. CASE UNCHANGED vars
      BY <2>4 DEF vars
    <2>5. QED
      BY <1>1, <2>1, <2>2, <2>3, <2>4, StepEffect DEF Next
  <1>2. ASSUME IInv, [Next]_vars, NEW a \in Attempts, Rejected(a)
        PROVE  remote'[a][0] \in {"unsent", "refused"}
    <2>1. answer'[a] = answer[a]
      BY <1>1, <1>2 DEF Rejected, FailureCodes
    <2>2. CreationFollows(a)'
      BY <1>2, IInvStep DEF IInv
    <2>3. QED
      BY <1>2, <2>1, <2>2 DEF CreationFollows, Rejected, NoPost
  <1>3. IInv /\ [Next]_vars => AnswersStand
    BY <1>1, <1>2 DEF AnswersStand
  <1>4. QED
    BY <1>3, InvariantHolds, PTL DEF Spec
=============================================================================
