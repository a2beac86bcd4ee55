-------------------------- MODULE PlatformAdapters --------------------------
(***************************************************************************)
(* publish() and getAnalytics() of the five platform adapters, request by  *)
(* request, with the usage ledger of the X adapter:                        *)
(* backend/src/publishing/adapters/*.ts and x-api-usage.service.ts. A      *)
(* module instance is one job on one platform; publish() is called again   *)
(* after a failure that proves there is no post. getPost, deletePost and   *)
(* getReplies have no caller that reaches them and are left out.           *)
(*                                                                         *)
(* A call makes a set of requests, named by slots: slot 0 creates the post,*)
(* the slots above it prepare it (a container, its readiness, media        *)
(* uploads), and the slot Reading reads its analytics once it is there.    *)
(* Errors are named by their HTTP status; without a status they are        *)
(* Network (TypeError, ECONNRESET, ...) or Unknown.                        *)
(***************************************************************************)
EXTENDS PublishRetryPolicy

CONSTANTS
    MaxMedia,    \* media items of a post, 4 in the code (post.dto.ts)
    MaxPolls,    \* INSTAGRAM_CONTAINER_MAX_ATTEMPTS
    Refusals     \* the 4xx statuses a provider answers with

ASSUME AdapterAssumption ==
    /\ MaxMedia \in Nat \ {0} /\ MaxPolls \in Nat \ {0}
    /\ Refusals \subseteq 400..499

VARIABLES
    platform, \* the job's platform
    media,    \* how many media items the post has
    answer,   \* of each call: "none", "pending", "published", "crashed" or a failure code
    lane,     \* where the code that makes each request stands
    error,    \* the error a lane holds while it settles its reservation
    polls,    \* container polls of each call so far
    remote,   \* each request at the provider
    ledger    \* x_api_usage_ledger: the reservation of each request

code == <<answer, lane, error, polls>>
vars == <<platform, media, answer, lane, error, polls, remote, ledger>>

Attempts  == 1..MaxAttempts
Reading   == 1 + IF MaxMedia < 2 THEN 2 ELSE MaxMedia
Slots     == 0..Reading
Platforms == {"facebook", "linkedin", "threads", "instagram", "x"}
Points    == {"idle", "resolved", "reserved", "sent", "billed", "failing", "done", "failed"}

Network == 0
Unknown == 1
\* A TypeError is a network error to the classifier; a missing scope, an expired token
\* or an account id of the wrong form is 403, an account that is not active 404.
LocalFaults == {Network, Unknown, 503, 403, 404}
Errors  == Refusals \cup LocalFaults \cup {500}

\* Mutant: a 5xx answer is a rejection.
FailureCodeStrict(e) ==
    CASE e = 401     -> "TOKEN_EXPIRED"
      [] e = 403     -> "PERMISSION_DENIED"
      [] e = 429     -> "RATE_LIMITED"
      [] e = Network -> "NETWORK_ERROR"
      [] e = Unknown -> "UNKNOWN_ERROR"
      [] OTHER       -> "INVALID_REQUEST"
\* classifyPublishFailure: the error's code, from its status if it has one.
FailureCode(e) ==
    CASE e = 401     -> "TOKEN_EXPIRED"
      [] e = 403     -> "PERMISSION_DENIED"
      [] e = 429     -> "RATE_LIMITED"
      [] e >= 500    -> "UPSTREAM_SERVER_ERROR"
      [] e = Network -> "NETWORK_ERROR"
      [] e = Unknown -> "UNKNOWN_ERROR"
      [] OTHER       -> "INVALID_REQUEST"

-----------------------------------------------------------------------------
(* The requests of each platform's publish().                              *)

FacebookSlots  == {0}
LinkedInSlots  == {0}
ThreadsSlots   == {0, 1}     \* 1: the container
InstagramSlots == {0, 1, 2}  \* 1: the container, 2: its readiness
XSlots         == 0..media   \* 1..media: the uploads

Requests ==
    CASE platform = "facebook"  -> FacebookSlots
      [] platform = "linkedin"  -> LinkedInSlots
      [] platform = "threads"   -> ThreadsSlots
      [] platform = "instagram" -> InstagramSlots
      [] platform = "x"         -> XSlots

\* issues: how many media items a post for the platform is approved with. The
\* adapters' own refusals of other numbers (501) are thus never met.
Approved(p) ==
    CASE p = "linkedin"  -> {0}
      [] p = "instagram" -> {1}
      [] p = "x"         -> 0..MaxMedia
      [] OTHER           -> {0, 1}

\* Mutant: the post is created as soon as one upload is done.
ReadyAfterOne(a, s) ==
    IF platform = "x"
    THEN s # 0 \/ Requests = {0} \/ \E r \in Requests \ {0} : lane[a][r] = "done"
    ELSE IF s = 0 THEN \A r \in Requests \ {0} : lane[a][r] = "done"
                  ELSE \A r \in Requests \ {0} : r < s => lane[a][r] = "done"
\* What each request waits for: X uploads go out together (Promise.all), the
\* other requests one after the other, and the post is created last.
Ready(a, s) ==
    IF s = 0 THEN \A r \in Requests \ {0} : lane[a][r] = "done"
             ELSE platform = "x" \/ \A r \in Requests \ {0} : r < s => lane[a][r] = "done"

Metered == platform = "x"

-----------------------------------------------------------------------------
Init ==
    /\ platform \in Platforms
    /\ media \in Approved(platform)
    /\ answer = [a \in Attempts |-> "none"]
    /\ lane   = [a \in Attempts |-> [s \in Slots |-> "idle"]]
    /\ error  = [a \in Attempts |-> [s \in Slots |-> Network]]
    /\ polls  = [a \in Attempts |-> 0]
    /\ remote = [a \in Attempts |-> [s \in Slots |-> "unsent"]]
    /\ ledger = [a \in Attempts |-> [s \in Slots |-> "none"]]

Rejected(a) == answer[a] \in FailureCodes /\ ~Ambiguous(answer[a])

\* The worker calls publish(): for the first time, or after a rejection.
Call(a) ==
    /\ answer[a] = "none"
    /\ \A b \in 1..(a - 1) : Rejected(b)
    /\ answer' = [answer EXCEPT ![a] = "pending"]
    /\ UNCHANGED <<platform, media, lane, error, polls, remote, ledger>>

GoTo(a, s, point) ==
    /\ lane' = [lane EXCEPT ![a][s] = point]
    /\ UNCHANGED answer

\* Mutant: the error of an upload or a container is swallowed, and publish() waits on.
ThrowAlone(a, s, e) ==
    /\ lane' = [lane EXCEPT ![a][s] = "failed"]
    /\ answer' = IF s = 0 /\ answer[a] = "pending" THEN [answer EXCEPT ![a] = FailureCode(e)] ELSE answer
\* The request throws: publish() rejects with the first error; the X uploads
\* that are still under way go on (Promise.all does not stop them).
Throw(a, s, e) ==
    /\ lane' = [lane EXCEPT ![a][s] = "failed"]
    /\ answer' = IF answer[a] = "pending" THEN [answer EXCEPT ![a] = FailureCode(e)] ELSE answer

\* Mutant: the id of a container or an upload is returned as the post's.
FinishEarly(a, s) ==
    /\ lane' = [lane EXCEPT ![a][s] = "done"]
    /\ answer' = IF answer[a] = "pending" THEN [answer EXCEPT ![a] = "published"] ELSE answer
\* The request is over; when it created the post, so is publish().
Finish(a, s) ==
    /\ lane' = [lane EXCEPT ![a][s] = "done"]
    /\ answer' = IF s = 0 THEN [answer EXCEPT ![a] = "published"] ELSE answer

\* getPostAnalytics: the collection reads a published post (one read of each is modelled).
Collects(a, s) == s = Reading /\ answer[a] = "published"

\* publish() runs, or one of its uploads still does, or the collection reads the post.
Runs(a, s) ==
    \/ s \in Requests /\ answer[a] = "pending"
    \/ platform = "x" /\ s \in Requests \ {0} /\ answer[a] # "none"
    \/ Collects(a, s)

\* Each request resolves the account's credential anew (credential services,
\* TokenService.decrypt) and prepares its parameters: a text that a platform body
\* leaves blank is a TypeError, a configuration that is missing a 503 (of a read: 501).
Resolve(a, s) ==
    /\ lane[a][s] = "idle" /\ Runs(a, s) /\ Ready(a, s)
    /\ \/ GoTo(a, s, "resolved")
       \/ \E e \in LocalFaults \cup (IF s = Reading THEN {501} ELSE {}) : Throw(a, s, e)
    /\ UNCHANGED <<platform, media, error, polls, remote, ledger>>

\* estimate: no price or pricing version is configured, or the price is above the cap.
TooDear(a, s) ==
    /\ Metered /\ lane[a][s] = "resolved" /\ Runs(a, s)
    /\ Throw(a, s, 503)
    /\ UNCHANGED <<platform, media, error, polls, remote, ledger>>

\* reserve: the INSERT, which may take effect though its answer is lost.
Reserve(a, s) ==
    /\ Metered /\ lane[a][s] = "resolved" /\ Runs(a, s)
    /\ \/ /\ GoTo(a, s, "reserved")
          /\ ledger' = [ledger EXCEPT ![a][s] = "reserved"]
       \/ /\ \E e \in {Network, Unknown} : Throw(a, s, e)
          /\ ledger' \in {ledger, [ledger EXCEPT ![a][s] = "reserved"]}
    /\ UNCHANGED <<platform, media, error, polls, remote>>

\* An error inside request(): a metered request settles its reservation first.
\* Of an upload that nobody awaits any more, the error is not kept.
Fails(a, s, e) ==
    IF Metered
    THEN GoTo(a, s, "failing") /\ error' = IF answer[a] = "pending" THEN [error EXCEPT ![a][s] = e] ELSE error
    ELSE Throw(a, s, e) /\ UNCHANGED error

IsPoll(s) == platform = "instagram" /\ s = 2

\* What the code refuses after the reservation: a LinkedIn version or an X base URL
\* that is not configured, and the URL of a GET that does not parse (withQuery).
Unsendable(s) == IF platform \in {"linkedin", "x"} \/ IsPoll(s) \/ s = Reading THEN {503, Network} ELSE {Network}

Transmit(a, s) ==
    /\ lane[a][s] = IF Metered THEN "reserved" ELSE "resolved"
    /\ Runs(a, s)
    /\ \/ /\ GoTo(a, s, "sent") /\ UNCHANGED error
          /\ remote' = [remote EXCEPT ![a][s] = "sent"]
       \/ \E e \in Unsendable(s) : Fails(a, s, e) /\ UNCHANGED remote  \* nothing is sent
    /\ UNCHANGED <<platform, media, polls, ledger>>

\* The provider does what is asked, or decides not to; a container is ready, or broken.
Decide(a, s) ==
    /\ remote[a][s] = "sent"
    /\ \E decision \in {"accepted", "refused"} : remote' = [remote EXCEPT ![a][s] = decision]
    /\ UNCHANGED <<platform, media, code, ledger>>

\* What a 2xx answer may lack: JSON, or the id; of a read, any numeric metric
\* (assertAnalyticsHaveValues, a TypeError).
Lacks(s) == IF s = Reading THEN {503, Unknown, Network} ELSE {503, Unknown}

\* A 2xx answer with what the adapter reads, or without it. A metered request
\* settles its reservation before the id or the metrics are read.
AnswerOk(a, s) ==
    /\ lane[a][s] = "sent" /\ remote[a][s] = "accepted" /\ ~IsPoll(s) /\ Runs(a, s)
    /\ \/ Metered /\ GoTo(a, s, "billed") /\ UNCHANGED error
       \/ ~Metered /\ Finish(a, s) /\ UNCHANGED error
       \/ \E e \in Lacks(s) : Fails(a, s, e)
    /\ UNCHANGED <<platform, media, polls, remote, ledger>>

\* Any other answer, or none: a 4xx status only from a provider that refuses.
AnswerError(a, s) ==
    /\ lane[a][s] = "sent" /\ Runs(a, s)
    /\ \E e \in Refusals \cup {500, Network} :
          /\ e \in Refusals => remote[a][s] = "refused" \/ IsPoll(s)
          /\ Fails(a, s, e)
    /\ UNCHANGED <<platform, media, polls, remote, ledger>>

\* Mutant: the time-out is taken for readiness.
AnswerPollLeniently(a, s) ==
    /\ IsPoll(s) /\ lane[a][s] = "sent" /\ Runs(a, s)
    /\ \/ remote[a][s] = "accepted" /\ Finish(a, s) /\ UNCHANGED polls
       \/ remote[a][s] = "refused" /\ Throw(a, s, 503) /\ UNCHANGED polls
       \/ /\ remote[a][s] = "sent"
          /\ polls' = [polls EXCEPT ![a] = polls[a] + 1]
          /\ IF polls'[a] < MaxPolls THEN UNCHANGED <<lane, answer>> ELSE Finish(a, s)
    /\ UNCHANGED <<platform, media, error, remote, ledger>>
\* Mutant: one poll too many.
AnswerPollOnceMore(a, s) ==
    /\ IsPoll(s) /\ lane[a][s] = "sent" /\ Runs(a, s)
    /\ \/ remote[a][s] = "accepted" /\ Finish(a, s) /\ UNCHANGED polls
       \/ remote[a][s] = "refused" /\ Throw(a, s, 503) /\ UNCHANGED polls
       \/ /\ remote[a][s] = "sent"
          /\ polls' = [polls EXCEPT ![a] = polls[a] + 1]
          /\ IF polls'[a] <= MaxPolls THEN UNCHANGED <<lane, answer>> ELSE Throw(a, s, 503)
    /\ UNCHANGED <<platform, media, error, remote, ledger>>
\* waitUntilReady: FINISHED ends it, ERROR and EXPIRED fail it, and so does the
\* last poll that finds the container in progress.
AnswerPoll(a, s) ==
    /\ IsPoll(s) /\ lane[a][s] = "sent" /\ Runs(a, s)
    /\ \/ remote[a][s] = "accepted" /\ Finish(a, s) /\ UNCHANGED polls
       \/ remote[a][s] = "refused" /\ Throw(a, s, 503) /\ UNCHANGED polls
       \/ /\ remote[a][s] = "sent"
          /\ polls' = [polls EXCEPT ![a] = polls[a] + 1]
          /\ IF polls'[a] < MaxPolls THEN UNCHANGED <<lane, answer>> ELSE Throw(a, s, 503)
    /\ UNCHANGED <<platform, media, error, remote, ledger>>

\* Mutant: every settlement reports success.
SettledAs(a, s) == "succeeded"
Verdict(a, s) == IF lane[a][s] = "billed" THEN "succeeded" ELSE "failed"

\* settleWithoutBreakingPublication swallows its own errors; then billed returns
\* and the adapter reads the id, which may be missing, or billed throws.
Settle(a, s) ==
    /\ lane[a][s] \in {"billed", "failing"} /\ Runs(a, s)
    /\ ledger' \in {ledger, [ledger EXCEPT ![a][s] = Verdict(a, s)]}
    /\ IF lane[a][s] = "billed"
       THEN Finish(a, s) \/ Throw(a, s, 503)
       ELSE Throw(a, s, error[a][s])
    /\ error' = [error EXCEPT ![a][s] = Network]
    /\ UNCHANGED <<platform, media, polls, remote>>

\* The collecting process dies during a read.
CrashReading(a) ==
    /\ Runs(a, Reading) /\ lane[a][Reading] \notin {"idle", "done", "failed"}
    /\ GoTo(a, Reading, "failed")
    /\ UNCHANGED <<platform, media, error, polls, remote, ledger>>

\* The process dies during publish(), and everything it runs with it.
Crash(a) ==
    /\ answer[a] = "pending"
    /\ answer' = [answer EXCEPT ![a] = "crashed"]
    /\ lane'   = [lane EXCEPT ![a] = [s \in Slots |-> "failed"]]
    /\ error'  = [error EXCEPT ![a] = [s \in Slots |-> Network]]
    /\ UNCHANGED <<platform, media, polls, remote, ledger>>

Step(a, s) ==
    \/ Resolve(a, s) \/ TooDear(a, s) \/ Reserve(a, s) \/ Transmit(a, s)
    \/ AnswerOk(a, s) \/ AnswerError(a, s) \/ AnswerPoll(a, s) \/ Settle(a, s)

Next ==
    \E a \in Attempts :
        \/ Call(a) \/ Crash(a) \/ CrashReading(a)
        \/ \E s \in Slots : Step(a, s) \/ Decide(a, s)

Spec == Init /\ [][Next]_vars

\* fetch gives up after its default time-outs, so every request ends.
FairSpec == Spec /\ \A a \in Attempts : WF_vars(\E s \in Slots : Step(a, s))

-----------------------------------------------------------------------------
Outcomes == {"none", "pending", "published", "crashed"} \cup FailureCodes

\* The variables hold values of their types; no container is polled too often.
TypeOK ==
    /\ platform \in Platforms
    /\ media \in Approved(platform)
    /\ answer \in [Attempts -> Outcomes]
    /\ lane \in [Attempts -> [Slots -> Points]]
    /\ error \in [Attempts -> [Slots -> Errors]]
    /\ polls \in [Attempts -> 0..MaxPolls]
    /\ remote \in [Attempts -> [Slots -> {"unsent", "sent", "accepted", "refused"}]]
    /\ ledger \in [Attempts -> [Slots -> {"none", "reserved", "succeeded", "failed"}]]

Posts == {a \in Attempts : remote[a][0] = "accepted"}

\* A failure that clears the request key proves that its call has published
\* nothing and never will, also while its uploads go on; so there is one post at most.
RejectedIsUnpublished ==
    /\ \A a \in Attempts : Rejected(a) => remote[a][0] \in {"unsent", "refused"}
    /\ \A a, b \in Posts : a = b

\* A post at the provider has all it was to have: every upload of its own call
\* (publishMedia), its container, and the container was ready (waitUntilReady).
PostIsWhole ==
    \A a \in Posts : \A s \in Requests : remote[a][s] = "accepted"

\* Every request that may cost credits, a read too, has a ledger row, and the row says
\* succeeded only of a request that X carried out (x-api-usage.service.ts).
LedgerCoversRequests ==
    \A a \in Attempts : \A s \in Slots :
        /\ platform = "x" /\ remote[a][s] # "unsent" => ledger[a][s] # "none"
        /\ ledger[a][s] = "succeeded" => remote[a][s] = "accepted"

\* publish() is the single write the worker takes it for, and it always ends.
Write == INSTANCE RemoteWrite WITH
    outcome <- [a \in Attempts |->
                  CASE answer[a] \in {"none", "pending", "published"} -> answer[a]
                    [] Rejected(a) -> "rejected"
                    [] OTHER       -> "unknown"],
    posts <- Posts
ImplementsRemoteWrite == Write!Spec
=============================================================================
