---------------------------- MODULE SigningKeys ----------------------------
(***************************************************************************)
(* The signing keys of the service JWTs (service-jwt-verifier.service.ts): *)
(* the cached JWKS document, its refresh that concurrent requests share,   *)
(* and the rate limit of refreshes for unknown key ids, while the          *)
(* authentication server rotates its key.                                  *)
(*                                                                         *)
(* One API process. Continuations of settled promises run before anything  *)
(* else happens. Time is counted in ticks: expiresAt and the cooldown are  *)
(* kept as the ticks that are left of them. A token is its key id: one     *)
(* that fails for its form, signature or claims is refused without an      *)
(* effect that a token with the same key id does not have.                 *)
(***************************************************************************)
EXTENDS Integers, FiniteSets

CONSTANTS
    Requests,   \* requests served at a time
    NoRequest,
    Ttl,        \* jwksCacheTtlMs
    Cooldown,   \* UNKNOWN_KID_REFRESH_COOLDOWN_MS
    Timeout,    \* JWKS_REQUEST_TIMEOUT_MS
    MaxFailures \* bound: refreshes that fail

ASSUME KeysAssumption ==
    /\ NoRequest \notin Requests
    /\ Ttl \in Nat \ {0} /\ Cooldown \in Nat \ {0} /\ Timeout \in Nat \ {0}
    /\ Timeout < Cooldown /\ MaxFailures \in Nat

VARIABLES
    document,  \* the version of the JWKS document that the server publishes
    stable,    \* ticks since it last changed, as far as they matter
    cache,     \* jwksCache: version, ticks to expiresAt and to the end of the cooldown
    refresh,   \* jwksRefresh: the request whose fetch is shared
    fetch,     \* the fetch each request has started
    request,   \* where each request stands, with what key id and on whose fetch
    failures,  \* refreshes that have failed so far
    mending    \* ticks for which the last failure may still have consequences

vars == <<document, stable, cache, refresh, fetch, request, failures, mending>>

\* The rotation of docs/oauth-security.md, step 4: the old key, both, the new one.
KeysOf(version) == CASE version = 0 -> {"old"} [] version = 1 -> {"old", "new"} [] version = 2 -> {"new"}
                     [] OTHER -> {}
KeyIds   == {"old", "new", "unknown"}
NoDocument == -1
Settled  == Ttl + Timeout

Points   == {"idle", "loading", "lookup", "forced", "relookup", "accepted", "refused"}
Progress == [pc : Points, kid : KeyIds, on : Requests \cup {NoRequest}, waited : 0..Timeout]
Served(answer) == [pc |-> answer, kid |-> "old", on |-> NoRequest, waited |-> 0]
NoFetch  == [status |-> "none", version |-> NoDocument, age |-> 0]
Fetches  == [status : {"none", "sent", "read"}, version : NoDocument..2, age : 0..Timeout]

Init ==
    /\ document = 0 /\ stable = Settled
    /\ cache = [version |-> NoDocument, ttl |-> 0, cool |-> 0]
    /\ refresh = NoRequest
    /\ fetch = [r \in Requests |-> NoFetch]
    /\ request = [r \in Requests |-> Served("idle")]
    /\ failures = 0 /\ mending = 0

\* No continuation is due.
Quiet == \A r \in Requests : request[r].pc \notin {"lookup", "relookup"}

-----------------------------------------------------------------------------
(* The authentication server and the clock.                                *)

Rotate ==
    /\ Quiet /\ document < 2
    /\ document' = document + 1 /\ stable' = 0
    /\ UNCHANGED <<cache, refresh, fetch, request, failures, mending>>

Less(n) == IF n = 0 THEN 0 ELSE n - 1

\* No fetch outlives its timeout.
Tick ==
    /\ Quiet
    /\ \A r \in Requests : fetch[r].status # "none" => fetch[r].age < Timeout
    /\ stable' = IF stable < Settled THEN stable + 1 ELSE stable
    /\ cache' = [cache EXCEPT !.ttl = Less(cache.ttl), !.cool = Less(cache.cool)]
    /\ fetch' = [r \in Requests |-> IF fetch[r].status = "none" THEN NoFetch
                                     ELSE [fetch[r] EXCEPT !.age = fetch[r].age + 1]]
    /\ request' = [r \in Requests |-> IF request[r].pc # "forced" THEN request[r]
                                       ELSE [request[r] EXCEPT !.waited = request[r].waited + 1]]
    /\ mending' = Less(mending)
    /\ UNCHANGED <<document, refresh, failures>>

-----------------------------------------------------------------------------
(* loadJwks and fetchJwks.                                                 *)

\* Mutant: expiresAt is not looked at.
ValidForEver == cache.version # NoDocument
Valid == cache.ttl > 0

\* Mutant: a request does not join the refresh under way.
NotShared == FALSE
Shared == refresh # NoRequest

\* The request waits for the shared fetch, or starts one and shares it.
Wait(r, pc, kid) ==
    LET on == IF Shared THEN refresh ELSE r IN
    /\ request' = [request EXCEPT ![r] = [pc |-> pc, kid |-> kid, on |-> on, waited |-> 0]]
    /\ refresh' = on
    /\ fetch' = IF Shared THEN fetch ELSE [fetch EXCEPT ![r].status = "sent"]

\* The server answers with its document of that moment, if it answers.
Read(r) ==
    /\ Quiet /\ fetch[r].status = "sent"
    /\ fetch' = [fetch EXCEPT ![r].status = "read", ![r].version = document]
    /\ UNCHANGED <<document, stable, cache, refresh, request, failures, mending>>

WaitsFor(q, r) == request[q].pc \in {"loading", "forced"} /\ request[q].on = r

\* Mutant: no refresh is forgotten (loadJwks without its finally).
RefreshForEver(r, succeeds) == refresh
\* Mutant: only a refresh that succeeds is forgotten.
KeptRefresh(r, succeeds) == IF refresh = r /\ succeeds THEN NoRequest ELSE refresh
NextRefresh(r, succeeds) == IF refresh = r THEN NoRequest ELSE refresh

Complete(r) ==
    /\ Quiet /\ fetch[r].status = "read"
    /\ cache' = [version |-> fetch[r].version, ttl |-> Ttl, cool |-> 0]
    /\ request' = [q \in Requests |-> IF ~WaitsFor(q, r) THEN request[q] ELSE
          [request[q] EXCEPT !.pc = IF request[q].pc = "loading" THEN "lookup" ELSE "relookup",
                             !.on = NoRequest]]
    /\ fetch' = [fetch EXCEPT ![r] = NoFetch]
    /\ refresh' = NextRefresh(r, TRUE)
    /\ UNCHANGED <<document, stable, failures, mending>>

\* No answer in time, an error, or no usable document: all who wait are refused.
Fail(r) ==
    /\ Quiet /\ fetch[r].status # "none" /\ failures < MaxFailures
    /\ failures' = failures + 1 /\ mending' = Cooldown
    /\ request' = [q \in Requests |-> IF WaitsFor(q, r) THEN Served("refused") ELSE request[q]]
    /\ fetch' = [fetch EXCEPT ![r] = NoFetch]
    /\ refresh' = NextRefresh(r, FALSE)
    /\ UNCHANGED <<document, stable, cache>>

-----------------------------------------------------------------------------
(* verify and getVerificationKey.                                          *)

\* A request with a token; tokens of the new key are issued when it is published.
Start(r, kid) ==
    /\ Quiet /\ request[r].pc \in {"idle", "accepted", "refused"}
    /\ kid = "new" => document >= 1
    /\ IF Valid
       THEN /\ request' = [request EXCEPT ![r] = [pc |-> "lookup", kid |-> kid, on |-> NoRequest, waited |-> 0]]
            /\ UNCHANGED <<refresh, fetch>>
       ELSE Wait(r, "loading", kid)
    /\ UNCHANGED <<document, stable, cache, failures, mending>>

Known(kid) == kid \in KeysOf(cache.version)
Answer(r, known) == request' = [request EXCEPT ![r] = Served(IF known THEN "accepted" ELSE "refused")]

\* The key id is known, or the cooldown decides whether the document is asked for
\* again. Requests go on in the order in which they waited: first the one that
\* forced the refresh, for it also started it.
Lookup(r) ==
    /\ request[r].pc = "lookup" /\ \A q \in Requests : request[q].pc # "relookup"
    /\ IF Known(request[r].kid) \/ cache.cool > 0
       THEN Answer(r, Known(request[r].kid)) /\ UNCHANGED <<cache, refresh, fetch>>
       ELSE cache' = [cache EXCEPT !.cool = Cooldown] /\ Wait(r, "forced", request[r].kid)
    /\ UNCHANGED <<document, stable, failures, mending>>

\* Mutant: the cooldown starts with the answer.
CoolAnew(r) == Cooldown
\* The cooldown of the new document starts when it was asked for.
Cool(r) == Cooldown - request[r].waited

Relookup(r) ==
    /\ request[r].pc = "relookup"
    /\ cache' = [cache EXCEPT !.cool = Cool(r)]
    /\ Answer(r, Known(request[r].kid))
    /\ UNCHANGED <<document, stable, refresh, fetch, failures, mending>>

-----------------------------------------------------------------------------
Next ==
    \/ Rotate \/ Tick
    \/ \E r \in Requests :
        \/ \E kid \in KeyIds : Start(r, kid)
        \/ Lookup(r) \/ Relookup(r) \/ Read(r) \/ Complete(r) \/ Fail(r)

Spec == Init /\ [][Next]_vars

\* Time passes, continuations run, the event loop comes to every answer that has
\* arrived however busy it is (strong fairness: Quiet comes and goes), the server
\* answers in the end (the bound on failures), and clients of the new key come again.
FairSpec ==
    /\ Spec
    /\ SF_vars(Tick)
    /\ \A r \in Requests :
        /\ WF_vars(Lookup(r)) /\ WF_vars(Relookup(r))
        /\ SF_vars(Read(r) \/ Complete(r)) /\ SF_vars(Start(r, "new"))

-----------------------------------------------------------------------------
\* The variables hold values of their types; the fetch under way is the shared one,
\* and whoever forced a refresh started it.
TypeOK ==
    /\ document \in 0..2 /\ stable \in 0..Settled
    /\ cache \in [version : NoDocument..2, ttl : 0..Ttl, cool : 0..Cooldown]
    /\ refresh \in Requests \cup {NoRequest}
    /\ fetch \in [Requests -> Fetches]
    /\ request \in [Requests -> Progress]
    /\ failures \in 0..MaxFailures /\ mending \in 0..Cooldown
    /\ {r \in Requests : fetch[r].status # "none"} = {refresh} \ {NoRequest}
    /\ \A r \in Requests : request[r].pc = "forced" => request[r].on = r

\* However requests and refreshes meet, the cache never returns to an older document.
CacheNeverGoesBack == [][cache'.version >= cache.version]_cache

Becomes(r, answer) == request[r].pc # answer /\ request'[r].pc = answer

\* A key that was removed from the document verifies no token once the time of a
\* cached document, and of a fetch, has passed.
RemovedKeyFades ==
    [][\A r \in Requests : Becomes(r, "accepted") /\ request[r].kid \notin KeysOf(document)
                           => stable < Ttl + Timeout]_request

\* A token of a published key is refused only if the document has changed, or a
\* refresh has failed, within the cooldown, or while a refresh is under way: the
\* requests that come during another one's refresh are not made to wait for it.
RefusedForACause ==
    [][\A r \in Requests : Becomes(r, "refused") /\ request[r].kid \in KeysOf(document)
                           => \/ stable < Cooldown
                              \/ mending' > 0
                              \/ refresh # NoRequest]_request

\* "A newly published key does not require an API restart" (oauth-security.md:44).
RotationNeedsNoRestart == document >= 1 ~> "new" \in KeysOf(cache.version)
=============================================================================
