----------------------------- MODULE KeyProofs -----------------------------
(***************************************************************************)
(* Theorems of SigningKeys, for any number of concurrent requests, any     *)
(* lifetime of the cache, cooldown and timeout, and any number of failed   *)
(* refreshes: there is one refresh at a time, and what a cached document   *)
(* still allows is bounded by the clock that its fetch started.            *)
(***************************************************************************)
EXTENDS SigningKeys, TLAPS

-----------------------------------------------------------------------------
(* The inductive invariant.                                                *)

\* Whoever waits for a document waits for the shared refresh. It was started for
\* want of a valid document, or for an unknown key id: then the cooldown, which
\* began with it, is longer than it can take, and nobody else forces one.
RefreshFollows ==
    /\ \A r \in Requests : fetch[r].status = "none" => fetch[r] = NoFetch
    /\ \A r \in Requests : request[r].pc \in {"loading", "forced"} => request[r].on = refresh /\ refresh # NoRequest
    /\ \A r \in Requests : request[r].pc = "forced" => request[r].on = r /\ request[r].waited = fetch[r].age
    /\ refresh # NoRequest => \/ request[refresh].pc = "loading" /\ cache.ttl = 0
                              \/ request[refresh].pc = "forced" /\ cache.cool + fetch[refresh].age >= Cooldown
    /\ \A r \in Requests : request[r].pc = "lookup" => cache.ttl > 0
    /\ \A r \in Requests : request[r].pc = "relookup" => refresh = NoRequest

\* The documents are read in the order in which they are published.
VersionsFollow ==
    /\ cache.version <= document
    /\ \A r \in Requests : fetch[r].status = "read" => cache.version <= fetch[r].version /\ fetch[r].version <= document

\* A document that is no longer published was, when it was asked for: the time since
\* then bounds the time since the change. Only a failed refresh lets a cooldown
\* go on without the document it was started for.
ChangesFollow ==
    /\ \A r \in Requests : fetch[r].status = "read" /\ fetch[r].version # document => stable <= fetch[r].age
    /\ \A r \in Requests : request[r].pc = "relookup" /\ cache.version # document => stable <= request[r].waited
    /\ cache.ttl > 0 /\ cache.version # document => stable + cache.ttl <= Settled
    /\ refresh = NoRequest /\ cache.cool > mending /\ cache.version # document => stable + cache.cool <= Cooldown

IInv == TypeOK /\ RefreshFollows /\ VersionsFollow /\ ChangesFollow

-----------------------------------------------------------------------------
(* What the invariant says of the variables, one by one.                   *)

LEMMA Clocks ==
    /\ Ttl \in Nat /\ Cooldown \in Nat /\ Timeout \in Nat /\ Settled \in Nat /\ MaxFailures \in Nat
    /\ Ttl > 0 /\ Cooldown > 0 /\ Timeout > 0 /\ Timeout < Cooldown /\ Settled = Ttl + Timeout
    /\ NoRequest \notin Requests
  BY KeysAssumption DEF Settled

\* The fetch under way is the shared one.
OneFetch == \A r \in Requests : fetch[r].status # "none" <=> r = refresh

\* The other conjuncts of TypeOK.
Domains ==
    /\ document \in 0..2 /\ stable \in 0..Settled
    /\ cache \in [version : NoDocument..2, ttl : 0..Ttl, cool : 0..Cooldown]
    /\ refresh \in Requests \cup {NoRequest}
    /\ fetch \in [Requests -> Fetches]
    /\ request \in [Requests -> Progress]
    /\ failures \in 0..MaxFailures /\ mending \in 0..Cooldown
    /\ \A r \in Requests : request[r].pc = "forced" => request[r].on = r

LEMMA TypeParts == (TypeOK <=> Domains /\ OneFetch) /\ (TypeOK' <=> Domains' /\ OneFetch')
  <1>1. ASSUME refresh \in Requests \cup {NoRequest}
        PROVE  OneFetch <=> {r \in Requests : fetch[r].status # "none"} = {refresh} \ {NoRequest}
    BY <1>1, Clocks DEF OneFetch
  <1>2. ASSUME refresh' \in Requests \cup {NoRequest}
        PROVE  OneFetch' <=> {r \in Requests : fetch'[r].status # "none"} = {refresh'} \ {NoRequest}
    BY <1>2, Clocks DEF OneFetch
  <1>3. TypeOK <=> Domains /\ {r \in Requests : fetch[r].status # "none"} = {refresh} \ {NoRequest}
    BY Zenon DEF TypeOK, Domains
  <1>4. TypeOK' <=> Domains' /\ {r \in Requests : fetch'[r].status # "none"} = {refresh'} \ {NoRequest}
    BY Zenon DEF TypeOK, Domains
  <1>5. (Domains => refresh \in Requests \cup {NoRequest}) /\ (Domains' => refresh' \in Requests \cup {NoRequest})
    BY DEF Domains
  <1>6. QED
    BY <1>1, <1>2, <1>3, <1>4, <1>5

LEMMA Typed ==
    ASSUME TypeOK
    PROVE  /\ document \in 0..2 /\ stable \in 0..Settled /\ mending \in 0..Cooldown
           /\ cache \in [version : NoDocument..2, ttl : 0..Ttl, cool : 0..Cooldown]
           /\ cache.version \in NoDocument..2 /\ cache.ttl \in 0..Ttl /\ cache.cool \in 0..Cooldown
           /\ refresh \in Requests \cup {NoRequest} /\ OneFetch
           /\ fetch \in [Requests -> Fetches] /\ request \in [Requests -> Progress]
           /\ \A r \in Requests : /\ fetch[r].age \in 0..Timeout /\ fetch[r].version \in NoDocument..2
                                  /\ fetch[r].status \in {"none", "sent", "read"}
                                  /\ request[r].waited \in 0..Timeout /\ request[r].pc \in Points
                                  /\ request[r].kid \in KeyIds
  <1>1. \A r \in Requests : fetch[r] \in Fetches /\ request[r] \in Progress
    BY DEF TypeOK
  <1>2. OneFetch
    BY TypeParts
  <1>3. /\ document \in 0..2 /\ stable \in 0..Settled /\ mending \in 0..Cooldown
        /\ cache \in [version : NoDocument..2, ttl : 0..Ttl, cool : 0..Cooldown]
        /\ refresh \in Requests \cup {NoRequest}
        /\ fetch \in [Requests -> Fetches] /\ request \in [Requests -> Progress]
    BY DEF TypeOK
  <1>4. QED
    BY <1>1, <1>2, <1>3 DEF Fetches, Progress

LEMMA InvInit == Init => IInv
  <1> SUFFICES ASSUME Init PROVE IInv
    OBVIOUS
  <1>1. \A r \in Requests : /\ fetch[r] = NoFetch /\ request[r] = Served("idle")
                            /\ fetch[r].status = "none" /\ request[r].pc = "idle"
    BY DEF Init, NoFetch, Served
  <1>2. OneFetch
    BY <1>1, Clocks DEF OneFetch, Init
  <1>3. TypeOK
    <2>1. NoFetch \in Fetches /\ Served("idle") \in Progress
      BY Clocks DEF NoFetch, Fetches, Served, Progress, Points, KeyIds, NoDocument
    <2>2. fetch \in [Requests -> Fetches] /\ request \in [Requests -> Progress]
      BY <2>1 DEF Init
    <2>3. cache \in [version : NoDocument..2, ttl : 0..Ttl, cool : 0..Cooldown]
      BY Clocks DEF Init, NoDocument
    <2>4. Domains
      BY <1>1, <2>2, <2>3, Clocks DEF Init, Domains
    <2>5. QED
      BY <1>2, <2>4, TypeParts
  <1>4. RefreshFollows
    BY <1>1 DEF Init, RefreshFollows
  <1>5. VersionsFollow /\ ChangesFollow
    BY <1>1, Clocks DEF Init, VersionsFollow, ChangesFollow, NoDocument
  <1>6. QED
    BY <1>3, <1>4, <1>5 DEF IInv

-----------------------------------------------------------------------------
(* The server and the clock.                                               *)

LEMMA RotateKeeps == ASSUME IInv, Rotate PROVE IInv'
  <1>1. /\ document < 2 /\ document' = document + 1 /\ stable' = 0
        /\ UNCHANGED <<cache, refresh, fetch, request, failures, mending>>
    BY DEF Rotate
  <1>2. TypeOK
    BY DEF IInv
  <1>3. TypeOK'
    BY <1>1, <1>2, Clocks DEF TypeOK
  <1>4. RefreshFollows'
    BY <1>1 DEF IInv, RefreshFollows
  <1>5. VersionsFollow'
    BY <1>1, <1>2, Typed DEF IInv, VersionsFollow, NoDocument
  <1>6. ChangesFollow'
    BY <1>1, <1>2, Typed, Clocks DEF ChangesFollow
  <1>7. QED
    BY <1>3, <1>4, <1>5, <1>6 DEF IInv

LEMMA TickKeeps == ASSUME IInv, Tick PROVE IInv'
  <1> USE Clocks
  <1>1. TypeOK /\ UNCHANGED <<document, refresh, failures>>
    BY DEF IInv, Tick
  <1>2. \A r \in Requests : /\ request[r].pc \notin {"lookup", "relookup"}
                            /\ fetch[r].status # "none" => fetch[r].age < Timeout
    BY DEF Tick, Quiet
  <1>3. /\ stable' \in 0..Settled /\ stable' <= stable + 1
        /\ mending' = Less(mending) /\ mending' \in 0..Cooldown
    BY <1>1, Typed DEF Tick, Less
  <1>4. /\ cache' \in [version : NoDocument..2, ttl : 0..Ttl, cool : 0..Cooldown]
        /\ cache'.version = cache.version /\ cache'.ttl = Less(cache.ttl) /\ cache'.cool = Less(cache.cool)
    <2>1. Less(cache.ttl) \in 0..Ttl /\ Less(cache.cool) \in 0..Cooldown
      BY <1>1, Typed DEF Less
    <2>2. QED
      BY <1>1, <2>1, Typed DEF Tick
  <1>5. ASSUME NEW r \in Requests
        PROVE  /\ fetch'[r] \in Fetches /\ fetch'[r].status = fetch[r].status
               /\ fetch[r].status = "none" => fetch'[r] = NoFetch
               /\ fetch[r].status # "none" => fetch'[r].age = fetch[r].age + 1 /\ fetch'[r].version = fetch[r].version
    <2>1. CASE fetch[r].status = "none"
      <3>1. fetch'[r] = NoFetch
        BY <2>1 DEF Tick
      <3>2. NoFetch \in Fetches /\ NoFetch.status = "none"
        BY DEF NoFetch, Fetches, NoDocument
      <3>3. QED
        BY <2>1, <3>1, <3>2
    <2>2. CASE fetch[r].status # "none"
      <3>1. fetch'[r] = [fetch[r] EXCEPT !.age = fetch[r].age + 1]
        BY <2>2 DEF Tick
      <3>2. PICK n \in 0..Timeout : n = fetch[r].age + 1
        BY <1>1, <1>2, <2>2, Typed
      <3>3. fetch[r] \in Fetches
        BY <1>1, Typed
      <3>4. QED
        BY <2>2, <3>1, <3>2, <3>3 DEF Fetches
    <2>3. QED
      BY <2>1, <2>2
  <1>6. ASSUME NEW r \in Requests
        PROVE  /\ request'[r] \in Progress /\ request'[r].pc = request[r].pc
               /\ request'[r].on = request[r].on /\ request'[r].kid = request[r].kid
               /\ request[r].pc = "forced" => request'[r].waited = request[r].waited + 1
    <2>1. CASE request[r].pc # "forced"
      <3>1. request'[r] = request[r]
        BY <2>1 DEF Tick
      <3>2. QED
        BY <1>1, <2>1, <3>1, Typed
    <2>2. CASE request[r].pc = "forced"
      <3>1. request'[r] = [request[r] EXCEPT !.waited = request[r].waited + 1]
        BY <2>2 DEF Tick
      <3>2. r = refresh /\ request[r].waited = fetch[r].age /\ fetch[r].status # "none"
        BY <1>1, <2>2, Typed DEF IInv, RefreshFollows, OneFetch
      <3>3. PICK n \in 0..Timeout : n = request[r].waited + 1
        BY <1>1, <1>2, <3>2, Typed
      <3>4. request[r] \in Progress
        BY <1>1, Typed
      <3>5. QED
        BY <2>2, <3>1, <3>3, <3>4 DEF Progress
    <2>3. QED
      BY <2>1, <2>2
  <1>7. OneFetch'
    BY <1>1, <1>5, Typed DEF OneFetch
  <1>8. TypeOK'
    <2>1. fetch' \in [Requests -> Fetches]
      BY <1>5 DEF Tick
    <2>2. request' \in [Requests -> Progress]
      BY <1>6 DEF Tick
    <2>3. Domains'
      BY <1>1, <1>3, <1>4, <1>6, <2>1, <2>2 DEF TypeOK, Domains
    <2>4. QED
      BY <1>7, <2>3, TypeParts
  <1>9. RefreshFollows'
    <2>1. \A r \in Requests : fetch'[r].status = "none" => fetch'[r] = NoFetch
      BY <1>5
    <2>2. \A r \in Requests : request'[r].pc \in {"loading", "forced"} => request'[r].on = refresh' /\ refresh' # NoRequest
      BY <1>1, <1>6 DEF IInv, RefreshFollows
    <2>3. ASSUME NEW r \in Requests, request'[r].pc = "forced"
          PROVE  request'[r].on = r /\ request'[r].waited = fetch'[r].age
      <3>1. request[r].pc = "forced" /\ request[r].on = r /\ request[r].waited = fetch[r].age /\ r = refresh
        BY <1>6, <2>3 DEF IInv, RefreshFollows
      <3>2. fetch[r].status # "none"
        BY <1>1, <3>1, Typed DEF OneFetch
      <3>3. QED
        BY <1>5, <1>6, <3>1, <3>2
    <2>4. ASSUME refresh' # NoRequest
          PROVE  \/ request'[refresh'].pc = "loading" /\ cache'.ttl = 0
                 \/ request'[refresh'].pc = "forced" /\ cache'.cool + fetch'[refresh'].age >= Cooldown
      <3>1. refresh' = refresh /\ refresh \in Requests /\ fetch[refresh].status # "none"
        BY <1>1, <2>4, Typed DEF OneFetch
      <3>2. /\ fetch'[refresh].age = fetch[refresh].age + 1
            /\ request'[refresh].pc = request[refresh].pc
        BY <1>5, <1>6, <3>1
      <3>3. /\ cache.ttl \in Nat /\ cache.cool \in Nat /\ fetch[refresh].age \in Nat /\ fetch[refresh].age < Timeout
        BY <1>1, <1>2, <3>1, Typed
      <3>4. QED
        BY <1>4, <3>1, <3>2, <3>3 DEF IInv, RefreshFollows, Less
    <2>5. QED
      BY <1>2, <1>6, <2>1, <2>2, <2>3, <2>4 DEF RefreshFollows
  <1>10. VersionsFollow'
    BY <1>1, <1>4, <1>5 DEF IInv, VersionsFollow
  <1>11. ChangesFollow'
    <2>1. /\ \A r \in Requests : fetch'[r].status = "read" /\ fetch'[r].version # document' => stable' <= fetch'[r].age
          /\ \A r \in Requests : request'[r].pc = "relookup" /\ cache'.version # document' => stable' <= request'[r].waited
      BY <1>1, <1>2, <1>3, <1>5, <1>6, Typed DEF IInv, ChangesFollow
    <2>2. cache'.ttl > 0 /\ cache'.version # document' => stable' + cache'.ttl <= Settled
      BY <1>1, <1>3, <1>4, Typed DEF IInv, ChangesFollow, Less
    <2>3. refresh' = NoRequest /\ cache'.cool > mending' /\ cache'.version # document' => stable' + cache'.cool <= Cooldown
      <3>1. /\ cache.cool \in Nat /\ mending \in Nat /\ stable \in Nat /\ stable' \in Nat
            /\ refresh' = refresh /\ document' = document /\ cache'.version = cache.version
        BY <1>1, <1>3, <1>4, Typed
      <3>2. cache'.cool > mending' => cache.cool > mending /\ stable' + cache'.cool <= stable + cache.cool
        BY <1>3, <1>4, <3>1 DEF Less
      <3>3. QED
        BY <1>4, <3>1, <3>2 DEF IInv, ChangesFollow, Less
    <2>4. QED
      BY <2>1, <2>2, <2>3 DEF ChangesFollow
  <1>12. QED
    BY <1>8, <1>9, <1>10, <1>11 DEF IInv

-----------------------------------------------------------------------------
(* The refresh.                                                            *)

\* While a fetch is under way no continuation is due, and everyone who waits does for it.
LEMMA Waiting ==
    ASSUME IInv, Quiet, NEW r \in Requests, fetch[r].status # "none"
    PROVE  /\ refresh = r /\ \A q \in Requests : q # r => fetch[q].status = "none"
           /\ \A q \in Requests : request[q].pc \notin {"lookup", "relookup"}
           /\ \A q \in Requests : WaitsFor(q, r) <=> request[q].pc \in {"loading", "forced"}
           /\ WaitsFor(r, r)
           /\ \A q \in Requests : request[q].pc = "forced" => q = r /\ request[q].waited = fetch[r].age
  <1>1. OneFetch /\ TypeOK
    BY Typed DEF IInv
  <1>2. refresh = r /\ refresh # NoRequest
    BY <1>1, Clocks DEF OneFetch
  <1>3. \A q \in Requests : q # r => fetch[q].status = "none"
    BY <1>1, <1>2 DEF OneFetch
  <1>4. \A q \in Requests : WaitsFor(q, r) <=> request[q].pc \in {"loading", "forced"}
    BY <1>2 DEF WaitsFor, IInv, RefreshFollows
  <1>5. request[r].pc \in {"loading", "forced"}
    BY <1>2 DEF IInv, RefreshFollows
  <1>6. \A q \in Requests : request[q].pc = "forced" => q = r /\ request[q].waited = fetch[r].age
    BY <1>2 DEF IInv, RefreshFollows
  <1>7. QED
    BY <1>2, <1>3, <1>4, <1>5, <1>6 DEF Quiet

LEMMA ReadKeeps == ASSUME IInv, NEW r \in Requests, Read(r) PROVE IInv'
  <1> USE Clocks
  <1>1. /\ TypeOK /\ fetch[r].status = "sent"
        /\ UNCHANGED <<document, stable, cache, refresh, request, failures, mending>>
        /\ fetch' = [fetch EXCEPT ![r].status = "read", ![r].version = document]
    BY DEF IInv, Read
  <1>2. /\ fetch' \in [Requests -> Fetches] /\ fetch'[r].status = "read" /\ fetch'[r].version = document
        /\ fetch'[r].age = fetch[r].age /\ \A q \in Requests : q # r => fetch'[q] = fetch[q]
    <2>1. fetch[r] \in Fetches /\ fetch \in [Requests -> Fetches] /\ document \in NoDocument..2
      BY <1>1, Typed DEF NoDocument
    <2>2. PICK f : f = [fetch[r] EXCEPT !.status = "read", !.version = document]
      OBVIOUS
    <2>3. f \in Fetches /\ f.status = "read" /\ f.version = document /\ f.age = fetch[r].age
      BY <2>1, <2>2 DEF Fetches
    <2>4. fetch' = [fetch EXCEPT ![r] = f]
      BY <1>1, <2>1, <2>2
    <2>5. QED
      BY <2>1, <2>3, <2>4
  <1>3. OneFetch'
    BY <1>1, <1>2, Typed DEF OneFetch
  <1>4. Domains'
    BY <1>1, <1>2, TypeParts DEF Domains
  <1>5. RefreshFollows'
    BY <1>1, <1>2, Typed DEF IInv, RefreshFollows
  <1>6. VersionsFollow' /\ ChangesFollow'
    BY <1>1, <1>2, Typed DEF IInv, VersionsFollow, ChangesFollow, NoDocument
  <1>7. QED
    BY <1>3, <1>4, <1>5, <1>6, TypeParts DEF IInv

\* The end of a refresh, for the fetch and the share in it.
LEMMA RefreshEnds ==
    ASSUME IInv, Quiet, NEW r \in Requests, fetch[r].status # "none",
           fetch' = [fetch EXCEPT ![r] = NoFetch], refresh' = NoRequest
    PROVE  /\ fetch' \in [Requests -> Fetches] /\ OneFetch'
           /\ \A q \in Requests : fetch'[q].status = "none" /\ fetch'[q] = NoFetch
  <1>1. NoFetch \in Fetches /\ NoFetch.status = "none"
    BY Clocks DEF NoFetch, Fetches, NoDocument
  <1>2. fetch \in [Requests -> Fetches] /\ \A q \in Requests : fetch[q].status = "none" => fetch[q] = NoFetch
    BY Typed DEF IInv, RefreshFollows
  <1>3. \A q \in Requests : fetch'[q] = NoFetch
    BY <1>2, Waiting
  <1>4. QED
    BY <1>1, <1>2, <1>3, Clocks DEF OneFetch

LEMMA CompleteKeeps == ASSUME IInv, NEW r \in Requests, Complete(r) PROVE IInv'
  <1> USE Clocks
  <1>1. /\ TypeOK /\ Quiet /\ fetch[r].status = "read" /\ fetch[r].status # "none"
        /\ UNCHANGED <<document, stable, failures, mending>>
        /\ cache' = [version |-> fetch[r].version, ttl |-> Ttl, cool |-> 0]
        /\ fetch' = [fetch EXCEPT ![r] = NoFetch]
    BY DEF IInv, Complete
  <1>2. refresh = r /\ refresh' = NoRequest
    BY <1>1, Waiting DEF Complete, NextRefresh
  <1>3. /\ cache' \in [version : NoDocument..2, ttl : 0..Ttl, cool : 0..Cooldown]
        /\ cache'.version = fetch[r].version /\ cache'.ttl = Ttl /\ cache'.cool = 0
    BY <1>1, Typed
  <1>4. ASSUME NEW q \in Requests
        PROVE  /\ request'[q] \in Progress /\ request'[q].pc \notin {"loading", "forced"}
               /\ request'[q].pc = "relookup" => request'[q].waited = fetch[r].age
    <2>1. CASE ~WaitsFor(q, r)
      <3>1. request'[q] = request[q]
        BY <2>1 DEF Complete
      <3>2. QED
        BY <1>1, <2>1, <3>1, Typed, Waiting
    <2>2. CASE WaitsFor(q, r)
      <3>1. PICK p \in {"lookup", "relookup"} :
                 p = (IF request[q].pc = "loading" THEN "lookup" ELSE "relookup")
        OBVIOUS
      <3>2. request'[q] = [request[q] EXCEPT !.pc = p, !.on = NoRequest]
        BY <2>2, <3>1 DEF Complete
      <3>3. request'[q] \in Progress /\ request'[q].pc = p /\ request'[q].waited = request[q].waited
        <4>1. request[q] \in Progress /\ p \in Points
          BY <1>1, <3>1, Typed DEF Points
        <4>2. QED
          BY <3>2, <4>1 DEF Progress
      <3>4. p = "relookup" => request[q].pc = "forced"
        BY <1>1, <2>2, <3>1, Waiting
      <3>5. QED
        BY <1>1, <3>1, <3>3, <3>4, Waiting
    <2>3. QED
      BY <2>1, <2>2
  <1>5. /\ fetch' \in [Requests -> Fetches] /\ OneFetch'
        /\ \A q \in Requests : fetch'[q].status = "none" /\ fetch'[q] = NoFetch
    BY <1>1, <1>2, RefreshEnds
  <1>6. Domains'
    <2>1. request' \in [Requests -> Progress]
      BY <1>4 DEF Complete
    <2>2. QED
      BY <1>1, <1>2, <1>3, <1>4, <1>5, <2>1 DEF TypeOK, Domains
  <1>7. RefreshFollows'
    BY <1>2, <1>3, <1>4, <1>5 DEF RefreshFollows
  <1>8. VersionsFollow'
    BY <1>1, <1>3, <1>5 DEF IInv, VersionsFollow
  <1>9. ChangesFollow'
    <2>1. fetch[r].version # document => stable <= fetch[r].age
      BY <1>1 DEF IInv, ChangesFollow
    <2>2. fetch[r].age \in 0..Timeout /\ stable \in Nat
      BY <1>1, Typed
    <2>3. \A q \in Requests : request'[q].pc = "relookup" /\ cache'.version # document' => stable' <= request'[q].waited
      BY <1>1, <1>3, <1>4, <2>1
    <2>4. mending' \in Nat
      BY <1>1, Typed
    <2>5. QED
      BY <1>1, <1>3, <1>5, <2>1, <2>2, <2>3, <2>4 DEF ChangesFollow
  <1>10. QED
    BY <1>5, <1>6, <1>7, <1>8, <1>9, TypeParts DEF IInv

\* What a request is that has had its answer.
LEMMA ServedTypes ==
    ASSUME NEW a \in {"accepted", "refused"}
    PROVE  Served(a) \in Progress /\ Served(a).pc = a
  BY Clocks DEF Served, Progress, Points, KeyIds

LEMMA FailKeeps == ASSUME IInv, NEW r \in Requests, Fail(r) PROVE IInv'
  <1> USE Clocks
  <1>1. /\ TypeOK /\ Quiet /\ fetch[r].status # "none" /\ failures < MaxFailures
        /\ UNCHANGED <<document, stable, cache>> /\ failures' = failures + 1 /\ mending' = Cooldown
        /\ fetch' = [fetch EXCEPT ![r] = NoFetch]
        /\ request' = [q \in Requests |-> IF WaitsFor(q, r) THEN Served("refused") ELSE request[q]]
    BY DEF IInv, Fail
  <1>2. refresh = r /\ refresh' = NoRequest
    BY <1>1, Waiting DEF Fail, NextRefresh
  <1>3. \A q \in Requests : /\ request'[q] \in Progress
                            /\ request'[q].pc \notin {"loading", "forced", "lookup", "relookup"}
    BY <1>1, Typed, Waiting, ServedTypes
  <1>4. /\ fetch' \in [Requests -> Fetches] /\ OneFetch'
        /\ \A q \in Requests : fetch'[q].status = "none" /\ fetch'[q] = NoFetch
    BY <1>1, <1>2, RefreshEnds
  <1>5. Domains'
    <2>1. request' \in [Requests -> Progress]
      BY <1>1, <1>3
    <2>2. failures' \in 0..MaxFailures /\ mending' \in 0..Cooldown
      BY <1>1 DEF TypeOK
    <2>3. QED
      BY <1>1, <1>2, <1>3, <1>4, <2>1, <2>2 DEF TypeOK, Domains
  <1>6. RefreshFollows'
    BY <1>2, <1>3, <1>4 DEF RefreshFollows
  <1>7. VersionsFollow'
    BY <1>1, <1>4 DEF IInv, VersionsFollow
  <1>8. ChangesFollow'
    <2>1. ~(cache'.cool > mending')
      BY <1>1, Typed
    <2>2. QED
      BY <1>1, <1>3, <1>4, <2>1 DEF IInv, ChangesFollow
  <1>9. QED
    BY <1>4, <1>5, <1>6, <1>7, <1>8, TypeParts DEF IInv

-----------------------------------------------------------------------------
(* The requests.                                                           *)

\* A request that waits joins the refresh under way, or starts the only one.
LEMMA WaitJoins ==
    ASSUME IInv, NEW r \in Requests, request[r].pc \notin {"loading", "forced"},
           NEW point \in {"loading", "forced"}, NEW kid \in KeyIds, Wait(r, point, kid)
    PROVE  /\ request' \in [Requests -> Progress] /\ \A q \in Requests : q # r => request'[q] = request[q]
           /\ request'[r].pc = point /\ request'[r].on = refresh' /\ request'[r].waited = 0
           /\ fetch' \in [Requests -> Fetches] /\ OneFetch' /\ refresh' \in Requests
           /\ \A q \in Requests : fetch'[q].status = "none" => fetch'[q] = NoFetch
           /\ \A q \in Requests : fetch'[q].status = "read" => fetch'[q] = fetch[q]
           /\ \/ refresh \in Requests \ {r} /\ refresh' = refresh /\ fetch' = fetch
              \/ refresh = NoRequest /\ refresh' = r /\ fetch'[r].age = 0
  <1> USE Clocks
  <1>1. /\ TypeOK /\ OneFetch /\ refresh # r /\ refresh \in Requests \cup {NoRequest}
        /\ fetch \in [Requests -> Fetches] /\ request \in [Requests -> Progress]
        /\ \A q \in Requests : fetch[q].status = "none" => fetch[q] = NoFetch
    BY Typed DEF IInv, RefreshFollows
  <1>2. PICK on : on = IF Shared THEN refresh ELSE r
    OBVIOUS
  <1>3. /\ request' = [request EXCEPT ![r] = [pc |-> point, kid |-> kid, on |-> on, waited |-> 0]]
        /\ refresh' = on /\ fetch' = IF Shared THEN fetch ELSE [fetch EXCEPT ![r].status = "sent"]
    BY <1>2 DEF Wait
  <1>4. on \in Requests
    BY <1>1, <1>2 DEF Shared
  <1>5. /\ request' \in [Requests -> Progress] /\ \A q \in Requests : q # r => request'[q] = request[q]
        /\ request'[r].pc = point /\ request'[r].on = refresh' /\ request'[r].waited = 0
    <2>1. [pc |-> point, kid |-> kid, on |-> on, waited |-> 0] \in Progress
      BY <1>4 DEF Progress, Points
    <2>2. QED
      BY <1>1, <1>3, <2>1
  <1>6. CASE Shared
    BY <1>1, <1>2, <1>3, <1>5, <1>6 DEF Shared, OneFetch
  <1>7. CASE ~Shared
    <2>1. refresh = NoRequest /\ refresh' = r /\ \A q \in Requests : fetch[q] = NoFetch
      BY <1>1, <1>2, <1>3, <1>7 DEF Shared, OneFetch
    <2>2. PICK f : f = [NoFetch EXCEPT !.status = "sent"]
      OBVIOUS
    <2>3. f \in Fetches /\ f.status = "sent" /\ f.age = 0
      BY <2>2 DEF NoFetch, Fetches, NoDocument
    <2>4. fetch' = [fetch EXCEPT ![r] = f]
      BY <1>1, <1>3, <1>7, <2>1, <2>2
    <2>5. /\ fetch' \in [Requests -> Fetches] /\ fetch'[r].age = 0 /\ fetch'[r].status = "sent"
          /\ \A q \in Requests : q # r => fetch'[q] = NoFetch
      BY <1>1, <2>1, <2>3, <2>4
    <2>6. NoFetch.status = "none"
      BY DEF NoFetch
    <2>7. OneFetch'
      BY <2>1, <2>5, <2>6 DEF OneFetch
    <2>8. QED
      BY <1>5, <2>1, <2>5, <2>6, <2>7
  <1>8. QED
    BY <1>6, <1>7

\* A request that gets its answer, or goes to the lookup, is not the one that fetches.
LEMMA RequestGoesOn ==
    ASSUME IInv, NEW r \in Requests, request[r].pc \notin {"loading", "forced"},
           NEW p \in Progress, p.pc \in {"lookup", "accepted", "refused"}, p.pc = "lookup" => cache.ttl > 0,
           request' = [request EXCEPT ![r] = p],
           UNCHANGED <<document, stable, refresh, fetch, failures, mending>>,
           cache' \in [version : NoDocument..2, ttl : 0..Ttl, cool : 0..Cooldown],
           cache'.version = cache.version, cache'.ttl = cache.ttl,
           cache' = cache \/ refresh = NoRequest
    PROVE  TypeOK' /\ RefreshFollows' /\ VersionsFollow'
  <1> USE Clocks
  <1>1. /\ request' \in [Requests -> Progress] /\ request'[r] = p
        /\ \A q \in Requests : q # r => request'[q] = request[q]
    BY Typed DEF IInv
  <1>2. Domains' /\ OneFetch'
    BY <1>1, TypeParts DEF IInv, Domains, OneFetch
  <1>3. RefreshFollows'
    <2>1. refresh # r
      BY DEF IInv, RefreshFollows
    <2>2. \A q \in Requests : request'[q].pc \in {"loading", "forced", "relookup"} => request'[q] = request[q]
      BY <1>1
    <2>3. refresh # NoRequest => refresh \in Requests /\ request'[refresh] = request[refresh] /\ cache' = cache
      BY <1>1, <2>1, Typed DEF IInv
    <2>4. \A q \in Requests : request'[q].pc = "lookup" => cache'.ttl > 0
      BY <1>1 DEF IInv, RefreshFollows
    <2>5. QED
      BY <2>2, <2>3, <2>4 DEF IInv, RefreshFollows
  <1>4. VersionsFollow'
    BY DEF IInv, VersionsFollow
  <1>5. QED
    BY <1>2, <1>3, <1>4, TypeParts

LEMMA StartKeeps == ASSUME IInv, NEW r \in Requests, NEW kid \in KeyIds, Start(r, kid) PROVE IInv'
  <1> USE Clocks
  <1>1. /\ TypeOK /\ Quiet /\ request[r].pc \notin {"loading", "forced"}
        /\ UNCHANGED <<document, stable, cache, failures, mending>>
        /\ \A q \in Requests : request[q].pc \notin {"lookup", "relookup"}
    BY DEF IInv, Start, Quiet
  <1>2. CASE Valid
    <2>1. PICK p : p = [pc |-> "lookup", kid |-> kid, on |-> NoRequest, waited |-> 0]
      OBVIOUS
    <2>2. p \in Progress /\ p.pc = "lookup" /\ cache.ttl > 0
      BY <1>2, <2>1 DEF Progress, Points, Valid
    <2>3. request' = [request EXCEPT ![r] = p] /\ UNCHANGED <<refresh, fetch>>
      BY <1>2, <2>1 DEF Start
    <2>4. TypeOK' /\ RefreshFollows' /\ VersionsFollow'
      BY <1>1, <2>2, <2>3, RequestGoesOn, Typed
    <2>5. \A q \in Requests : request'[q].pc # "relookup"
      BY <1>1, <2>2, <2>3, Typed
    <2>6. ChangesFollow'
      BY <1>1, <2>3, <2>5 DEF IInv, ChangesFollow
    <2>7. QED
      BY <2>4, <2>6 DEF IInv
  <1>3. CASE ~Valid
    <2>1. Wait(r, "loading", kid) /\ cache.ttl = 0
      BY <1>1, <1>3, Typed DEF Start, Valid
    <2>2. /\ request' \in [Requests -> Progress] /\ \A q \in Requests : q # r => request'[q] = request[q]
          /\ request'[r].pc = "loading" /\ request'[r].on = refresh'
          /\ fetch' \in [Requests -> Fetches] /\ OneFetch' /\ refresh' \in Requests
          /\ \A q \in Requests : fetch'[q].status = "none" => fetch'[q] = NoFetch
          /\ \A q \in Requests : fetch'[q].status = "read" => fetch'[q] = fetch[q]
          /\ \/ refresh \in Requests \ {r} /\ refresh' = refresh /\ fetch' = fetch
             \/ refresh = NoRequest /\ refresh' = r
      BY <1>1, <2>1, WaitJoins
    <2>3. Domains'
      BY <1>1, <2>2, TypeParts DEF Domains
    <2>4. RefreshFollows'
      <3>1. \A q \in Requests : request'[q].pc \in {"loading", "forced"} => request'[q].on = refresh' /\ refresh' # NoRequest
        BY <2>2 DEF IInv, RefreshFollows
      <3>2. \A q \in Requests : request'[q].pc = "forced" => request'[q].on = q /\ request'[q].waited = fetch'[q].age
        BY <2>2 DEF IInv, RefreshFollows
      <3>3. \/ request'[refresh'].pc = "loading" /\ cache'.ttl = 0
            \/ request'[refresh'].pc = "forced" /\ cache'.cool + fetch'[refresh'].age >= Cooldown
        BY <1>1, <2>1, <2>2 DEF IInv, RefreshFollows
      <3>4. \A q \in Requests : request'[q].pc \notin {"lookup", "relookup"}
        BY <1>1, <2>2
      <3>5. QED
        BY <2>2, <3>1, <3>2, <3>3, <3>4 DEF RefreshFollows
    <2>5. VersionsFollow'
      BY <1>1, <2>2 DEF IInv, VersionsFollow
    <2>6. ChangesFollow'
      <3>1. \A q \in Requests : request'[q].pc # "relookup"
        BY <1>1, <2>2
      <3>2. QED
        BY <1>1, <2>1, <2>2, <3>1 DEF IInv, ChangesFollow
    <2>7. QED
      BY <2>2, <2>3, <2>4, <2>5, <2>6, TypeParts DEF IInv
  <1>4. QED
    BY <1>2, <1>3

\* The cooldown that a forced refresh began keeps every other lookup from forcing one.
LEMMA LookupAlone ==
    ASSUME IInv, NEW r \in Requests, request[r].pc = "lookup", ~(cache.cool > 0)
    PROVE  refresh = NoRequest
  <1>1. SUFFICES ASSUME refresh # NoRequest PROVE FALSE
    OBVIOUS
  <1>2. refresh \in Requests /\ fetch[refresh].age \in 0..Timeout /\ cache.cool \in Nat
    BY <1>1, Typed DEF IInv
  <1>3. cache.cool + fetch[refresh].age >= Cooldown
    BY <1>1 DEF IInv, RefreshFollows
  <1>4. QED
    BY <1>2, <1>3, Clocks

LEMMA LookupKeeps == ASSUME IInv, NEW r \in Requests, Lookup(r) PROVE IInv'
  <1> USE Clocks
  <1>1. /\ TypeOK /\ request[r].pc = "lookup" /\ request[r].kid \in KeyIds
        /\ \A q \in Requests : request[q].pc # "relookup"
        /\ UNCHANGED <<document, stable, failures, mending>>
    BY Typed DEF IInv, Lookup
  <1>2. CASE Known(request[r].kid) \/ cache.cool > 0
    <2>1. PICK p : p = Served(IF Known(request[r].kid) THEN "accepted" ELSE "refused")
      OBVIOUS
    <2>2. p \in Progress /\ p.pc \in {"accepted", "refused"}
      BY <2>1, ServedTypes
    <2>3. request' = [request EXCEPT ![r] = p] /\ UNCHANGED <<cache, refresh, fetch>>
      BY <1>2, <2>1 DEF Lookup, Answer
    <2>4. TypeOK' /\ RefreshFollows' /\ VersionsFollow'
      BY <1>1, <2>2, <2>3, RequestGoesOn, Typed
    <2>5. \A q \in Requests : request'[q].pc # "relookup"
      BY <1>1, <2>2, <2>3, Typed
    <2>6. ChangesFollow'
      BY <1>1, <2>3, <2>5 DEF IInv, ChangesFollow
    <2>7. QED
      BY <2>4, <2>6 DEF IInv
  <1>3. CASE ~(Known(request[r].kid) \/ cache.cool > 0)
    <2>1. Wait(r, "forced", request[r].kid) /\ cache' = [cache EXCEPT !.cool = Cooldown] /\ refresh = NoRequest
      BY <1>1, <1>3, LookupAlone DEF Lookup
    <2>2. /\ request' \in [Requests -> Progress] /\ \A q \in Requests : q # r => request'[q] = request[q]
          /\ request'[r].pc = "forced" /\ request'[r].on = r /\ request'[r].waited = 0
          /\ fetch' \in [Requests -> Fetches] /\ OneFetch' /\ refresh' = r /\ fetch'[r].age = 0
          /\ \A q \in Requests : fetch'[q].status = "none" => fetch'[q] = NoFetch
          /\ \A q \in Requests : fetch'[q].status = "read" => fetch'[q] = fetch[q]
      BY <1>1, <2>1, WaitJoins
    <2>3. /\ cache' \in [version : NoDocument..2, ttl : 0..Ttl, cool : 0..Cooldown]
          /\ cache'.version = cache.version /\ cache'.ttl = cache.ttl /\ cache'.cool = Cooldown
      BY <1>1, <2>1, Typed
    <2>4. Domains'
      BY <1>1, <2>2, <2>3, TypeParts DEF Domains
    <2>5. \A q \in Requests : q # r => request[q].pc \notin {"loading", "forced", "relookup"}
      BY <1>1, <2>1 DEF IInv, RefreshFollows
    <2>6. RefreshFollows'
      BY <2>2, <2>3, <2>5 DEF IInv, RefreshFollows
    <2>7. VersionsFollow'
      BY <1>1, <2>2, <2>3 DEF IInv, VersionsFollow
    <2>8. ChangesFollow'
      BY <1>1, <2>2, <2>3, <2>5 DEF IInv, ChangesFollow
    <2>9. QED
      BY <2>2, <2>4, <2>6, <2>7, <2>8, TypeParts DEF IInv
  <1>4. QED
    BY <1>2, <1>3

LEMMA RelookupKeeps == ASSUME IInv, NEW r \in Requests, Relookup(r) PROVE IInv'
  <1> USE Clocks
  <1>1. /\ TypeOK /\ request[r].pc = "relookup" /\ refresh = NoRequest /\ request[r].waited \in 0..Timeout
        /\ UNCHANGED <<document, stable, refresh, fetch, failures, mending>>
        /\ cache' = [cache EXCEPT !.cool = Cooldown - request[r].waited]
    BY Typed DEF IInv, Relookup, RefreshFollows, Cool
  <1>2. /\ cache' \in [version : NoDocument..2, ttl : 0..Ttl, cool : 0..Cooldown]
        /\ cache'.version = cache.version /\ cache'.ttl = cache.ttl
        /\ cache'.cool = Cooldown - request[r].waited
    <2>1. Cooldown - request[r].waited \in 0..Cooldown
      BY <1>1
    <2>2. QED
      BY <1>1, <2>1, Typed
  <1>3. PICK p : p = Served(IF Known(request[r].kid) THEN "accepted" ELSE "refused")
    OBVIOUS
  <1>4. p \in Progress /\ p.pc \in {"accepted", "refused"} /\ request' = [request EXCEPT ![r] = p]
    BY <1>3, ServedTypes DEF Relookup, Answer
  <1>5. TypeOK' /\ RefreshFollows' /\ VersionsFollow'
    BY <1>1, <1>2, <1>4, RequestGoesOn
  <1>6. ChangesFollow'
    <2>1. cache.version # document => stable <= request[r].waited
      BY <1>1 DEF IInv, ChangesFollow
    <2>2. \A q \in Requests : request'[q].pc = "relookup" => request'[q] = request[q]
      BY <1>1, <1>4, Typed
    <2>3. stable \in Nat
      BY <1>1, Typed
    <2>4. QED
      BY <1>1, <1>2, <2>1, <2>2, <2>3 DEF IInv, ChangesFollow
  <1>7. QED
    BY <1>5, <1>6 DEF IInv

LEMMA IInvStep == IInv /\ [Next]_vars => IInv'
  <1> SUFFICES ASSUME IInv, [Next]_vars PROVE IInv'
    OBVIOUS
  <1>1. CASE UNCHANGED vars
    <2>1. UNCHANGED <<document, stable, cache, refresh, fetch, request, failures, mending>>
      BY <1>1 DEF vars
    <2>2. TypeOK'
      BY <2>1, TypeParts DEF IInv, Domains, OneFetch
    <2>3. QED
      BY <2>1, <2>2 DEF IInv, RefreshFollows, VersionsFollow, ChangesFollow
  <1>2. ASSUME NEW r \in Requests, NEW kid \in KeyIds, Start(r, kid) PROVE IInv'
    BY <1>2, StartKeeps
  <1>3. ASSUME NEW r \in Requests, Lookup(r) \/ Relookup(r) \/ Read(r) \/ Complete(r) \/ Fail(r) PROVE IInv'
    BY <1>3, LookupKeeps, RelookupKeeps, ReadKeeps, CompleteKeeps, FailKeeps
  <1>4. QED
    BY <1>1, <1>2, <1>3, RotateKeeps, TickKeeps DEF Next

-----------------------------------------------------------------------------
(* The theorems.                                                           *)

\* For any number of requests, times and failures: the verifier keeps the inductive
\* invariant, with one refresh at a time however requests meet.
THEOREM InvariantHolds == Spec => []IInv
  BY InvInit, IInvStep, PTL DEF Spec

\* Every reachable state of the verifier is well typed, the one fetch under way is the
\* one jwksRefresh shares, and whoever forced a refresh started it.
THEOREM TypeCorrect == Spec => []TypeOK
  <1>1. IInv => TypeOK
    BY DEF IInv
  <1>2. QED
    BY <1>1, InvariantHolds, PTL

\* jwksCache never returns to an older document: fetches are not only shared but one
\* after the other, and each reads what the server publishes at its time.
THEOREM NewestDocumentStays == Spec => CacheNeverGoesBack
  <1>1. ASSUME IInv, [Next]_vars PROVE [cache'.version >= cache.version]_cache
    <2>1. cache.version \in NoDocument..2
      BY <1>1, Typed DEF IInv
    <2>2. ASSUME NEW r \in Requests, Complete(r) PROVE cache'.version >= cache.version
      <3>1. cache'.version = fetch[r].version /\ fetch[r].version \in NoDocument..2 /\ cache.version <= fetch[r].version
        BY <1>1, <2>2, Typed DEF Complete, IInv, VersionsFollow
      <3>2. QED
        BY <2>1, <3>1 DEF NoDocument
    <2>3. ASSUME NEW r \in Requests, Lookup(r) \/ Relookup(r) PROVE cache'.version = cache.version
      BY <1>1, <2>3, Typed DEF Lookup, Relookup, IInv
    <2>4. CASE Tick
      BY <1>1, <2>4, Typed DEF Tick, IInv
    <2>5. ASSUME NEW r \in Requests, NEW kid \in KeyIds, Start(r, kid) PROVE cache' = cache
      BY <2>5 DEF Start
    <2>6. ASSUME NEW r \in Requests, Read(r) \/ Fail(r) PROVE cache' = cache
      BY <2>6 DEF Read, Fail
    <2>7. CASE Rotate \/ UNCHANGED vars
      BY <2>7 DEF Rotate, vars
    <2>8. cache'.version = cache.version => cache'.version >= cache.version
      BY <2>1 DEF NoDocument
    <2>9. QED
      BY <1>1, <2>2, <2>3, <2>4, <2>5, <2>6, <2>7, <2>8 DEF Next
  <1>2. QED
    BY <1>1, InvariantHolds, PTL DEF Spec, CacheNeverGoesBack

-----------------------------------------------------------------------------
(* The answers.                                                            *)

\* An answer comes from a lookup in the cache, or is the refusal after a failed refresh.
LEMMA WhoAnswers ==
    ASSUME IInv, Next, NEW r \in Requests, NEW a \in {"accepted", "refused"}, Becomes(r, a)
    PROVE  \/ Lookup(r) /\ (Known(request[r].kid) \/ cache.cool > 0)
                        /\ a = IF Known(request[r].kid) THEN "accepted" ELSE "refused"
           \/ Relookup(r) /\ a = IF Known(request[r].kid) THEN "accepted" ELSE "refused"
           \/ a = "refused" /\ \E s \in Requests : Fail(s)
  <1>1. request[r].pc # a /\ request'[r].pc = a /\ request \in [Requests -> Progress]
    BY Typed DEF Becomes, IInv
  <1>2. ~Rotate
    BY <1>1 DEF Rotate
  <1>3. ~Tick
    <2>1. SUFFICES ASSUME Tick PROVE FALSE
      OBVIOUS
    <2>2. CASE request[r].pc = "forced"
      <3>1. request'[r] = [request[r] EXCEPT !.waited = request[r].waited + 1] /\ request[r] \in Progress
        BY <1>1, <2>1, <2>2 DEF Tick
      <3>2. request'[r].pc = request[r].pc
        BY <3>1 DEF Progress
      <3>3. QED
        BY <1>1, <3>2
    <2>3. CASE request[r].pc # "forced"
      BY <1>1, <2>1, <2>3 DEF Tick
    <2>4. QED
      BY <2>2, <2>3
  <1>4. ASSUME NEW s \in Requests, NEW kid \in KeyIds PROVE ~Start(s, kid)
    BY <1>1 DEF Start, Wait
  <1>5. ASSUME NEW s \in Requests PROVE ~Read(s)
    BY <1>1 DEF Read
  <1>6. ASSUME NEW s \in Requests, Complete(s) PROVE FALSE
    <2>1. CASE ~WaitsFor(r, s)
      BY <1>1, <1>6, <2>1 DEF Complete
    <2>2. CASE WaitsFor(r, s)
      <3>1. PICK p \in {"lookup", "relookup"} :
                 request'[r] = [request[r] EXCEPT !.pc = p, !.on = NoRequest]
        BY <1>6, <2>2 DEF Complete
      <3>2. request'[r].pc = p
        BY <1>1, <3>1 DEF Progress
      <3>3. QED
        BY <1>1, <3>1, <3>2
    <2>3. QED
      BY <2>1, <2>2
  <1>7. ASSUME NEW s \in Requests, Fail(s) PROVE a = "refused"
    BY <1>1, <1>7, ServedTypes DEF Fail
  <1>8. ASSUME NEW s \in Requests, Lookup(s)
        PROVE  /\ s = r /\ (Known(request[r].kid) \/ cache.cool > 0)
               /\ a = IF Known(request[r].kid) THEN "accepted" ELSE "refused"
    <2>1. CASE ~(Known(request[s].kid) \/ cache.cool > 0)
      BY <1>1, <1>8, <2>1 DEF Lookup, Wait
    <2>2. CASE Known(request[s].kid) \/ cache.cool > 0
      <3>1. request' = [request EXCEPT ![s] = Served(IF Known(request[s].kid) THEN "accepted" ELSE "refused")]
        BY <1>8, <2>2 DEF Lookup, Answer
      <3>2. s = r
        BY <1>1, <3>1
      <3>3. QED
        BY <1>1, <2>2, <3>1, <3>2, ServedTypes
    <2>3. QED
      BY <2>1, <2>2
  <1>9. ASSUME NEW s \in Requests, Relookup(s)
        PROVE  s = r /\ a = IF Known(request[r].kid) THEN "accepted" ELSE "refused"
    <2>1. request' = [request EXCEPT ![s] = Served(IF Known(request[s].kid) THEN "accepted" ELSE "refused")]
      BY <1>9 DEF Relookup, Answer
    <2>2. s = r
      BY <1>1, <2>1
    <2>3. QED
      BY <1>1, <2>1, <2>2, ServedTypes
  <1>10. QED
    BY <1>2, <1>3, <1>4, <1>5, <1>6, <1>7, <1>8, <1>9 DEF Next

\* A key that was removed from the published document verifies no token once the time
\* of a cached document and of a fetch has passed: Ttl + Timeout bounds the exposure.
THEOREM RemovedKeysFade == Spec => RemovedKeyFades
  <1>1. ASSUME IInv, Next, NEW r \in Requests, Becomes(r, "accepted"), request[r].kid \notin KeysOf(document)
        PROVE  stable < Ttl + Timeout
    <2>1. /\ cache.ttl \in Nat /\ stable \in Nat /\ request[r].waited \in 0..Timeout
      BY <1>1, Typed, Clocks DEF IInv
    <2>2. CASE Lookup(r) /\ Known(request[r].kid)
      <3>1. cache.version # document /\ cache.ttl > 0
        BY <1>1, <2>2 DEF Lookup, Known, IInv, RefreshFollows
      <3>2. stable + cache.ttl <= Settled
        BY <1>1, <3>1 DEF IInv, ChangesFollow
      <3>3. QED
        BY <2>1, <3>1, <3>2, Clocks
    <2>3. CASE Relookup(r) /\ Known(request[r].kid)
      <3>1. cache.version # document /\ request[r].pc = "relookup"
        BY <1>1, <2>3 DEF Relookup, Known
      <3>2. stable <= request[r].waited
        BY <1>1, <3>1 DEF IInv, ChangesFollow
      <3>3. QED
        BY <2>1, <3>2, Clocks
    <2>4. QED
      BY <1>1, <2>2, <2>3, WhoAnswers
  <1>2. ASSUME IInv, [Next]_vars
        PROVE  [\A r \in Requests : Becomes(r, "accepted") /\ request[r].kid \notin KeysOf(document)
                                    => stable < Ttl + Timeout]_request
    BY <1>1, <1>2 DEF vars
  <1>3. QED
    BY <1>2, InvariantHolds, PTL DEF Spec, RemovedKeyFades

\* A token of a published key is refused only within the cooldown of a change or of a
\* failed refresh, or while a refresh is under way.
THEOREM RefusalsHaveACause == Spec => RefusedForACause
  <1>1. ASSUME IInv, Next, NEW r \in Requests, Becomes(r, "refused"), request[r].kid \in KeysOf(document)
        PROVE  stable < Cooldown \/ mending' > 0 \/ refresh # NoRequest
    <2>1. /\ cache.cool \in 0..Cooldown /\ mending \in Nat /\ stable \in Nat /\ request[r].waited \in 0..Timeout
      BY <1>1, Typed, Clocks DEF IInv
    <2>2. CASE Lookup(r) /\ ~Known(request[r].kid) /\ cache.cool > 0
      <3>1. cache.version # document /\ mending' = mending
        BY <1>1, <2>2 DEF Lookup, Known
      <3>2. refresh = NoRequest /\ cache.cool > mending => stable + cache.cool <= Cooldown
        BY <1>1, <3>1 DEF IInv, ChangesFollow
      <3>3. QED
        BY <2>1, <2>2, <3>1, <3>2, Clocks
    <2>3. CASE Relookup(r) /\ ~Known(request[r].kid)
      <3>1. cache.version # document /\ request[r].pc = "relookup"
        BY <1>1, <2>3 DEF Relookup, Known
      <3>2. stable <= request[r].waited
        BY <1>1, <3>1 DEF IInv, ChangesFollow
      <3>3. QED
        BY <2>1, <3>2, Clocks
    <2>4. CASE \E s \in Requests : Fail(s)
      BY <2>4, Clocks DEF Fail
    <2>5. QED
      BY <1>1, <2>2, <2>3, <2>4, WhoAnswers
  <1>2. ASSUME IInv, [Next]_vars
        PROVE  [\A r \in Requests : Becomes(r, "refused") /\ request[r].kid \in KeysOf(document)
                                    => \/ stable < Cooldown
                                       \/ mending' > 0
                                       \/ refresh # NoRequest]_request
    BY <1>1, <1>2 DEF vars
  <1>3. QED
    BY <1>2, InvariantHolds, PTL DEF Spec, RefusedForACause
=============================================================================
