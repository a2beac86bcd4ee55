---------------------------- MODULE AlertProofs ----------------------------
(***************************************************************************)
(* Theorems of FailureAlerts, for any finite numbers of alerts and workers *)
(* and any bounds. The inductive invariant keeps an account of the causes  *)
(* of an alert's attempts, the failed deliveries that are not written yet  *)
(* included: of these every worker that holds the alert may have one.      *)
(***************************************************************************)
EXTENDS FailureAlerts, FiniteSetTheorems, TLAPS

-----------------------------------------------------------------------------
(* The inductive invariant.                                                *)

\* A worker has in hand one alert of its batch, and reports as delivered what the
\* webhook has accepted.
HandsFollow ==
    \A w \in Workers :
        /\ pc[w] \in {"idle", "next"} => current[w] = {}
        /\ pc[w] \in {"accepted", "refused"} => \E a \in batch[w] : current[w] = {a}
        /\ pc[w] = "accepted" => current[w] \subseteq received
        /\ \A a \in batch[w] : row[a].status \notin {"absent", "pending"}

\* Only alerts that were raised and claimed are received, and only received ones closed.
ReceivedFollows ==
    /\ \A a \in received : row[a].status # "absent"
    /\ \A a \in Alerts : row[a].status = "delivered" => a \in received
    /\ \A a \in Alerts : row[a].status \in {"absent", "pending"} => row[a].attempts = 0

\* The workers whose delivery of an alert has failed, and who have not said so.
Refusing(a) == {w \in Workers : pc[w] = "refused" /\ a \in current[w]}

\* An attempt is allowed for once the row is free for the next one.
Free(r) == IF r.status = "failed" \/ r.lease = "lapsed" THEN 1 ELSE 0

\* Each failed delivery and each lapsed lease pays for one attempt, and pays once,
\* whichever of the workers that hold the alert writes it down.
Accounted == \A a \in Alerts : row[a].attempts + Cardinality(Refusing(a)) + Free(row[a]) <= 1 + trouble[a]

IInv == TypeOK /\ HandsFollow /\ ReceivedFollows /\ Accounted
-----------------------------------------------------------------------------
(* Counting the failed deliveries that are not written yet.                *)

LEMMA RefusingFinite ==
    ASSUME NEW a
    PROVE  /\ IsFiniteSet(Refusing(a)) /\ Cardinality(Refusing(a)) \in Nat
           /\ IsFiniteSet(Refusing(a)') /\ Cardinality(Refusing(a)') \in Nat
  <1>1. Refusing(a) \in SUBSET Workers /\ Refusing(a)' \in SUBSET Workers
    BY DEF Refusing
  <1>2. IsFiniteSet(Refusing(a)) /\ IsFiniteSet(Refusing(a)')
    BY <1>1, AlertAssumption, FS_Subset
  <1>3. QED
    BY <1>2, FS_CardinalityType

LEMMA RefusingStays ==
    ASSUME NEW a, \A v \in Workers : (pc'[v] = "refused" /\ a \in current'[v]) <=> (pc[v] = "refused" /\ a \in current[v])
    PROVE  Cardinality(Refusing(a)') = Cardinality(Refusing(a))
  <1>1. Refusing(a)' = Refusing(a)
    BY DEF Refusing
  <1>2. QED
    BY <1>1

LEMMA RefusingShrinks ==
    ASSUME NEW a, \A v \in Workers : pc'[v] = "refused" /\ a \in current'[v] => pc[v] = "refused" /\ a \in current[v]
    PROVE  Cardinality(Refusing(a)') <= Cardinality(Refusing(a))
  <1>1. Refusing(a)' \in SUBSET Refusing(a)
    BY DEF Refusing
  <1>2. QED
    BY <1>1, RefusingFinite, FS_Subset

LEMMA RefusingGrows ==
    ASSUME NEW a, NEW w \in Workers,
           \A v \in Workers : v # w /\ pc'[v] = "refused" /\ a \in current'[v] => pc[v] = "refused" /\ a \in current[v]
    PROVE  Cardinality(Refusing(a)') <= Cardinality(Refusing(a)) + 1
  <1>1. Refusing(a)' \in SUBSET (Refusing(a) \cup {w})
    BY DEF Refusing
  <1>2. /\ IsFiniteSet(Refusing(a) \cup {w})
        /\ Cardinality(Refusing(a) \cup {w}) <= Cardinality(Refusing(a)) + 1
    BY RefusingFinite, FS_AddElement
  <1>3. /\ Cardinality(Refusing(a)') <= Cardinality(Refusing(a) \cup {w})
        /\ Cardinality(Refusing(a) \cup {w}) \in Nat
    BY <1>1, <1>2, FS_Subset, FS_CardinalityType
  <1>4. QED
    BY <1>2, <1>3, RefusingFinite

LEMMA RefusingLoses ==
    ASSUME NEW a, NEW w \in Workers, pc[w] = "refused", a \in current[w], pc'[w] # "refused",
           \A v \in Workers : v # w /\ pc'[v] = "refused" /\ a \in current'[v] => pc[v] = "refused" /\ a \in current[v]
    PROVE  Cardinality(Refusing(a)') + 1 <= Cardinality(Refusing(a))
  <1>1. Refusing(a)' \in SUBSET (Refusing(a) \ {w}) /\ w \in Refusing(a)
    BY DEF Refusing
  <1>2. /\ IsFiniteSet(Refusing(a) \ {w})
        /\ Cardinality(Refusing(a) \ {w}) = Cardinality(Refusing(a)) - 1
    BY <1>1, RefusingFinite, FS_RemoveElement
  <1>3. Cardinality(Refusing(a)') <= Cardinality(Refusing(a) \ {w})
    BY <1>1, <1>2, FS_Subset
  <1>4. QED
    BY <1>2, <1>3, RefusingFinite

-----------------------------------------------------------------------------
(* Types, and who has an alert in hand.                                    *)

\* What each statement makes of a row.
LEMMA RowTypes ==
    ASSUME NEW r \in AlertRow
    PROVE  /\ ClaimedRow(r) \in AlertRow /\ DeliveredRow(r) \in AlertRow /\ FailedRow(r) \in AlertRow
           /\ ClaimedRow(r).status = "processing" /\ ClaimedRow(r).lease = "held"
           /\ ClaimedRow(r).attempts = r.attempts + 1
           /\ DeliveredRow(r).status = "delivered" /\ DeliveredRow(r).lease = "none"
           /\ DeliveredRow(r).attempts = r.attempts
           /\ FailedRow(r).status = "failed" /\ FailedRow(r).lease = "none"
           /\ FailedRow(r).attempts = r.attempts
  <1>1. /\ ClaimedRow(r) \in AlertRow /\ ClaimedRow(r).status = "processing"
        /\ ClaimedRow(r).lease = "held" /\ ClaimedRow(r).attempts = r.attempts + 1
    <2>1. PICK m \in Nat : m = r.attempts + 1
      BY DEF AlertRow
    <2>2. ClaimedRow(r) = [r EXCEPT !.status = "processing", !.lease = "held", !.attempts = m]
      BY <2>1 DEF ClaimedRow
    <2>3. QED
      BY <2>1, <2>2 DEF AlertRow, Statuses
  <1>2. /\ DeliveredRow(r) \in AlertRow /\ DeliveredRow(r).status = "delivered"
        /\ DeliveredRow(r).lease = "none" /\ DeliveredRow(r).attempts = r.attempts
    BY DEF AlertRow, Statuses, DeliveredRow
  <1>3. /\ FailedRow(r) \in AlertRow /\ FailedRow(r).status = "failed"
        /\ FailedRow(r).lease = "none" /\ FailedRow(r).attempts = r.attempts
    BY DEF AlertRow, Statuses, FailedRow
  <1>4. QED
    BY <1>1, <1>2, <1>3

LEMMA InvInit == Init => IInv
  <1> SUFFICES ASSUME Init PROVE IInv
    OBVIOUS
  <1>1. TypeOK
    BY AlertAssumption DEF Init, TypeOK, AlertRow, Statuses, Points
  <1>2. HandsFollow /\ ReceivedFollows
    BY DEF Init, HandsFollow, ReceivedFollows
  <1>3. \A a \in Alerts : Refusing(a) = {}
    BY DEF Init, Refusing
  <1>4. Accounted
    <2>1. \A a \in Alerts : Cardinality(Refusing(a)) = 0
      BY <1>3, FS_EmptySet
    <2>2. QED
      BY <2>1 DEF Init, Accounted, Free
  <1>5. QED
    BY <1>1, <1>2, <1>4 DEF IInv

LEMMA RaiseKeeps == ASSUME IInv, NEW a \in Alerts, Raise(a) PROVE IInv'
  <1>1. /\ UNCHANGED <<pc, batch, current, received, trouble, deaths>> /\ TypeOK
        /\ row[a].status = "absent" /\ row'[a].status = "pending" /\ row[a].lease = "none"
        /\ row'[a].lease = row[a].lease /\ row'[a].attempts = row[a].attempts
        /\ \A b \in Alerts : b # a => row'[b] = row[b]
        /\ row' \in [Alerts -> AlertRow]
    <2>1. TypeOK /\ row \in [Alerts -> AlertRow] /\ row[a].status = "absent"
      BY DEF IInv, TypeOK, Raise
    <2>2. UNCHANGED <<pc, batch, current, received, trouble, deaths>> /\ row[a].lease = "none"
      BY <2>1 DEF Raise, TypeOK, AlertRow
    <2> DEFINE new == [row[a] EXCEPT !.status = "pending", !.due = TRUE]
    <2>3. /\ new \in AlertRow /\ new.status = "pending"
          /\ new.lease = row[a].lease /\ new.attempts = row[a].attempts
      BY <2>1 DEF AlertRow, Statuses
    <2>4. row' = [row EXCEPT ![a] = new]
      BY DEF Raise
    <2> HIDE DEF new
    <2>5. row' \in [Alerts -> AlertRow] /\ row'[a] = new /\ \A b \in Alerts : b # a => row'[b] = row[b]
      BY <2>1, <2>3, <2>4
    <2>6. QED
      BY <2>1, <2>2, <2>3, <2>5
  <1>2. TypeOK'
    BY <1>1 DEF TypeOK
  <1>3. HandsFollow' /\ ReceivedFollows'
    BY <1>1 DEF IInv, HandsFollow, ReceivedFollows, TypeOK
  <1>4. Accounted'
    <2>1. \A b \in Alerts : Cardinality(Refusing(b)') = Cardinality(Refusing(b))
      BY <1>1, RefusingStays
    <2>2. QED
      BY <1>1, <2>1 DEF IInv, Accounted, Free
  <1>5. QED
    BY <1>2, <1>3, <1>4 DEF IInv

LEMMA LeaseLapsesKeeps == ASSUME IInv, NEW a \in Alerts, LeaseLapses(a) PROVE IInv'
  <1>1. /\ UNCHANGED <<pc, batch, current, received, deaths>> /\ TypeOK
        /\ row[a].status = "processing" /\ row'[a].status = "processing"
        /\ row[a].lease = "held" /\ row'[a].lease = "lapsed" /\ row'[a].attempts = row[a].attempts
        /\ \A b \in Alerts : b # a => row'[b] = row[b]
        /\ row' \in [Alerts -> AlertRow]
    BY DEF LeaseLapses, IInv, TypeOK, AlertRow
  <1>2. /\ trouble \in [Alerts -> Nat] /\ trouble' \in [Alerts -> Nat]
        /\ \A b \in Alerts : trouble'[b] = IF b = a THEN trouble[a] + 1 ELSE trouble[b]
    BY DEF LeaseLapses, Troubled, IInv, TypeOK
  <1>3. TypeOK'
    BY <1>1, <1>2 DEF TypeOK
  <1>4. HandsFollow' /\ ReceivedFollows'
    BY <1>1 DEF IInv, HandsFollow, ReceivedFollows, TypeOK
  <1>5. Accounted'
    <2>1. \A b \in Alerts : Cardinality(Refusing(b)') = Cardinality(Refusing(b)) /\ Cardinality(Refusing(b)) \in Nat
      BY <1>1, RefusingStays, RefusingFinite
    <2>2. \A b \in Alerts : row[b].attempts \in Nat
      BY <1>1 DEF TypeOK, AlertRow
    <2>3. QED
      BY <1>1, <1>2, <2>1, <2>2 DEF IInv, Accounted, Free
  <1>6. QED
    BY <1>3, <1>4, <1>5 DEF IInv

LEMMA FallsDueKeeps == ASSUME IInv, NEW a \in Alerts, FallsDue(a) PROVE IInv'
  <1>1. /\ UNCHANGED <<pc, batch, current, received, trouble, deaths>> /\ TypeOK
        /\ row'[a].status = row[a].status /\ row'[a].lease = row[a].lease /\ row'[a].attempts = row[a].attempts
        /\ \A b \in Alerts : b # a => row'[b] = row[b]
        /\ row' \in [Alerts -> AlertRow]
    BY DEF FallsDue, IInv, TypeOK, AlertRow
  <1>2. TypeOK'
    BY <1>1 DEF TypeOK
  <1>3. HandsFollow' /\ ReceivedFollows'
    BY <1>1 DEF IInv, HandsFollow, ReceivedFollows, TypeOK
  <1>4. Accounted'
    <2>1. \A b \in Alerts : Cardinality(Refusing(b)') = Cardinality(Refusing(b))
      BY <1>1, RefusingStays
    <2>2. QED
      BY <1>1, <2>1 DEF IInv, Accounted, Free
  <1>5. QED
    BY <1>2, <1>3, <1>4 DEF IInv

LEMMA ClaimKeeps == ASSUME IInv, NEW w \in Workers, Claim(w) PROVE IInv'
  <1>1. PICK S \in SUBSET Alerts :
             /\ S # {} /\ Taken(S)
             /\ row' = [a \in Alerts |-> IF a \in S THEN ClaimedRow(row[a]) ELSE row[a]]
             /\ batch' = [batch EXCEPT ![w] = S]
    BY DEF Claim
  <1>2. /\ UNCHANGED <<current, received, trouble, deaths>> /\ TypeOK
        /\ pc[w] = "idle" /\ pc' = [pc EXCEPT ![w] = "next"]
    BY DEF Claim, IInv
  <1>3. \A a \in Alerts : /\ a \notin S => row'[a] = row[a]
                          /\ a \in S => /\ Candidate(row[a]) /\ row'[a].status = "processing"
                                        /\ row'[a].lease = "held" /\ row'[a].attempts = row[a].attempts + 1
    BY <1>1, <1>2, RowTypes DEF Taken, TypeOK
  <1>4. TypeOK'
    <2>1. row' \in [Alerts -> AlertRow]
      BY <1>1, <1>2, RowTypes DEF TypeOK
    <2>2. \A a \in Alerts : row'[a].status = "processing" <=> row'[a].lease # "none"
      BY <1>2, <1>3 DEF TypeOK
    <2>3. pc' \in [Workers -> Points] /\ batch' \in [Workers -> SUBSET Alerts]
      BY <1>1, <1>2 DEF TypeOK, Points
    <2>4. QED
      BY <1>2, <2>1, <2>2, <2>3 DEF TypeOK
  <1>5. HandsFollow'
    <2>1. \A v \in Workers : /\ v # w => pc'[v] = pc[v] /\ batch'[v] = batch[v]
                             /\ pc'[w] = "next" /\ batch'[w] = S
      BY <1>1, <1>2 DEF TypeOK
    <2>2. \A v \in Workers : batch[v] \subseteq Alerts
      BY <1>2 DEF TypeOK
    <2>3. QED
      BY <1>2, <1>3, <2>1, <2>2 DEF IInv, HandsFollow
  <1>6. ReceivedFollows'
    BY <1>2, <1>3 DEF IInv, ReceivedFollows, TypeOK
  <1>7. Accounted'
    <2>1. \A a \in Alerts : Cardinality(Refusing(a)') = Cardinality(Refusing(a)) /\ Cardinality(Refusing(a)) \in Nat
      BY <1>2, RefusingStays, RefusingFinite DEF TypeOK
    <2>2. ASSUME NEW a \in Alerts, row[a].status = "pending" PROVE Cardinality(Refusing(a)) = 0
      <3>1. Refusing(a) = {}
        BY <2>2 DEF Refusing, IInv, HandsFollow
      <3>2. QED
        BY <3>1, FS_EmptySet
    <2>3. \A a \in Alerts : row[a].attempts \in Nat /\ trouble[a] \in Nat
      BY <1>2 DEF TypeOK, AlertRow
    <2>4. ASSUME NEW a \in S PROVE row'[a].attempts + Cardinality(Refusing(a)') + Free(row'[a]) <= 1 + trouble[a]
      <3>1. row'[a].attempts = row[a].attempts + 1 /\ Free(row'[a]) = 0
        BY <1>3 DEF Free
      <3>2. CASE row[a].status = "pending"
        BY <2>1, <2>2, <2>3, <3>1, <3>2 DEF IInv, ReceivedFollows
      <3>3. CASE row[a].status # "pending"
        <4>1. Free(row[a]) = 1
          BY <1>3, <3>3 DEF Candidate, Free
        <4>2. QED
          BY <2>1, <2>3, <3>1, <4>1 DEF IInv, Accounted
      <3>4. QED
        BY <3>2, <3>3
    <2>5. QED
      BY <1>2, <1>3, <2>1, <2>4 DEF IInv, Accounted
  <1>8. QED
    BY <1>4, <1>5, <1>6, <1>7 DEF IInv

\* What the end of an alert does to the worker that held it, and to nobody else.
LEMMA HandledHands ==
    ASSUME TypeOK, HandsFollow, NEW w \in Workers, pc[w] \in {"accepted", "refused"}, Handled(w)
    PROVE  /\ pc' \in [Workers -> Points] /\ batch' \in [Workers -> SUBSET Alerts] /\ current' \in [Workers -> SUBSET Alerts]
           /\ pc'[w] \in {"idle", "next"} /\ current'[w] = {} /\ batch'[w] \subseteq batch[w]
           /\ \A v \in Workers : v # w => pc'[v] = pc[v] /\ batch'[v] = batch[v] /\ current'[v] = current[v]
  <1>1. pc' = [pc EXCEPT ![w] = IF batch[w] = current[w] THEN "idle" ELSE "next"]
    BY DEF Handled
  <1>2. batch' = [batch EXCEPT ![w] = batch[w] \ current[w]] /\ current' = [current EXCEPT ![w] = {}]
    BY DEF Handled
  <1>3. batch[w] \subseteq Alerts /\ batch[w] \ current[w] \in SUBSET Alerts
    BY DEF TypeOK
  <1>4. pc' \in [Workers -> Points] /\ pc'[w] \in {"idle", "next"} /\ \A v \in Workers : v # w => pc'[v] = pc[v]
    BY <1>1 DEF TypeOK, Points
  <1>5. QED
    BY <1>2, <1>3, <1>4 DEF TypeOK

LEMMA PostKeeps == ASSUME IInv, NEW w \in Workers, Post(w) PROVE IInv'
  <1>1. PICK a \in batch[w] :
             /\ current' = [current EXCEPT ![w] = {a}]
             /\ \/ /\ received' = received \cup {a}
                   /\ pc' = [pc EXCEPT ![w] = "accepted"]
                   /\ UNCHANGED trouble
                \/ /\ trouble[a] < MaxTrouble
                   /\ received' \in {received, received \cup {a}}
                   /\ pc' = [pc EXCEPT ![w] = "refused"]
                   /\ Troubled(a)
    BY DEF Post
  <1>2. UNCHANGED <<row, batch, deaths>> /\ TypeOK /\ pc[w] = "next" /\ current[w] = {} /\ a \in Alerts
    BY DEF Post, IInv, HandsFollow, TypeOK
  <1>3. /\ \A v \in Workers : v # w => pc'[v] = pc[v] /\ current'[v] = current[v]
        /\ current'[w] = {a} /\ pc'[w] \in {"accepted", "refused"}
        /\ pc'[w] = "accepted" => a \in received'
        /\ received \subseteq received' /\ received' \subseteq received \cup {a}
    BY <1>1, <1>2 DEF TypeOK
  <1>4. /\ trouble' \in [Alerts -> Nat]
        /\ \A b \in Alerts : trouble'[b] = IF b = a /\ pc'[w] = "refused" THEN trouble[b] + 1 ELSE trouble[b]
    <2>1. CASE pc'[w] = "accepted"
      BY <1>1, <1>2, <2>1 DEF TypeOK
    <2>2. CASE pc'[w] = "refused"
      BY <1>1, <1>2, <2>2 DEF TypeOK, Troubled
    <2>3. QED
      BY <1>3, <2>1, <2>2
  <1>5. TypeOK'
    <2>1. pc' \in [Workers -> Points] /\ current' \in [Workers -> SUBSET Alerts] /\ received' \subseteq Alerts
      BY <1>1, <1>2 DEF TypeOK, Points
    <2>2. QED
      BY <1>2, <1>4, <2>1 DEF TypeOK
  <1>6. HandsFollow'
    BY <1>2, <1>3 DEF IInv, HandsFollow
  <1>7. ReceivedFollows'
    BY <1>2, <1>3 DEF IInv, HandsFollow, ReceivedFollows
  <1>8. Accounted'
    <2>1. \A b \in Alerts : /\ row[b].attempts \in Nat /\ trouble[b] \in Nat /\ Free(row[b]) \in {0, 1}
                            /\ Cardinality(Refusing(b)) \in Nat /\ Cardinality(Refusing(b)') \in Nat
      BY <1>2, RefusingFinite DEF TypeOK, AlertRow, Free
    <2>2. ASSUME NEW b \in Alerts, b # a \/ pc'[w] # "refused"
          PROVE  row'[b].attempts + Cardinality(Refusing(b)') + Free(row'[b]) <= 1 + trouble'[b]
      <3>1. Cardinality(Refusing(b)') <= Cardinality(Refusing(b))
        BY <1>2, <1>3, <2>2, RefusingShrinks
      <3>2. QED
        BY <1>2, <1>4, <2>1, <2>2, <3>1 DEF IInv, Accounted
    <2>3. ASSUME pc'[w] = "refused"
          PROVE  row'[a].attempts + Cardinality(Refusing(a)') + Free(row'[a]) <= 1 + trouble'[a]
      <3>1. Cardinality(Refusing(a)') <= Cardinality(Refusing(a)) + 1
        BY <1>3, RefusingGrows
      <3>2. QED
        BY <1>2, <1>4, <2>1, <2>3, <3>1 DEF IInv, Accounted
    <2>4. QED
      BY <1>2, <2>2, <2>3 DEF Accounted
  <1>9. QED
    BY <1>5, <1>6, <1>7, <1>8 DEF IInv

\* A mark closes an alert that was received, or leaves its row alone.
LEMMA DeliveredRows ==
    ASSUME IInv, NEW w \in Workers, pc[w] = "accepted",
           row' = [a \in Alerts |-> IF a \in Marked(w) THEN DeliveredRow(row[a]) ELSE row[a]]
    PROVE  /\ row' \in [Alerts -> AlertRow]
           /\ \A a \in Alerts : /\ row'[a].attempts = row[a].attempts
                                /\ row'[a].status = "processing" <=> row'[a].lease # "none"
                                /\ Free(row'[a]) <= Free(row[a]) /\ Free(row'[a]) \in {0, 1} /\ Free(row[a]) \in {0, 1}
                                /\ \/ row'[a].status = row[a].status
                                   \/ row[a].status = "processing" /\ row'[a].status = "delivered" /\ a \in received
  <1>1. row \in [Alerts -> AlertRow] /\ \A a \in Alerts : row[a].status = "processing" <=> row[a].lease # "none"
    BY DEF IInv, TypeOK
  <1>2. row' \in [Alerts -> AlertRow]
    BY <1>1, RowTypes
  <1>3. ASSUME NEW a \in Alerts, a \in Marked(w)
        PROVE  /\ row'[a].attempts = row[a].attempts /\ row'[a].status = "delivered" /\ row'[a].lease = "none"
               /\ row[a].status = "processing" /\ a \in received
    BY <1>1, <1>3, RowTypes DEF Marked, IInv, HandsFollow
  <1>4. \A a \in Alerts : a \notin Marked(w) => row'[a] = row[a]
    OBVIOUS
  <1>5. QED
    BY <1>1, <1>2, <1>3, <1>4 DEF Free

LEMMA MarkDeliveredKeeps == ASSUME IInv, NEW w \in Workers, MarkDelivered(w) PROVE IInv'
  <1>1. /\ pc[w] = "accepted" /\ Handled(w) /\ UNCHANGED <<received, trouble, deaths>> /\ TypeOK /\ HandsFollow
        /\ row' = [a \in Alerts |-> IF a \in Marked(w) THEN DeliveredRow(row[a]) ELSE row[a]]
    BY DEF MarkDelivered, IInv
  <1>2. TypeOK'
    BY <1>1, HandledHands, DeliveredRows DEF TypeOK
  <1>3. HandsFollow'
    <2>1. \A a \in Alerts : row[a].status \notin {"absent", "pending"} => row'[a].status \notin {"absent", "pending"}
      BY <1>1, DeliveredRows
    <2>2. \A v \in Workers : batch'[v] \subseteq batch[v] /\ batch[v] \subseteq Alerts
      BY <1>1, HandledHands DEF TypeOK
    <2>3. QED
      BY <1>1, <2>1, <2>2, HandledHands DEF HandsFollow
  <1>4. ReceivedFollows'
    BY <1>1, DeliveredRows DEF IInv, ReceivedFollows, TypeOK
  <1>5. Accounted'
    <2>1. \A a \in Alerts : Cardinality(Refusing(a)') <= Cardinality(Refusing(a))
      BY <1>1, HandledHands, RefusingShrinks
    <2>2. \A a \in Alerts : /\ row[a].attempts \in Nat /\ trouble[a] \in Nat
                            /\ Cardinality(Refusing(a)) \in Nat /\ Cardinality(Refusing(a)') \in Nat
      BY <1>1, RefusingFinite DEF TypeOK, AlertRow
    <2>3. QED
      BY <1>1, <2>1, <2>2, DeliveredRows DEF IInv, Accounted
  <1>6. QED
    BY <1>2, <1>3, <1>4, <1>5 DEF IInv

LEMMA MarkBreaksKeeps == ASSUME IInv, NEW w \in Workers, MarkBreaks(w) PROVE IInv'
  <1>1. PICK a \in current[w] : Troubled(a)
    BY DEF MarkBreaks
  <1>2. /\ pc[w] = "accepted" /\ pc' = [pc EXCEPT ![w] = "refused"] /\ UNCHANGED <<batch, current, received, deaths>>
        /\ TypeOK /\ HandsFollow /\ a \in Alerts /\ current[w] = {a}
    BY <1>1 DEF MarkBreaks, IInv, TypeOK, HandsFollow
  <1>3. /\ row' \in [Alerts -> AlertRow]
        /\ \A b \in Alerts : /\ row'[b].attempts = row[b].attempts
                             /\ row'[b].status = "processing" <=> row'[b].lease # "none"
                             /\ Free(row'[b]) <= Free(row[b]) /\ Free(row'[b]) \in {0, 1} /\ Free(row[b]) \in {0, 1}
                             /\ \/ row'[b].status = row[b].status
                                \/ row[b].status = "processing" /\ row'[b].status = "delivered" /\ b \in received
    <2>1. CASE row' = [b \in Alerts |-> IF b \in Marked(w) THEN DeliveredRow(row[b]) ELSE row[b]]
      BY <1>2, <2>1, DeliveredRows
    <2>2. CASE row' = row
      BY <1>2, <2>2 DEF TypeOK, Free
    <2>3. QED
      BY <2>1, <2>2 DEF MarkBreaks
  <1>4. pc'[w] = "refused" /\ \A v \in Workers : v # w => pc'[v] = pc[v]
    BY <1>2 DEF TypeOK
  <1>5. /\ trouble' \in [Alerts -> Nat] /\ trouble'[a] = trouble[a] + 1
        /\ \A b \in Alerts : b # a => trouble'[b] = trouble[b]
    BY <1>1, <1>2 DEF Troubled, TypeOK
  <1>6. TypeOK'
    BY <1>2, <1>3, <1>5 DEF TypeOK, Points
  <1>7. HandsFollow'
    <2>1. \A b \in Alerts : row[b].status \notin {"absent", "pending"} => row'[b].status \notin {"absent", "pending"}
      BY <1>3
    <2>2. \A v \in Workers : batch[v] \subseteq Alerts
      BY <1>2 DEF TypeOK
    <2>3. QED
      BY <1>2, <1>4, <2>1, <2>2 DEF HandsFollow
  <1>8. ReceivedFollows'
    BY <1>2, <1>3 DEF IInv, ReceivedFollows, TypeOK
  <1>9. Accounted'
    <2>1. \A b \in Alerts : /\ row[b].attempts \in Nat /\ trouble[b] \in Nat
                            /\ Cardinality(Refusing(b)) \in Nat /\ Cardinality(Refusing(b)') \in Nat
      BY <1>2, RefusingFinite DEF TypeOK, AlertRow
    <2>2. \A b \in Alerts : b # a => Cardinality(Refusing(b)') <= Cardinality(Refusing(b))
      BY <1>2, <1>4, RefusingShrinks
    <2>3. Cardinality(Refusing(a)') <= Cardinality(Refusing(a)) + 1
      BY <1>2, <1>4, RefusingGrows
    <2>4. QED
      BY <1>2, <1>3, <1>5, <2>1, <2>2, <2>3 DEF IInv, Accounted
  <1>10. QED
    BY <1>6, <1>7, <1>8, <1>9 DEF IInv

LEMMA MarkFailedKeeps == ASSUME IInv, NEW w \in Workers, MarkFailed(w) PROVE IInv'
  <1>1. /\ pc[w] = "refused" /\ Handled(w) /\ UNCHANGED <<received, trouble, deaths>> /\ TypeOK /\ HandsFollow
        /\ row' = [a \in Alerts |-> IF a \in Marked(w) THEN FailedRow(row[a]) ELSE row[a]]
    BY DEF MarkFailed, IInv
  <1>2. PICK c \in batch[w] : current[w] = {c}
    BY <1>1 DEF HandsFollow
  <1>3. c \in Alerts
    BY <1>1, <1>2 DEF TypeOK
  <1>4. row' \in [Alerts -> AlertRow] /\ \A a \in Alerts : a # c => row'[a] = row[a]
    BY <1>1, <1>2, RowTypes DEF TypeOK, Marked
  <1>5. /\ row'[c].attempts = row[c].attempts
        /\ \/ row'[c] = row[c] /\ row[c].status # "processing"
           \/ row[c].status = "processing" /\ row'[c].status = "failed" /\ row'[c].lease = "none"
    BY <1>1, <1>2, <1>3, RowTypes DEF TypeOK, Marked
  <1>6. TypeOK'
    <2>1. \A a \in Alerts : row'[a].status = "processing" <=> row'[a].lease # "none"
      BY <1>1, <1>3, <1>4, <1>5 DEF TypeOK
    <2>2. QED
      BY <1>1, <1>4, <2>1, HandledHands DEF TypeOK
  <1>7. HandsFollow'
    <2>1. \A a \in Alerts : row[a].status \notin {"absent", "pending"} => row'[a].status \notin {"absent", "pending"}
      BY <1>4, <1>5
    <2>2. \A v \in Workers : batch'[v] \subseteq batch[v] /\ batch[v] \subseteq Alerts
      BY <1>1, HandledHands DEF TypeOK
    <2>3. QED
      BY <1>1, <2>1, <2>2, HandledHands DEF HandsFollow
  <1>8. ReceivedFollows'
    BY <1>1, <1>4, <1>5 DEF IInv, ReceivedFollows, TypeOK
  <1>9. Accounted'
    <2>1. \A a \in Alerts : /\ row[a].attempts \in Nat /\ trouble[a] \in Nat /\ Free(row[a]) \in {0, 1}
                            /\ Cardinality(Refusing(a)) \in Nat /\ Cardinality(Refusing(a)') \in Nat
      BY <1>1, RefusingFinite DEF TypeOK, AlertRow, Free
    <2>2. \A a \in Alerts : Cardinality(Refusing(a)') <= Cardinality(Refusing(a))
      BY <1>1, HandledHands, RefusingShrinks
    <2>3. Cardinality(Refusing(c)') + 1 <= Cardinality(Refusing(c))
      BY <1>1, <1>2, HandledHands, RefusingLoses
    <2>4. Free(row'[c]) \in {0, 1}
      BY DEF Free
    <2>5. QED
      BY <1>1, <1>3, <1>4, <1>5, <2>1, <2>2, <2>3, <2>4 DEF IInv, Accounted
  <1>10. QED
    BY <1>6, <1>7, <1>8, <1>9 DEF IInv

LEMMA DieKeeps == ASSUME IInv, NEW w \in Workers, Die(w) PROVE IInv'
  <1>1. /\ UNCHANGED <<row, received, trouble>> /\ TypeOK /\ deaths < MaxDeaths /\ deaths' = deaths + 1
        /\ batch' = [batch EXCEPT ![w] = {}] /\ current' = [current EXCEPT ![w] = {}]
        /\ pc' = [pc EXCEPT ![w] = "idle"]
    BY DEF Die, IInv
  <1>2. /\ pc'[w] = "idle" /\ batch'[w] = {} /\ current'[w] = {}
        /\ \A v \in Workers : v # w => pc'[v] = pc[v] /\ batch'[v] = batch[v] /\ current'[v] = current[v]
    BY <1>1 DEF TypeOK
  <1>3. TypeOK'
    <2>1. deaths' \in 0..MaxDeaths
      BY <1>1, AlertAssumption DEF TypeOK
    <2>2. pc' \in [Workers -> Points] /\ batch' \in [Workers -> SUBSET Alerts] /\ current' \in [Workers -> SUBSET Alerts]
      BY <1>1 DEF TypeOK, Points
    <2>3. QED
      BY <1>1, <2>1, <2>2 DEF TypeOK
  <1>4. HandsFollow' /\ ReceivedFollows'
    BY <1>1, <1>2 DEF IInv, HandsFollow, ReceivedFollows
  <1>5. Accounted'
    <2>1. \A a \in Alerts : Cardinality(Refusing(a)') <= Cardinality(Refusing(a))
      BY <1>2, RefusingShrinks
    <2>2. \A a \in Alerts : /\ row[a].attempts \in Nat /\ trouble[a] \in Nat /\ Free(row[a]) \in {0, 1}
                            /\ Cardinality(Refusing(a)) \in Nat /\ Cardinality(Refusing(a)') \in Nat
      BY <1>1, RefusingFinite DEF TypeOK, AlertRow, Free
    <2>3. QED
      BY <1>1, <2>1, <2>2 DEF IInv, Accounted
  <1>6. QED
    BY <1>3, <1>4, <1>5 DEF IInv

LEMMA IInvStep == IInv /\ [Next]_vars => IInv'
  <1> SUFFICES ASSUME IInv, [Next]_vars PROVE IInv'
    OBVIOUS
  <1>1. ASSUME NEW a \in Alerts, Raise(a) \/ LeaseLapses(a) \/ FallsDue(a) PROVE IInv'
    BY <1>1, RaiseKeeps, LeaseLapsesKeeps, FallsDueKeeps
  <1>2. ASSUME NEW w \in Workers, Dispatch(w) \/ MarkBreaks(w) \/ Die(w) PROVE IInv'
    BY <1>2, ClaimKeeps, PostKeeps, MarkDeliveredKeeps, MarkFailedKeeps, MarkBreaksKeeps, DieKeeps DEF Dispatch
  <1>3. CASE UNCHANGED vars
    <2>1. UNCHANGED <<row, pc, batch, current, received, trouble, deaths>>
      BY <1>3 DEF vars
    <2>2. \A a \in Alerts : Cardinality(Refusing(a)') = Cardinality(Refusing(a))
      BY <2>1, RefusingStays
    <2>3. QED
      BY <2>1, <2>2 DEF IInv, TypeOK, HandsFollow, ReceivedFollows, Accounted, Free
  <1>4. QED
    BY <1>1, <1>2, <1>3 DEF Next

-----------------------------------------------------------------------------
(* The theorems.                                                           *)

\* For any finite numbers of alerts and workers, any limit of a batch and any faults:
\* dispatchPending keeps the inductive invariant.
THEOREM InvariantHolds == Spec => []IInv
  BY InvInit, IInvStep, PTL DEF Spec

\* Every reachable state of dispatchPending is well typed, and a lease is kept exactly
\* while an alert is in processing (claim, markDelivered, markFailed).
THEOREM TypeCorrect == Spec => []TypeOK
  <1>1. IInv => TypeOK
    BY DEF IInv
  <1>2. QED
    BY <1>1, InvariantHolds, PTL

\* delivery_attempts counts causes: the webhook is told again only after a lapsed lease
\* or a failed delivery, however many workers hold the alert.
THEOREM AttemptsAreCaused == Spec => []AttemptsHaveACause
  <1>1. ASSUME IInv PROVE AttemptsHaveACause
    <2>1. \A a \in Alerts : /\ row[a].attempts \in Nat /\ trouble[a] \in Nat /\ Free(row[a]) \in {0, 1}
                            /\ Cardinality(Refusing(a)) \in Nat
      BY <1>1, RefusingFinite DEF IInv, TypeOK, AlertRow, Free
    <2>2. QED
      BY <1>1, <2>1 DEF IInv, Accounted, AttemptsHaveACause
  <1>2. QED
    BY <1>1, InvariantHolds, PTL

-----------------------------------------------------------------------------
(* The delivery implements what it promises, step by step.                 *)

\* The mapping of AlertDelivery!vars, as FailureAlerts instantiates it.
Raised == {a \in Alerts : row[a].status # "absent"}
Closed == {a \in Alerts : row[a].status = "delivered"}

\* A step that leaves received alone and raises or closes nothing is a stutter.
LEMMA SameRows ==
    ASSUME received' = received,
           \A a \in Alerts : /\ row'[a].status = "absent" <=> row[a].status = "absent"
                             /\ row'[a].status = "delivered" <=> row[a].status = "delivered"
    PROVE  UNCHANGED Delivery!vars
  <1>1. Raised' = Raised /\ Closed' = Closed
    BY DEF Raised, Closed
  <1>2. QED
    BY <1>1 DEF Delivery!vars, Raised, Closed

LEMMA RaiseRefines == ASSUME TypeOK, NEW a \in Alerts, Raise(a) PROVE Delivery!Raise(a)
  <1>1. /\ received' = received /\ row[a].status = "absent" /\ row'[a].status = "pending"
        /\ \A b \in Alerts : b # a => row'[b] = row[b]
    BY DEF Raise, TypeOK, AlertRow
  <1>2. Raised' = Raised \cup {a} /\ Closed' = Closed
    BY <1>1 DEF Raised, Closed
  <1>3. QED
    BY <1>1, <1>2 DEF Delivery!Raise, Raised, Closed

LEMMA PostRefines == ASSUME IInv, NEW w \in Workers, Post(w) PROVE [Delivery!Next]_Delivery!vars
  <1>1. PICK a \in batch[w] : received' \in {received, received \cup {a}}
    BY DEF Post
  <1>2. row' = row /\ a \in Alerts /\ a \in Raised
    BY DEF Post, IInv, TypeOK, HandsFollow, Raised
  <1>3. CASE received' = received
    BY <1>2, <1>3, SameRows
  <1>4. CASE received' = received \cup {a}
    <2>1. Raised' = Raised /\ Closed' = Closed
      BY <1>2 DEF Raised, Closed
    <2>2. Delivery!Receive(a)
      BY <1>2, <1>4, <2>1 DEF Delivery!Receive, Raised, Closed
    <2>3. QED
      BY <1>2, <2>2 DEF Delivery!Next
  <1>5. QED
    BY <1>1, <1>3, <1>4

\* markDelivered closes the one alert its worker has in hand, if it is in processing.
LEMMA MarkRefines ==
    ASSUME IInv, NEW w \in Workers, pc[w] = "accepted", received' = received,
           row' = [a \in Alerts |-> IF a \in Marked(w) THEN DeliveredRow(row[a]) ELSE row[a]]
    PROVE  [Delivery!Next]_Delivery!vars
  <1>1. PICK c \in batch[w] : current[w] = {c}
    BY DEF IInv, HandsFollow
  <1>2. c \in Alerts /\ c \in received /\ row \in [Alerts -> AlertRow]
    BY <1>1 DEF IInv, TypeOK, HandsFollow
  <1>3. \A a \in Alerts : a # c => row'[a] = row[a]
    BY <1>1 DEF Marked
  <1>4. CASE c \in Marked(w)
    <2>1. row[c].status = "processing" /\ row'[c].status = "delivered"
      BY <1>2, <1>4, RowTypes DEF Marked
    <2>2. Raised' = Raised /\ Closed' = Closed \cup {c}
      BY <1>2, <1>3, <2>1 DEF Raised, Closed
    <2>3. Delivery!Close(c)
      BY <1>2, <2>2 DEF Delivery!Close, Raised, Closed
    <2>4. QED
      BY <1>2, <2>3 DEF Delivery!Next
  <1>5. CASE c \notin Marked(w)
    <2>1. row'[c] = row[c]
      BY <1>2, <1>5
    <2>2. QED
      BY <1>3, <2>1, SameRows
  <1>6. QED
    BY <1>4, <1>5

\* A claim or a failed mark moves an alert between statuses the promise does not know.
LEMMA ClaimRefines == ASSUME IInv, NEW w \in Workers, Claim(w) PROVE UNCHANGED Delivery!vars
  <1>1. PICK S \in SUBSET Alerts :
             /\ Taken(S)
             /\ row' = [a \in Alerts |-> IF a \in S THEN ClaimedRow(row[a]) ELSE row[a]]
    BY DEF Claim
  <1>2. \A a \in Alerts : a \in S => row'[a].status = "processing" /\ row[a].status \notin {"absent", "delivered"}
    BY <1>1, RowTypes DEF Taken, Candidate, IInv, TypeOK
  <1>3. \A a \in Alerts : a \notin S => row'[a] = row[a]
    BY <1>1
  <1>4. received' = received
    BY DEF Claim
  <1>5. QED
    BY <1>2, <1>3, <1>4, SameRows

LEMMA MarkFailedRefines == ASSUME IInv, NEW w \in Workers, MarkFailed(w) PROVE UNCHANGED Delivery!vars
  <1>1. /\ received' = received
        /\ row' = [a \in Alerts |-> IF a \in Marked(w) THEN FailedRow(row[a]) ELSE row[a]]
    BY DEF MarkFailed
  <1>2. \A a \in Alerts : a \in Marked(w) => row'[a].status = "failed" /\ row[a].status = "processing"
    BY <1>1, RowTypes DEF Marked, IInv, TypeOK
  <1>3. \A a \in Alerts : a \notin Marked(w) => row'[a] = row[a]
    BY <1>1
  <1>4. QED
    BY <1>1, <1>2, <1>3, SameRows

LEMMA StepRefines == IInv /\ [Next]_vars => [Delivery!Next]_Delivery!vars
  <1> SUFFICES ASSUME IInv, [Next]_vars PROVE [Delivery!Next]_Delivery!vars
    OBVIOUS
  <1>1. ASSUME NEW a \in Alerts, Raise(a) PROVE Delivery!Next
    BY <1>1, RaiseRefines DEF IInv, Delivery!Next
  <1>2. ASSUME NEW a \in Alerts, LeaseLapses(a) \/ FallsDue(a) PROVE UNCHANGED Delivery!vars
    <2>1. received' = received /\ \A b \in Alerts : row'[b].status = row[b].status
      BY <1>2 DEF LeaseLapses, FallsDue, IInv, TypeOK, AlertRow
    <2>2. QED
      BY <2>1, SameRows
  <1>3. ASSUME NEW w \in Workers, Claim(w) \/ MarkFailed(w) PROVE UNCHANGED Delivery!vars
    BY <1>3, ClaimRefines, MarkFailedRefines
  <1>4. ASSUME NEW w \in Workers, Post(w) PROVE [Delivery!Next]_Delivery!vars
    BY <1>4, PostRefines
  <1>5. ASSUME NEW w \in Workers, MarkDelivered(w) \/ MarkBreaks(w) PROVE [Delivery!Next]_Delivery!vars
    <2>1. pc[w] = "accepted" /\ received' = received
      BY <1>5 DEF MarkDelivered, MarkBreaks
    <2>2. CASE row' = [a \in Alerts |-> IF a \in Marked(w) THEN DeliveredRow(row[a]) ELSE row[a]]
      BY <2>1, <2>2, MarkRefines
    <2>3. CASE row' = row
      BY <2>1, <2>3, SameRows
    <2>4. QED
      BY <1>5, <2>2, <2>3 DEF MarkDelivered, MarkBreaks
  <1>6. ASSUME NEW w \in Workers, Die(w) PROVE UNCHANGED Delivery!vars
    BY <1>6, SameRows DEF Die
  <1>7. CASE UNCHANGED vars
    BY <1>7, SameRows DEF vars
  <1>8. QED
    BY <1>1, <1>2, <1>3, <1>4, <1>5, <1>6, <1>7 DEF Next, Dispatch

\* Every step of the workers and of the clock is a step of the promise or none: a
\* failure is closed only after its webhook accepted it, and for ever. (That it is
\* told and closed in the end is the fairness of Delivery!Spec, which TLC checks.)
THEOREM DeliveryRefinement == Spec => Delivery!Init /\ [][Delivery!Next]_Delivery!vars
  <1>1. Init => Delivery!Init
    BY DEF Init, Delivery!Init
  <1>2. QED
    BY <1>1, StepRefines, InvariantHolds, PTL DEF Spec

-----------------------------------------------------------------------------
(* What the promise says of the rows.                                      *)

\* An alert that is delivered was accepted by the webhook; and no step changes its row,
\* whichever workers still have it in hand from before a lapse.
DeliveredWereReceived == \A a \in Alerts : row[a].status = "delivered" => a \in received
DeliveredRowsStay == \A a \in Alerts : row[a].status = "delivered" => row'[a] = row[a]

\* Whoever marks an alert as delivered, a worker that has lost its lease or the one that
\* took the alert over, the webhook has accepted it by then.
THEOREM DeliveredAfterReceipt == Spec => []DeliveredWereReceived
  <1>1. IInv => DeliveredWereReceived
    BY DEF IInv, ReceivedFollows, DeliveredWereReceived
  <1>2. QED
    BY <1>1, InvariantHolds, PTL

\* A delivery is final: the failure that another worker reports for the same alert later,
\* or the catch block after a mark that took effect, does not open it again.
THEOREM DeliveredForGood == Spec => [][DeliveredRowsStay]_vars
  <1>1. ASSUME IInv, [Next]_vars, NEW a \in Alerts, row[a].status = "delivered" PROVE row'[a] = row[a]
    <2>1. row[a].lease = "none" /\ row \in [Alerts -> AlertRow]
      BY <1>1 DEF IInv, TypeOK, AlertRow
    <2>2. ASSUME NEW b \in Alerts, Raise(b) \/ LeaseLapses(b) \/ FallsDue(b) PROVE row'[a] = row[a]
      <3>1. b # a
        BY <1>1, <2>1, <2>2 DEF Raise, LeaseLapses, FallsDue
      <3>2. QED
        BY <2>1, <2>2, <3>1 DEF Raise, LeaseLapses, FallsDue
    <2>3. ASSUME NEW w \in Workers, Claim(w) PROVE row'[a] = row[a]
      <3>1. PICK S \in SUBSET Alerts :
               Taken(S) /\ row' = [b \in Alerts |-> IF b \in S THEN ClaimedRow(row[b]) ELSE row[b]]
        BY <2>3 DEF Claim
      <3>2. a \notin S
        BY <1>1, <3>1 DEF Taken, Candidate
      <3>3. QED
        BY <3>1, <3>2
    <2>4. ASSUME NEW w \in Workers, MarkDelivered(w) \/ MarkBreaks(w) \/ MarkFailed(w) PROVE row'[a] = row[a]
      <3>1. a \notin Marked(w)
        BY <1>1 DEF Marked
      <3>2. QED
        BY <2>4, <3>1 DEF MarkDelivered, MarkBreaks, MarkFailed
    <2>5. ASSUME NEW w \in Workers, Post(w) \/ Die(w) PROVE row'[a] = row[a]
      BY <2>5 DEF Post, Die
    <2>6. CASE UNCHANGED vars
      BY <2>6 DEF vars
    <2>7. QED
      BY <1>1, <2>2, <2>3, <2>4, <2>5, <2>6 DEF Next, Dispatch
  <1>2. IInv /\ [Next]_vars => DeliveredRowsStay
    BY <1>1 DEF DeliveredRowsStay
  <1>3. QED
    BY <1>2, InvariantHolds, PTL DEF Spec
=============================================================================
