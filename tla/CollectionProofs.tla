-------------------------- MODULE CollectionProofs --------------------------
(***************************************************************************)
(* Theorems of AnalyticsCollection, for any number of jobs and any finite  *)
(* number of scheduler processes, batches of any size and any faults. The  *)
(* inductive invariant keeps an account of the causes of a job's reads: a  *)
(* stale snapshot, a lapse, a failure or a death each allows for one, and  *)
(* whoever may still read, or may still let go of a lease that another     *)
(* process holds, has used one up.                                         *)
(***************************************************************************)
EXTENDS AnalyticsCollection, FiniteSetTheorems, WellFoundedInduction, TLAPS

-----------------------------------------------------------------------------
(* The inductive invariant.                                                *)

\* A process has in hand one target of its batch. An answer it is about to store
\* is one its platform gave.
HandsFollow ==
    \A c \in Collectors :
        /\ pc[c] \in {"idle", "beat"} => batch[c] = {}
        /\ pc[c] \in {"idle", "next", "beat"} => current[c] = {}
        /\ pc[c] \in {"answered", "failed"} => \E j \in batch[c] : current[c] = {j}
        /\ pc[c] = "answered" => \A j \in current[c] : answer[c] <= reads[j]

\* Every stored snapshot is an answer its platform gave.
SnapshotsFollow == \A j \in Jobs : \A i \in 1..Len(snapshots[j]) : snapshots[j][i] <= reads[j]

\* The processes that hold a target and will read it, or have failed to and will let
\* go of its lease: all that hold it except those that are about to store an answer.
Owes(c, j) == j \in batch[c] /\ ~(pc[c] = "answered" /\ j \in current[c])
Owing(j) == {c \in Collectors : Owes(c, j)}

\* A target is free for the next pass, or will be once a lease that no process is
\* left to clear has lapsed.
Free(j) == IF ~job[j].fresh /\ (job[j].lease # "held" \/ ~InHand(j)) THEN 1 ELSE 0

\* Each cause pays for one read, and pays once, however the unfenced releases and
\* saves of several processes meet.
Accounted ==
    \A j \in Jobs :
        IF j \in Broken THEN reads[j] = 0
        ELSE reads[j] + Cardinality(Owing(j)) + Free(j) <= 1 + aged[j] + trouble[j] + deaths

IInv == TypeOK /\ HandsFollow /\ SnapshotsFollow /\ Accounted

-----------------------------------------------------------------------------
(* Counting the processes that owe something to a target.                  *)

LEMMA OwingFinite ==
    ASSUME NEW j
    PROVE  /\ IsFiniteSet(Owing(j)) /\ Cardinality(Owing(j)) \in Nat
           /\ IsFiniteSet(Owing(j)') /\ Cardinality(Owing(j)') \in Nat
  <1>1. Owing(j) \in SUBSET Collectors /\ Owing(j)' \in SUBSET Collectors
    BY DEF Owing
  <1>2. IsFiniteSet(Owing(j)) /\ IsFiniteSet(Owing(j)')
    BY <1>1, CollectionAssumption, FS_Subset
  <1>3. QED
    BY <1>2, FS_CardinalityType

LEMMA OwingStays ==
    ASSUME NEW j, \A c \in Collectors : Owes(c, j)' <=> Owes(c, j)
    PROVE  Cardinality(Owing(j)') = Cardinality(Owing(j))
  <1>1. Owing(j)' = Owing(j)
    BY DEF Owing
  <1>2. QED
    BY <1>1

LEMMA OwingShrinks ==
    ASSUME NEW j, \A c \in Collectors : Owes(c, j)' => Owes(c, j)
    PROVE  Cardinality(Owing(j)') <= Cardinality(Owing(j))
  <1>1. Owing(j)' \in SUBSET Owing(j)
    BY DEF Owing
  <1>2. QED
    BY <1>1, OwingFinite, FS_Subset

LEMMA OwingGrows ==
    ASSUME NEW j, NEW c \in Collectors, \A d \in Collectors : d # c /\ Owes(d, j)' => Owes(d, j)
    PROVE  Cardinality(Owing(j)') <= Cardinality(Owing(j)) + 1
  <1>1. Owing(j)' \in SUBSET (Owing(j) \cup {c})
    BY DEF Owing
  <1>2. /\ IsFiniteSet(Owing(j) \cup {c})
        /\ Cardinality(Owing(j) \cup {c}) <= Cardinality(Owing(j)) + 1
    <2>1. PICK S : S = Owing(j)
      OBVIOUS
    <2>2. IsFiniteSet(S) /\ Cardinality(S) \in Nat
      BY <2>1, OwingFinite
    <2>3. /\ IsFiniteSet(S \cup {c})
          /\ Cardinality(S \cup {c}) = IF c \in S THEN Cardinality(S) ELSE Cardinality(S) + 1
      BY <2>2, FS_AddElement
    <2>4. QED
      BY <2>1, <2>2, <2>3
  <1>3. /\ Cardinality(Owing(j)') <= Cardinality(Owing(j) \cup {c})
        /\ Cardinality(Owing(j) \cup {c}) \in Nat
    BY <1>1, <1>2, FS_Subset, FS_CardinalityType
  <1>4. QED
    BY <1>2, <1>3, OwingFinite

LEMMA OwingLoses ==
    ASSUME NEW j, NEW c \in Collectors, Owes(c, j), ~Owes(c, j)', \A d \in Collectors : Owes(d, j)' => Owes(d, j)
    PROVE  Cardinality(Owing(j)') + 1 <= Cardinality(Owing(j))
  <1>1. Owing(j)' \in SUBSET (Owing(j) \ {c}) /\ c \in Owing(j)
    BY DEF Owing
  <1>2. IsFiniteSet(Owing(j) \ {c}) /\ Cardinality(Owing(j) \ {c}) = Cardinality(Owing(j)) - 1
    BY <1>1, OwingFinite, FS_RemoveElement
  <1>3. Cardinality(Owing(j)') <= Cardinality(Owing(j) \ {c})
    BY <1>1, <1>2, FS_Subset
  <1>4. QED
    BY <1>2, <1>3, OwingFinite

\* The numbers of the account.
LEMMA Numbers ==
    ASSUME TypeOK, NEW j \in Jobs
    PROVE  /\ reads[j] \in Nat /\ aged[j] \in Nat /\ trouble[j] \in Nat /\ deaths \in Nat
           /\ Cardinality(Owing(j)) \in Nat /\ Cardinality(Owing(j)') \in Nat
           /\ Free(j) \in {0, 1} /\ Free(j)' \in {0, 1}
  <1>1. reads[j] \in Nat /\ aged[j] \in Nat /\ trouble[j] \in Nat /\ deaths \in Nat
    BY CollectionAssumption DEF TypeOK
  <1>2. Free(j) \in {0, 1} /\ Free(j)' \in {0, 1}
    BY DEF Free
  <1>3. QED
    BY <1>1, <1>2, OwingFinite

\* What leaves the batches, the hands, the rows and the reads alone keeps the account.
LEMMA AccountStays ==
    ASSUME IInv, UNCHANGED <<job, pc, batch, current, reads, aged, trouble, deaths>>
    PROVE  Accounted'
  <1>1. \A j \in Jobs : Cardinality(Owing(j)') = Cardinality(Owing(j))
    BY OwingStays DEF Owes
  <1>2. \A j \in Jobs : Free(j)' = Free(j)
    BY DEF Free, InHand
  <1>3. QED
    BY <1>1, <1>2 DEF IInv, Accounted

LEMMA InvInit == Init => IInv
  <1> SUFFICES ASSUME Init PROVE IInv
    OBVIOUS
  <1>1. TypeOK
    <2>1. published \in 0..N /\ deaths \in 0..MaxDeaths
      BY CollectionAssumption DEF Init
    <2>2. job \in [Jobs -> Target] /\ pc \in [Collectors -> Points] /\ snapshots \in [Jobs -> Seq(Nat)]
      BY DEF Init, Target, Points
    <2>3. QED
      BY <2>1, <2>2 DEF Init, TypeOK
  <1>2. HandsFollow /\ SnapshotsFollow
    BY DEF Init, HandsFollow, SnapshotsFollow
  <1>3. \A j \in Jobs : Cardinality(Owing(j)) = 0
    <2>1. \A j \in Jobs : Owing(j) = {}
      BY DEF Init, Owing, Owes
    <2>2. QED
      BY <2>1, FS_EmptySet
  <1>4. Accounted
    <2>1. \A j \in Jobs : reads[j] = 0 /\ aged[j] = 0 /\ trouble[j] = 0 /\ deaths = 0
      BY DEF Init
    <2>2. \A j \in Jobs : Free(j) \in {0, 1}
      BY DEF Free
    <2>3. QED
      BY <1>3, <2>1, <2>2 DEF Accounted
  <1>5. QED
    BY <1>1, <1>2, <1>4 DEF IInv

-----------------------------------------------------------------------------
(* The rows and the clock.                                                 *)

LEMMA PublishKeeps == ASSUME IInv, Publish PROVE IInv'
  <1>1. /\ published < N /\ published' = published + 1 /\ TypeOK
        /\ UNCHANGED <<job, heartbeat, pc, batch, current, answer, snapshots, reads, trouble, aged, deaths>>
    BY DEF Publish, IInv
  <1>2. TypeOK'
    <2>1. published' \in 0..N
      BY <1>1, CollectionAssumption DEF TypeOK
    <2>2. \A c \in Collectors : \A j \in batch[c] : j <= published'
      <3>1. \A c \in Collectors : \A j \in batch[c] : j \in Nat /\ j <= published /\ published \in Nat
        BY <1>1, CollectionAssumption DEF TypeOK, Jobs
      <3>2. QED
        BY <1>1, <3>1
    <2>3. QED
      BY <1>1, <2>1, <2>2 DEF TypeOK
  <1>3. HandsFollow' /\ SnapshotsFollow'
    BY <1>1 DEF IInv, HandsFollow, SnapshotsFollow
  <1>4. QED
    BY <1>1, <1>2, <1>3, AccountStays DEF IInv

LEMMA HeartbeatAgesKeeps == ASSUME IInv, HeartbeatAges PROVE IInv'
  <1>1. /\ heartbeat' = FALSE
        /\ UNCHANGED <<job, published, pc, batch, current, answer, snapshots, reads, trouble, aged, deaths>>
    BY DEF HeartbeatAges
  <1>2. TypeOK' /\ HandsFollow' /\ SnapshotsFollow'
    BY <1>1 DEF IInv, TypeOK, HandsFollow, SnapshotsFollow
  <1>3. QED
    BY <1>1, <1>2, AccountStays DEF IInv

LEMMA LeaseLapsesKeeps == ASSUME IInv, NEW j \in Jobs, LeaseLapses(j) PROVE IInv'
  <1>1. /\ TypeOK /\ job[j].lease = "held" /\ job' = [job EXCEPT ![j].lease = "lapsed"]
        /\ UNCHANGED <<published, heartbeat, pc, batch, current, answer, snapshots, reads, aged, deaths>>
    BY DEF LeaseLapses, IInv
  <1>2. /\ trouble' \in [Jobs -> Nat] /\ \A k \in Jobs : k # j => trouble'[k] = trouble[k]
        /\ trouble'[j] = IF InHand(j) THEN trouble[j] + 1 ELSE trouble[j]
    <2>1. trouble \in [Jobs -> Nat]
      BY <1>1 DEF TypeOK
    <2>2. trouble' = IF InHand(j) THEN [trouble EXCEPT ![j] = trouble[j] + 1] ELSE trouble
      BY DEF LeaseLapses, Troubled
    <2>3. QED
      BY <2>1, <2>2
  <1>3. /\ job' \in [Jobs -> Target] /\ job'[j].fresh = job[j].fresh /\ job'[j].lease = "lapsed"
        /\ \A k \in Jobs : k # j => job'[k] = job[k]
    BY <1>1 DEF TypeOK, Target
  <1>4. TypeOK' /\ HandsFollow' /\ SnapshotsFollow'
    BY <1>1, <1>2, <1>3 DEF IInv, TypeOK, HandsFollow, SnapshotsFollow
  <1>5. Accounted'
    <2>1. \A k \in Jobs : Cardinality(Owing(k)') = Cardinality(Owing(k))
      BY <1>1, OwingStays DEF Owes
    <2>2. \A k \in Jobs : k # j => Free(k)' = Free(k)
      BY <1>1, <1>3 DEF Free, InHand
    <2>3. ~InHand(j) => Free(j)' = Free(j)
      BY <1>1, <1>3 DEF Free, InHand
    <2>4. QED
      BY <1>1, <1>2, <2>1, <2>2, <2>3, Numbers DEF IInv, Accounted
  <1>6. QED
    BY <1>4, <1>5 DEF IInv

LEMMA SnapshotAgesKeeps == ASSUME IInv, NEW j \in Jobs, SnapshotAges(j) PROVE IInv'
  <1>1. /\ TypeOK /\ job' = [job EXCEPT ![j].fresh = FALSE] /\ aged' = [aged EXCEPT ![j] = aged[j] + 1]
        /\ UNCHANGED <<published, heartbeat, pc, batch, current, answer, snapshots, reads, trouble, deaths>>
    BY DEF SnapshotAges, IInv
  <1>2. /\ aged' \in [Jobs -> Nat] /\ aged'[j] = aged[j] + 1 /\ \A k \in Jobs : k # j => aged'[k] = aged[k]
    BY <1>1 DEF TypeOK
  <1>3. job' \in [Jobs -> Target] /\ \A k \in Jobs : k # j => job'[k] = job[k]
    BY <1>1 DEF TypeOK, Target
  <1>4. TypeOK' /\ HandsFollow' /\ SnapshotsFollow'
    BY <1>1, <1>2, <1>3 DEF IInv, TypeOK, HandsFollow, SnapshotsFollow
  <1>5. Free(j) = 0
    BY DEF SnapshotAges, Free
  <1>6. Accounted'
    <2>1. \A k \in Jobs : Cardinality(Owing(k)') = Cardinality(Owing(k))
      BY <1>1, OwingStays DEF Owes
    <2>2. \A k \in Jobs : k # j => Free(k)' = Free(k)
      BY <1>1, <1>3 DEF Free, InHand
    <2>3. QED
      BY <1>1, <1>2, <1>5, <2>1, <2>2, Numbers DEF IInv, Accounted
  <1>7. QED
    BY <1>4, <1>6 DEF IInv

-----------------------------------------------------------------------------
(* A pass.                                                                 *)

\* A target keeps its type when its lease is set.
LEMMA LeaseType ==
    ASSUME NEW row \in Target, NEW lease \in {"none", "held", "lapsed"}
    PROVE  /\ [row EXCEPT !.lease = lease] \in Target
           /\ [row EXCEPT !.lease = lease].lease = lease
  BY DEF Target

LEMMA ClaimKeeps == ASSUME IInv, NEW c \in Collectors, Claim(c) PROVE IInv'
  <1>1. PICK S \in SUBSET Jobs : S = Targets
    BY DEF Targets
  <1>2. /\ TypeOK /\ pc[c] = "idle" /\ batch[c] = {} /\ current[c] = {}
        /\ job' = [j \in Jobs |-> IF j \in S THEN [job[j] EXCEPT !.lease = "held"] ELSE job[j]]
        /\ batch' = [batch EXCEPT ![c] = S]
        /\ pc' = [pc EXCEPT ![c] = IF S = {} THEN "beat" ELSE "next"]
        /\ UNCHANGED <<published, heartbeat, current, answer, snapshots, reads, trouble, aged, deaths>>
    BY <1>1 DEF Claim, Continue, IInv, HandsFollow
  <1>3. \A j \in S : j \in Jobs /\ j <= published /\ job[j].lease # "held" /\ ~job[j].fresh
    BY <1>1 DEF Targets, Due
  <1>4. /\ job' \in [Jobs -> Target] /\ \A j \in Jobs : j \notin S => job'[j] = job[j]
        /\ \A j \in S : job'[j].lease = "held"
    <2>1. \A j \in Jobs : job[j] \in Target
      BY <1>2 DEF TypeOK
    <2>2. /\ \A j \in Jobs : [job[j] EXCEPT !.lease = "held"] \in Target
          /\ \A j \in Jobs : [job[j] EXCEPT !.lease = "held"].lease = "held"
      BY <2>1, LeaseType
    <2>3. QED
      BY <1>1, <1>2, <2>1, <2>2
  <1>5. /\ pc' \in [Collectors -> Points] /\ pc'[c] \in {"next", "beat"} /\ (pc'[c] = "beat" => S = {})
        /\ \A d \in Collectors : d # c => pc'[d] = pc[d]
    BY <1>2 DEF TypeOK, Points
  <1>6. /\ batch' \in [Collectors -> SUBSET Jobs] /\ batch'[c] = S
        /\ \A d \in Collectors : d # c => batch'[d] = batch[d]
    BY <1>1, <1>2 DEF TypeOK
  <1>7. TypeOK'
    <2>1. \A d \in Collectors : current'[d] \subseteq batch'[d] /\ \A j \in batch'[d] : j <= published'
      BY <1>2, <1>3, <1>6 DEF TypeOK
    <2>2. QED
      BY <1>2, <1>4, <1>5, <1>6, <2>1 DEF TypeOK
  <1>8. HandsFollow' /\ SnapshotsFollow'
    BY <1>2, <1>5, <1>6 DEF IInv, HandsFollow, SnapshotsFollow
  <1>9. Accounted'
    <2>1. ASSUME NEW j \in Jobs, j \notin S
          PROVE  Cardinality(Owing(j)') = Cardinality(Owing(j)) /\ Free(j)' = Free(j)
      <3>1. \A d \in Collectors : Owes(d, j)' <=> Owes(d, j)
        BY <1>2, <1>5, <1>6, <2>1 DEF Owes
      <3>2. InHand(j)' <=> InHand(j)
        BY <1>2, <1>6, <2>1 DEF InHand
      <3>3. QED
        BY <1>4, <2>1, <3>1, <3>2, OwingStays DEF Free
    <2>2. ASSUME NEW j \in S
          PROVE  Cardinality(Owing(j)') <= Cardinality(Owing(j)) + 1 /\ Free(j) = 1 /\ Free(j)' = 0
      <3>1. \A d \in Collectors : d # c /\ Owes(d, j)' => Owes(d, j)
        BY <1>2, <1>5, <1>6 DEF Owes
      <3>2. InHand(j)'
        BY <1>6, <2>2 DEF InHand
      <3>3. QED
        BY <1>3, <1>4, <2>2, <3>1, <3>2, OwingGrows DEF Free
    <2>3. QED
      BY <1>1, <1>2, <2>1, <2>2, Numbers DEF IInv, Accounted
  <1>10. QED
    BY <1>7, <1>8, <1>9 DEF IInv

LEMMA FetchKeeps == ASSUME IInv, NEW c \in Collectors, Fetch(c) PROVE IInv'
  <1>1. PICK j \in batch[c] : current' = [current EXCEPT ![c] = {j}] /\ (Answers(c, j) \/ Throws(c, j))
    BY DEF Fetch
  <1>2. /\ TypeOK /\ pc[c] = "next" /\ current[c] = {} /\ j \in Jobs
        /\ UNCHANGED <<job, published, heartbeat, batch, snapshots, aged, deaths>>
    BY DEF Fetch, IInv, HandsFollow, TypeOK
  <1>3. /\ current' \in [Collectors -> SUBSET Jobs] /\ current'[c] = {j}
        /\ \A d \in Collectors : d # c => current'[d] = current[d]
    <2>1. PICK S \in SUBSET Jobs : S = {j}
      BY <1>2
    <2>2. current \in [Collectors -> SUBSET Jobs] /\ current' = [current EXCEPT ![c] = S]
      BY <1>1, <1>2, <2>1 DEF TypeOK
    <2>3. QED
      BY <2>1, <2>2
  <1>4. \A k \in Jobs : Free(k)' = Free(k)
    BY <1>2 DEF Free, InHand
  <1>5. \A d \in Collectors : current'[d] \subseteq batch'[d] /\ \A k \in batch'[d] : k <= published'
    BY <1>2, <1>3 DEF TypeOK
  <1>6. CASE Answers(c, j)
    <2>1. /\ j \notin Broken /\ trouble' = trouble
          /\ reads' = [reads EXCEPT ![j] = reads[j] + 1] /\ pc' = [pc EXCEPT ![c] = "answered"]
          /\ answer' = [answer EXCEPT ![c] = reads'[j]]
      BY <1>6 DEF Answers
    <2>2. /\ reads' \in [Jobs -> Nat] /\ reads'[j] = reads[j] + 1 /\ \A k \in Jobs : k # j => reads'[k] = reads[k]
      BY <1>2, <2>1 DEF TypeOK
    <2>3. /\ answer' \in [Collectors -> Nat] /\ answer'[c] = reads'[j]
          /\ \A d \in Collectors : d # c => answer'[d] = answer[d]
      BY <1>2, <2>1, <2>2 DEF TypeOK
    <2>4. /\ pc' \in [Collectors -> Points] /\ pc'[c] = "answered" /\ \A d \in Collectors : d # c => pc'[d] = pc[d]
      BY <1>2, <2>1 DEF TypeOK, Points
    <2>5. TypeOK'
      BY <1>2, <1>3, <1>5, <2>1, <2>2, <2>3, <2>4 DEF TypeOK
    <2>6. \A k \in Jobs : \A n \in Nat : n <= reads[k] => n <= reads'[k]
      <3>1. ASSUME NEW k \in Jobs, NEW n \in Nat, n <= reads[k] PROVE n <= reads'[k]
        <4>1. reads[k] \in Nat /\ (reads'[k] = reads[k] \/ reads'[k] = reads[k] + 1)
          BY <1>2, <2>2 DEF TypeOK
        <4>2. QED
          BY <3>1, <4>1
      <3>2. QED
        BY <3>1
    <2>7. HandsFollow'
      <3>1. ASSUME NEW d \in Collectors, d # c, pc'[d] = "answered", NEW k \in current'[d] PROVE answer'[d] <= reads'[k]
        <4>1. k \in Jobs /\ answer[d] \in Nat /\ answer[d] <= reads[k]
          BY <1>2, <1>3, <2>4, <3>1 DEF TypeOK, IInv, HandsFollow
        <4>2. QED
          BY <2>3, <2>6, <3>1, <4>1
      <3>2. reads'[j] <= reads'[j]
        BY <1>2, <2>2 DEF TypeOK
      <3>3. QED
        BY <1>2, <1>3, <2>3, <2>4, <3>1, <3>2 DEF IInv, HandsFollow
    <2>8. SnapshotsFollow'
      <3>1. ASSUME NEW k \in Jobs, NEW i \in 1..Len(snapshots[k]) PROVE snapshots[k][i] <= reads'[k]
        <4>1. snapshots[k] \in Seq(Nat)
          BY <1>2 DEF TypeOK
        <4>2. snapshots[k][i] \in Nat /\ snapshots[k][i] <= reads[k]
          BY <3>1, <4>1 DEF IInv, SnapshotsFollow
        <4>3. QED
          BY <2>6, <4>2
      <3>2. QED
        BY <1>2, <3>1 DEF SnapshotsFollow
    <2>9. Accounted'
      <3>1. \A k \in Jobs : k # j => Cardinality(Owing(k)') = Cardinality(Owing(k))
        BY <1>2, <1>3, <2>4, OwingStays DEF Owes
      <3>2. Cardinality(Owing(j)') + 1 <= Cardinality(Owing(j))
        BY <1>2, <1>3, <2>4, OwingLoses DEF Owes
      <3>3. QED
        BY <1>2, <1>4, <2>1, <2>2, <3>1, <3>2, Numbers DEF IInv, Accounted
    <2>10. QED
      BY <2>5, <2>7, <2>8, <2>9 DEF IInv
  <1>7. CASE Throws(c, j)
    <2>1. /\ UNCHANGED <<reads, answer>> /\ pc' = [pc EXCEPT ![c] = "failed"]
          /\ trouble' = trouble \/ trouble' = [trouble EXCEPT ![j] = trouble[j] + 1]
      BY <1>7 DEF Throws, Troubled
    <2>2. trouble' \in [Jobs -> Nat] /\ \A k \in Jobs : trouble'[k] >= trouble[k]
      <3>1. trouble \in [Jobs -> Nat] /\ \A k \in Jobs : trouble[k] \in Nat
        BY <1>2 DEF TypeOK
      <3>2. CASE trouble' = trouble
        BY <3>1, <3>2
      <3>3. CASE trouble' = [trouble EXCEPT ![j] = trouble[j] + 1]
        BY <1>2, <3>1, <3>3
      <3>4. QED
        BY <2>1, <3>2, <3>3
    <2>3. /\ pc' \in [Collectors -> Points] /\ pc'[c] = "failed" /\ \A d \in Collectors : d # c => pc'[d] = pc[d]
      BY <1>2, <2>1 DEF TypeOK, Points
    <2>4. TypeOK'
      BY <1>2, <1>3, <1>5, <2>1, <2>2, <2>3 DEF TypeOK
    <2>5. HandsFollow' /\ SnapshotsFollow'
      BY <1>2, <1>3, <2>1, <2>3 DEF IInv, HandsFollow, SnapshotsFollow
    <2>6. Accounted'
      <3>1. \A k \in Jobs : Cardinality(Owing(k)') = Cardinality(Owing(k))
        BY <1>2, <1>3, <2>3, OwingStays DEF Owes
      <3>2. \A k \in Jobs : trouble'[k] \in Nat
        BY <2>2
      <3>3. QED
        BY <1>2, <1>4, <2>1, <2>2, <3>1, <3>2, Numbers DEF IInv, Accounted
    <2>7. QED
      BY <2>4, <2>5, <2>6 DEF IInv
  <1>8. QED
    BY <1>1, <1>6, <1>7

\* What the end of a target does to the process that held it, and to nobody else.
LEMMA HandledHands ==
    ASSUME TypeOK, HandsFollow, NEW c \in Collectors, pc[c] \in {"answered", "failed"},
           NEW j \in batch[c], current[c] = {j}, Handled(c)
    PROVE  /\ pc' \in [Collectors -> Points] /\ batch' \in [Collectors -> SUBSET Jobs]
           /\ current' \in [Collectors -> SUBSET Jobs] /\ answer' \in [Collectors -> Nat]
           /\ pc'[c] \in {"next", "beat"} /\ (pc'[c] = "beat" => batch'[c] = {})
           /\ batch'[c] = batch[c] \ {j} /\ current'[c] = {}
           /\ \A d \in Collectors : d # c => /\ pc'[d] = pc[d] /\ batch'[d] = batch[d]
                                             /\ current'[d] = current[d] /\ answer'[d] = answer[d]
           /\ \A d \in Collectors : current'[d] \subseteq batch'[d] /\ \A k \in batch'[d] : k <= published
           /\ \A k \in Jobs : k # j => (InHand(k)' <=> InHand(k)) /\ Cardinality(Owing(k)') = Cardinality(Owing(k))
           /\ Cardinality(Owing(j)') <= Cardinality(Owing(j))
           /\ pc[c] = "failed" => Cardinality(Owing(j)') + 1 <= Cardinality(Owing(j))
  <1>1. PICK left \in SUBSET Jobs : left = batch[c] \ {j}
    BY DEF TypeOK
  <1>2. /\ batch' = [batch EXCEPT ![c] = left] /\ current' = [current EXCEPT ![c] = {}]
        /\ answer' = [answer EXCEPT ![c] = 0] /\ pc' = [pc EXCEPT ![c] = IF left = {} THEN "beat" ELSE "next"]
    BY <1>1 DEF Handled, Continue
  <1>3. /\ pc' \in [Collectors -> Points] /\ pc'[c] \in {"next", "beat"} /\ (pc'[c] = "beat" => left = {})
        /\ \A d \in Collectors : d # c => pc'[d] = pc[d]
    BY <1>2 DEF TypeOK, Points
  <1>4. /\ batch' \in [Collectors -> SUBSET Jobs] /\ batch'[c] = left
        /\ current' \in [Collectors -> SUBSET Jobs] /\ current'[c] = {} /\ answer' \in [Collectors -> Nat]
        /\ \A d \in Collectors : d # c => batch'[d] = batch[d] /\ current'[d] = current[d] /\ answer'[d] = answer[d]
    <2>1. /\ batch \in [Collectors -> SUBSET Jobs] /\ current \in [Collectors -> SUBSET Jobs]
          /\ answer \in [Collectors -> Nat]
      BY DEF TypeOK
    <2>2. /\ batch' \in [Collectors -> SUBSET Jobs] /\ batch'[c] = left
          /\ \A d \in Collectors : d # c => batch'[d] = batch[d]
      BY <1>1, <1>2, <2>1
    <2>3. /\ current' \in [Collectors -> SUBSET Jobs] /\ current'[c] = {}
          /\ \A d \in Collectors : d # c => current'[d] = current[d]
      BY <1>2, <2>1
    <2>4. answer' \in [Collectors -> Nat] /\ \A d \in Collectors : d # c => answer'[d] = answer[d]
      BY <1>2, <2>1
    <2>5. QED
      BY <2>2, <2>3, <2>4
  <1>5. \A d \in Collectors : current'[d] \subseteq batch'[d] /\ \A k \in batch'[d] : k <= published
    BY <1>1, <1>4 DEF TypeOK
  <1>6. \A k \in Jobs : k # j => (InHand(k)' <=> InHand(k)) /\ Cardinality(Owing(k)') = Cardinality(Owing(k))
    <2>1. \A k \in Jobs : k # j => (InHand(k)' <=> InHand(k))
      BY <1>1, <1>4 DEF InHand
    <2>2. \A k \in Jobs : k # j => \A d \in Collectors : Owes(d, k)' <=> Owes(d, k)
      BY <1>1, <1>3, <1>4 DEF Owes
    <2>3. QED
      BY <2>1, <2>2, OwingStays
  <1>7. ~Owes(c, j)' /\ \A d \in Collectors : Owes(d, j)' => Owes(d, j)
    BY <1>1, <1>3, <1>4 DEF Owes
  <1>8. Cardinality(Owing(j)') <= Cardinality(Owing(j))
    BY <1>7, OwingShrinks
  <1>9. pc[c] = "failed" => Cardinality(Owing(j)') + 1 <= Cardinality(Owing(j))
    BY <1>7, OwingLoses DEF Owes
  <1>10. QED
    BY <1>1, <1>3, <1>4, <1>5, <1>6, <1>8, <1>9

\* A snapshot that is stored is the answer in hand, which the platform gave.
LEMMA StoredAnswers ==
    ASSUME IInv, NEW c \in Collectors, NEW j \in Jobs, answer[c] <= reads[j], reads' = reads,
           snapshots'[j] = Append(snapshots[j], answer[c]) \/ snapshots'[j] = snapshots[j],
           \A k \in Jobs : k # j => snapshots'[k] = snapshots[k]
    PROVE  SnapshotsFollow'
  <1>1. \A k \in Jobs : \A i \in 1..Len(snapshots[k]) : snapshots[k][i] <= reads[k]
    BY DEF IInv, SnapshotsFollow
  <1>2. snapshots[j] \in Seq(Nat) /\ answer[c] \in Nat
    BY DEF IInv, TypeOK
  <1>3. ASSUME NEW i \in 1..Len(snapshots'[j]) PROVE snapshots'[j][i] <= reads[j]
    BY <1>1, <1>2, <1>3
  <1>4. QED
    BY <1>1, <1>3 DEF SnapshotsFollow

LEMMA SaveKeeps == ASSUME IInv, NEW c \in Collectors, Save(c) PROVE IInv'
  <1>1. PICK j \in current[c] : Stored(c, j)
    BY DEF Save
  <1>2. /\ TypeOK /\ HandsFollow /\ pc[c] = "answered" /\ Handled(c)
        /\ j \in batch[c] /\ current[c] = {j} /\ j \in Jobs /\ answer[c] <= reads[j]
        /\ UNCHANGED <<published, heartbeat, reads, trouble, aged, deaths>>
    BY <1>1 DEF Save, IInv, HandsFollow, TypeOK
  <1>3. /\ job' \in [Jobs -> Target] /\ job'[j].fresh /\ \A k \in Jobs : k # j => job'[k] = job[k]
    BY <1>1, <1>2 DEF Stored, TypeOK, Target
  <1>4. /\ snapshots' \in [Jobs -> Seq(Nat)] /\ snapshots'[j] = Append(snapshots[j], answer[c])
        /\ \A k \in Jobs : k # j => snapshots'[k] = snapshots[k]
    BY <1>1, <1>2 DEF Stored, TypeOK
  <1>5. TypeOK'
    BY <1>2, <1>3, <1>4, HandledHands DEF TypeOK
  <1>6. HandsFollow'
    BY <1>2, HandledHands DEF HandsFollow
  <1>7. SnapshotsFollow'
    BY <1>2, <1>4, StoredAnswers
  <1>8. Accounted'
    <2>1. Cardinality(Owing(j)') <= Cardinality(Owing(j)) /\ Free(j)' = 0
      BY <1>2, <1>3, HandledHands DEF Free
    <2>2. \A k \in Jobs : k # j => Cardinality(Owing(k)') = Cardinality(Owing(k)) /\ Free(k)' = Free(k)
      BY <1>2, <1>3, HandledHands DEF Free
    <2>3. QED
      BY <1>2, <2>1, <2>2, Numbers DEF IInv, Accounted
  <1>9. QED
    BY <1>5, <1>6, <1>7, <1>8 DEF IInv

LEMMA SaveFailsKeeps == ASSUME IInv, NEW c \in Collectors, SaveFails(c) PROVE IInv'
  <1>1. PICK j \in current[c] : Troubled(j) /\ (Stored(c, j) \/ UNCHANGED <<job, snapshots>>)
    BY DEF SaveFails
  <1>2. /\ TypeOK /\ HandsFollow /\ pc[c] = "answered" /\ pc' = [pc EXCEPT ![c] = "failed"]
        /\ j \in batch[c] /\ current[c] = {j} /\ j \in Jobs /\ answer[c] <= reads[j]
        /\ UNCHANGED <<published, heartbeat, batch, current, answer, reads, aged, deaths>>
    BY <1>1 DEF SaveFails, IInv, HandsFollow, TypeOK
  <1>3. /\ job' \in [Jobs -> Target] /\ (job'[j].fresh = TRUE \/ job' = job) /\ \A k \in Jobs : k # j => job'[k] = job[k]
    <2>1. CASE Stored(c, j)
      BY <1>1, <1>2, <2>1 DEF Stored, TypeOK, Target
    <2>2. CASE job' = job
      BY <1>2, <2>2 DEF TypeOK
    <2>3. QED
      BY <1>1, <2>1, <2>2
  <1>4. /\ snapshots' \in [Jobs -> Seq(Nat)]
        /\ snapshots'[j] = Append(snapshots[j], answer[c]) \/ snapshots'[j] = snapshots[j]
        /\ \A k \in Jobs : k # j => snapshots'[k] = snapshots[k]
    <2>1. CASE Stored(c, j)
      BY <1>1, <1>2, <2>1 DEF Stored, TypeOK
    <2>2. CASE snapshots' = snapshots
      BY <1>2, <2>2 DEF TypeOK
    <2>3. QED
      BY <1>1, <2>1, <2>2
  <1>5. /\ trouble' \in [Jobs -> Nat] /\ trouble'[j] = trouble[j] + 1 /\ \A k \in Jobs : k # j => trouble'[k] = trouble[k]
    BY <1>1, <1>2 DEF Troubled, TypeOK
  <1>6. /\ pc' \in [Collectors -> Points] /\ pc'[c] = "failed" /\ \A d \in Collectors : d # c => pc'[d] = pc[d]
    BY <1>2 DEF TypeOK, Points
  <1>7. TypeOK'
    BY <1>2, <1>3, <1>4, <1>5, <1>6 DEF TypeOK
  <1>8. HandsFollow'
    BY <1>2, <1>6 DEF HandsFollow
  <1>9. SnapshotsFollow'
    BY <1>2, <1>4, StoredAnswers
  <1>10. Accounted'
    <2>1. Cardinality(Owing(j)') <= Cardinality(Owing(j)) + 1
      BY <1>2, <1>6, OwingGrows DEF Owes
    <2>2. \A k \in Jobs : k # j => Cardinality(Owing(k)') = Cardinality(Owing(k))
      BY <1>2, <1>6, OwingStays DEF Owes
    <2>3. \A k \in Jobs : InHand(k)' <=> InHand(k)
      BY <1>2 DEF InHand
    <2>4. Free(j)' = Free(j) \/ Free(j)' = 0
      <3>1. CASE job'[j].fresh = TRUE
        BY <3>1 DEF Free
      <3>2. CASE job' = job
        BY <1>2, <2>3, <3>2 DEF Free
      <3>3. QED
        BY <1>3, <3>1, <3>2
    <2>5. \A k \in Jobs : k # j => Free(k)' = Free(k)
      BY <1>3, <2>3 DEF Free
    <2>6. QED
      BY <1>2, <1>5, <2>1, <2>2, <2>4, <2>5, Numbers DEF IInv, Accounted
  <1>11. QED
    BY <1>7, <1>8, <1>9, <1>10 DEF IInv

LEMMA ReleaseKeeps == ASSUME IInv, NEW c \in Collectors, Release(c) PROVE IInv'
  <1>1. PICK j \in batch[c] : current[c] = {j}
    BY DEF Release, IInv, HandsFollow
  <1>2. /\ TypeOK /\ HandsFollow /\ pc[c] = "failed" /\ Handled(c) /\ j \in Jobs
        /\ job' = [k \in Jobs |-> IF k \in current[c] THEN [job[k] EXCEPT !.lease = "none"] ELSE job[k]]
        /\ UNCHANGED <<published, heartbeat, snapshots, reads, trouble, aged, deaths>>
    BY <1>1 DEF Release, IInv, TypeOK
  <1>3. job' \in [Jobs -> Target] /\ \A k \in Jobs : k # j => job'[k] = job[k]
    <2>1. \A k \in Jobs : job[k] \in Target
      BY <1>2 DEF TypeOK
    <2>2. \A k \in Jobs : [job[k] EXCEPT !.lease = "none"] \in Target
      BY <2>1, LeaseType
    <2>3. QED
      BY <1>1, <1>2, <2>1, <2>2
  <1>4. TypeOK'
    BY <1>1, <1>2, <1>3, HandledHands DEF TypeOK
  <1>5. HandsFollow' /\ SnapshotsFollow'
    <2>1. HandsFollow'
      BY <1>1, <1>2, HandledHands DEF HandsFollow
    <2>2. QED
      BY <1>2, <2>1 DEF IInv, SnapshotsFollow
  <1>6. Accounted'
    <2>1. Cardinality(Owing(j)') + 1 <= Cardinality(Owing(j))
      BY <1>1, <1>2, HandledHands
    <2>2. \A k \in Jobs : k # j => Cardinality(Owing(k)') = Cardinality(Owing(k)) /\ Free(k)' = Free(k)
      BY <1>1, <1>2, <1>3, HandledHands DEF Free
    <2>3. QED
      BY <1>2, <2>1, <2>2, Numbers DEF IInv, Accounted
  <1>7. QED
    BY <1>4, <1>5, <1>6 DEF IInv

LEMMA ReleaseFailsKeeps == ASSUME IInv, NEW c \in Collectors, ReleaseFails(c) PROVE IInv'
  <1>1. PICK j \in batch[c] : current[c] = {j}
    BY DEF ReleaseFails, IInv, HandsFollow
  <1>2. /\ TypeOK /\ HandsFollow /\ pc[c] = "failed" /\ Handled(c) /\ j \in Jobs /\ Troubled(j)
        /\ UNCHANGED <<job, published, heartbeat, snapshots, reads, aged, deaths>>
    BY <1>1 DEF ReleaseFails, IInv, TypeOK
  <1>3. /\ trouble' \in [Jobs -> Nat] /\ trouble'[j] = trouble[j] + 1 /\ \A k \in Jobs : k # j => trouble'[k] = trouble[k]
    BY <1>2 DEF Troubled, TypeOK
  <1>4. TypeOK'
    BY <1>1, <1>2, <1>3, HandledHands DEF TypeOK
  <1>5. HandsFollow' /\ SnapshotsFollow'
    <2>1. HandsFollow'
      BY <1>1, <1>2, HandledHands DEF HandsFollow
    <2>2. QED
      BY <1>2, <2>1 DEF IInv, SnapshotsFollow
  <1>6. Accounted'
    <2>1. Cardinality(Owing(j)') + 1 <= Cardinality(Owing(j))
      BY <1>1, <1>2, HandledHands
    <2>2. \A k \in Jobs : k # j => Cardinality(Owing(k)') = Cardinality(Owing(k)) /\ Free(k)' = Free(k)
      BY <1>1, <1>2, HandledHands DEF Free
    <2>3. QED
      BY <1>2, <1>3, <2>1, <2>2, Numbers DEF IInv, Accounted
  <1>7. QED
    BY <1>4, <1>5, <1>6 DEF IInv

LEMMA BeatKeeps == ASSUME IInv, NEW c \in Collectors, Beat(c) PROVE IInv'
  <1>1. /\ TypeOK /\ HandsFollow /\ pc[c] = "beat" /\ heartbeat' = TRUE /\ pc' = [pc EXCEPT ![c] = "idle"]
        /\ UNCHANGED <<job, published, batch, current, answer, snapshots, reads, trouble, aged, deaths>>
    BY DEF Beat, IInv
  <1>2. /\ pc' \in [Collectors -> Points] /\ pc'[c] = "idle" /\ \A d \in Collectors : d # c => pc'[d] = pc[d]
    BY <1>1 DEF TypeOK, Points
  <1>3. TypeOK'
    BY <1>1, <1>2 DEF TypeOK
  <1>4. HandsFollow' /\ SnapshotsFollow'
    BY <1>1, <1>2 DEF IInv, HandsFollow, SnapshotsFollow
  <1>5. Accounted'
    <2>1. \A k \in Jobs : Cardinality(Owing(k)') = Cardinality(Owing(k))
      BY <1>1, <1>2, OwingStays DEF Owes
    <2>2. \A k \in Jobs : Free(k)' = Free(k)
      BY <1>1 DEF Free, InHand
    <2>3. QED
      BY <1>1, <2>1, <2>2 DEF IInv, Accounted
  <1>6. QED
    BY <1>3, <1>4, <1>5 DEF IInv

LEMMA DieKeeps == ASSUME IInv, NEW c \in Collectors, Die(c) PROVE IInv'
  <1>1. /\ TypeOK /\ HandsFollow /\ deaths < MaxDeaths /\ deaths' = deaths + 1
        /\ batch' = [batch EXCEPT ![c] = {}] /\ current' = [current EXCEPT ![c] = {}]
        /\ answer' = [answer EXCEPT ![c] = 0] /\ pc' = [pc EXCEPT ![c] = "idle"]
        /\ UNCHANGED <<job, published, heartbeat, snapshots, reads, trouble, aged>>
    BY DEF Die, IInv
  <1>2. /\ pc' \in [Collectors -> Points] /\ pc'[c] = "idle" /\ \A d \in Collectors : d # c => pc'[d] = pc[d]
    BY <1>1 DEF TypeOK, Points
  <1>3. /\ batch' \in [Collectors -> SUBSET Jobs] /\ batch'[c] = {} /\ \A d \in Collectors : d # c => batch'[d] = batch[d]
        /\ current' \in [Collectors -> SUBSET Jobs] /\ current'[c] = {}
        /\ \A d \in Collectors : d # c => current'[d] = current[d]
    BY <1>1 DEF TypeOK
  <1>4. answer' \in [Collectors -> Nat] /\ \A d \in Collectors : d # c => answer'[d] = answer[d]
    BY <1>1 DEF TypeOK
  <1>5. TypeOK'
    <2>1. deaths' \in 0..MaxDeaths
      BY <1>1, CollectionAssumption DEF TypeOK
    <2>2. \A d \in Collectors : current'[d] \subseteq batch'[d] /\ \A j \in batch'[d] : j <= published'
      BY <1>1, <1>3 DEF TypeOK
    <2>3. QED
      BY <1>1, <1>2, <1>3, <1>4, <2>1, <2>2 DEF TypeOK
  <1>6. HandsFollow' /\ SnapshotsFollow'
    BY <1>1, <1>2, <1>3, <1>4 DEF IInv, HandsFollow, SnapshotsFollow
  <1>7. Accounted'
    <2>1. \A k \in Jobs : Cardinality(Owing(k)') <= Cardinality(Owing(k))
      BY <1>2, <1>3, OwingShrinks DEF Owes
    <2>2. QED
      BY <1>1, <2>1, Numbers DEF IInv, Accounted
  <1>8. QED
    BY <1>5, <1>6, <1>7 DEF IInv

LEMMA IInvStep == IInv /\ [Next]_vars => IInv'
  <1> SUFFICES ASSUME IInv, [Next]_vars PROVE IInv'
    OBVIOUS
  <1>1. CASE UNCHANGED vars
    <2>1. TypeOK' /\ HandsFollow' /\ SnapshotsFollow'
      BY <1>1 DEF vars, IInv, TypeOK, HandsFollow, SnapshotsFollow
    <2>2. QED
      BY <1>1, <2>1, AccountStays DEF vars, IInv
  <1>2. ASSUME NEW j \in Jobs, LeaseLapses(j) \/ SnapshotAges(j) PROVE IInv'
    BY <1>2, LeaseLapsesKeeps, SnapshotAgesKeeps
  <1>3. ASSUME NEW c \in Collectors, Pass(c) PROVE IInv'
    BY <1>3, ClaimKeeps, FetchKeeps, SaveKeeps, ReleaseKeeps, BeatKeeps DEF Pass
  <1>4. ASSUME NEW c \in Collectors, SaveFails(c) \/ ReleaseFails(c) \/ Die(c) PROVE IInv'
    BY <1>4, SaveFailsKeeps, ReleaseFailsKeeps, DieKeeps
  <1>5. QED
    BY <1>1, <1>2, <1>3, <1>4, PublishKeeps, HeartbeatAgesKeeps DEF Next

-----------------------------------------------------------------------------
(* The theorems.                                                           *)

\* For any number of jobs and finite number of scheduler processes, any batch size and
\* any faults: the collection keeps the inductive invariant.
THEOREM InvariantHolds == Spec => []IInv
  BY InvInit, IInvStep, PTL DEF Spec

\* Every reachable state of the collection is well typed, and a process works on
\* published jobs of its own batch only.
THEOREM TypeCorrect == Spec => []TypeOK
  <1>1. IInv => TypeOK
    BY DEF IInv
  <1>2. QED
    BY <1>1, InvariantHolds, PTL

\* The platform is read again, and X bills it again, only for a cause, although
\* saveSnapshot and releaseCollectionClaim clear a lease whoever holds it.
THEOREM ReadsAreCaused == Spec => []ReadsHaveACause
  <1>1. ASSUME IInv PROVE ReadsHaveACause
    <2>1. TypeOK /\ Accounted
      BY <1>1 DEF IInv
    <2>2. QED
      BY <2>1, Numbers DEF Accounted, ReadsHaveACause
  <1>2. QED
    BY <1>1, InvariantHolds, PTL

-----------------------------------------------------------------------------
(* The dashboards.                                                         *)

\* A bounded set of numbers has a greatest one: the least of its upper bounds.
LEMMA BoundedMax ==
    ASSUME NEW S \in SUBSET Nat, S # {}, NEW b \in Nat, \A n \in S : n <= b
    PROVE  Max(S) \in S /\ \A n \in S : n <= Max(S)
  <1>1. PICK B \in SUBSET Nat : B = {m \in Nat : \A n \in S : n <= m}
    OBVIOUS
  <1>2. \E m \in B : \A k \in B : ~(<<k, m>> \in OpToRel(<, Nat))
    BY <1>1, NatLessThanWellFounded, WFMin
  <1>3. PICK m \in B : \A k \in B : ~(k < m)
    BY <1>1, <1>2 DEF OpToRel
  <1>4. m \in Nat /\ \A n \in S : n <= m
    BY <1>1
  <1>5. m \in S
    <2>1. SUFFICES ASSUME m \notin S PROVE FALSE
      OBVIOUS
    <2>2. PICK n \in S : n <= m /\ n # m
      BY <1>4, <2>1
    <2>3. m - 1 \in Nat /\ \A i \in S : i <= m - 1
      BY <1>4, <2>1, <2>2
    <2>4. m - 1 \in B
      BY <1>1, <2>3
    <2>5. QED
      BY <1>3, <1>4, <2>4
  <1>6. QED
    BY <1>4, <1>5 DEF Max

LEMMA RangeMax ==
    ASSUME NEW s \in Seq(Nat), s # <<>>, NEW b \in Nat, \A i \in 1..Len(s) : s[i] <= b
    PROVE  /\ Max(Range(s)) \in Nat /\ \A i \in 1..Len(s) : s[i] <= Max(Range(s))
           /\ \E i \in 1..Len(s) : s[i] = Max(Range(s))
  <1>1. PICK S : S = Range(s)
    OBVIOUS
  <1>2. S = {s[i] : i \in 1..Len(s)}
    BY <1>1 DEF Range
  <1>3. S \in SUBSET Nat /\ S # {} /\ \A n \in S : n <= b
    BY <1>2
  <1>4. Max(S) \in S /\ \A n \in S : n <= Max(S)
    BY <1>3, BoundedMax
  <1>5. QED
    BY <1>1, <1>2, <1>3, <1>4

\* The latest snapshot of a job is one of them, and none is later.
LEMMA LatestIsLast ==
    ASSUME IInv, NEW j \in Jobs
    PROVE  /\ Latest(j) \in Nat
           /\ \A i \in 1..Len(snapshots[j]) : snapshots[j][i] <= Latest(j)
           /\ snapshots[j] # <<>> => \E i \in 1..Len(snapshots[j]) : snapshots[j][i] = Latest(j)
  <1>1. /\ snapshots[j] \in Seq(Nat) /\ reads[j] \in Nat
        /\ \A i \in 1..Len(snapshots[j]) : snapshots[j][i] <= reads[j]
    BY DEF IInv, TypeOK, SnapshotsFollow
  <1>2. CASE snapshots[j] = <<>>
    BY <1>1, <1>2 DEF Latest
  <1>3. CASE snapshots[j] # <<>>
    <2>1. Latest(j) = Max(Range(snapshots[j]))
      BY <1>3 DEF Latest
    <2>2. QED
      BY <1>1, <1>3, <2>1, RangeMax
  <1>4. QED
    BY <1>2, <1>3

LEMMA LatestIsLastNext ==
    ASSUME IInv', NEW j \in Jobs
    PROVE  /\ Latest(j)' \in Nat
           /\ \A i \in 1..Len(snapshots'[j]) : snapshots'[j][i] <= Latest(j)'
  <1>1. /\ snapshots'[j] \in Seq(Nat) /\ reads'[j] \in Nat
        /\ \A i \in 1..Len(snapshots'[j]) : snapshots'[j][i] <= reads'[j]
    BY DEF IInv, TypeOK, SnapshotsFollow
  <1>2. CASE snapshots'[j] = <<>>
    BY <1>1, <1>2 DEF Latest
  <1>3. CASE snapshots'[j] # <<>>
    <2>1. Latest(j)' = Max(Range(snapshots'[j]))
      BY <1>3 DEF Latest
    <2>2. QED
      BY <1>1, <1>3, <2>1, RangeMax
  <1>4. QED
    BY <1>2, <1>3

\* A step leaves the snapshots of a job alone or adds one.
LEMMA SnapshotsGrow ==
    ASSUME IInv, [Next]_vars, NEW j \in Jobs
    PROVE  snapshots'[j] = snapshots[j] \/ \E n \in Nat : snapshots'[j] = Append(snapshots[j], n)
  <1>1. ASSUME NEW c \in Collectors, NEW k, k \in current[c], Stored(c, k)
        PROVE  snapshots'[j] = snapshots[j] \/ \E n \in Nat : snapshots'[j] = Append(snapshots[j], n)
    <2>1. answer[c] \in Nat /\ snapshots \in [Jobs -> Seq(Nat)]
      BY DEF IInv, TypeOK
    <2>2. snapshots' = [snapshots EXCEPT ![k] = Append(snapshots[k], answer[c])]
      BY <1>1 DEF Stored
    <2>3. QED
      BY <2>1, <2>2
  <1>2. ASSUME NEW c \in Collectors, Save(c)
        PROVE  snapshots'[j] = snapshots[j] \/ \E n \in Nat : snapshots'[j] = Append(snapshots[j], n)
    BY <1>1, <1>2 DEF Save
  <1>3. ASSUME NEW c \in Collectors, SaveFails(c)
        PROVE  snapshots'[j] = snapshots[j] \/ \E n \in Nat : snapshots'[j] = Append(snapshots[j], n)
    BY <1>1, <1>3 DEF SaveFails
  <1>4. ASSUME NEW c \in Collectors, Claim(c) \/ Fetch(c) \/ Release(c) \/ Beat(c) \/ ReleaseFails(c) \/ Die(c)
        PROVE  snapshots' = snapshots
    BY <1>4 DEF Claim, Fetch, Release, Beat, ReleaseFails, Die
  <1>5. ASSUME NEW k \in Jobs, LeaseLapses(k) \/ SnapshotAges(k) PROVE snapshots' = snapshots
    BY <1>5 DEF LeaseLapses, SnapshotAges
  <1>6. CASE Publish \/ HeartbeatAges \/ UNCHANGED vars
    BY <1>6 DEF Publish, HeartbeatAges, vars
  <1>7. QED
    BY <1>2, <1>3, <1>4, <1>5, <1>6 DEF Next, Pass

\* However late a process stores an answer, the snapshot that campaignDashboard and
\* postDashboard take of a job never gets older.
THEOREM DashboardsGoForward == Spec => DashboardNeverGoesBack
  <1>1. ASSUME IInv, [Next]_vars PROVE \A j \in Jobs : Latest(j)' >= Latest(j)
    <2>1. IInv'
      BY <1>1, IInvStep
    <2>2. ASSUME NEW j \in Jobs PROVE Latest(j)' >= Latest(j)
      <3>1. /\ Latest(j)' \in Nat /\ snapshots'[j] \in Seq(Nat)
            /\ \A i \in 1..Len(snapshots'[j]) : snapshots'[j][i] <= Latest(j)'
        BY <2>1, LatestIsLastNext DEF IInv, TypeOK
      <3>2. Latest(j) \in Nat /\ snapshots[j] \in Seq(Nat)
        BY <1>1, LatestIsLast DEF IInv, TypeOK
      <3>3. CASE snapshots[j] = <<>>
        BY <3>1, <3>2, <3>3 DEF Latest
      <3>4. CASE snapshots[j] # <<>>
        <4>1. PICK i \in 1..Len(snapshots[j]) : snapshots[j][i] = Latest(j)
          BY <1>1, <3>4, LatestIsLast
        <4>2. i \in 1..Len(snapshots'[j]) /\ snapshots'[j][i] = snapshots[j][i]
          BY <1>1, <3>2, SnapshotsGrow
        <4>3. QED
          <5>1. Latest(j) <= Latest(j)'
            BY <3>1, <4>1, <4>2
          <5>2. QED
            BY <3>1, <3>2, <5>1
      <3>5. QED
        BY <3>3, <3>4
    <2>3. QED
      BY <2>2
  <1>2. QED
    BY <1>1, InvariantHolds, PTL DEF Spec, DashboardNeverGoesBack
=============================================================================
