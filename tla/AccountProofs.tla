--------------------------- MODULE AccountProofs ---------------------------
(***************************************************************************)
(* Theorems of AccountConnection, for any number of attempts, requests,    *)
(* accounts and processes. The inductive invariant says in whose hands     *)
(* every consent is, and that a rotation never outruns a process.          *)
(***************************************************************************)
EXTENDS AccountConnection, TLAPS

-----------------------------------------------------------------------------
(* The inductive invariant.                                                *)

\* A request works on a consumed authorization: before the exchange its code was not
\* sent, before a selection there is no row of it, and a page is taken from a consumed row.
RequestsFollow ==
    \A r \in Requests : request[r].pc # "idle" =>
        LET t == request[r].attempt IN
        /\ t \in Attempts /\ state[t].status = "consumed"
        /\ request[r].pc = "exchange" => sent[t] = 0
        /\ request[r].pc \in {"exchange", "identify"} => selection[t].status = "none"
        /\ request[r].pc = "selected" =>
              selection[t].status = "consumed" /\ request[r].account \in Accounts

\* No two requests work on the same consent.
HeldByOne ==
    \A r, s \in Requests :
        request[r].pc # "idle" /\ request[s].pc # "idle" /\ request[r].attempt = request[s].attempt
            => r = s

\* A code is sent, and a selection offered, only for a consumed authorization.
ConsumedFirst ==
    \A t \in Attempts :
        /\ sent[t] <= 1
        /\ sent[t] = 1 => state[t].status = "consumed"
        /\ selection[t].status # "none" => state[t].status = "consumed"

\* Deployments: a process encrypts with the new key when all have it, and drops the
\* old key when none encrypts with it.
RotationInStep ==
    \A p, q \in Procs :
        /\ stage[p] >= 2 => stage[q] >= 1
        /\ stage[p] = 3 => stage[q] >= 2

\* Every process can decrypt what may still be read.
InUseReadable ==
    \A p \in Procs :
        /\ \A t \in Attempts : state[t].status = "open" => Readable(p, state[t].key)
        /\ \A t \in Attempts : selection[t].status = "open" => Readable(p, selection[t].key)
        /\ \A r \in Requests :
              request[r].pc = "selected" => Readable(p, selection[request[r].attempt].key)
        /\ \A a \in Accounts :
              account[a].status = "active" /\ ~account[a].expired => Readable(p, account[a].key)

IInv == TypeOK /\ RequestsFollow /\ HeldByOne /\ ConsumedFirst /\ RotationInStep /\ InUseReadable
-----------------------------------------------------------------------------
(* The key ring.                                                           *)

\* What any process encrypts with now, every process can decrypt.
LEMMA CurrentKeyReadable ==
    ASSUME TypeOK, RotationInStep, NEW p \in Procs, NEW q \in Procs
    PROVE  KeyVersion(p) \in Keys /\ Readable(q, KeyVersion(p))
  BY DEF TypeOK, RotationInStep, KeyVersion, KeyRing, Readable, Keys

\* A deployment takes nothing in use from a process's ring.
LEMMA DeployKeepsReadable ==
    ASSUME TypeOK, NEW p \in Procs, NEW q \in Procs, NEW key \in {NoKey} \cup Keys,
           Deploy(p), Readable(q, key), stage[p] = 2 => key # 1
    PROVE  Readable(q, key)'
  <1>1. stage[q] \in 0..3 /\ stage'[q] = IF q = p THEN stage[p] + 1 ELSE stage[q]
    BY DEF Deploy, TypeOK
  <1>2. p = q => stage[p] < 3
    BY DEF Deploy
  <1>3. QED
    BY <1>1, <1>2 DEF Readable, KeyRing, Keys, NoKey

LEMMA RotationStep == ASSUME TypeOK, RotationInStep, [Next]_vars PROVE RotationInStep'
  <1>1. CASE UNCHANGED stage
    BY <1>1 DEF RotationInStep
  <1>2. ASSUME NEW p \in Procs, Deploy(p) PROVE RotationInStep'
    <2>1. /\ \A q \in Procs : stage[q] \in 0..3
          /\ \A q \in Procs : stage'[q] = IF q = p THEN stage[p] + 1 ELSE stage[q]
      BY <1>2 DEF Deploy, TypeOK
    <2>2. /\ stage[p] < 3
          /\ stage[p] = 1 => \A q \in Procs : stage[q] >= 1
          /\ stage[p] = 2 => \A q \in Procs : stage[q] >= 2
      BY <1>2 DEF Deploy
    <2>3. QED
      BY <2>1, <2>2 DEF RotationInStep
  <1>3. QED
    BY <1>1, <1>2 DEF Next, vars, Begin, Approve, StateExpires, SelectionExpires, ConsumeState,
       SelectPage, ExchangeCode, PagesUnavailable, OfferPages, IdentityUnavailable, StoreDirect,
       StoreSelected, TokenExpires, Disconnect, CrashApi

-----------------------------------------------------------------------------
(* Types.                                                                  *)

LEMMA TypeInit == Init => TypeOK
  BY ConnectionAssumption DEF Init, TypeOK, States, Rows, Progress, Points, Idle, Account, Statuses,
     Unconnected, NoKey

\* Storing a credential keeps the rows' types, and marks them connected.
LEMMA UpsertType ==
    ASSUME TypeOK, NEW a \in Accounts, NEW t \in Attempts, NEW key \in {NoKey} \cup Keys,
           NEW refreshKey \in {NoKey} \cup Keys, account' = Upsert(a, t, key, refreshKey)
    PROVE  /\ account' \in [Accounts -> Account]
           /\ \A b \in Accounts : account'[b].status = "active" <=> account'[b].token # NoAttempt
  <1> DEFINE refreshed == IF refreshKey = NoKey THEN account[a].refreshKey ELSE refreshKey
             row == [status |-> "active", token |-> t, key |-> key, expired |-> FALSE,
                     refreshKey |-> refreshed]
  <1>1. account \in [Accounts -> Account]
    BY DEF TypeOK
  <1>2. row \in Account
    BY <1>1 DEF Account, Statuses
  <1>3. account' = [account EXCEPT ![a] = row]
    BY DEF Upsert
  <1>4. QED
    BY <1>1, <1>2, <1>3, ConnectionAssumption DEF TypeOK

LEMMA AuditType == ASSUME TypeOK, NEW a \in Accounts, WriteAudit(a) PROVE audited' \in [Accounts -> BOOLEAN]
  BY DEF WriteAudit, TypeOK

\* An authorization that expires or is consumed keeps its type.
LEMMA StateType ==
    ASSUME TypeOK, NEW t \in Attempts, NEW status \in {"consumed", "expired"},
           state' = [state EXCEPT ![t].status = status]
    PROVE  state' \in [Attempts -> States]
  <1>1. state \in [Attempts -> States] /\ state[t] \in States
    BY DEF TypeOK
  <1>2. [state[t] EXCEPT !.status = status] \in States
    BY <1>1 DEF States
  <1>3. QED
    BY <1>1, <1>2

\* A request that ends is idle.
LEMMA EndType == ASSUME TypeOK, NEW r \in Requests, End(r) PROVE request' \in [Requests -> Progress]
  <1>1. Idle \in Progress
    BY DEF Idle, Progress, Points
  <1>2. QED
    BY <1>1 DEF End, TypeOK

LEMMA TypeStep == ASSUME IInv, [Next]_vars PROVE TypeOK'
  <1>0. TypeOK /\ RequestsFollow /\ RotationInStep
    BY DEF IInv
  <1>1. ASSUME NEW t \in Attempts, NEW flow \in {"direct", "page"}, Begin(t, flow) PROVE TypeOK'
    <2>1. NewState(flow) \in States
      BY <1>0, CurrentKeyReadable, ConnectionAssumption DEF NewState, States
    <2>2. QED
      BY <1>0, <1>1, <2>1 DEF Begin, TypeOK
  <1>2. ASSUME NEW t \in Attempts, Approve(t) \/ StateExpires(t) \/ SelectionExpires(t) PROVE TypeOK'
    <2>1. CASE Approve(t)
      BY <1>0, <2>1 DEF Approve, TypeOK
    <2>2. CASE StateExpires(t)
      <3>1. state' \in [Attempts -> States]
        BY <1>0, <2>2, StateType DEF StateExpires
      <3>2. QED
        BY <1>0, <2>2, <3>1 DEF StateExpires, TypeOK
    <2>3. CASE SelectionExpires(t)
      <3>1. selection[t] \in Rows /\ [selection[t] EXCEPT !.status = "expired"] \in Rows
        BY <1>0 DEF TypeOK, Rows
      <3>2. selection' \in [Attempts -> Rows]
        BY <1>0, <2>3, <3>1 DEF SelectionExpires, TypeOK
      <3>3. QED
        BY <1>0, <2>3, <3>2 DEF SelectionExpires, TypeOK
    <2>4. QED
      BY <1>2, <2>1, <2>2, <2>3
  <1>3. ASSUME NEW r \in Requests, NEW t \in Attempts, ConsumeState(r, t) PROVE TypeOK'
    <2>1. state' \in [Attempts -> States]
      BY <1>0, <1>3, StateType DEF ConsumeState
    <2>2. request' \in [Requests -> Progress]
      BY <1>0, <1>3 DEF ConsumeState, TypeOK, Progress, Points
    <2>3. QED
      BY <1>0, <1>3, <2>1, <2>2 DEF ConsumeState, TypeOK
  <1>4. ASSUME NEW r \in Requests, NEW t \in Attempts, SelectPage(r, t) PROVE TypeOK'
    <2>1. selection' \in [Attempts -> Rows]
      BY <1>0, <1>4 DEF SelectPage, ConsumedSelection, TypeOK, Rows
    <2>2. Selectable(t) \subseteq Accounts
      BY DEF Selectable, Accounts
    <2>3. request' \in [Requests -> Progress]
      BY <1>0, <1>4, <2>2 DEF SelectPage, TypeOK, Progress, Points
    <2>4. QED
      BY <1>0, <1>4, <2>1, <2>3 DEF SelectPage, TypeOK
  <1>5. ASSUME NEW r \in Requests, ExchangeCode(r) PROVE TypeOK'
    <2>1. request[r].attempt \in Attempts
      BY <1>0, <1>5 DEF ExchangeCode, RequestsFollow
    <2>2. sent' \in [Attempts -> Nat]
      BY <1>0, <1>5, <2>1 DEF ExchangeCode, TypeOK
    <2>3. code' = code \/ code' = [code EXCEPT ![request[r].attempt] = "spent"]
      BY <1>5 DEF ExchangeCode
    <2>4. request' \in [Requests -> Progress]
      <3>1. CASE End(r)
        BY <1>0, <3>1, EndType
      <3>2. CASE request' = [request EXCEPT ![r].pc = "identify"]
        <4>1. request[r] \in Progress /\ [request[r] EXCEPT !.pc = "identify"] \in Progress
          BY <1>0 DEF TypeOK, Progress, Points
        <4>2. QED
          BY <1>0, <3>2, <4>1 DEF TypeOK
      <3>3. QED
        BY <1>5, <3>1, <3>2 DEF ExchangeCode
    <2>5. QED
      BY <1>0, <1>5, <2>1, <2>2, <2>3, <2>4 DEF ExchangeCode, TypeOK
  <1>6. ASSUME NEW r \in Requests, PagesUnavailable(r) \/ IdentityUnavailable(r) PROVE TypeOK'
    BY <1>0, <1>6, EndType DEF PagesUnavailable, IdentityUnavailable, TypeOK
  <1>7. ASSUME NEW r \in Requests, OfferPages(r) PROVE TypeOK'
    <2>1. NewSelection \in Rows
      BY <1>0, CurrentKeyReadable, ConnectionAssumption DEF NewSelection, Rows
    <2>2. QED
      BY <1>0, <1>7, <2>1, EndType DEF OfferPages, TypeOK
  <1>8. ASSUME NEW r \in Requests, StoreDirect(r) PROVE TypeOK'
    <2>1. PICK a \in DirectAccounts : \E refreshKey \in {NoKey, KeyVersion(Api)} :
             account' = Upsert(a, request[r].attempt, KeyVersion(Api), refreshKey) /\ WriteAudit(a)
      BY <1>8 DEF StoreDirect
    <2>2. a \in Accounts /\ request[r].attempt \in Attempts /\ KeyVersion(Api) \in Keys
      BY <1>0, <1>8, CurrentKeyReadable, ConnectionAssumption DEF Accounts, StoreDirect, Fetched, RequestsFollow
    <2>3. /\ account' \in [Accounts -> Account] /\ audited' \in [Accounts -> BOOLEAN]
          /\ \A b \in Accounts : account'[b].status = "active" <=> account'[b].token # NoAttempt
      BY <1>0, <2>1, <2>2, UpsertType, AuditType
    <2>4. QED
      BY <1>0, <1>8, <2>3, EndType DEF StoreDirect, TypeOK
  <1>9. ASSUME NEW r \in Requests, StoreSelected(r) PROVE TypeOK'
    <2>1. /\ request[r].account \in Accounts /\ request[r].attempt \in Attempts
          /\ selection[request[r].attempt].key \in {NoKey} \cup Keys
      <3>1. request[r].account \in Accounts /\ request[r].attempt \in Attempts
        BY <1>0, <1>9 DEF StoreSelected, RequestsFollow
      <3>2. \A t \in Attempts : selection[t].key \in {NoKey} \cup Keys
        BY <1>0 DEF TypeOK, Rows
      <3>3. QED
        BY <3>1, <3>2
    <2>2. /\ account' \in [Accounts -> Account] /\ audited' \in [Accounts -> BOOLEAN]
          /\ \A b \in Accounts : account'[b].status = "active" <=> account'[b].token # NoAttempt
      BY <1>0, <1>9, <2>1, UpsertType, AuditType DEF StoreSelected
    <2>3. QED
      BY <1>0, <1>9, <2>2, EndType DEF StoreSelected, TypeOK
  <1>10. ASSUME NEW a \in Accounts, TokenExpires(a) PROVE TypeOK'
    <2>1. account \in [Accounts -> Account] /\ account[a] \in Account
      BY <1>0, <1>10 DEF TypeOK
    <2> DEFINE new == [account[a] EXCEPT !.expired = TRUE]
    <2>2. new \in Account /\ new.status = account[a].status /\ new.token = account[a].token
      BY <2>1 DEF Account
    <2>3. account' = [account EXCEPT ![a] = new]
      BY <1>10 DEF TokenExpires
    <2> HIDE DEF new
    <2>4. /\ account' \in [Accounts -> Account]
          /\ \A b \in Accounts : account'[b].status = account[b].status /\ account'[b].token = account[b].token
      BY <2>1, <2>2, <2>3
    <2>5. QED
      BY <1>0, <1>10, <2>4 DEF TokenExpires, TypeOK
  <1>11. ASSUME NEW a \in Accounts, Disconnect(a) PROVE TypeOK'
    <2>1. Revoked(a) \in Account
      BY DEF Revoked, Unconnected, Account, Statuses, NoKey
    <2>2. QED
      BY <1>0, <1>11, <2>1, AuditType DEF Disconnect, Revoked, Unconnected, TypeOK
  <1>12. ASSUME NEW p \in Procs, Deploy(p) PROVE TypeOK'
    BY <1>0, <1>12 DEF Deploy, TypeOK, Idle, Progress, Points
  <1>13. CASE CrashApi
    BY <1>0, <1>13 DEF CrashApi, TypeOK, Idle, Progress, Points
  <1>14. CASE UNCHANGED vars
    BY <1>0, <1>14 DEF vars, TypeOK
  <1>15. QED
    BY <1>1, <1>2, <1>3, <1>4, <1>5, <1>6, <1>7, <1>8, <1>9, <1>10, <1>11, <1>12, <1>13, <1>14 DEF Next

-----------------------------------------------------------------------------
(* Whose hands a consent is in.                                            *)

Holding == RequestsFollow /\ HeldByOne /\ ConsumedFirst

LEMMA HoldingInit == Init => Holding
  BY DEF Init, Holding, RequestsFollow, HeldByOne, ConsumedFirst, Idle

\* A request that ends, and steps that only take requests away, leave the others.
LEMMA HoldingEnd ==
    ASSUME TypeOK, Holding, UNCHANGED <<state, sent, selection>>,
           request' \in [Requests -> Progress],
           \A r \in Requests : request'[r] \in {request[r], Idle}
    PROVE  Holding'
  BY DEF Holding, RequestsFollow, HeldByOne, ConsumedFirst, Idle

\* An authorization that was not consumed has no exchange and no selection behind it.
LEMMA Untouched ==
    ASSUME TypeOK, Holding, NEW t \in Attempts, state[t].status # "consumed"
    PROVE  /\ sent[t] = 0 /\ selection[t].status = "none"
           /\ \A r \in Requests : request[r].pc # "idle" => request[r].attempt # t
  <1>1. sent[t] \in Nat
    BY DEF TypeOK
  <1>2. QED
    BY <1>1 DEF Holding, RequestsFollow, ConsumedFirst

LEMMA HoldingStep == ASSUME IInv, [Next]_vars PROVE Holding'
  <1>0. TypeOK /\ Holding
    BY DEF IInv, Holding
  <1> USE DEF Holding, RequestsFollow, HeldByOne, ConsumedFirst
  <1>1. ASSUME NEW t \in Attempts, NEW flow \in {"direct", "page"}, Begin(t, flow) PROVE Holding'
    BY <1>0, <1>1 DEF Begin, NewState, TypeOK
  <1>2. ASSUME NEW t \in Attempts, Approve(t) \/ StateExpires(t) PROVE Holding'
    <2>1. CASE Approve(t)
      BY <1>0, <2>1 DEF Approve
    <2>2. CASE StateExpires(t)
      <3>1. /\ state[t].status = "open" /\ UNCHANGED <<sent, selection, request>>
            /\ \A u \in Attempts : u # t => state'[u] = state[u]
        BY <1>0, <2>2 DEF StateExpires, TypeOK
      <3>2. /\ sent[t] = 0 /\ selection[t].status = "none"
            /\ \A r \in Requests : request[r].pc # "idle" => request[r].attempt # t
        BY <1>0, <3>1, Untouched
      <3>3. QED
        BY <1>0, <3>1, <3>2
    <2>3. QED
      BY <1>2, <2>1, <2>2
  <1>3. ASSUME NEW t \in Attempts, SelectionExpires(t) PROVE Holding'
    BY <1>0, <1>3 DEF SelectionExpires, TypeOK, Rows
  <1>4. ASSUME NEW r \in Requests, NEW t \in Attempts, ConsumeState(r, t) PROVE Holding'
    <2>1. /\ state[t].status = "open" /\ state'[t].status = "consumed"
          /\ \A u \in Attempts : u # t => state'[u] = state[u]
          /\ UNCHANGED <<sent, selection>> /\ request[r].pc = "idle"
      BY <1>0, <1>4 DEF ConsumeState, Consumable, Idle, TypeOK, States
    <2>2. \/ request' = request
          \/ /\ request'[r] = [pc |-> "exchange", attempt |-> t, account |-> NoAttempt]
             /\ \A q \in Requests : q # r => request'[q] = request[q]
      BY <1>0, <1>4 DEF ConsumeState, TypeOK
    <2>3. /\ sent[t] = 0 /\ selection[t].status = "none"
          /\ \A q \in Requests : request[q].pc # "idle" => request[q].attempt # t
      BY <1>0, <2>1, Untouched
    <2>4. QED
      BY <1>0, <2>1, <2>2, <2>3
  <1>5. ASSUME NEW r \in Requests, NEW t \in Attempts, SelectPage(r, t) PROVE Holding'
    <2>1. /\ selection[t].status = "open" /\ selection'[t].status = "consumed"
          /\ \A u \in Attempts : u # t => selection'[u] = selection[u]
          /\ UNCHANGED <<sent, state>> /\ request[r].pc = "idle"
      <3>1. selection \in [Attempts -> Rows] /\ selection[t] \in Rows
        BY <1>0 DEF TypeOK
      <3>2. selection' = [selection EXCEPT ![t] = ConsumedSelection(t)] /\ selection[t].status = "open"
        BY <1>5 DEF SelectPage
      <3>3. ConsumedSelection(t).status = "consumed"
        BY <3>1 DEF ConsumedSelection, Rows
      <3>4. UNCHANGED <<sent, state>> /\ request[r].pc = "idle"
        BY <1>5 DEF SelectPage, Idle
      <3>5. QED
        BY <3>1, <3>2, <3>3, <3>4
    <2>2. Selectable(t) \subseteq Accounts
      BY DEF Selectable, Accounts
    <2>3. \/ request' = request
          \/ /\ request'[r].pc = "selected" /\ request'[r].attempt = t
             /\ request'[r].account \in Accounts
             /\ \A q \in Requests : q # r => request'[q] = request[q]
      BY <1>0, <1>5, <2>2 DEF SelectPage, TypeOK
    <2>4. \A q \in Requests : request[q].pc # "idle" => request[q].attempt # t
      BY <1>0, <2>1 DEF TypeOK, Progress, Points
    <2>5. QED
      BY <1>0, <2>1, <2>3, <2>4
  <1>6. ASSUME NEW r \in Requests, ExchangeCode(r) PROVE Holding'
    <2> DEFINE t == request[r].attempt
    <2>1. /\ t \in Attempts /\ sent[t] = 0 /\ state[t].status = "consumed"
          /\ selection[t].status = "none"
      BY <1>0, <1>6 DEF ExchangeCode
    <2>2. sent' = [sent EXCEPT ![t] = 1] /\ UNCHANGED <<state, selection>>
      BY <1>6, <2>1 DEF ExchangeCode
    <2>3. \/ request'[r] = Idle
          \/ request'[r].pc = "identify" /\ request'[r].attempt = t
      BY <1>0, <1>6 DEF ExchangeCode, End, TypeOK, Progress
    <2>4. \A q \in Requests : q # r => request'[q] = request[q] /\ (request[q].pc # "idle" => request[q].attempt # t)
      BY <1>0, <1>6 DEF ExchangeCode, End, TypeOK
    <2>5. sent \in [Attempts -> Nat]
      BY <1>0 DEF TypeOK
    <2>6. QED
      BY <1>0, <2>1, <2>2, <2>3, <2>4, <2>5 DEF Idle
  <1>7. ASSUME NEW r \in Requests, OfferPages(r) PROVE Holding'
    <2> DEFINE t == request[r].attempt
    <2>1. t \in Attempts /\ state[t].status = "consumed" /\ selection[t].status = "none"
      BY <1>0, <1>7 DEF OfferPages, Fetched
    <2>2. /\ selection' = [selection EXCEPT ![t] = NewSelection] /\ UNCHANGED <<state, sent>>
          /\ request'[r] = Idle
      BY <1>0, <1>7 DEF OfferPages, End, TypeOK
    <2>3. \A q \in Requests : q # r => request'[q] = request[q] /\ (request[q].pc # "idle" => request[q].attempt # t)
      BY <1>0, <1>7 DEF OfferPages, Fetched, End, TypeOK
    <2>4. selection \in [Attempts -> Rows]
      BY <1>0 DEF TypeOK
    <2>5. QED
      BY <1>0, <2>1, <2>2, <2>3, <2>4 DEF Idle
  <1>8. ASSUME NEW r \in Requests,
               PagesUnavailable(r) \/ IdentityUnavailable(r) \/ StoreDirect(r) \/ StoreSelected(r)
        PROVE Holding'
    <2>1. UNCHANGED <<state, sent, selection>> /\ End(r)
      BY <1>8 DEF PagesUnavailable, IdentityUnavailable, StoreDirect, StoreSelected
    <2>2. request' \in [Requests -> Progress] /\ \A q \in Requests : request'[q] \in {request[q], Idle}
      BY <1>0, <2>1 DEF End, TypeOK, Idle, Progress, Points
    <2>3. QED
      BY <1>0, <2>1, <2>2, HoldingEnd
  <1>9. ASSUME NEW a \in Accounts, TokenExpires(a) \/ Disconnect(a) PROVE Holding'
    BY <1>0, <1>9 DEF TokenExpires, Disconnect
  <1>10. CASE CrashApi \/ \E p \in Procs : Deploy(p)
    <2>1. /\ UNCHANGED <<state, sent, selection>>
          /\ request' = [q \in Requests |-> Idle] \/ request' = request
      BY <1>10 DEF CrashApi, Deploy
    <2>2. request' \in [Requests -> Progress] /\ \A q \in Requests : request'[q] \in {request[q], Idle}
      BY <1>0, <2>1 DEF TypeOK, Idle, Progress, Points
    <2>3. QED
      BY <1>0, <2>1, <2>2, HoldingEnd
  <1>11. CASE UNCHANGED vars
    BY <1>0, <1>11 DEF vars
  <1>12. QED
    BY <1>1, <1>2, <1>3, <1>4, <1>5, <1>6, <1>7, <1>8, <1>9, <1>10, <1>11 DEF Next

-----------------------------------------------------------------------------
(* Keys in use stay readable.                                              *)

LEMMA ReadableInit == Init => RotationInStep /\ InUseReadable
  BY DEF Init, RotationInStep, InUseReadable, Unconnected, Idle

\* What every process can read, from one statement to the next of an unchanged rotation.
LEMMA ReadableStays ==
    ASSUME UNCHANGED stage, NEW p \in Procs, NEW key, Readable(p, key)
    PROVE  Readable(p, key)'
  BY DEF Readable, KeyRing

LEMMA ReadableStep == ASSUME IInv, [Next]_vars PROVE InUseReadable'
  <1>0. TypeOK /\ InUseReadable /\ RotationInStep
    BY DEF IInv
  <1> USE DEF InUseReadable
  <1>1. ASSUME NEW t \in Attempts, NEW flow \in {"direct", "page"}, Begin(t, flow) PROVE InUseReadable'
    <2>1. /\ \A u \in Attempts : state'[u] = IF u = t THEN NewState(flow) ELSE state[u]
          /\ UNCHANGED <<selection, request, account, stage>>
      BY <1>0, <1>1 DEF Begin, TypeOK
    <2>2. \A p \in Procs : Readable(p, NewState(flow).key)
      BY <1>0, CurrentKeyReadable, ConnectionAssumption DEF NewState
    <2>3. QED
      BY <1>0, <2>1, <2>2 DEF Readable, KeyRing
  <1>2. ASSUME NEW t \in Attempts, Approve(t) \/ StateExpires(t) \/ SelectionExpires(t)
        PROVE InUseReadable'
    <2>1. /\ \A u \in Attempts : state'[u].key = state[u].key /\ state'[u].status \in {state[u].status, "expired"}
          /\ \A u \in Attempts : selection'[u].key = selection[u].key /\ selection'[u].status \in {selection[u].status, "expired"}
          /\ UNCHANGED <<request, account, stage>>
      <3>1. CASE Approve(t)
        BY <3>1 DEF Approve
      <3>2. CASE StateExpires(t)
        BY <1>0, <3>2 DEF StateExpires, TypeOK, States
      <3>3. CASE SelectionExpires(t)
        BY <1>0, <3>3 DEF SelectionExpires, TypeOK, Rows
      <3>4. QED
        BY <1>2, <3>1, <3>2, <3>3
    <2>2. \A r \in Requests : request[r].pc = "selected" => request[r].attempt \in Attempts
      BY DEF IInv, RequestsFollow
    <2>3. QED
      BY <1>0, <2>1, <2>2 DEF Readable, KeyRing
  <1>3. ASSUME NEW r \in Requests, NEW t \in Attempts, ConsumeState(r, t) PROVE InUseReadable'
    <2>1. /\ \A u \in Attempts : state'[u].key = state[u].key /\ state'[u].status \in {state[u].status, "consumed"}
          /\ \A q \in Requests : request'[q] = request[q] \/ request'[q].pc = "exchange"
          /\ UNCHANGED <<selection, account, stage>>
      BY <1>0, <1>3 DEF ConsumeState, TypeOK, States
    <2>2. QED
      BY <1>0, <2>1 DEF Readable, KeyRing
  <1>4. ASSUME NEW r \in Requests, NEW t \in Attempts, SelectPage(r, t) PROVE InUseReadable'
    <2>1. /\ selection[t].status = "open"
          /\ \A u \in Attempts : selection'[u].key = selection[u].key /\ selection'[u].status \in {selection[u].status, "consumed"}
          /\ \A q \in Requests : request'[q] = request[q] \/ request'[q].attempt = t
          /\ UNCHANGED <<state, account, stage>>
      BY <1>0, <1>4 DEF SelectPage, ConsumedSelection, TypeOK, Rows
    <2>2. \A q \in Requests : request[q].pc = "selected" => request[q].attempt \in Attempts
      BY DEF IInv, RequestsFollow
    <2>3. QED
      BY <1>0, <2>1, <2>2 DEF Readable, KeyRing
  <1>5. ASSUME NEW r \in Requests, ExchangeCode(r) PROVE InUseReadable'
    <2>1. /\ \A q \in Requests : request'[q] = request[q] \/ request'[q].pc \in {"idle", "identify"}
          /\ UNCHANGED <<state, selection, account, stage>>
      BY <1>0, <1>5 DEF ExchangeCode, End, Idle, TypeOK, Progress
    <2>2. QED
      BY <1>0, <2>1 DEF Readable, KeyRing
  <1>6. ASSUME NEW r \in Requests, PagesUnavailable(r) \/ IdentityUnavailable(r) PROVE InUseReadable'
    <2>1. /\ \A q \in Requests : request'[q] = request[q] \/ request'[q].pc = "idle"
          /\ UNCHANGED <<state, selection, account, stage>>
      BY <1>0, <1>6 DEF PagesUnavailable, IdentityUnavailable, End, Idle, TypeOK
    <2>2. QED
      BY <1>0, <2>1 DEF Readable, KeyRing
  <1>7. ASSUME NEW r \in Requests, OfferPages(r) PROVE InUseReadable'
    <2> DEFINE t == request[r].attempt
    <2>1. /\ \A q \in Requests : request'[q] = request[q] \/ request'[q].pc = "idle"
          /\ \A u \in Attempts : selection'[u] = IF u = t THEN NewSelection ELSE selection[u]
          /\ UNCHANGED <<state, account, stage>>
      BY <1>0, <1>7 DEF OfferPages, End, Idle, TypeOK
    <2>2. \A q \in Requests : request[q].pc = "selected" => request[q].attempt \in Attempts \ {t}
      BY <1>7 DEF OfferPages, Fetched, IInv, RequestsFollow, HeldByOne
    <2>3. \A p \in Procs : Readable(p, NewSelection.key)
      BY <1>0, CurrentKeyReadable, ConnectionAssumption DEF NewSelection
    <2>4. QED
      BY <1>0, <2>1, <2>2, <2>3 DEF Readable, KeyRing
  <1>8. ASSUME NEW r \in Requests, StoreDirect(r) PROVE InUseReadable'
    <2>1. PICK a \in DirectAccounts : \E refreshKey \in {NoKey, KeyVersion(Api)} :
             account' = Upsert(a, request[r].attempt, KeyVersion(Api), refreshKey)
      BY <1>8 DEF StoreDirect
    <2>2. /\ \A b \in Accounts : account'[b] = account[b] \/ account'[b].key = KeyVersion(Api)
          /\ \A q \in Requests : request'[q] = request[q] \/ request'[q].pc = "idle"
          /\ UNCHANGED <<state, selection, stage>>
      BY <1>0, <1>8, <2>1 DEF StoreDirect, Upsert, End, Idle, TypeOK
    <2>3. \A p \in Procs : Readable(p, KeyVersion(Api))
      BY <1>0, CurrentKeyReadable, ConnectionAssumption
    <2>4. QED
      BY <1>0, <2>2, <2>3 DEF Readable, KeyRing
  <1>9. ASSUME NEW r \in Requests, StoreSelected(r) PROVE InUseReadable'
    <2>1. /\ \A b \in Accounts : account'[b] = account[b] \/ account'[b].key = selection[request[r].attempt].key
          /\ \A q \in Requests : request'[q] = request[q] \/ request'[q].pc = "idle"
          /\ UNCHANGED <<state, selection, stage>>
      BY <1>0, <1>9 DEF StoreSelected, Upsert, End, Idle, TypeOK
    <2>2. request[r].pc = "selected"
      BY <1>9 DEF StoreSelected
    <2>3. QED
      BY <1>0, <2>1, <2>2 DEF Readable, KeyRing
  <1>10. ASSUME NEW a \in Accounts, TokenExpires(a) \/ Disconnect(a) PROVE InUseReadable'
    <2>1. /\ \A b \in Accounts : \/ account'[b] = account[b]
                                 \/ account'[b].status # "active" \/ account'[b].expired
          /\ UNCHANGED <<state, selection, request, stage>>
      BY <1>0, <1>10 DEF TokenExpires, Disconnect, Revoked, Unconnected, TypeOK, Account
    <2>2. QED
      BY <1>0, <2>1 DEF Readable, KeyRing
  <1>11. ASSUME NEW p \in Procs, Deploy(p) PROVE InUseReadable'
    <2>1. /\ \A q \in Requests : request'[q] = request[q] \/ request'[q].pc = "idle"
          /\ UNCHANGED <<state, selection, account>>
      BY <1>0, <1>11 DEF Deploy, Idle, TypeOK
    <2>2. \A q \in Requests : request[q].pc = "selected" => request[q].attempt \in Attempts
      BY DEF IInv, RequestsFollow
    <2>3. stage[p] = 2 => ~InUse(1)
      BY <1>11 DEF Deploy
    <2>4. ASSUME NEW q \in Procs, NEW key \in {NoKey} \cup Keys, Readable(q, key), InUse(key)
          PROVE  Readable(q, key)'
      BY <1>0, <1>11, <2>3, <2>4, DeployKeepsReadable
    <2>5. ASSUME NEW q \in Procs, NEW t \in Attempts, state[t].status = "open"
          PROVE  Readable(q, state[t].key)'
      BY <1>0, <2>1, <2>4, <2>5 DEF InUse, TypeOK, States
    <2>6. ASSUME NEW q \in Procs, NEW t \in Attempts, selection[t].status = "open"
          PROVE  Readable(q, selection[t].key)'
      BY <1>0, <2>1, <2>4, <2>6 DEF InUse, TypeOK, Rows
    <2>7. ASSUME NEW q \in Procs, NEW r \in Requests, request[r].pc = "selected"
          PROVE  request'[r].pc = "selected" => Readable(q, selection[request[r].attempt].key)'
      <3>1. PICK key \in {NoKey} \cup Keys : key = selection[request[r].attempt].key
        BY <1>0, <2>2, <2>7 DEF TypeOK, Rows
      <3>2. Readable(q, key) /\ InUse(key)
        BY <1>0, <2>7, <3>1 DEF InUse
      <3>3. Readable(q, key)'
        BY <2>4, <3>1, <3>2
      <3>4. request'[r] = request[r] \/ request'[r].pc = "idle"
        BY <2>1
      <3>5. QED
        BY <2>1, <3>1, <3>3, <3>4
    <2>8. ASSUME NEW q \in Procs, NEW a \in Accounts, account[a].status = "active" /\ ~account[a].expired
          PROVE  Readable(q, account[a].key)'
      BY <1>0, <2>1, <2>4, <2>8 DEF InUse, TypeOK, Account
    <2>9. QED
      BY <2>1, <2>5, <2>6, <2>7, <2>8
  <1>12. CASE CrashApi
    <2>1. /\ \A q \in Requests : request'[q].pc = "idle"
          /\ UNCHANGED <<state, selection, account, stage>>
      BY <1>12 DEF CrashApi, Idle
    <2>2. QED
      BY <1>0, <2>1 DEF Readable, KeyRing
  <1>13. CASE UNCHANGED vars
    BY <1>0, <1>13 DEF vars, Readable, KeyRing
  <1>14. QED
    BY <1>1, <1>2, <1>3, <1>4, <1>5, <1>6, <1>7, <1>8, <1>9, <1>10, <1>11, <1>12, <1>13 DEF Next

-----------------------------------------------------------------------------
(* The invariants of the runs.                                             *)

LEMMA IInvStep == ASSUME IInv, [Next]_vars PROVE IInv'
  BY TypeStep, HoldingStep, RotationStep, ReadableStep DEF IInv, Holding

LEMMA InvariantHolds == Spec => []IInv
  <1>1. Init => IInv
    BY TypeInit, HoldingInit, ReadableInit DEF IInv, Holding
  <1>2. QED
    BY <1>1, IInvStep, PTL DEF Spec

\* The rows of states, selections and accounts, and the requests, keep their types;
\* an account has a token exactly when it is active.
THEOREM TypeCorrect == Spec => []TypeOK
  BY InvariantHolds, PTL DEF IInv

\* However many requests the browser repeats a callback in, and wherever they or the
\* API process stop, an authorization code goes to the provider at most once.
THEOREM CodeIsSentOnce == Spec => []CodeSentOnce
  <1>1. IInv => CodeSentOnce
    BY DEF IInv, ConsumedFirst, CodeSentOnce
  <1>2. QED
    BY <1>1, InvariantHolds, PTL

\* Any number of processes, redeployed in any order the rotation rules allow, decrypt
\* every token, verifier and page token that is still in use; so the credential services
\* refuse an account shown as active for the form of its id or not at all.
THEOREM RotationKeepsReadable == Spec => []ReadableThroughRotation
  <1>1. ASSUME IInv PROVE ReadableThroughRotation
    <2>1. ASSUME NEW a \in Accounts, ShownStatus(a) = "active", NEW p \in Procs
          PROVE  Readable(p, account[a].key) /\ (Resolves(p, a) <=> Verified(a))
      <3>1. account[a].status = "active" /\ ~account[a].expired
        BY <2>1 DEF ShownStatus
      <3>2. account[a].token # NoAttempt
        BY <1>1, <3>1 DEF IInv, TypeOK
      <3>3. QED
        BY <1>1, <3>1, <3>2 DEF Resolves, FindActive, IInv, InUseReadable
    <2>2. QED
      BY <1>1, <2>1, ConnectionAssumption DEF ReadableThroughRotation, IInv, InUseReadable
  <1>2. QED
    BY <1>1, InvariantHolds, PTL

-----------------------------------------------------------------------------
(* The refinement of ConsentRegister, step by step.                        *)

\* The mapped variables, and the set of the consents that requests or selections hold.
Held    == {t \in Attempts : Taken(t)}
consent == [t \in Attempts |-> IF state[t].status \in {"none", "open"} THEN "open"
                               ELSE IF Taken(t) THEN "taken" ELSE "done"]
holder  == [a \in Accounts |-> account[a].token]

LEMMA ConsentIs ==
    ASSUME NEW t \in Attempts
    PROVE  consent[t] = IF state[t].status \in {"none", "open"} THEN "open"
                        ELSE IF t \in Held THEN "taken" ELSE "done"
  BY DEF consent, Held

LEMMA ConsentBecomes ==
    ASSUME NEW t \in Attempts
    PROVE  consent'[t] = IF state'[t].status \in {"none", "open"} THEN "open"
                         ELSE IF t \in Held' THEN "taken" ELSE "done"
  BY DEF consent, Held, Taken

LEMMA HeldIs ==
    Held = {t \in Attempts : selection[t].status = "open"
                             \/ \E r \in Requests : request[r].pc # "idle" /\ request[r].attempt = t}
  BY DEF Held, Taken

LEMMA HeldBecomes ==
    Held' = {t \in Attempts : selection'[t].status = "open"
                              \/ \E r \in Requests : request'[r].pc # "idle" /\ request'[r].attempt = t}
  BY DEF Held, Taken

\* A step in which every consent stays, or is given up, and no account changes hands.
GivesUp ==
    /\ \A t \in Attempts : consent'[t] = consent[t] \/ (consent'[t] = "done" /\ consent[t] # "done")
    /\ holder' = holder

Refines == [Register!Next]_Register!vars

LEMMA GivesUpRefines == ASSUME GivesUp PROVE Refines
  <1>1. PICK S \in SUBSET Attempts : S = {t \in Attempts : consent'[t] # consent[t]}
    OBVIOUS
  <1>2. \A t \in S : consent[t] # "done"
    BY <1>1 DEF GivesUp
  <1>3. consent' = [t \in Attempts |-> IF t \in S THEN "done" ELSE consent[t]]
    <2>1. consent' = [t \in Attempts |-> consent'[t]]
      BY DEF consent
    <2>2. \A t \in Attempts : consent'[t] = IF t \in S THEN "done" ELSE consent[t]
      BY <1>1 DEF GivesUp
    <2>3. QED
      BY <2>1, <2>2
  <1>4. Register!GiveUp(S)
    BY <1>2, <1>3 DEF GivesUp, Register!GiveUp, consent, holder
  <1>5. QED
    BY <1>4 DEF Register!Next, Refines

\* Without a change of the accounts, holder stays; of a token, one holder changes.
LEMMA HolderStays ==
    ASSUME UNCHANGED account PROVE holder' = holder
  BY DEF holder

\* A request that ends gives up what it holds.
LEMMA EndGivesUp ==
    ASSUME IInv, UNCHANGED <<state, account>>,
           \A t \in Attempts : selection'[t].status = "open" => selection[t].status = "open",
           \A r \in Requests : request'[r].pc # "idle" =>
               request[r].pc # "idle" /\ request'[r].attempt = request[r].attempt
    PROVE  Refines
  <1>1. Held' \subseteq Held
    BY HeldIs, HeldBecomes
  <1>2. \A t \in Attempts : consent'[t] = consent[t] \/ (consent'[t] = "done" /\ consent[t] # "done")
    BY <1>1, ConsentIs, ConsentBecomes
  <1>3. QED
    BY <1>2, GivesUpRefines, HolderStays DEF GivesUp

LEMMA RefineInit == Init => Register!Init
  <1>1. ASSUME Init PROVE consent = [t \in Attempts |-> "open"]
    BY <1>1, ConsentIs DEF consent, Init
  <1>2. ASSUME Init PROVE holder = [a \in Accounts |-> NoAttempt]
    BY <1>2 DEF holder, Init, Unconnected
  <1>3. QED
    BY <1>1, <1>2 DEF Register!Init, consent, holder

LEMMA RefineBegin ==
    ASSUME IInv, NEW t \in Attempts, NEW flow \in {"direct", "page"}, Begin(t, flow) PROVE Refines
  <1>1. /\ state[t].status = "none" /\ state'[t].status = "open"
        /\ \A u \in Attempts : u # t => state'[u] = state[u]
        /\ UNCHANGED <<selection, request, account>>
    BY DEF Begin, NewState, IInv, TypeOK
  <1>2. Held' = Held
    BY <1>1, HeldIs, HeldBecomes
  <1>3. \A u \in Attempts : consent'[u] = consent[u]
    BY <1>1, <1>2, ConsentIs, ConsentBecomes
  <1>4. QED
    BY <1>1, <1>3, GivesUpRefines, HolderStays DEF GivesUp

LEMMA RefineStateExpires == ASSUME IInv, NEW t \in Attempts, StateExpires(t) PROVE Refines
  <1>1. /\ state[t].status = "open" /\ state'[t].status = "expired"
        /\ \A u \in Attempts : u # t => state'[u] = state[u]
        /\ UNCHANGED <<selection, request, account>>
    BY DEF StateExpires, IInv, TypeOK, States
  <1>2. Held' = Held /\ t \notin Held
    BY <1>1, HeldIs, HeldBecomes, Untouched DEF IInv, Holding
  <1>3. \A u \in Attempts : consent'[u] = consent[u] \/ (consent'[u] = "done" /\ consent[u] # "done")
    BY <1>1, <1>2, ConsentIs, ConsentBecomes
  <1>4. QED
    BY <1>1, <1>3, GivesUpRefines, HolderStays DEF GivesUp

LEMMA RefineConsumeState ==
    ASSUME IInv, NEW r \in Requests, NEW t \in Attempts, ConsumeState(r, t) PROVE Refines
  <1>1. /\ state[t].status = "open" /\ state'[t].status = "consumed"
        /\ \A u \in Attempts : u # t => state'[u] = state[u]
        /\ UNCHANGED <<selection, account>>
    BY DEF ConsumeState, Consumable, IInv, TypeOK, States
  <1>2. \/ request' = request
        \/ /\ request'[r].pc = "exchange" /\ request'[r].attempt = t /\ request[r].pc = "idle"
           /\ \A q \in Requests : q # r => request'[q] = request[q]
    BY DEF ConsumeState, Idle, IInv, TypeOK
  <1>3. Held' \in {Held, Held \cup {t}}
    BY <1>1, <1>2, HeldIs, HeldBecomes
  <1>4. consent[t] = "open" /\ \A u \in Attempts : u # t => consent'[u] = consent[u]
    BY <1>1, <1>3, ConsentIs, ConsentBecomes
  <1>5. CASE consent'[t] = "taken"
    <2>1. consent' = [consent EXCEPT ![t] = "taken"]
      BY <1>4, <1>5 DEF consent
    <2>2. Register!Take(t)
      BY <1>1, <1>4, <2>1 DEF Register!Take, consent
    <2>3. QED
      BY <2>2 DEF Refines, Register!Next
  <1>6. CASE consent'[t] = "done"
    BY <1>1, <1>4, <1>6, GivesUpRefines, HolderStays DEF GivesUp
  <1>7. QED
    BY <1>1, <1>5, <1>6, ConsentBecomes

LEMMA RefineExchangeCode == ASSUME IInv, NEW r \in Requests, ExchangeCode(r) PROVE Refines
  <1>1. /\ UNCHANGED <<state, account, selection>> /\ request[r].pc = "exchange"
        /\ \A q \in Requests : q # r => request'[q] = request[q]
        /\ request'[r].pc # "idle" => request'[r].attempt = request[r].attempt
    BY DEF ExchangeCode, End, Idle, IInv, TypeOK, Progress
  <1>2. QED
    BY <1>1, EndGivesUp

LEMMA RefineEnd ==
    ASSUME IInv, NEW r \in Requests, PagesUnavailable(r) \/ IdentityUnavailable(r) PROVE Refines
  <1>1. UNCHANGED <<state, account, selection>> /\ \A q \in Requests : request'[q] \in {request[q], Idle}
    BY DEF PagesUnavailable, IdentityUnavailable, End, IInv, TypeOK
  <1>2. QED
    BY <1>1, EndGivesUp DEF Idle

\* The pages are offered: the consent passes from the request to the selection.
LEMMA RefineOfferPages == ASSUME IInv, NEW r \in Requests, OfferPages(r) PROVE Refines
  <1> DEFINE t == request[r].attempt
  <1>1. t \in Attempts /\ request[r].pc = "identify"
    BY DEF OfferPages, Fetched, IInv, RequestsFollow
  <1>2. /\ UNCHANGED <<state, account>> /\ selection'[t].status = "open"
        /\ \A u \in Attempts : u # t => selection'[u] = selection[u]
        /\ request'[r].pc = "idle" /\ \A q \in Requests : q # r => request'[q] = request[q]
    BY <1>1 DEF OfferPages, NewSelection, End, Idle, IInv, TypeOK
  <1>3. Held' = Held
    BY <1>1, <1>2, HeldIs, HeldBecomes
  <1>4. \A u \in Attempts : consent'[u] = consent[u]
    BY <1>2, <1>3, ConsentIs, ConsentBecomes
  <1>5. QED
    BY <1>2, <1>4, GivesUpRefines, HolderStays DEF GivesUp

LEMMA RefineSelectionExpires == ASSUME IInv, NEW t \in Attempts, SelectionExpires(t) PROVE Refines
  <1>1. /\ UNCHANGED <<state, account, request>>
        /\ \A u \in Attempts : selection'[u].status = "open" => selection[u].status = "open"
    BY DEF SelectionExpires, IInv, TypeOK, Rows
  <1>2. QED
    BY <1>1, EndGivesUp

\* The selection is consumed: the consent passes to the request, or is lost.
LEMMA RefineSelectPage ==
    ASSUME IInv, NEW r \in Requests, NEW t \in Attempts, SelectPage(r, t) PROVE Refines
  <1>1. /\ UNCHANGED <<state, account>> /\ selection[t].status = "open" /\ selection'[t].status # "open"
        /\ \A u \in Attempts : u # t => selection'[u] = selection[u]
    BY DEF SelectPage, ConsumedSelection, IInv, TypeOK, Rows
  <1>2. /\ request[r].pc = "idle"
        /\ request'[r].pc # "idle" => request'[r].attempt = t
        /\ \A q \in Requests : q # r => request'[q] = request[q]
    BY DEF SelectPage, Idle, IInv, TypeOK
  <1>3. Held' \subseteq Held
    BY <1>1, <1>2, HeldIs, HeldBecomes
  <1>4. \A u \in Attempts : consent'[u] = consent[u] \/ (consent'[u] = "done" /\ consent[u] # "done")
    BY <1>1, <1>3, ConsentIs, ConsentBecomes
  <1>5. QED
    BY <1>1, <1>4, GivesUpRefines, HolderStays DEF GivesUp

\* The request that holds the consent stores its token in an account.
LEMMA ConnectRefines ==
    ASSUME IInv, NEW r \in Requests, request[r].pc \in {"identify", "selected"},
           NEW a \in Accounts, NEW key, NEW refreshKey,
           account' = Upsert(a, request[r].attempt, key, refreshKey),
           End(r), UNCHANGED <<state, selection>>
    PROVE  Refines
  <1>1. PICK t \in Attempts : /\ t = request[r].attempt
                              /\ state[t].status = "consumed" /\ selection[t].status # "open"
    BY DEF IInv, RequestsFollow
  <1>2. /\ request'[r].pc = "idle" /\ \A q \in Requests : q # r => request'[q] = request[q]
        /\ \A q \in Requests : q # r /\ request[q].pc # "idle" => request[q].attempt # t
    BY <1>1 DEF End, Idle, IInv, TypeOK, HeldByOne
  <1>3. t \in Held /\ Held' = Held \ {t}
    <2>1. t \in Held
      BY <1>1, HeldIs
    <2>2. t \notin Held'
      BY <1>1, <1>2, HeldBecomes
    <2>3. \A u \in Attempts : u # t => (u \in Held' <=> u \in Held)
      BY <1>1, <1>2, HeldIs, HeldBecomes
    <2>4. QED
      BY <2>1, <2>2, <2>3 DEF Held
  <1>4. consent[t] = "taken" /\ \A u \in Attempts : consent'[u] = IF u = t THEN "done" ELSE consent[u]
    BY <1>1, <1>3, ConsentIs, ConsentBecomes
  <1>5. consent' = [consent EXCEPT ![t] = "done"]
    BY <1>4 DEF consent
  <1>6. holder' = [holder EXCEPT ![a] = t]
    BY <1>1 DEF holder, Upsert, IInv, TypeOK
  <1>7. Register!Connect(t, a)
    BY <1>4, <1>5, <1>6 DEF Register!Connect, consent, holder
  <1>8. QED
    BY <1>7 DEF Refines, Register!Next, Accounts, Register!Take, Register!GiveUp, Register!Disconnect

LEMMA RefineStore ==
    ASSUME IInv, NEW r \in Requests, StoreDirect(r) \/ StoreSelected(r) PROVE Refines
  <1>1. CASE StoreDirect(r)
    <2>1. PICK a \in DirectAccounts, refreshKey \in {NoKey, KeyVersion(Api)} :
             account' = Upsert(a, request[r].attempt, KeyVersion(Api), refreshKey)
      BY <1>1 DEF StoreDirect
    <2>2. a \in Accounts /\ request[r].pc = "identify" /\ End(r) /\ UNCHANGED <<state, selection>>
      BY <1>1 DEF StoreDirect, Fetched, Accounts
    <2>3. QED
      BY <2>1, <2>2, ConnectRefines
  <1>2. CASE StoreSelected(r)
    <2>1. /\ request[r].pc = "selected" /\ request[r].account \in Accounts
          /\ account' = Upsert(request[r].account, request[r].attempt, selection[request[r].attempt].key, NoKey)
          /\ End(r) /\ UNCHANGED <<state, selection>>
      BY <1>2 DEF StoreSelected, IInv, RequestsFollow
    <2>2. QED
      BY <2>1, ConnectRefines
  <1>3. QED
    BY <1>1, <1>2

LEMMA RefineAccount ==
    ASSUME IInv, NEW a \in Accounts, TokenExpires(a) \/ Disconnect(a) PROVE Refines
  <1>1. /\ UNCHANGED <<state, selection, request>>
        /\ holder' = holder \/ holder' = [holder EXCEPT ![a] = NoAttempt]
    <2>1. account \in [Accounts -> Account]
      BY DEF IInv, TypeOK
    <2>2. CASE TokenExpires(a)
      BY <2>1, <2>2 DEF TokenExpires, holder, Account
    <2>3. CASE Disconnect(a)
      BY <2>1, <2>3 DEF Disconnect, Revoked, Unconnected, holder
    <2>4. QED
      BY <2>2, <2>3
  <1>2. Held' = Held
    BY <1>1, HeldIs, HeldBecomes
  <1>3. \A u \in Attempts : consent'[u] = consent[u]
    BY <1>1, <1>2, ConsentIs, ConsentBecomes
  <1>4. CASE holder' = holder
    BY <1>3, <1>4, GivesUpRefines DEF GivesUp
  <1>5. CASE holder' # holder
    <2>1. holder' = [holder EXCEPT ![a] = NoAttempt] /\ holder[a] # NoAttempt
      BY <1>1, <1>5 DEF holder
    <2>2. consent' = consent
      BY <1>3 DEF consent
    <2>3. Register!Disconnect(a)
      BY <2>1, <2>2 DEF Register!Disconnect, consent, holder
    <2>4. QED
      BY <2>3 DEF Refines, Register!Next, Accounts
  <1>6. QED
    BY <1>4, <1>5

\* With the API process go the requests it serves, and the consents they hold.
LEMMA RefineRestart == ASSUME IInv, CrashApi \/ \E p \in Procs : Deploy(p) PROVE Refines
  <1>1. /\ UNCHANGED <<state, account, selection>>
        /\ \A q \in Requests : request'[q] = request[q] \/ request'[q].pc = "idle"
    BY DEF CrashApi, Deploy, Idle
  <1>2. QED
    BY <1>1, EndGivesUp

LEMMA RefineApprove == ASSUME IInv, (\E t \in Attempts : Approve(t)) \/ UNCHANGED vars PROVE Refines
  <1>1. UNCHANGED <<state, account, selection, request>>
    BY DEF Approve, vars
  <1>2. QED
    BY <1>1, EndGivesUp

LEMMA RefineStep == ASSUME IInv, [Next]_vars PROVE Refines
  BY RefineBegin, RefineApprove, RefineStateExpires, RefineConsumeState, RefineExchangeCode, RefineEnd,
     RefineOfferPages, RefineSelectionExpires, RefineSelectPage, RefineStore, RefineAccount, RefineRestart
     DEF Next

\* Callbacks repeated, requests and processes that die, selections, disconnections and
\* redeployments included: a consent is taken up once, connects one account at most
\* once, and only an unused consent brings a disconnected account back.
THEOREM Refinement == Spec => ImplementsConsentRegister
  BY RefineInit, RefineStep, InvariantHolds, PTL DEF Spec, ImplementsConsentRegister, Register!Spec, Refines

-----------------------------------------------------------------------------
(* What the register promises, of the tables.                              *)

\* The authorizations whose consent has been given up, or has connected an account.
UsedUp == {t \in Attempts : state[t].status \notin {"none", "open"} /\ ~Taken(t)}

OneAccountEach ==
    /\ \A a \in Accounts : account[a].token # NoAttempt => account[a].token \in UsedUp
    /\ \A a \in Accounts : \A b \in Accounts :
          account[a].token = account[b].token /\ account[a].token # NoAttempt => a = b

\* What a step may do to what is used up: nothing, and what it gives to an account was
\* in the hands of a request until now.
KeepsUsedUp ==
    /\ UsedUp \subseteq UsedUp'
    /\ \A a \in Accounts : account'[a].token \in {account[a].token, NoAttempt} \cup (Held \cap UsedUp')
    /\ \A a \in Accounts : \A b \in Accounts :
          account'[a].token # account[a].token /\ account'[a].token # NoAttempt /\ b # a
             => account'[b].token = account[b].token

LEMMA UsedUpIs ==
    ASSUME NEW t \in Attempts
    PROVE  /\ t \in UsedUp <=> consent[t] = "done"
           /\ t \in UsedUp' <=> consent'[t] = "done"
           /\ consent[t] = "taken" => t \in Held
  BY DEF UsedUp, Held, consent, Taken

LEMMA UsedAndHeld == UsedUp \cap Held = {} /\ UsedUp \subseteq Attempts /\ NoAttempt \notin UsedUp
  BY ConnectionAssumption DEF UsedUp, Held

LEMMA RegisterKeeps == ASSUME IInv, [Next]_vars PROVE KeepsUsedUp
  <1>1. Refines
    BY RefineStep
  <1>2. \A a \in Accounts : account[a].token = holder[a] /\ account'[a].token = holder'[a]
    BY DEF holder
  <1>3. ASSUME NEW c \in Attempts, Register!Take(c) PROVE KeepsUsedUp
    <2>1. holder' = holder /\ \A t \in Attempts : consent[t] = "done" => consent'[t] = "done"
      BY <1>3 DEF Register!Take, consent, holder
    <2>2. QED
      BY <1>2, <2>1, UsedUpIs, UsedAndHeld DEF KeepsUsedUp
  <1>4. ASSUME NEW S \in SUBSET Attempts, Register!GiveUp(S) PROVE KeepsUsedUp
    <2>1. holder' = holder /\ \A t \in Attempts : consent[t] = "done" => consent'[t] = "done"
      BY <1>4 DEF Register!GiveUp, consent, holder
    <2>2. QED
      BY <1>2, <2>1, UsedUpIs, UsedAndHeld DEF KeepsUsedUp
  <1>5. ASSUME NEW c \in Attempts, NEW a \in Accounts, Register!Connect(c, a) PROVE KeepsUsedUp
    <2>1. consent[c] = "taken" /\ consent' = [consent EXCEPT ![c] = "done"] /\ holder' = [holder EXCEPT ![a] = c]
      BY <1>5 DEF Register!Connect, consent, holder
    <2>2. consent \in [Attempts -> {"open", "taken", "done"}] /\ holder = [b \in Accounts |-> holder[b]]
      BY DEF consent, holder
    <2>3. consent'[c] = "done" /\ \A t \in Attempts : consent[t] = "done" => consent'[t] = "done"
      BY <2>1, <2>2
    <2>4. holder'[a] = c /\ \A b \in Accounts : b # a => holder'[b] = holder[b]
      BY <2>1, <2>2
    <2>5. c \in Held \cap UsedUp'
      BY <2>1, <2>3, UsedUpIs
    <2>6. QED
      BY <1>2, <2>3, <2>4, <2>5, UsedUpIs, UsedAndHeld DEF KeepsUsedUp
  <1>6. ASSUME NEW a \in Accounts, Register!Disconnect(a) PROVE KeepsUsedUp
    <2>1. consent' = consent /\ holder' = [holder EXCEPT ![a] = NoAttempt]
      BY <1>6 DEF Register!Disconnect, consent, holder
    <2>2. \A b \in Accounts : holder'[b] \in {holder[b], NoAttempt}
      BY <2>1 DEF holder
    <2>3. QED
      BY <1>2, <2>1, <2>2, UsedUpIs, UsedAndHeld DEF KeepsUsedUp
  <1>7. CASE UNCHANGED Register!vars
    <2>1. consent' = consent /\ holder' = holder
      BY <1>7 DEF Register!vars, consent, holder
    <2>2. QED
      BY <1>2, <2>1, UsedUpIs, UsedAndHeld DEF KeepsUsedUp
  <1>8. QED
    BY <1>1, <1>3, <1>4, <1>5, <1>6, <1>7 DEF Refines, Register!Next, Accounts

LEMMA OneAccountStep == ASSUME IInv, OneAccountEach, [Next]_vars PROVE OneAccountEach'
  <1>1. KeepsUsedUp
    BY RegisterKeeps
  <1>2. \A a \in Accounts : account[a].token \in Attempts \cup {NoAttempt}
    BY DEF IInv, TypeOK, Account
  <1>3. ASSUME NEW a \in Accounts, account'[a].token # NoAttempt PROVE account'[a].token \in UsedUp'
    BY <1>1, <1>2, <1>3 DEF KeepsUsedUp, OneAccountEach
  <1>4. ASSUME NEW a \in Accounts, NEW b \in Accounts,
               account'[a].token = account'[b].token, account'[a].token # NoAttempt, a # b
        PROVE  FALSE
    <2>1. ASSUME NEW x \in Accounts, NEW y \in Accounts, x # y, account'[x].token = account'[y].token,
                 account'[x].token # NoAttempt, account'[x].token # account[x].token
          PROVE  FALSE
      <3>1. account'[y].token = account[y].token
        BY <1>1, <2>1 DEF KeepsUsedUp
      <3>2. account[y].token \in Held /\ account[y].token # NoAttempt
        BY <1>1, <2>1, <3>1 DEF KeepsUsedUp
      <3>3. QED
        BY <3>2, UsedAndHeld DEF OneAccountEach
    <2>2. account'[a].token = account[a].token /\ account'[b].token = account[b].token
      BY <1>4, <2>1
    <2>3. QED
      BY <1>4, <2>2 DEF OneAccountEach
  <1>5. QED
    BY <1>3, <1>4 DEF OneAccountEach

LEMMA OneAccountHolds == Spec => [](IInv /\ OneAccountEach)
  <1>1. Init => OneAccountEach
    BY DEF Init, Unconnected, OneAccountEach
  <1>2. QED
    BY <1>1, OneAccountStep, IInvStep, InvariantHolds, PTL DEF Spec

\* At most one account has a token of a given consent, and only when no request and no
\* page selection can go on with that consent: a callback that was repeated, or a
\* selection made twice, has not connected a second account.
THEOREM OneConsentOneAccount == Spec => []OneAccountEach
  BY OneAccountHolds, PTL

NothingFromUsedUp ==
    \A t \in UsedUp : /\ t \in UsedUp'
                     /\ \A a \in Accounts : account'[a].token = t => account[a].token = t

\* A consent that was used up or given up is so for good, and no step gives its token to
\* an account: what was disconnected does not come back by a late callback.
THEOREM UsedUpForGood == Spec => [][NothingFromUsedUp]_vars
  <1>1. IInv /\ [Next]_vars => NothingFromUsedUp
    BY RegisterKeeps, UsedAndHeld DEF KeepsUsedUp, NothingFromUsedUp
  <1>2. QED
    BY <1>1, InvariantHolds, PTL DEF Spec
=============================================================================
