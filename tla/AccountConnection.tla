------------------------- MODULE AccountConnection -------------------------
(***************************************************************************)
(* Connecting and disconnecting social accounts (backend/src/auth): the    *)
(* authorization states, the provider callbacks, the Facebook page         *)
(* selections, the social_accounts rows, and the encryption of everything  *)
(* that is stored while the key is rotated process by process.             *)
(*                                                                         *)
(* One user. A token is named by the attempt whose consent it comes from,  *)
(* a ciphertext by the version of its key. Expiry is an event: the clock   *)
(* that decides it is the database's or the provider's. A request that is  *)
(* refused with no effect on the state is no step.                         *)
(***************************************************************************)
EXTENDS Naturals

CONSTANTS
    Attempts,           \* authorizations the user begins
    NoAttempt,
    Requests,           \* callback and selection requests the API serves at a time
    DirectAccounts,     \* LinkedIn, Threads and X accounts
    PageAccounts,       \* Facebook Pages
    InstagramAccounts,  \* Instagram accounts behind the pages
    WellFormed,         \* accounts whose platform_account_id has the form publishing asks for
    Procs,              \* processes that hold the key ring
    Api                 \* the one of them that serves the requests

ASSUME ConnectionAssumption == Api \in Procs /\ NoAttempt \notin Attempts

VARIABLES
    state,      \* oauth_states: each attempt's row, with the key of its verifier
    code,       \* each attempt's authorization code at the provider
    sent,       \* how often each attempt's code was sent to the provider
    selection,  \* facebook_page_selections: each attempt's row and its tokens' key
    request,    \* where each request stands, for which attempt and account
    account,    \* social_accounts
    audited,    \* whether audit_logs tells of each account's last change
    stage       \* how far each process is in the key rotation

vars == <<state, code, sent, selection, request, account, audited, stage>>

Accounts == DirectAccounts \cup PageAccounts \cup InstagramAccounts
NoKey == 0
Keys  == {1, 2}

Rows      == [status : {"none", "open", "consumed", "expired"}, key : {NoKey} \cup Keys]
States    == [status : {"none", "open", "consumed", "expired"}, key : {NoKey} \cup Keys,
              flow : {"direct", "page"}]
Points    == {"idle", "exchange", "identify", "selected"}
Progress  == [pc : Points, attempt : Attempts \cup {NoAttempt}, account : Accounts \cup {NoAttempt}]
Statuses  == {"none", "disabled", "active", "revoked"}
Account   == [status : Statuses, token : Attempts \cup {NoAttempt}, key : {NoKey} \cup Keys,
              refreshKey : {NoKey} \cup Keys, expired : BOOLEAN]

Idle == [pc |-> "idle", attempt |-> NoAttempt, account |-> NoAttempt]
Unconnected(status) ==
    [status |-> status, token |-> NoAttempt, key |-> NoKey, refreshKey |-> NoKey, expired |-> FALSE]

-----------------------------------------------------------------------------
(* The key ring and its rotation.                                          *)

\* OAUTH_TOKEN_ENCRYPTION_KEYS of a process: the new key is added, then it
\* becomes the current one, then the old key is removed.
KeyRing(p) == CASE stage[p] = 0 -> {1} [] stage[p] = 3 -> {2} [] OTHER -> Keys

\* Mutant: the newest key of the ring is the current one.
NewestKey(p) == IF 2 \in KeyRing(p) THEN 2 ELSE 1
\* keyVersion: the version encrypt() writes.
KeyVersion(p) == IF stage[p] < 2 THEN 1 ELSE 2

\* decrypt() takes the key its ciphertext names, if the ring has it.
Readable(p, key) == key \in KeyRing(p)

\* What the integrations page shows of an account (list), and what a credential
\* service makes of it (resolve).
ShownStatus(a) == IF account[a].status = "active" /\ account[a].expired THEN "expired" ELSE account[a].status
FindActive(a) == account[a].status = "active" /\ account[a].token # NoAttempt
\* The id is numeric, or makes a person or organization URN of LinkedIn. It is part
\* of what names the account, comes from the provider, and is not looked at before.
Verified(a) == a \in WellFormed
Resolves(p, a) ==
    FindActive(a) /\ ~account[a].expired /\ Verified(a) /\ Readable(p, account[a].key)

-----------------------------------------------------------------------------
Init ==
    /\ state = [t \in Attempts |-> [status |-> "none", key |-> NoKey, flow |-> "direct"]]
    /\ code = [t \in Attempts |-> "none"]
    /\ sent = [t \in Attempts |-> 0]
    /\ selection = [t \in Attempts |-> [status |-> "none", key |-> NoKey]]
    /\ request = [r \in Requests |-> Idle]
    /\ \E status \in {"none", "disabled"} : account = [a \in Accounts |-> Unconnected(status)]
    /\ audited = [a \in Accounts |-> TRUE]
    /\ stage = [p \in Procs |-> 0]

-----------------------------------------------------------------------------
(* beginAuthorization, and the user at the provider.                       *)

\* createState: the row with the encrypted verifier.
NewState(flow) == [status |-> "open", key |-> KeyVersion(Api), flow |-> flow]

Begin(t, flow) ==
    /\ state[t].status = "none"
    /\ state' = [state EXCEPT ![t] = NewState(flow)]
    /\ UNCHANGED <<code, sent, selection, request, account, audited, stage>>

\* The provider sends the browser back with a code.
Approve(t) ==
    /\ state[t].status # "none" /\ code[t] = "none"
    /\ code' = [code EXCEPT ![t] = "issued"]
    /\ UNCHANGED <<state, sent, selection, request, account, audited, stage>>

StateExpires(t) ==
    /\ state[t].status = "open"
    /\ state' = [state EXCEPT ![t].status = "expired"]
    /\ UNCHANGED <<code, sent, selection, request, account, audited, stage>>

-----------------------------------------------------------------------------
(* completeCallback. The browser may repeat the callback, or come late.    *)

\* Mutant: a consumed state is accepted again until it expires.
ConsumableTwice(t) == state[t].status \in {"open", "consumed"}
Consumable(t) == state[t].status = "open"

\* consumeState and the refusals after it: another provider's route, no approval,
\* no code, or a verifier that cannot be decrypted.
ConsumeState(r, t) ==
    /\ request[r] = Idle /\ Consumable(t)
    /\ state' = [state EXCEPT ![t].status = "consumed"]
    /\ \/ /\ code[t] # "none" /\ Readable(Api, state[t].key)
          /\ request' = [request EXCEPT ![r] = [pc |-> "exchange", attempt |-> t, account |-> NoAttempt]]
       \/ UNCHANGED request
    /\ UNCHANGED <<code, sent, selection, account, audited, stage>>

End(r) == request' = [request EXCEPT ![r] = Idle]

\* exchangeCode: the provider accepts a code once. Its answer may be lost, or lack a token.
ExchangeCode(r) ==
    LET t == request[r].attempt IN
    /\ request[r].pc = "exchange"
    /\ sent' = [sent EXCEPT ![t] = sent[t] + 1]
    /\ \/ /\ code[t] = "issued"
          /\ code' = [code EXCEPT ![t] = "spent"]
          /\ request' = [request EXCEPT ![r].pc = "identify"] \/ End(r)
       \/ End(r) /\ UNCHANGED code
    /\ UNCHANGED <<state, selection, account, audited, stage>>

\* createFacebookPageSelection: the pages with their encrypted tokens.
NewSelection == [status |-> "open", key |-> KeyVersion(Api)]

Fetched(r, flow) == request[r].pc = "identify" /\ state[request[r].attempt].flow = flow

\* listManagedPages fails, or lists none or an incomplete one.
PagesUnavailable(r) ==
    /\ Fetched(r, "page") /\ End(r)
    /\ UNCHANGED <<state, code, sent, selection, account, audited, stage>>

OfferPages(r) ==
    /\ Fetched(r, "page")
    /\ selection' = [selection EXCEPT ![request[r].attempt] = NewSelection]
    /\ End(r)
    /\ UNCHANGED <<state, code, sent, account, audited, stage>>

\* upsertSocialAccount: a refresh token the provider did not send again is kept.
Upsert(a, t, key, refreshKey) ==
    [account EXCEPT ![a] =
        [status |-> "active", token |-> t, key |-> key, expired |-> FALSE,
         refreshKey |-> IF refreshKey = NoKey THEN account[a].refreshKey ELSE refreshKey]]

\* writeAudit, a statement of its own: if it fails the request does, but the change stays.
WriteAudit(a) == \E written \in BOOLEAN : audited' = [audited EXCEPT ![a] = written]

\* fetchIdentity fails, or names no account.
IdentityUnavailable(r) ==
    /\ Fetched(r, "direct") /\ End(r)
    /\ UNCHANGED <<state, code, sent, selection, account, audited, stage>>

StoreDirect(r) ==
    /\ Fetched(r, "direct")
    /\ \E a \in DirectAccounts : \E refreshKey \in {NoKey, KeyVersion(Api)} :
          account' = Upsert(a, request[r].attempt, KeyVersion(Api), refreshKey) /\ WriteAudit(a)
    /\ End(r)
    /\ UNCHANGED <<state, code, sent, selection, stage>>

-----------------------------------------------------------------------------
(* selectFacebookPage.                                                     *)

SelectionExpires(t) ==
    /\ selection[t].status = "open"
    /\ selection' = [selection EXCEPT ![t].status = "expired"]
    /\ UNCHANGED <<state, code, sent, request, account, audited, stage>>

\* Mutant: the selection is read, and never marked.
ConsumeNothing(t) == selection[t]
ConsumedSelection(t) == [selection[t] EXCEPT !.status = "consumed"]

\* The page itself, or the Instagram account the page is asked for with its
\* decrypted token.
Selectable(t) == PageAccounts \cup (IF Readable(Api, selection[t].key) THEN InstagramAccounts ELSE {})

\* consumeFacebookPageSelection of an offered page; the lookup after it may fail.
SelectPage(r, t) ==
    /\ request[r] = Idle /\ selection[t].status = "open"
    /\ selection' = [selection EXCEPT ![t] = ConsumedSelection(t)]
    /\ \/ \E a \in Selectable(t) :
             request' = [request EXCEPT ![r] = [pc |-> "selected", attempt |-> t, account |-> a]]
       \/ UNCHANGED request
    /\ UNCHANGED <<state, code, sent, account, audited, stage>>

\* The page's ciphertext is stored as it is, whatever the key version is by now.
StoreSelected(r) ==
    LET t == request[r].attempt
        a == request[r].account
    IN  /\ request[r].pc = "selected"
        /\ account' = Upsert(a, t, selection[t].key, NoKey) /\ WriteAudit(a)
        /\ End(r)
        /\ UNCHANGED <<state, code, sent, selection, stage>>

-----------------------------------------------------------------------------
(* The life of an account.                                                 *)

\* The date the provider gave with the token passes; a page's token has none.
TokenExpires(a) ==
    /\ a \in DirectAccounts /\ account[a].status = "active"
    /\ account' = [account EXCEPT ![a].expired = TRUE]
    /\ UNCHANGED <<state, code, sent, selection, request, audited, stage>>

\* Mutant: the tokens stay in the row.
RevokedWithTokens(a) == [account[a] EXCEPT !.status = "revoked"]
Revoked(a) == Unconnected("revoked")

Disconnect(a) ==
    /\ account[a].status \notin {"none", "revoked"}
    /\ account' = [account EXCEPT ![a] = Revoked(a)]
    /\ WriteAudit(a)
    /\ UNCHANGED <<state, code, sent, selection, request, stage>>

-----------------------------------------------------------------------------
(* Deployments (docs/oauth-security.md, "Rotation is deploy-first").       *)

\* A ciphertext that may still be read: of an authorization or a selection under
\* way, or of an account.
InUse(key) ==
    \/ \E t \in Attempts : state[t].status = "open" /\ state[t].key = key
    \/ \E t \in Attempts : selection[t].status = "open" /\ selection[t].key = key
    \/ \E r \in Requests : request[r].pc = "selected" /\ selection[request[r].attempt].key = key
    \/ \E a \in Accounts : account[a].status = "active" /\ ~account[a].expired
                           /\ key \in {account[a].key, account[a].refreshKey}

\* A process is restarted with its next configuration; no process encrypts with
\* a key some process lacks, or loses one that is in use.
Deploy(p) ==
    /\ stage[p] < 3
    /\ stage[p] = 1 => \A q \in Procs : stage[q] >= 1
    /\ stage[p] = 2 => (\A q \in Procs : stage[q] >= 2) /\ ~InUse(1)
    /\ stage' = [stage EXCEPT ![p] = stage[p] + 1]
    /\ request' = IF p = Api THEN [r \in Requests |-> Idle] ELSE request
    /\ UNCHANGED <<state, code, sent, selection, account, audited>>

\* The API process dies, and the requests it serves with it.
CrashApi ==
    /\ request' = [r \in Requests |-> Idle]
    /\ UNCHANGED <<state, code, sent, selection, account, audited, stage>>

-----------------------------------------------------------------------------
Next ==
    \/ \E t \in Attempts :
        \/ \E flow \in {"direct", "page"} : Begin(t, flow)
        \/ Approve(t) \/ StateExpires(t) \/ SelectionExpires(t)
        \/ \E r \in Requests : ConsumeState(r, t) \/ SelectPage(r, t)
    \/ \E r \in Requests :
        \/ ExchangeCode(r) \/ PagesUnavailable(r) \/ OfferPages(r)
        \/ IdentityUnavailable(r) \/ StoreDirect(r) \/ StoreSelected(r)
    \/ \E a \in Accounts : TokenExpires(a) \/ Disconnect(a)
    \/ \E p \in Procs : Deploy(p)
    \/ CrashApi

Spec == Init /\ [][Next]_vars

-----------------------------------------------------------------------------
\* The variables hold values of their types, and a row has a token exactly when it
\* is active (the check of migration 002, and the statement of disconnect).
TypeOK ==
    /\ state \in [Attempts -> States]
    /\ code \in [Attempts -> {"none", "issued", "spent"}]
    /\ sent \in [Attempts -> Nat]
    /\ selection \in [Attempts -> Rows]
    /\ request \in [Requests -> Progress]
    /\ account \in [Accounts -> Account]
    /\ audited \in [Accounts -> BOOLEAN]
    /\ stage \in [Procs -> 0..3]
    /\ \A a \in Accounts : account[a].status = "active" <=> account[a].token # NoAttempt

\* However often the browser repeats a callback, one authorization code goes to the
\* provider at most once (oauth-security.md: the state "cannot be replayed").
CodeSentOnce == \A t \in Attempts : sent[t] <= 1

\* The token of an account that the integrations page shows as active can be decrypted
\* by every process, the worker's included, throughout a rotation, and the account is
\* refused only for the form of its id (which the page does not show); and whatever
\* still waits for the user, a verifier or a page token, can be decrypted when he
\* comes back.
ReadableThroughRotation ==
    /\ \A a \in Accounts : ShownStatus(a) = "active" =>
          \A p \in Procs : Readable(p, account[a].key) /\ (Resolves(p, a) <=> Verified(a))
    /\ \A t \in Attempts : state[t].status = "open" => Readable(Api, state[t].key)
    /\ \A t \in Attempts : selection[t].status = "open" => Readable(Api, selection[t].key)

\* A consent is in the hands of the requests that complete it.
Taken(t) ==
    \/ \E r \in Requests : request[r].pc # "idle" /\ request[r].attempt = t
    \/ selection[t].status = "open"

Register == INSTANCE ConsentRegister WITH
    Consents <- Attempts, NoConsent <- NoAttempt,
    consent <- [t \in Attempts |-> IF state[t].status \in {"none", "open"} THEN "open"
                                   ELSE IF Taken(t) THEN "taken" ELSE "done"],
    holder <- [a \in Accounts |-> account[a].token]
\* Duplicate callbacks, selections, crashes and disconnections included, every
\* consent connects one account at most once, and a disconnected account comes back
\* only by a consent that was not used up.
ImplementsConsentRegister == Register!Spec
=============================================================================
