------------------------------ MODULE Accounts ------------------------------
(***************************************************************************)
(* Secrets, account connections and the brokers that use them.  The API    *)
(* stores secrets, opens connections (by hand or through an OAuth consent) *)
(* and disconnects them; brokers in the Workers refresh an expired         *)
(* credential and dispatch with it.  Every transaction is a step of its    *)
(* own, and so is every await.                                             *)
(*                                                                         *)
(* A secret is its status, the key version it is sealed under and its      *)
(* rotation count; the sealed value is not told apart.  expires_at and     *)
(* refresh_started_at are abstracted to what is asked of them: has the     *)
(* credential expired, is the refresh less than 20 seconds old.  Whether a *)
(* connection was ever opened with a secret is kept as its history.        *)
(***************************************************************************)
EXTENDS Naturals, FiniteSets, FiniteSetsExt

CONSTANTS
    SecretIds,    \* secret row ids, 1..n
    Links,        \* account_connections ids
    Brokers,      \* dispatches of AccountActionBroker
    Consents,     \* account_oauth_requests
    Callbacks,    \* callers of AccountOAuthService.finish
    WorkerKey,    \* key version the Worker process is configured with
    ApiKey,       \* key version the API process is configured with
    MaxLeases     \* bound: refresh revisions

ASSUME AccountAssumption ==
    /\ SecretIds \subseteq Nat \ {0} /\ Links \subseteq Nat \ {0} /\ 0 \notin Consents
    /\ MaxLeases \in Nat

VARIABLES
    secret,       \* secrets
    keys,         \* secret_keys: the rows, and which is active
    link,         \* account_connections
    broker,       \* broker -> the dispatch it is in
    consent,      \* account_oauth_requests
    callback      \* caller -> the finish it is in

accountVars == <<secret, keys, link, broker, consent, callback>>
NoSecret == [status |-> "absent", version |-> 0, rotation |-> 0, connected |-> FALSE]
NoLink == [state |-> "absent", secret |-> 0, expired |-> FALSE, refresh |-> "none", revision |-> 0, outcome |-> "none"]
IdleBroker == [phase |-> "idle", link |-> 0, revision |-> 0, old |-> 0, rotation |-> 0, created |-> 0]
NoConsent == [state |-> "absent", verifier |-> 0]
IdleCallback == [phase |-> "idle", consent |-> 0, credential |-> 0]
Usable == {"connected", "needs_refresh"}

AccountInit ==
    /\ secret = [s \in SecretIds |-> NoSecret]
    /\ keys = [rows |-> {ApiKey}, active |-> ApiKey]
    /\ link = [l \in Links |-> NoLink]
    /\ broker = [b \in Brokers |-> IdleBroker]
    /\ consent = [o \in Consents |-> NoConsent]
    /\ callback = [c \in Callbacks |-> IdleCallback]

-----------------------------------------------------------------------------
\* The secret store.

IsActive(s) == s \in SecretIds /\ secret[s].status = "active"
\* Mutant: a connection that is being refreshed is not counted.
ReferencedWhileUsable(s) == \E l \in Links : link[l].secret = s /\ link[l].state # "needs_refresh"
SecretReferenced(s) == \E l \in Links : link[l].secret = s
Unstored == {s \in SecretIds : secret[s].status = "absent"}
NextSecret == Min(Unstored)
Stored(version) == [status |-> "active", version |-> version, rotation |-> 0, connected |-> FALSE]
CreateSecret(version) == Unstored # {} /\ secret' = [secret EXCEPT ![NextSecret] = Stored(version)]
\* set_secret_status: revocation is terminal, and neither it nor a disable is
\* allowed while a connection refers to the secret.
MaySetStatus(s, status) ==
    /\ secret[s].status \notin {"absent", "deleted"}
    /\ secret[s].status = "revoked" => status = "revoked"
    /\ status \in {"disabled", "revoked"} => ~SecretReferenced(s)
WithStatus(s, status) == [secret EXCEPT ![s].status = status]

StoreSecret == CreateSecret(ApiKey) /\ UNCHANGED <<keys, link, broker, consent, callback>>
ReplaceSecret(s) ==
    /\ secret[s].status \in {"active", "disabled"}
    /\ secret' = [secret EXCEPT ![s].version = ApiKey, ![s].rotation = secret[s].rotation + 1]
    /\ UNCHANGED <<keys, link, broker, consent, callback>>
SetSecretStatus(s, status) ==
    /\ MaySetStatus(s, status) /\ secret' = WithStatus(s, status)
    /\ UNCHANGED <<keys, link, broker, consent, callback>>
DeleteSecret(s) ==
    /\ secret[s].status \notin {"absent", "deleted"} /\ ~SecretReferenced(s)
    /\ \A o \in Consents : consent[o].verifier # s
    /\ secret' = WithStatus(s, "deleted")
    /\ UNCHANGED <<keys, link, broker, consent, callback>>
RotateActiveKey ==
    /\ keys' = [rows |-> keys.rows \union {ApiKey}, active |-> ApiKey]
    /\ UNCHANGED <<secret, link, broker, consent, callback>>
Resealable(s) == secret[s].status \in {"active", "disabled"} /\ secret[s].version # ApiKey
ReencryptBatch ==
    /\ \E s \in SecretIds : Resealable(s)
    /\ secret' = [s \in SecretIds |-> IF Resealable(s)
                    THEN [secret[s] EXCEPT !.version = ApiKey, !.rotation = secret[s].rotation + 1] ELSE secret[s]]
    /\ UNCHANGED <<keys, link, broker, consent, callback>>
RetireKeyVersion(v) ==
    /\ v # ApiKey /\ v # keys.active
    /\ \A s \in SecretIds : secret[s].version = v => secret[s].status \in {"revoked", "deleted"}
    /\ keys' = [keys EXCEPT !.rows = keys.rows \ {v}]
    /\ UNCHANGED <<secret, link, broker, consent, callback>>

-----------------------------------------------------------------------------
\* Connections.

Connectable(l, s) == link[l].state = "absent" /\ IsActive(s) /\ \A m \in Links : link[m].secret = s => link[m].state \notin Usable
Connected(l, s) == [link EXCEPT ![l] = [NoLink EXCEPT !.state = "connected", !.secret = s]]
WithConnection(s) == [secret EXCEPT ![s].connected = TRUE]
Connect(l, s) ==
    /\ Connectable(l, s) /\ link' = Connected(l, s) /\ secret' = WithConnection(s)
    /\ UNCHANGED <<keys, broker, consent, callback>>
\* disconnect removes the local authority first; the provider is told after it.
Disconnect(l) ==
    /\ link[l].state # "absent" /\ link[l].revision < MaxLeases
    /\ link' = [link EXCEPT ![l] = [link[l] EXCEPT !.state = "disconnected", !.revision = link[l].revision + 1, !.refresh = "none"]]
    /\ UNCHANGED <<secret, keys, broker, consent, callback>>
RecordRevocation(l, outcome) ==
    /\ link[l].state = "disconnected"
    /\ outcome \in IF link[l].outcome = "pending" THEN {"succeeded", "failed"} ELSE {"pending", "not_supported"}
    /\ outcome = "succeeded" => IsActive(link[l].secret)
    /\ link' = [link EXCEPT ![l].outcome = outcome]
    /\ UNCHANGED <<secret, keys, broker, consent, callback>>
\* The clock passes expires_at, or 20 seconds after refresh_started_at.
Expire(l) ==
    /\ link[l].state \in Usable /\ ~link[l].expired /\ link' = [link EXCEPT ![l].expired = TRUE]
    /\ UNCHANGED <<secret, keys, broker, consent, callback>>
AgeRefresh(l) ==
    /\ link[l].refresh = "recent" /\ link' = [link EXCEPT ![l].refresh = "stale"]
    /\ UNCHANGED <<secret, keys, broker, consent, callback>>

-----------------------------------------------------------------------------
\* AccountActionBroker.dispatch and _fresh.

At(b, phase) == broker[b].phase = phase
To(b, phase) == broker' = [broker EXCEPT ![b].phase = phase]
Row(b) == link[broker[b].link]
Idle(b) == broker' = [broker EXCEPT ![b] = IdleBroker]
KeepStore == UNCHANGED <<secret, keys, consent, callback>>

BeginDispatch(b, l) ==
    /\ At(b, "idle") /\ link[l].state # "absent"
    /\ broker' = [broker EXCEPT ![b] = [IdleBroker EXCEPT !.phase = "waiting", !.link = l]]
    /\ UNCHANGED link /\ KeepStore
\* One look at the row: sleep and look again, refuse, go on, or try to claim.
Look(b) ==
    /\ At(b, "waiting")
    /\ \/ Row(b).state = "needs_refresh" /\ Row(b).refresh = "recent" /\ UNCHANGED broker
       \/ Row(b).state # "connected" /\ Row(b).refresh # "recent" /\ To(b, "refused")
       \/ Row(b).state = "connected" /\ To(b, IF Row(b).expired THEN "claiming" ELSE "ready")
    /\ UNCHANGED link /\ KeepStore
Claimable(l) == link[l].state = "connected" /\ link[l].expired
ClaimRefresh(b) ==
    LET l == broker[b].link IN
    /\ At(b, "claiming") /\ link[l].revision < MaxLeases
    /\ \/ /\ Claimable(l)
          /\ link' = [link EXCEPT ![l] = [link[l] EXCEPT !.state = "needs_refresh", !.refresh = "recent", !.revision = link[l].revision + 1]]
          /\ broker' = [broker EXCEPT ![b] = [broker[b] EXCEPT !.phase = "leased", !.revision = link[l].revision + 1, !.old = link[l].secret]]
       \/ ~Claimable(l) /\ To(b, "waiting") /\ UNCHANGED link
    /\ KeepStore
\* inspect and resolve the old secret, then await the provider; it may not
\* know the provider, or hold no refresh token.
BeginExchange(b) ==
    /\ At(b, "leased")
    /\ \/ /\ IsActive(broker[b].old)
          /\ broker' = [broker EXCEPT ![b].phase = "exchanging", ![b].rotation = secret[broker[b].old].rotation]
       \/ To(b, "unwinding")
    /\ UNCHANGED link /\ KeepStore
CreateRefreshed(b) ==
    /\ At(b, "exchanging") /\ CreateSecret(WorkerKey)
    /\ broker' = [broker EXCEPT ![b].phase = "created", ![b].created = NextSecret]
    /\ UNCHANGED <<keys, link, consent, callback>>
ExchangeFails(b) == At(b, "exchanging") /\ To(b, "unwinding") /\ UNCHANGED link /\ KeepStore
\* Mutant: the lease was good when it was taken.
LeaseTaken(b) == broker[b].revision > 0
LeaseHolds(b) == Row(b).state = "needs_refresh" /\ Row(b).revision = broker[b].revision /\ Row(b).refresh = "recent"
\* Mutant: the value that was exchanged may have been replaced since.
SameSecret(b) == IsActive(Row(b).secret)
Unrotated(b) == IsActive(Row(b).secret) /\ secret[Row(b).secret].rotation = broker[b].rotation
FinishRefresh(b) ==
    LET l == broker[b].link  ok == LeaseHolds(b) /\ Unrotated(b) /\ IsActive(broker[b].created) IN
    /\ At(b, "created")
    /\ link' = IF ok THEN [link EXCEPT ![l] = [link[l] EXCEPT !.secret = broker[b].created, !.state = "connected",
                                                              !.expired = FALSE, !.refresh = "none"]] ELSE link
    /\ broker' = [broker EXCEPT ![b].phase = IF ok THEN "finished" ELSE "unwinding", ![b].created = IF ok THEN 0 ELSE broker[b].created]
    /\ KeepStore
\* The old secret is revoked, or the refusal to do so ends the dispatch.
RevokeOld(b) ==
    LET old == broker[b].old IN
    /\ At(b, "finished")
    /\ secret' = IF MaySetStatus(old, "revoked") THEN WithStatus(old, "revoked") ELSE secret
    /\ To(b, IF MaySetStatus(old, "revoked") THEN "ready" ELSE "refused")
    /\ UNCHANGED <<keys, link, consent, callback>>
\* Mutant: only the lease is given back.
LeaveCreated(b) == TRUE
NothingCreated(b) == broker[b].created = 0
\* The finally block: revoke what was created, and give the lease back unless
\* that raised.
Unwind(b) ==
    LET new == broker[b].created IN
    /\ At(b, "unwinding")
    /\ \/ NothingCreated(b) /\ To(b, "releasing") /\ UNCHANGED secret
       \/ /\ ~NothingCreated(b) /\ MaySetStatus(new, "revoked")
          /\ secret' = WithStatus(new, "revoked") /\ To(b, "releasing")
       \/ ~NothingCreated(b) /\ ~MaySetStatus(new, "revoked") /\ To(b, "refused") /\ UNCHANGED secret
    /\ UNCHANGED <<keys, link, consent, callback>>
FailRefresh(b) ==
    LET l == broker[b].link IN
    /\ At(b, "releasing")
    /\ link' = IF Row(b).state = "needs_refresh" /\ Row(b).revision = broker[b].revision
               THEN [link EXCEPT ![l].refresh = "none"] ELSE link
    /\ To(b, "refused") /\ KeepStore
\* The second authority check and the second read of the connection.
Recheck(b) ==
    /\ At(b, "ready")
    /\ \/ /\ Row(b).state = "connected" /\ ~Row(b).expired
          /\ broker' = [broker EXCEPT ![b].phase = "resolving", ![b].old = Row(b).secret]
       \/ To(b, "refused")
    /\ UNCHANGED link /\ KeepStore
ResolveAndExecute(b) ==
    /\ At(b, "resolving") /\ To(b, IF IsActive(broker[b].old) THEN "dispatched" ELSE "refused")
    /\ UNCHANGED link /\ KeepStore
\* The 20 seconds of the dispatch are over while it sleeps.
WaitTimesOut(b) == At(b, "waiting") /\ To(b, "refused") /\ UNCHANGED link /\ KeepStore
EndDispatch(b) == broker[b].phase \in {"refused", "dispatched"} /\ Idle(b) /\ UNCHANGED link /\ KeepStore
CrashWorker(b) == ~At(b, "idle") /\ Idle(b) /\ UNCHANGED link /\ KeepStore

-----------------------------------------------------------------------------
\* AccountOAuthService.start and finish.

Consenting(c) == callback[c].consent
\* The verifier's secret and the request are two transactions: a stop between
\* them leaves what StoreSecret leaves.
StartConsent(o) ==
    /\ consent[o].state = "absent" /\ CreateSecret(ApiKey)
    /\ consent' = [consent EXCEPT ![o] = [state |-> "pending", verifier |-> NextSecret]]
    /\ UNCHANGED <<keys, link, broker, callback>>
ExpireConsent(o) ==
    /\ consent[o].state = "pending" /\ consent' = [consent EXCEPT ![o].state = "expired"]
    /\ UNCHANGED <<secret, keys, link, broker, callback>>
\* Mutant: used_at is written and not looked at.
ClaimableTwice(o) == consent[o].state \in {"pending", "used"}
Unused(o) == consent[o].state = "pending"
ClaimConsent(c, o) ==
    /\ callback[c].phase = "idle" /\ Unused(o)
    /\ consent' = [consent EXCEPT ![o].state = "used"]
    /\ callback' = [callback EXCEPT ![c] = [phase |-> "exchanging", consent |-> o, credential |-> 0]]
    /\ UNCHANGED <<secret, keys, link, broker>>
StoreCredential(c) ==
    /\ callback[c].phase = "exchanging" /\ IsActive(consent[Consenting(c)].verifier) /\ CreateSecret(ApiKey)
    /\ callback' = [callback EXCEPT ![c].phase = "stored", ![c].credential = NextSecret]
    /\ UNCHANGED <<keys, link, broker, consent>>
ConsentFails(c) ==
    /\ callback[c].phase \in {"exchanging", "stored"} /\ callback' = [callback EXCEPT ![c].phase = "closing"]
    /\ UNCHANGED <<secret, keys, link, broker, consent>>
OpenConnection(c, l) ==
    /\ callback[c].phase = "stored" /\ Connectable(l, callback[c].credential)
    /\ link' = Connected(l, callback[c].credential) /\ secret' = WithConnection(callback[c].credential)
    /\ callback' = [callback EXCEPT ![c].phase = "closing"]
    /\ UNCHANGED <<keys, broker, consent>>
RevokeVerifier(c) ==
    LET verifier == consent[Consenting(c)].verifier IN
    /\ callback[c].phase = "closing"
    /\ secret' = IF MaySetStatus(verifier, "revoked") THEN WithStatus(verifier, "revoked") ELSE secret
    /\ callback' = [callback EXCEPT ![c].phase = "over"]
    /\ UNCHANGED <<keys, link, broker, consent>>
CrashCallbacks(c) ==
    /\ callback[c].phase \notin {"idle", "over"} /\ callback' = [callback EXCEPT ![c].phase = "crashed"]
    /\ UNCHANGED <<secret, keys, link, broker, consent>>

Refreshing(b) ==
    \/ ClaimRefresh(b) \/ BeginExchange(b) \/ CreateRefreshed(b) \/ ExchangeFails(b)
    \/ FinishRefresh(b) \/ RevokeOld(b) \/ Unwind(b) \/ FailRefresh(b)
Dispatching(b) == Look(b) \/ Refreshing(b) \/ Recheck(b) \/ ResolveAndExecute(b) \/ WaitTimesOut(b) \/ EndDispatch(b)
Finishing(c) == StoreCredential(c) \/ ConsentFails(c) \/ RevokeVerifier(c) \/ \E l \in Links : OpenConnection(c, l)
AccountNext ==
    \/ StoreSecret \/ RotateActiveKey \/ ReencryptBatch \/ RetireKeyVersion(WorkerKey)
    \/ \E s \in SecretIds : ReplaceSecret(s) \/ DeleteSecret(s)
    \/ \E s \in SecretIds, status \in {"active", "disabled", "revoked"} : SetSecretStatus(s, status)
    \/ \E l \in Links, s \in SecretIds : Connect(l, s)
    \/ \E l \in Links : Disconnect(l) \/ Expire(l) \/ AgeRefresh(l)
    \/ \E l \in Links, outcome \in {"pending", "not_supported", "succeeded", "failed"} : RecordRevocation(l, outcome)
    \/ \E b \in Brokers, l \in Links : BeginDispatch(b, l)
    \/ \E b \in Brokers : Dispatching(b) \/ CrashWorker(b)
    \/ \E o \in Consents : StartConsent(o) \/ ExpireConsent(o)
    \/ \E c \in Callbacks, o \in Consents : ClaimConsent(c, o)
    \/ \E c \in Callbacks : Finishing(c) \/ CrashCallbacks(c)
AccountSpec == AccountInit /\ [][AccountNext]_accountVars

-----------------------------------------------------------------------------
\* Properties.

AccountTypeOK ==
    /\ \A s \in SecretIds : secret[s].status \in {"absent", "active", "disabled", "revoked", "deleted"}
    /\ \A l \in Links : link[l].state \in Usable \union {"absent", "disconnected"} /\ link[l].revision \in 0..MaxLeases
    /\ \A l \in Links : link[l].refresh # "none" => link[l].state = "needs_refresh"
    /\ keys.active \in keys.rows

\* A connection that is connected or refreshing is backed by an active secret,
\* whatever the owner does to the secrets while a refresh moves it to another.
LinkBacked == \A l \in Links : link[l].state \in Usable => IsActive(link[l].secret)

\* A refresh token is spent by one broker at a time: of the brokers between
\* their claim and their finish, at most one holds the connection's revision,
\* and none holds an older one unless the owner disconnected under it.
SingleFlight ==
    \A a, b \in Brokers :
        LET Holds(x) == broker[x].phase \in {"leased", "exchanging", "created"} IN
        /\ Holds(a) /\ Holds(b) /\ broker[a].link = broker[b].link /\ Row(a).state # "disconnected" => a = b
        /\ Holds(a) /\ Row(a).state # "disconnected" => Row(a).revision = broker[a].revision

\* A refresh that was refused leaves no usable credential behind: the secret it
\* created is revoked, unless the owner has connected or removed it meanwhile.
NoOrphanCredential ==
    \A b \in Brokers : broker[b].phase \in {"releasing", "refused"} /\ broker[b].created # 0 =>
        secret[broker[b].created].status \in {"revoked", "deleted"} \/ secret[broker[b].created].connected

\* A consent is exchanged by one callback, and its verifier is unusable once
\* that callback has returned, unless the owner has connected it.
ConsentOnce ==
    /\ \A c, d \in Callbacks : callback[c].phase # "idle" /\ Consenting(c) = Consenting(d) => c = d
    /\ \A c \in Callbacks : callback[c].phase = "over" =>
          LET verifier == consent[Consenting(c)].verifier IN ~IsActive(verifier) \/ secret[verifier].connected

\* The parts together.
AccountSound == AccountTypeOK /\ LinkBacked /\ SingleFlight /\ NoOrphanCredential /\ ConsentOnce

\* Disconnecting is final: a refresh in flight neither restores the connection
\* nor gives it another credential; and a refresh replaces exactly the value it
\* exchanged, never one the owner or the key maintenance has rewritten since.
DisconnectFinal == [][
    /\ \A l \in Links : link[l].state = "disconnected" => link'[l].state = "disconnected" /\ link'[l].secret = link[l].secret
    /\ \A b \in Brokers : At(b, "created") /\ broker'[b].phase = "finished" =>
          secret[broker[b].old].rotation = broker[b].rotation /\ Row(b).secret = broker[b].old
  ]_accountVars
=============================================================================
