------------------------------- MODULE SignIn -------------------------------
(***************************************************************************)
(* Signing in.  Locally: the setup of the one administrator and its        *)
(* sessions, with password work that is bounded per process and runs       *)
(* between two transactions.  At the marketplace: a browser signs in with  *)
(* an external identity, consents, and a command line exchanges the code   *)
(* for a credential of its own.                                            *)
(*                                                                         *)
(* A token is known to whoever was given it, so a row stands for its       *)
(* holder; another browser, another verifier and a wrong CSRF value are    *)
(* refused without a write.  Instants are abstracted to what is asked of   *)
(* them: has the row expired.                                              *)
(***************************************************************************)
EXTENDS Naturals, Sequences, FiniteSets

CONSTANTS
    LocalCallers,  \* requests of the local API
    PasswordWork,  \* _MAX_CONCURRENT_PASSWORD_WORK
    MaxLocal,      \* bound: local sessions
    SignIns,       \* auth_transactions
    CliSignIns,    \* those a command line started
    Identities,    \* external identities
    Callbackers,   \* requests in callback
    Browsers,      \* requests of a signed-in browser
    MaxHosted      \* bound: hosted sessions

ASSUME SignInAssumption ==
    /\ CliSignIns \subseteq SignIns /\ PasswordWork \in Nat \ {0}
    /\ 0 \notin LocalCallers \union SignIns \union Identities

VARIABLES
    administrator, \* users: who set it up and the generation of its password hash
    localCall,     \* local request -> phase, outcome
    localSession,  \* auth_sessions: the request it was issued to, revoked
    signIn,        \* auth_transactions
    account,       \* external_identities with their marketplace_accounts
    callbacker,    \* request in callback -> phase, sign-in, identity
    hosted,        \* hosted_sessions
    code,          \* authorization_codes
    credential,    \* cli_credentials
    browser        \* request of a browser -> the session it authenticated with

localVars == <<administrator, localCall, localSession>>
hostedVars == <<signIn, account, callbacker, hosted, browser, code, credential>>
signInVars == <<localVars, hostedVars>>

NoOne == 0
NoSignIn == [state |-> "absent", expired |-> FALSE, account |-> NoOne, consented |-> FALSE]
IdleCall == [phase |-> "idle", kind |-> "none", hash |-> 0, outcome |-> "none"]
IdleCallbacker == [phase |-> "idle", signIn |-> NoOne, identity |-> NoOne]

SignInInit ==
    /\ administrator = [by |-> NoOne, hash |-> 0] /\ localSession = <<>>
    /\ localCall = [c \in LocalCallers |-> IdleCall]
    /\ signIn = [t \in SignIns |-> NoSignIn]
    /\ account = [i \in Identities |-> "none"]
    /\ callbacker = [c \in Callbackers |-> IdleCallbacker]
    /\ hosted = <<>> /\ code = <<>> /\ credential = <<>>
    /\ browser = [b \in Browsers |-> 0]

-----------------------------------------------------------------------------
\* AuthenticationService: setup, login and logout.

SetUp == administrator.by # NoOne
Hashing == {c \in LocalCallers : localCall[c].phase \in {"hashing", "verifying", "rehashing"}}
SetCall(c, new) == localCall' = [localCall EXCEPT ![c] = new]
Ends(c, outcome) == SetCall(c, [localCall[c] EXCEPT !.phase = "done", !.outcome = outcome])
\* The semaphore of the hasher: work is begun at once or the request is refused.
BeginWork(c, next) ==
    \/ Cardinality(Hashing \ {c}) < PasswordWork /\ SetCall(c, next)
    \/ Cardinality(Hashing \ {c}) >= PasswordWork /\ SetCall(c, [next EXCEPT !.phase = "done", !.outcome = "limited"])

BeginSetup(c) ==
    LET next == [IdleCall EXCEPT !.kind = "setup", !.phase = "hashing"] IN
    /\ localCall[c].phase = "idle"
    /\ \/ SetUp /\ SetCall(c, [next EXCEPT !.phase = "done", !.outcome = "complete"])
       \/ ~SetUp /\ BeginWork(c, next)
    /\ UNCHANGED <<administrator, localSession>>
HashPassword(c) ==
    /\ localCall[c].phase \in {"hashing", "rehashing"}
    /\ SetCall(c, [localCall[c] EXCEPT !.phase = "storing", !.hash = 2])
    /\ UNCHANGED <<administrator, localSession>>
\* Mutant: the hint before the hashing is taken for the decision.
StillOpenByHint == TRUE
StillOpen == ~SetUp
IssueLocal(c) == localSession' = Append(localSession, [to |-> c, revoked |-> FALSE])
CreateAdministrator(c) ==
    /\ localCall[c].phase = "storing" /\ localCall[c].kind = "setup"
    /\ \/ /\ StillOpen /\ Len(localSession) < MaxLocal
          /\ administrator' = [by |-> c, hash |-> 2] /\ IssueLocal(c) /\ Ends(c, "issued")
       \/ /\ ~StillOpen /\ Ends(c, "complete") /\ UNCHANGED <<administrator, localSession>>

\* An unknown name costs the same work as a known one, and is denied after it.
BeginLogin(c) ==
    /\ localCall[c].phase = "idle"
    /\ BeginWork(c, [IdleCall EXCEPT !.kind = IF SetUp THEN "login" ELSE "unknown", !.phase = "verifying", !.hash = administrator.hash])
    /\ UNCHANGED <<administrator, localSession>>
\* An obsolete hash is replaced: hashing takes the semaphore again.
VerifyPassword(c) ==
    /\ localCall[c].phase = "verifying"
    /\ \/ Ends(c, "denied")
       \/ /\ localCall[c].kind = "login" /\ localCall[c].hash = 2
          /\ SetCall(c, [localCall[c] EXCEPT !.phase = "storing", !.hash = 0])
       \/ localCall[c].kind = "login" /\ localCall[c].hash = 1 /\ BeginWork(c, [localCall[c] EXCEPT !.phase = "rehashing"])
    /\ UNCHANGED <<administrator, localSession>>
StoreSession(c) ==
    /\ localCall[c].phase = "storing" /\ localCall[c].kind = "login" /\ Len(localSession) < MaxLocal
    /\ administrator' = [administrator EXCEPT !.hash = IF localCall[c].hash = 0 THEN administrator.hash ELSE localCall[c].hash]
    /\ IssueLocal(c) /\ Ends(c, "issued")
LocalLogout(s) ==
    /\ ~localSession[s].revoked /\ localSession' = [localSession EXCEPT ![s].revoked = TRUE]
    /\ UNCHANGED <<administrator, localCall>>
\* argon2 profiles change with the release: the stored hash becomes obsolete.
ProfileChanges ==
    /\ administrator.hash = 2 /\ administrator' = [administrator EXCEPT !.hash = 1]
    /\ UNCHANGED <<localCall, localSession>>

LocalNext ==
    \/ \E c \in LocalCallers : \/ BeginSetup(c) \/ BeginLogin(c) \/ HashPassword(c) \/ VerifyPassword(c)
                               \/ CreateAdministrator(c) \/ StoreSession(c)
    \/ \E s \in DOMAIN localSession : LocalLogout(s)
    \/ ProfileChanges

-----------------------------------------------------------------------------
\* Authentication of the marketplace: from start to the browser's session.

SetSignIn(t, new) == signIn' = [signIn EXCEPT ![t] = new]
SetCallbacker(c, new) == callbacker' = [callbacker EXCEPT ![c] = new]

StartSignIn(t) ==
    /\ signIn[t].state = "absent" /\ SetSignIn(t, [NoSignIn EXCEPT !.state = "started"])
    /\ UNCHANGED <<account, callbacker, hosted, browser, code, credential>>
SignInExpires(t) ==
    /\ signIn[t].state # "absent" /\ ~signIn[t].expired /\ SetSignIn(t, [signIn[t] EXCEPT !.expired = TRUE])
    /\ UNCHANGED <<account, callbacker, hosted, browser, code, credential>>
\* The sign-in is consumed before the exchange, which may fail.
BeginCallback(c, t) ==
    /\ callbacker[c].phase = "idle" /\ signIn[t].state = "started" /\ ~signIn[t].expired
    /\ SetSignIn(t, [signIn[t] EXCEPT !.state = "consumed"])
    /\ SetCallbacker(c, [IdleCallbacker EXCEPT !.phase = "redeeming", !.signIn = t])
    /\ UNCHANGED <<account, hosted, browser, code, credential>>
Redeem(c, i) ==
    /\ callbacker[c].phase = "redeeming"
    /\ SetCallbacker(c, [callbacker[c] EXCEPT !.phase = "redeemed", !.identity = i])
    /\ UNCHANGED <<signIn, account, hosted, browser, code, credential>>
\* A refused exchange, a timeout, a dead process.
BreakCallback(c) ==
    /\ callbacker[c].phase # "idle" /\ SetCallbacker(c, IdleCallbacker)
    /\ UNCHANGED <<signIn, account, hosted, browser, code, credential>>
IssueHosted(c) ==
    LET t == callbacker[c].signIn  i == callbacker[c].identity IN
    /\ Len(hosted) < MaxHosted
    /\ hosted' = Append(hosted, [account |-> i, signIn |-> t, state |-> "live"])
    /\ SetSignIn(t, [signIn[t] EXCEPT !.account = i]) /\ SetCallbacker(c, IdleCallbacker)
\* The known account's row is locked, so its state holds until the commit.
CompleteKnown(c) ==
    LET i == callbacker[c].identity IN
    /\ callbacker[c].phase = "redeemed" /\ account[i] # "none"
    /\ \/ account[i] = "active" /\ IssueHosted(c)
       \/ account[i] # "active" /\ SetCallbacker(c, IdleCallbacker) /\ UNCHANGED <<signIn, hosted>>
    /\ UNCHANGED <<account, browser, code, credential>>
\* There is no row to lock for a new identity; its two inserts come after the
\* look, and UNIQUE(issuer, subject) rolls back the transaction that is second.
FindNobody(c) ==
    /\ callbacker[c].phase = "redeemed" /\ account[callbacker[c].identity] = "none"
    /\ SetCallbacker(c, [callbacker[c] EXCEPT !.phase = "creating"])
    /\ UNCHANGED <<signIn, account, hosted, browser, code, credential>>
IdentityFree(i) == account[i] = "none"
CompleteNew(c) ==
    LET i == callbacker[c].identity IN
    /\ callbacker[c].phase = "creating"
    /\ \/ IdentityFree(i) /\ account' = [account EXCEPT ![i] = "active"] /\ IssueHosted(c)
       \/ ~IdentityFree(i) /\ SetCallbacker(c, IdleCallbacker) /\ UNCHANGED <<signIn, account, hosted>>
    /\ UNCHANGED <<browser, code, credential>>

-----------------------------------------------------------------------------
\* A browser's requests, the code and the credential it is worth.

\* Authentication and the operation are two transactions: the second one asks
\* again whether the session is over, not whether it has been idle for too long.
Authenticate(b, s) ==
    /\ browser[b] = 0 /\ hosted[s].state = "live" /\ account[hosted[s].account] = "active"
    /\ browser' = [browser EXCEPT ![b] = s]
    /\ UNCHANGED <<signIn, account, callbacker, hosted, code, credential>>
OwnSignIn(b, t) == signIn[t].account = hosted[browser[b]].account
MayConsent(b, t) ==
    /\ hosted[browser[b]].state # "over"
    /\ signIn[t].state = "consumed" /\ ~signIn[t].consented /\ ~signIn[t].expired
    /\ t \in CliSignIns /\ OwnSignIn(b, t)
GiveConsent(b, t) ==
    /\ browser[b] # 0 /\ browser' = [browser EXCEPT ![b] = 0]
    /\ \/ /\ MayConsent(b, t)
          /\ code' = Append(code, [signIn |-> t, account |-> hosted[browser[b]].account, consumed |-> FALSE, expired |-> FALSE])
          /\ SetSignIn(t, [signIn[t] EXCEPT !.consented = TRUE])
       \/ ~MayConsent(b, t) /\ UNCHANGED <<code, signIn>>
    /\ UNCHANGED <<account, callbacker, hosted, credential>>
HostedLogout(b) ==
    /\ browser[b] # 0 /\ browser' = [browser EXCEPT ![b] = 0]
    /\ hosted' = [hosted EXCEPT ![browser[b]].state = "over"]
    /\ UNCHANGED <<signIn, account, callbacker, code, credential>>
HostedEnds(s, state) ==
    /\ hosted[s].state \notin {state, "over"} /\ hosted' = [hosted EXCEPT ![s].state = state]
    /\ UNCHANGED <<signIn, account, callbacker, browser, code, credential>>
CodeExpires(k) ==
    /\ ~code[k].expired /\ code' = [code EXCEPT ![k].expired = TRUE]
    /\ UNCHANGED <<signIn, account, callbacker, hosted, browser, credential>>
InGoodOrder(k) == account[code[k].account] = "active"
Exchange(k) ==
    /\ ~code[k].consumed /\ ~code[k].expired /\ InGoodOrder(k)
    /\ credential' = Append(credential, [code |-> k, account |-> code[k].account, live |-> TRUE])
    /\ code' = [code EXCEPT ![k].consumed = TRUE]
    /\ UNCHANGED <<signIn, account, callbacker, hosted, browser>>
CredentialEnds(d) ==
    /\ credential[d].live /\ credential' = [credential EXCEPT ![d].live = FALSE]
    /\ UNCHANGED <<signIn, account, callbacker, hosted, browser, code>>
DisableIdentity(i) ==
    /\ account[i] = "active" /\ account' = [account EXCEPT ![i] = "disabled"]
    /\ UNCHANGED <<signIn, callbacker, hosted, browser, code, credential>>

HostedNext ==
    \/ \E t \in SignIns : StartSignIn(t) \/ SignInExpires(t)
    \/ \E c \in Callbackers : \/ (\E t \in SignIns : BeginCallback(c, t)) \/ (\E i \in Identities : Redeem(c, i))
                              \/ BreakCallback(c) \/ CompleteKnown(c) \/ FindNobody(c) \/ CompleteNew(c)
    \/ \E b \in Browsers : \/ (\E s \in DOMAIN hosted : Authenticate(b, s)) \/ (\E t \in SignIns : GiveConsent(b, t))
                           \/ HostedLogout(b)
    \/ (\E s \in DOMAIN hosted, state \in {"idle", "over"} : HostedEnds(s, state))
    \/ \E k \in DOMAIN code : CodeExpires(k) \/ Exchange(k)
    \/ (\E d \in DOMAIN credential : CredentialEnds(d)) \/ \E i \in Identities : DisableIdentity(i)

SignInNext == (LocalNext /\ UNCHANGED hostedVars) \/ (HostedNext /\ UNCHANGED localVars)
SignInSpec == SignInInit /\ [][SignInNext]_signInVars

-----------------------------------------------------------------------------
\* Properties.

\* However many requests found setup open, one administrator was created and
\* nobody else was told so; sessions are given only to requests that were
\* answered with one; password work stays within its limit.
AdministratorOnce ==
    /\ \A c \in LocalCallers : localCall[c].kind = "setup" /\ localCall[c].outcome = "issued" => administrator.by = c
    /\ \A c \in LocalCallers :
          Cardinality({s \in DOMAIN localSession : localSession[s].to = c}) = (IF localCall[c].outcome = "issued" THEN 1 ELSE 0)
    /\ localSession # <<>> => SetUp
    /\ Cardinality(Hashing) <= PasswordWork

\* One sign-in is worth one session, one code and one credential, whoever
\* repeats a callback, a consent or an exchange; all of them are for the account
\* the browser signed in to, and a credential had that account's consent.
SignInOnce ==
    /\ \A r, s \in DOMAIN hosted : r # s => hosted[r].signIn # hosted[s].signIn
    /\ \A k, l \in DOMAIN code : k # l => code[k].signIn # code[l].signIn
    /\ \A d, e \in DOMAIN credential : d # e => credential[d].code # credential[e].code
    /\ \A s \in DOMAIN hosted : signIn[hosted[s].signIn].account = hosted[s].account
    /\ \A k \in DOMAIN code : signIn[code[k].signIn].account = code[k].account /\ signIn[code[k].signIn].consented
    /\ \A d \in DOMAIN credential : credential[d].account = code[credential[d].code].account

\* Both together.
SignInSound == AdministratorOnce /\ SignInOnce

\* A disabled account is given no session and no credential, though a callback,
\* a consent or a code of it is still under way.
DisabledStaysOut ==
    [][\A i \in Identities : account[i] = "disabled" =>
          /\ account'[i] = "disabled"
          /\ \A s \in DOMAIN hosted' \ DOMAIN hosted : hosted'[s].account # i
          /\ \A d \in DOMAIN credential' \ DOMAIN credential : credential'[d].account # i]_signInVars
=============================================================================
