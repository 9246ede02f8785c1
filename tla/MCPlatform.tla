----------------------------- MODULE MCPlatform -----------------------------
(***************************************************************************)
(* The parts around the job engine, checked in one run: tool access, the   *)
(* MCP gateway, the tool loop, packages and their hosts, deliveries,       *)
(* accounts, the marketplace and its installations, signing in, the Worker *)
(* process.                                                                *)
(* They share no row in these models, so a product of them would show      *)
(* nothing: `view` picks one part, or one side of it, and the others rest  *)
(* in their initial state.                                                 *)
(***************************************************************************)
EXTENDS Platform

VARIABLE view

mcVars == <<accessVars, gatewayVars, loopVars, packageVars, hostVars, deliveryVars,
            accountVars, marketplaceVars, workerVars, acquisitionVars, signInVars, view>>

-----------------------------------------------------------------------------
\* Tool access.

\* A connection whose one tool is discovered and granted.
Attached ==
    /\ mcp = [row |-> "present", enabled |-> TRUE, status |-> "connected"]
    /\ definition = [t \in Tools |-> IF t \in Remote THEN [status |-> "available", fingerprint |-> 1] ELSE NoDefinition]
    /\ grants = [t \in Tools |-> IF t \in Remote THEN [id |-> 1, fingerprint |-> 1] ELSE NoGrant] /\ lastGrant = 1
Detached ==
    /\ mcp = [row |-> "none", enabled |-> FALSE, status |-> "needs_refresh"]
    /\ definition = [t \in Tools |-> NoDefinition]
    /\ grants = [t \in Tools |-> NoGrant] /\ lastGrant = 0
MCAccessInit ==
    /\ IF view = "approval" THEN Attached ELSE Detached
    /\ remote = [t \in Tools |-> IF t \in Remote THEN 1 ELSE 0]
    /\ refreshes = [r \in Refreshers |-> [phase |-> "idle", found |-> {}]]
    /\ registered = FALSE /\ runRow = [status |-> "none", cutoff |-> 0, attempt |-> 0]
    /\ reviewed = grants /\ live = 0
    /\ calls = [a \in Attempts |-> NewCall]
    /\ invocations = <<>> /\ approvals = <<>> /\ clock = 0

\* One Attempt, while the connection and the grants change under it.
Connection ==
    LET idle == calls[1].phase \in {"none", "gathered", "waiting"} IN
    \/ CreateConnection
    \/ idle /\ (DisableConnection \/ EnableConnection \/ DeleteConnection)
    \/ \E t \in Remote : remote[t] = 1 /\ definition[t].status # "absent" /\ \E f \in Fingerprints : ServerChanges(t, f)
    \/ \E r \in Refreshers : (idle /\ BeginRefresh(r)) \/ RecordDiscovery(r) \/ \E ok \in BOOLEAN : Discover(r, ok)
    \/ \E t \in Remote : \/ idle /\ (GrantTool(t) \/ RevokeTool(t))
                         \/ grants[t].fingerprint # definition[t].fingerprint /\ ReconfirmTool(t)
    \/ SubmitWithCutoff \/ StartAttempt(1) \/ EndRun(1)
    \/ GatherDescriptors(1) \/ AssembleCatalog(1) \/ RecordRequested(1) \/ MarkDenied(1)
    \/ \E d \in calls[1].offered : CheckPermission(1, d)
    \/ Admit(1) \/ PollPermission(1) \/ MarkStarted(1)
    \/ calls[1].phase \in {"admitting", "waiting"} /\ clock = 0 /\ approvals # <<>> /\ TickClock
    \/ \E i \in DOMAIN approvals : ApproveAction(i)

\* Two Attempts and the owner's decisions, while authority is lost.
Busy == live # 0 /\ calls[live].phase \in {"waiting", "admitting", "starting", "executing"}
TimeMatters == \E a \in Attempts : calls[a].phase \in {"admitting", "waiting", "starting"}
Approval ==
    \/ SubmitWithCutoff \/ (\E a \in Attempts : StartAttempt(a) \/ ScheduleRetry(a))
    \/ Busy /\ (ClaimLapses \/ CancelRun)
    \/ ReclaimAmbiguous
    \/ \E t \in Remote : Busy /\ RevokeTool(t)
    \/ Deciding \/ (TimeMatters /\ TickClock)
    \/ \E a \in Attempts :
        \/ GatherDescriptors(a) \/ AssembleCatalog(a) \/ RecordRequested(a) \/ MarkDenied(a)
        \/ \E d \in calls[a].offered : CheckPermission(a, d)
        \/ Admit(a) \/ PollPermission(a) \/ CancelWait(a) \/ MarkStarted(a)
        \/ ConcludeInvocation(a, "succeeded")
        \/ calls[a].phase = "waiting" /\ CrashAttempt(a)

\* A built-in tool needs no approval.
BuiltinTool ==
    \/ \E t \in Builtin : (\E f \in Fingerprints : ReconcileBuiltin(t, f)) \/ GrantTool(t) \/ RevokeTool(t)
    \/ SubmitWithCutoff \/ StartAttempt(1) \/ CancelRun \/ ClaimLapses \/ ReclaimAmbiguous
    \/ GatherDescriptors(1) \/ AssembleCatalog(1) \/ RecordRequested(1) \/ MarkDenied(1)
    \/ \E d \in calls[1].offered : CheckPermission(1, d)
    \/ MarkStarted(1) \/ CrashAttempt(1) \/ (\E s \in {"succeeded", "failed", "ambiguous"} : ConcludeInvocation(1, s))

-----------------------------------------------------------------------------
\* The gateway: callers come in turn, the first one to the first server.

InTurn(a) == \A b \in Callers : b < a => callers[b].phase # "idle"
Gatewaying ==
    \/ \E a \in Callers, c \in Peers : InTurn(a) /\ (a = 1 => c = 1) /\ CallTool(a, c)
    \/ \E s \in Ids : OpenClient(s) \/ FailToOpen(s) \/ CloseClient(s) \/ (s = 1 /\ GrowOld(s))
    \/ \E a \in Callers : JoinReturns(a) \/ Answer(a) \/ CallRaises(a) \/ InvalidateReturns(a) \/ (a = 1 /\ CancelCaller(a))
    \/ callers[2].phase = "idle" /\ callers[1].phase # "idle" /\ DisablePeer(1)

MCLoopInit ==
    /\ loop = [phase |-> IF view = "loop" THEN "turn" ELSE "over", modelCalls |-> 0, toolCalls |-> 0,
               sequence |-> 0, failures |-> 0, retries |-> 0, end |-> "none"]
    /\ queue = <<>> /\ transcript = <<>> /\ seenIds = {}
    /\ spent = [reported |-> 0, total |-> 0, stored |-> 0]

-----------------------------------------------------------------------------
\* Packages: one version installed twice; two versions bound; one of them drained.

MCAccepts == [v \in Versions |-> IF v = 1 THEN {1, 2} ELSE {1, 3}]
MCFixed == [c \in Configs |-> IF c = 3 THEN 1 ELSE 0]
InstalledVersions == IF view \in {"binding", "draining"} THEN Versions ELSE {}
MCPackageInit ==
    /\ pkg = [v \in Versions |-> IF v \in InstalledVersions
                                 THEN [status |-> "active", content |-> v, stored |-> TRUE, env |-> TRUE]
                                 ELSE NoRow]
    /\ payloads = InstalledVersions /\ venvs = InstalledVersions
    /\ envRows = [v \in Versions |-> IF v \in InstalledVersions THEN "ready" ELSE "none"]
    /\ install = [i \in Installers |-> NoInstall]
    /\ removal = [d \in Removers |-> NoRemoval]
    /\ binding = [version |-> 0, config |-> 0, revision |-> 0]
    /\ edits = [u \in Editors |-> NoEdit]
    /\ packageRuns = <<>> /\ revoked = {}

InstallView ==
    \/ \E i \in Installers : \/ Installing(i)
                             \/ \E c \in Contents : (i = "i2" => pkg[1].status # "none") /\ Stage(i, 1, c)
    \/ \E d \in Removers : Removing(d) /\ (removal'[d].versions \subseteq {1})
    \/ CreatePackageInstance(1, 1) \/ CrashApi \/ DecideTrust(1, TRUE)
BindView ==
    \/ \E u \in Editors : Configuring(u)
    \/ \E c \in Configs : CreatePackageInstance(1, c)
    \/ SubmitPackageRun \/ \E r \in DOMAIN packageRuns : LaunchPackageRun(r) \/ EndPackageRun(r)
DrainView ==
    \/ \E d \in Removers : Removing(d)
    \/ Configuring("u1") \/ CreatePackageInstance(1, 1)
    \/ SubmitPackageRun \/ \E r \in DOMAIN packageRuns : LaunchPackageRun(r) \/ EndPackageRun(r)
    \/ edits["u1"].phase = "idle" /\ packageRuns # <<>> /\ (\E revoke \in BOOLEAN : DecideTrust(2, revoke))

-----------------------------------------------------------------------------
\* Deliveries.

Hooking ==
    \/ \E s \in Senders, key \in EventKeys \union {NoKey}, payload \in Payloads :
          /\ key = NoKey => s = 1 /\ payload \notin Malformed
          /\ s = 2 => payload \notin Malformed
          /\ Call(s, 1, 1, key, payload)
    \/ \E s \in Senders : Delivering(s)
    \/ \E t \in Hooks : RotateSecret(t) \/ DeleteTrigger(t) \/ (trigger[t].enabled /\ ToggleTrigger(t))
    \/ SettleJob
Listening ==
    \/ \E p \in PublishCalls, payload \in Payloads \ Malformed : (p = 2 => payload = 1) /\ Publish(p, 1, payload)
    \/ \E p \in PublishCalls : Publishing(p)
    \/ (trigger[3].enabled /\ ToggleTrigger(3)) \/ DeleteTrigger(2)
    \/ SettleJob \/ (target.enabled /\ target.definition = 1 /\ (ToggleTarget \/ RebindTarget))

-----------------------------------------------------------------------------
\* Accounts: refreshing an expired connection; consenting to a new one.

MCAccountInit ==
    /\ secret = [s \in SecretIds |-> IF view = "refresh" /\ s = 1
                                     THEN [Stored(WorkerKey) EXCEPT !.connected = TRUE] ELSE NoSecret]
    /\ keys = [rows |-> IF view = "refresh" THEN {ApiKey, WorkerKey} ELSE {ApiKey}, active |-> ApiKey]
    /\ link = [l \in Links |-> IF view = "refresh" /\ l = 1
                               THEN [NoLink EXCEPT !.state = "connected", !.secret = 1, !.expired = TRUE] ELSE NoLink]
    /\ broker = [b \in Brokers |-> IdleBroker]
    /\ consent = [o \in Consents |-> NoConsent]
    /\ callback = [c \in Callbacks |-> IdleCallback]
Refreshable ==
    \/ (\E b \in Brokers : BeginDispatch(b, 1) \/ Dispatching(b)) \/ CrashWorker("b1")
    \/ Disconnect(1) \/ Expire(1) \/ AgeRefresh(1) \/ ReencryptBatch \/ RetireKeyVersion(WorkerKey)
    \/ \E outcome \in {"pending", "succeeded"} : RecordRevocation(1, outcome)
    \/ SetSecretStatus(2, "disabled") \/ SetSecretStatus(1, "revoked")
    \/ secret[1].rotation = 0 /\ ReplaceSecret(1)
    \/ (\E b \in Brokers : broker[b].phase = "unwinding") /\ DeleteSecret(2)
Consentable ==
    \/ \E o \in Consents : StartConsent(o) \/ ExpireConsent(o)
    \/ \E c \in Callbacks, o \in Consents : ClaimConsent(c, o)
    \/ \E c \in Callbacks : Finishing(c) \/ CrashCallbacks(c)
    \/ StoreSecret \/ RotateActiveKey
    \/ \E s \in {1, 2} : DeleteSecret(s) \/ \E status \in {"active", "revoked"} : SetSecretStatus(s, status)
    \/ \E s \in {1, 2} : Connect(1, s)
    \/ \E l \in Links : Disconnect(l)

-----------------------------------------------------------------------------
\* The marketplace: x owns A, y owns B and operates the service; A holds the project.

MCVersionOf == [a \in Archives |-> 1]
MCSignerOf == [a \in Archives |-> "k1"]
Signing == IF view = "ownership" THEN {} ELSE {"A"}
MCMarketplaceInit ==
    /\ standing = [x \in Publishers \union People |-> "active"] /\ transfer = [t \in Transfers |-> NoTransfer]
    /\ member = [p \in Publishers |-> [a \in People |-> IF <<p, a>> \in {<<"A", "x">>, <<"B", "y">>} THEN "owner" ELSE "none"]]
    /\ project = [owner |-> "A", revision |-> 1, visible |-> TRUE]
    /\ signing = [p \in Publishers |-> [k \in Keys |-> IF p \in Signing THEN "active" ELSE "absent"]]
    /\ grant = [p \in Publishers |-> [k \in Keys |-> IF p \in Signing THEN [state |-> "active", revision |-> 1]
                                                     ELSE [state |-> "none", revision |-> 0]]]
    /\ gate = FreeGate /\ receiver = [r \in Receivers |-> IdleReceiver] /\ verifier = [v \in Verifiers |-> IdleVerifier]
    /\ release = [n \in ReleaseVersions |-> IF view # "listing" THEN NoRelease
                  ELSE [NoRelease EXCEPT !.publication = "ready", !.archive = "a1", !.publisher = "A", !.status = 1]]
    /\ shelf = [quarantined |-> IF view = "verification" THEN Uploads ELSE {}, final |-> IF view = "listing" THEN {"a1"} ELSE {}]
    /\ upload = [u \in Uploads |-> IF view # "verification" THEN NoUpload
                 ELSE [NoUpload EXCEPT !.state = "uploaded", !.actor = "x", !.publisher = "A", !.revision = 1,
                                       !.archive = IF u = "u1" THEN "a1" ELSE "a2"]]
HandOver == RequestTransfer("x", "t1", "B") \/ AcceptTransfer("y", "t1")
Ownership ==
    \/ \E p \in Publishers, actor \in People, k \in Keys :
          Challenge(actor, p, k) \/ Prove(actor, p, k) \/ \E state \in {"retired", "revoked"} : KeyState(actor, p, k, state)
    \/ \E actor \in People, k \in Keys : AuthorizeKey(actor, k)
    \/ \E actor \in People, t \in Transfers :
          AcceptTransfer(actor, t) \/ CancelTransfer(actor, t) \/ \E p \in Publishers : RequestTransfer(actor, t, p)
    \/ \E t \in Transfers : ExpireTransfer(t)
Listing ==
    \/ \E p \in Publishers, actor \in People, a \in People, role \in {"owner", "maintainer", "publisher", "removed"} : Membership(actor, p, a, role)
    \/ \E p \in Publishers, state \in {"active", "suspended"} : Moderate(p, state)
    \/ (\E a \in People : DisableAccount(a)) \/ Releasing
ReceivingView ==
    \/ (\E a \in {"a1", "a3"} : CreateUpload("x", "u1", a)) \/ ExpireUpload("u1") \/ UploadTokenExpires("u1") \/ LeaseExpires("u1")
    \/ \E r \in Receivers : Quarantine(r) \/ FinishReceive(r) \/ BreakReceive(r) \/ BeginReceive(r, "u1")
    \/ Verifying("v1") \/ HandOver
Verification ==
    \/ \E v \in Verifiers : (v = "v2" => upload["u1"].attempts > 0) /\ Verifying(v)
    \/ LeaseExpires("u1") \/ (verifier["v2"].phase = "idle" /\ HandOver)

-----------------------------------------------------------------------------
\* Installing a release: two tickets race while it changes; one ticket ages.

Racing ==
    \/ \E r \in Requests :
          BeginTicket(r) \/ Preparing(r) \/ HandingOff(r) \/ \E t \in Tickets : InsertTicket(r, t)
    \/ \E dist \in {"yanked", "revoked"} : ReleaseChanges(dist)
Ageing ==
    \/ \E r \in Requests : \/ BeginTicket(r) \/ Preparing(r) \/ HandingOff(r) \/ CommitCancel(r)
                           \/ InsertTicket(r, "t1") \/ BeginCancel(r, "t1")
                           \/ r = "q1" /\ localVersion = "installing" /\ InsertTicket(r, "t2")
    \/ CrashApiProcess \/ HourPasses("t1") \/ FileAges("f1")

-----------------------------------------------------------------------------
MCInit ==
    /\ view \in {"connection", "approval", "builtin", "gateway", "loop", "installing", "binding", "draining",
                "host", "hooks", "events", "refresh", "consent", "ownership", "listing", "receiving",
                "verification", "worker", "racing", "ageing", "local", "hosted"}
    /\ MCAccessInit /\ GatewayInit /\ MCLoopInit /\ MCPackageInit /\ HostInit /\ DeliveryInit
    /\ MCAccountInit /\ MCMarketplaceInit /\ AcquisitionInit /\ SignInInit
    /\ WorkerInit /\ (view # "worker" => wall = 1)

InView(v) == view = v /\ UNCHANGED view
ToolViews ==
    /\ UNCHANGED <<packageVars, hostVars, deliveryVars, accountVars, marketplaceVars, workerVars, acquisitionVars, signInVars>>
    /\ \/ InView("connection") /\ Connection /\ UNCHANGED <<gatewayVars, loopVars>>
       \/ InView("approval") /\ Approval /\ UNCHANGED <<gatewayVars, loopVars>>
       \/ InView("builtin") /\ BuiltinTool /\ UNCHANGED <<gatewayVars, loopVars>>
       \/ InView("gateway") /\ Gatewaying /\ UNCHANGED <<accessVars, loopVars>>
       \/ InView("loop") /\ LoopNext /\ UNCHANGED <<accessVars, gatewayVars>>
PackageViews ==
    /\ UNCHANGED <<accessVars, gatewayVars, loopVars, deliveryVars, accountVars, marketplaceVars, workerVars, signInVars>>
    /\ \/ InView("installing") /\ InstallView /\ UNCHANGED <<hostVars, acquisitionVars>>
       \/ InView("binding") /\ BindView /\ UNCHANGED <<hostVars, acquisitionVars>>
       \/ InView("draining") /\ DrainView /\ UNCHANGED <<hostVars, acquisitionVars>>
       \/ InView("host") /\ HostNext /\ UNCHANGED <<packageVars, acquisitionVars>>
       \/ InView("racing") /\ Racing /\ UNCHANGED <<packageVars, hostVars>>
       \/ InView("ageing") /\ Ageing /\ UNCHANGED <<packageVars, hostVars>>
ServiceViews ==
    /\ UNCHANGED <<accessVars, gatewayVars, loopVars, packageVars, hostVars, acquisitionVars, signInVars>>
    /\ \/ InView("hooks") /\ Hooking /\ UNCHANGED <<accountVars, marketplaceVars, workerVars>>
       \/ InView("events") /\ Listening /\ UNCHANGED <<accountVars, marketplaceVars, workerVars>>
       \/ InView("refresh") /\ Refreshable /\ UNCHANGED <<deliveryVars, marketplaceVars, workerVars>>
       \/ InView("consent") /\ Consentable /\ UNCHANGED <<deliveryVars, marketplaceVars, workerVars>>
       \/ InView("ownership") /\ Ownership /\ UNCHANGED <<deliveryVars, accountVars, workerVars>>
       \/ InView("listing") /\ Listing /\ UNCHANGED <<deliveryVars, accountVars, workerVars>>
       \/ InView("receiving") /\ ReceivingView /\ UNCHANGED <<deliveryVars, accountVars, workerVars>>
       \/ InView("verification") /\ Verification /\ UNCHANGED <<deliveryVars, accountVars, workerVars>>
       \/ InView("worker") /\ WorkerNext /\ UNCHANGED <<deliveryVars, accountVars, marketplaceVars>>
SignInViews ==
    /\ UNCHANGED <<accessVars, gatewayVars, loopVars, packageVars, hostVars, deliveryVars, accountVars,
                   marketplaceVars, workerVars, acquisitionVars>>
    /\ \/ InView("local") /\ LocalNext /\ UNCHANGED hostedVars
       \/ InView("hosted") /\ HostedNext /\ UNCHANGED localVars
MCNext == ToolViews \/ PackageViews \/ ServiceViews \/ SignInViews

\* Time passes; the event loops run and every await of the tool loop has a
\* timeout; the adapter's timeouts fire; the drain's waits are bounded.
Clockwork ==
    \/ InView("approval") /\ TimeMatters /\ TickClock /\ MCNext
    \/ InView("connection") /\ TickClock /\ MCNext
    \/ InView("gateway") /\ Loop /\ MCNext
    \/ InView("loop") /\ MCNext
    \/ InView("host") /\ Adapter /\ MCNext
    \/ InView("worker") /\ Stopping /\ MCNext
\* The mediator of an Attempt polls.
Polls(a) == view \in {"connection", "approval"} /\ (Admit(a) \/ PollPermission(a)) /\ MCNext
\* The Run's deadline cancels an adapter in the end.
Deadlines == InView("host") /\ CancelAdapter /\ MCNext
\* No behaviour changes its view, so one condition over the views is one for each.
MCSpec ==
    /\ MCInit /\ [][MCNext]_mcVars
    /\ WF_mcVars(Clockwork) /\ WF_mcVars(Polls(1) \/ Deadlines) /\ WF_mcVars(Polls(2))

-----------------------------------------------------------------------------
\* Nobody waits for ever: again and again no call waits for its approval, no
\* caller for its session, the loop not for its model, no adapter for its host (but
\* to write cancel to one that reads nothing), no stopping Worker for its slots.
\* Every one of them waits finitely often.
WaitsEnd == []<>(NoOneWaits /\ CallersServed /\ LoopOver /\ SessionOver /\ NotStopping)
=============================================================================
