----------------------------- MODULE ToolAccess -----------------------------
(***************************************************************************)
(* What stands between a model's wish and a dispatched tool call: the MCP  *)
(* connection and the definitions its discoveries record, the owner's      *)
(* grants and the cutoff a Run froze, the catalogue an Attempt assembled,  *)
(* the per-action approval and the start that consumes it.                 *)
(*                                                                         *)
(* One agent instance, one Run with one or more Attempts, one connection.  *)
(* An Attempt's coroutine goes on after its authority is lost, until it    *)
(* notices; the owner, the refreshing clients and the Attempts interleave  *)
(* between transactions.                                                   *)
(***************************************************************************)
EXTENDS Naturals, Sequences, FiniteSets, FiniteSetsExt

CONSTANTS
    Tools,          \* tool definitions, each under its one upstream name
    Builtin,        \* those of the process itself; the others are the connection's
    Fingerprints,   \* what a definition's material hashes to
    Unsupported,    \* the fingerprints of material with an inadmissible schema
    Attempts,       \* the Run's Attempts, 1..n
    Refreshers,     \* clients that may be refreshing the connection
    ApprovalTtl,    \* how long an approval stays open
    MaxClock,       \* bound: the clock
    MaxSequence,    \* bound: tool calls of an Attempt
    MaxGrants       \* bound: grant rows ever inserted

ASSUME AccessAssumption ==
    /\ Builtin \subseteq Tools /\ Unsupported \subseteq Fingerprints
    /\ Fingerprints \subseteq Nat \ {0} /\ ApprovalTtl \in Nat \ {0} /\ MaxClock \in Nat
    /\ Attempts \subseteq Nat \ {0}

VARIABLES
    mcp,          \* the connection: its row, enabled, catalog_status
    remote,       \* the server's own catalogue: tool -> fingerprint, 0 for none
    definition,   \* tool_definitions: tool -> status and fingerprint
    refreshes,    \* refresher -> how far its request is and what it found
    registered,   \* the Worker's registry holds the connection's source
    grants,       \* agent_tool_grants: tool -> id (0 for no row) and reviewed fingerprint
    lastGrant,    \* the AUTOINCREMENT of grant ids
    runRow,       \* the Run: status, tool_grant_cutoff_id, current Attempt
    reviewed,     \* history: the grants as they stood when the Run was submitted
    live,         \* the Attempt that holds authority, 0 for none
    calls,        \* Attempt -> its coroutine
    invocations,  \* tool_invocations, in id order
    approvals,    \* action_approvals, in id order
    clock

accessVars == <<mcp, remote, definition, refreshes, registered, grants, lastGrant, runRow, reviewed,
                live, calls, invocations, approvals, clock>>
connectionVars == <<mcp, remote, definition, refreshes>>
runVars == <<runRow, reviewed, live>>
callVars == <<calls, invocations, approvals>>

ConnectionStatus == {"connected", "unavailable", "needs_refresh", "disabled"}
ApprovalState == {"pending", "approved", "consumed", "denied", "expired", "cancelled"}
Open == {"pending", "approved"}
AttemptPhase == {"none", "gathered", "ready", "deciding", "denying", "admitting", "waiting", "starting",
          "executing", "over", "crashed"}
Dispatched == {"started", "succeeded", "failed", "ambiguous"}

NoGrant == [id |-> 0, fingerprint |-> 0]
NoDefinition == [status |-> "absent", fingerprint |-> 0]
NewCall == [phase |-> "none", offered |-> {}, tool |-> 0, fingerprint |-> 0, sequence |-> 0,
            allowed |-> FALSE, invocation |-> 0]
Remote == Tools \ Builtin

AccessInit ==
    /\ mcp = [row |-> "none", enabled |-> FALSE, status |-> "needs_refresh"]
    /\ remote = [t \in Tools |-> 0]
    /\ definition = [t \in Tools |-> NoDefinition]
    /\ refreshes = [r \in Refreshers |-> [phase |-> "idle", found |-> {}]]
    /\ registered = FALSE
    /\ grants = [t \in Tools |-> NoGrant] /\ lastGrant = 0
    /\ runRow = [status |-> "none", cutoff |-> 0, attempt |-> 0]
    /\ reviewed = grants /\ live = 0
    /\ calls = [a \in Attempts |-> NewCall]
    /\ invocations = <<>> /\ approvals = <<>> /\ clock = 0

-----------------------------------------------------------------------------
\* The connection and its definitions.

RecordedStatus(f) == IF f \in Unsupported THEN "unsupported_schema" ELSE "available"
MarkUnavailable ==
    [t \in Tools |-> IF t \in Remote /\ definition[t].status # "absent"
                     THEN [definition[t] EXCEPT !.status = "unavailable"] ELSE definition[t]]

CreateConnection ==
    /\ mcp.row = "none"
    /\ mcp' = [row |-> "present", enabled |-> TRUE, status |-> "needs_refresh"]
    /\ UNCHANGED <<remote, definition, refreshes, registered, grants, lastGrant, runVars, callVars, clock>>

\* Disabling leaves the definitions as they are: the permission check reads enabled.
DisableConnection ==
    /\ mcp.row = "present"
    /\ mcp' = [mcp EXCEPT !.enabled = FALSE, !.status = "disabled"]
    /\ UNCHANGED <<remote, definition, refreshes, registered, grants, lastGrant, runVars, callVars, clock>>

\* Mutant: enabling again restores what was known.
EnableKeeping ==
    /\ mcp.row = "present"
    /\ mcp' = [mcp EXCEPT !.enabled = TRUE, !.status = "needs_refresh"]
    /\ UNCHANGED <<remote, definition, refreshes, registered, grants, lastGrant, runVars, callVars, clock>>
EnableConnection ==
    /\ mcp.row = "present"
    /\ mcp' = [mcp EXCEPT !.enabled = TRUE, !.status = "needs_refresh"]
    /\ definition' = MarkUnavailable
    /\ UNCHANGED <<remote, refreshes, registered, grants, lastGrant, runVars, callVars, clock>>

\* Mutant: only live Runs keep a connection.
ForgetHistory == FALSE
HasHistory == \E k \in DOMAIN invocations : invocations[k].tool \in Remote
HasLiveRun == runRow.status \in {"queued", "running"} /\ \E t \in Remote : grants[t].id # 0
DeleteConnection ==
    /\ mcp.row = "present" /\ ~HasHistory /\ ~HasLiveRun
    /\ mcp' = [mcp EXCEPT !.row = "deleted"]
    /\ grants' = [t \in Tools |-> IF t \in Remote THEN NoGrant ELSE grants[t]]
    /\ definition' = [t \in Tools |-> IF t \in Remote THEN NoDefinition ELSE definition[t]]
    /\ UNCHANGED <<remote, refreshes, registered, lastGrant, runVars, callVars, clock>>

\* The server changes what it offers.
ServerChanges(t, f) ==
    /\ t \in Remote /\ remote[t] # f
    /\ remote' = [remote EXCEPT ![t] = f]
    /\ UNCHANGED <<mcp, definition, refreshes, registered, grants, lastGrant, runVars, callVars, clock>>

\* A refresh reads the row, awaits the discovery and writes what it found.
BeginRefresh(r) ==
    /\ refreshes[r].phase = "idle" /\ mcp.row = "present" /\ mcp.enabled
    /\ refreshes' = [refreshes EXCEPT ![r] = [phase |-> "asking", found |-> {}]]
    /\ UNCHANGED <<mcp, remote, definition, registered, grants, lastGrant, runVars, callVars, clock>>

Discover(r, found) ==
    /\ refreshes[r].phase = "asking"
    /\ \/ /\ found
          /\ refreshes' = [refreshes EXCEPT ![r] =
                [phase |-> "found", found |-> {<<t, remote[t]>> : t \in {u \in Remote : remote[u] # 0}}]]
       \/ ~found /\ refreshes' = [refreshes EXCEPT ![r].phase = "failed"]
    /\ UNCHANGED <<mcp, remote, definition, registered, grants, lastGrant, runVars, callVars, clock>>

Reconciled(found) ==
    [t \in Tools |->
        IF \E f \in Fingerprints : <<t, f>> \in found
        THEN LET f == CHOOSE f \in Fingerprints : <<t, f>> \in found
             IN  [status |-> RecordedStatus(f), fingerprint |-> f]
        ELSE MarkUnavailable[t]]

\* A row deleted meanwhile is reported and nothing is written; a row disabled meanwhile is written.
RecordDiscovery(r) ==
    /\ refreshes[r].phase \in {"found", "failed"}
    /\ refreshes' = [refreshes EXCEPT ![r] = [phase |-> "idle", found |-> {}]]
    /\ \/ mcp.row # "present" /\ UNCHANGED <<mcp, definition>>
       \/ /\ mcp.row = "present" /\ refreshes[r].phase = "found"
          /\ mcp' = [mcp EXCEPT !.status = "connected"]
          /\ definition' = Reconciled(refreshes[r].found)
       \/ /\ mcp.row = "present" /\ refreshes[r].phase = "failed"
          /\ mcp' = [mcp EXCEPT !.status = "unavailable"]
          /\ definition' = MarkUnavailable
    /\ UNCHANGED <<remote, registered, grants, lastGrant, runVars, callVars, clock>>

\* At its start a Worker writes the material of the tools it was built with.
ReconcileBuiltin(t, f) ==
    /\ t \in Builtin /\ f \notin Unsupported /\ definition[t].fingerprint # f
    /\ definition' = [definition EXCEPT ![t] = [status |-> "available", fingerprint |-> f]]
    /\ UNCHANGED <<mcp, remote, refreshes, registered, grants, lastGrant, runVars, callVars, clock>>

-----------------------------------------------------------------------------
\* Grants.

Grantable(t) ==
    /\ definition[t].status # "absent"
    /\ t \in Remote => mcp.row = "present" /\ mcp.enabled
Insert(t) ==
    /\ lastGrant < MaxGrants /\ lastGrant' = lastGrant + 1
    /\ grants' = [grants EXCEPT ![t] = [id |-> lastGrant', fingerprint |-> definition[t].fingerprint]]

\* A grant that exists is answered as it stands, or refused when the definition has drifted.
GrantTool(t) ==
    /\ Grantable(t) /\ grants[t].id = 0 /\ Insert(t)
    /\ UNCHANGED <<connectionVars, registered, runVars, callVars, clock>>
\* Mutant: reconfirming keeps the row and its id.
ReconfirmInPlace(t) ==
    /\ Grantable(t) /\ grants[t].id # 0 /\ UNCHANGED lastGrant
    /\ grants' = [grants EXCEPT ![t].fingerprint = definition[t].fingerprint]
    /\ UNCHANGED <<connectionVars, registered, runVars, callVars, clock>>
ReconfirmTool(t) ==
    /\ Grantable(t) /\ Insert(t)
    /\ UNCHANGED <<connectionVars, registered, runVars, callVars, clock>>
RevokeTool(t) ==
    /\ grants[t].id # 0
    /\ grants' = [grants EXCEPT ![t] = NoGrant]
    /\ UNCHANGED <<connectionVars, registered, lastGrant, runVars, callVars, clock>>

Permitted(t) ==
    /\ grants[t].id # 0 /\ grants[t].id <= runRow.cutoff
    /\ definition[t].status = "available" /\ grants[t].fingerprint = definition[t].fingerprint
    /\ t \in Remote => mcp.row = "present" /\ mcp.enabled

-----------------------------------------------------------------------------
\* The Run and its Attempts, as the job engine moves them.

Cutoff == Max({grants[t].id : t \in Tools} \cup {0})
SubmitWithCutoff ==
    /\ runRow.status = "none"
    /\ runRow' = [runRow EXCEPT !.status = "queued", !.cutoff = Cutoff]
    /\ reviewed' = grants
    /\ UNCHANGED <<connectionVars, registered, grants, lastGrant, live, callVars, clock>>

StartAttempt(a) ==
    /\ runRow.status = "queued" /\ calls[a].phase = "none"
    /\ \A b \in Attempts : b < a => calls[b].phase # "none"
    /\ runRow' = [runRow EXCEPT !.status = "running", !.attempt = a] /\ live' = a
    /\ UNCHANGED <<connectionVars, registered, grants, lastGrant, reviewed, callVars, clock>>
\* No heartbeat came through: the Attempt has no authority, and nobody has noticed yet.
ClaimLapses ==
    /\ live # 0 /\ live' = 0
    /\ UNCHANGED <<connectionVars, registered, grants, lastGrant, runRow, reviewed, callVars, clock>>
\* _reconcile_abandoned_tool_invocations, in the transaction that closes the Attempt.
AbandonedStatus(status) == CASE status = "requested" -> "cancelled" [] status = "started" -> "ambiguous" [] OTHER -> status
AbandonedClosed ==
    [k \in DOMAIN invocations |->
        IF invocations[k].attempt # runRow.attempt THEN invocations[k]
        ELSE [invocations[k] EXCEPT !.status = AbandonedStatus(invocations[k].status)]]
\* The Run ends, by recovery or by its owner, under a coroutine that may go on.
CloseUnder ==
    /\ runRow' = [runRow EXCEPT !.status = "ended"] /\ live' = 0
    /\ invocations' = IF runRow.status = "running" THEN AbandonedClosed ELSE invocations
    /\ UNCHANGED <<connectionVars, registered, grants, lastGrant, reviewed, calls, approvals, clock>>
ReclaimAmbiguous == runRow.status = "running" /\ live = 0 /\ CloseUnder
CancelRun == runRow.status \in {"queued", "running"} /\ CloseUnder
\* The coroutine itself ends the Attempt; it retries only if nothing was dispatched.
AtRest(a) == live = a /\ calls[a].phase \in {"none", "gathered", "ready", "over"}
ScheduleRetry(a) ==
    /\ AtRest(a) /\ \A k \in DOMAIN invocations : invocations[k].attempt = a => invocations[k].status \notin Dispatched
    /\ runRow' = [runRow EXCEPT !.status = "queued"] /\ live' = 0
    /\ calls' = [calls EXCEPT ![a].phase = "over"]
    /\ UNCHANGED <<connectionVars, registered, grants, lastGrant, reviewed, invocations, approvals, clock>>
EndRun(a) ==
    /\ AtRest(a) /\ runRow' = [runRow EXCEPT !.status = "ended"] /\ live' = 0
    /\ calls' = [calls EXCEPT ![a].phase = "over"]
    /\ UNCHANGED <<connectionVars, registered, grants, lastGrant, reviewed, invocations, approvals, clock>>

\* cancel_requested_at is written only by the transaction that also takes the claim away, so the
\* claim decides alone.
Authorized(a) == live = a

-----------------------------------------------------------------------------
\* The catalogue: the sources are listed first, the permissions asked after.

GatherDescriptors(a) ==
    LET known == registered \/ (mcp.row = "present" /\ mcp.enabled /\ mcp.status # "disabled")
    IN  /\ live = a /\ calls[a].phase = "none"
        /\ registered' = known
        /\ calls' = [calls EXCEPT ![a].phase = "gathered", ![a].offered =
              {<<t, definition[t].fingerprint>> :
                  t \in {u \in Tools : definition[u].status = "available" /\ (u \in Remote => known)}}]
        /\ UNCHANGED <<connectionVars, grants, lastGrant, runVars, invocations, approvals, clock>>

AssembleCatalog(a) ==
    /\ calls[a].phase = "gathered"
    /\ calls' = [calls EXCEPT ![a].phase = "ready",
                              ![a].offered = {d \in calls[a].offered : Permitted(d[1])}]
    /\ UNCHANGED <<connectionVars, registered, grants, lastGrant, runVars, invocations, approvals, clock>>

-----------------------------------------------------------------------------
\* One call through the mediator.

quiet == <<connectionVars, registered, grants, lastGrant, runVars, clock>>
Enters(a, p) == calls' = [calls EXCEPT ![a].phase = p]
\* Mutant: a started call writes a status of its own.
DispatchedAs(a, s) ==
    invocations' = [invocations EXCEPT ![calls[a].invocation].status = IF s = "started" THEN "running" ELSE s]
SetInvocation(a, s) == invocations' = [invocations EXCEPT ![calls[a].invocation].status = s]
RequiresApproval(t) == t \in Remote

CheckPermission(a, d) ==
    /\ calls[a].phase = "ready" /\ d \in calls[a].offered /\ calls[a].sequence < MaxSequence
    /\ calls' = [calls EXCEPT ![a] =
          [calls[a] EXCEPT !.phase = "deciding", !.tool = d[1], !.fingerprint = d[2],
                           !.sequence = calls[a].sequence + 1, !.allowed = Permitted(d[1])]]
    /\ UNCHANGED <<quiet, invocations, approvals>>

\* The row carries the request; without authority, or without the definition its key names, the
\* Attempt ends here.
RecordRequested(a) ==
    LET c == calls[a]
        next == IF ~c.allowed THEN "denying" ELSE IF RequiresApproval(c.tool) THEN "admitting" ELSE "starting"
    IN  /\ c.phase = "deciding"
        /\ \/ /\ Authorized(a) /\ definition[c.tool].status # "absent"
              /\ invocations' = Append(invocations,
                    [attempt |-> a, sequence |-> c.sequence, tool |-> c.tool,
                     fingerprint |-> c.fingerprint, status |-> "requested"])
              /\ calls' = [calls EXCEPT ![a].phase = next, ![a].invocation = Len(invocations')]
           \/ /\ ~(Authorized(a) /\ definition[c.tool].status # "absent")
              /\ Enters(a, "over") /\ UNCHANGED invocations
        /\ UNCHANGED <<quiet, approvals>>

MarkDenied(a) ==
    /\ calls[a].phase = "denying" /\ Enters(a, "ready")
    /\ \/ Authorized(a) /\ SetInvocation(a, "denied")
       \/ ~Authorized(a) /\ UNCHANGED invocations
    /\ UNCHANGED <<quiet, approvals>>

Settle(row, to) == IF row.state \in Open THEN [row EXCEPT !.state = to] ELSE row
\* Mutant: an open approval never expires.
NeverExpired(row) == FALSE
Expired(row) == row.expires <= clock
LiveRequest(a) == Authorized(a)
ReconcilePending(s) ==
    [i \in DOMAIN s |-> IF Expired(s[i]) THEN Settle(s[i], "expired")
                        ELSE IF ~LiveRequest(s[i].attempt) THEN Settle(s[i], "cancelled")
                        ELSE s[i]]
Matching(s, a) ==
    {i \in DOMAIN s : /\ s[i].attempt = a /\ s[i].sequence = calls[a].sequence
                      /\ s[i].tool = calls[a].tool /\ s[i].fingerprint = calls[a].fingerprint}
Request(a) == [attempt |-> a, sequence |-> calls[a].sequence, tool |-> calls[a].tool,
               fingerprint |-> calls[a].fingerprint, state |-> "pending",
               expires |-> clock + ApprovalTtl, consumedAt |-> 0]

Admit(a) ==
    LET kept == ReconcilePending(approvals)
        found == Matching(kept, a)
        state == IF found = {} THEN "none" ELSE kept[Max(found)].state
    IN  /\ calls[a].phase = "admitting"
        /\ \/ ~LiveRequest(a) /\ Enters(a, "denying") /\ approvals' = kept
           \/ /\ LiveRequest(a) /\ state = "none" /\ clock + ApprovalTtl <= MaxClock
              /\ Enters(a, "waiting") /\ approvals' = Append(kept, Request(a))
           \/ LiveRequest(a) /\ state = "pending" /\ Enters(a, "waiting") /\ approvals' = kept
           \/ LiveRequest(a) /\ state = "approved" /\ Enters(a, "starting") /\ approvals' = kept
           \/ /\ LiveRequest(a) /\ state \notin {"none", "pending", "approved"}
              /\ Enters(a, "denying") /\ approvals' = kept
        /\ UNCHANGED <<quiet, invocations>>

\* Mutant: abandoning closes the action whatever its state.
AbandonAny(a) ==
    approvals' = [i \in DOMAIN approvals |->
        IF approvals[i].attempt = a /\ approvals[i].sequence = calls[a].sequence
        THEN [approvals[i] EXCEPT !.state = "cancelled"] ELSE approvals[i]]
Abandon(a) ==
    approvals' = [i \in DOMAIN approvals |->
        IF approvals[i].attempt = a /\ approvals[i].sequence = calls[a].sequence
        THEN Settle(approvals[i], "cancelled") ELSE approvals[i]]

PollPermission(a) ==
    /\ calls[a].phase = "waiting"
    /\ \/ Permitted(calls[a].tool) /\ Enters(a, "admitting") /\ UNCHANGED approvals
       \/ ~Permitted(calls[a].tool) /\ Enters(a, "denying") /\ Abandon(a)
    /\ UNCHANGED <<quiet, invocations>>

\* The Attempt's task is cancelled while it sleeps: its deadline, a lost lease or a cancellation.
CancelWait(a) ==
    /\ calls[a].phase = "waiting" /\ Enters(a, "over") /\ Abandon(a)
    /\ \/ Authorized(a) /\ SetInvocation(a, "cancelled")
       \/ ~Authorized(a) /\ UNCHANGED invocations
    /\ UNCHANGED quiet

\* Mutant: the start trusts the admission and does not look at the expiry again.
ConsumableLate(a) == {i \in Matching(approvals, a) : approvals[i].state = "approved"}
Consumable(a) == {i \in Matching(approvals, a) : approvals[i].state = "approved" /\ ~Expired(approvals[i])}
Consumed(a) ==
    LET i == Max(Consumable(a))
    IN  [approvals EXCEPT ![i] = [approvals[i] EXCEPT !.state = "consumed", !.consumedAt = clock]]

\* The start re-evaluates the permission and consumes the approval in its own transaction.
MarkStarted(a) ==
    LET t == calls[a].tool
        granted == Permitted(t) /\ (RequiresApproval(t) => Consumable(a) # {})
    IN  /\ calls[a].phase = "starting"
        /\ \/ live # a /\ Enters(a, "over") /\ UNCHANGED <<invocations, approvals>>
           \/ /\ Authorized(a) /\ granted
              /\ Enters(a, "executing") /\ SetInvocation(a, "started")
              /\ approvals' = IF RequiresApproval(t) THEN Consumed(a) ELSE approvals
           \/ /\ Authorized(a) /\ ~granted
              /\ Enters(a, "ready") /\ SetInvocation(a, "denied") /\ UNCHANGED approvals
        /\ UNCHANGED quiet

ConcludeInvocation(a, s) ==
    /\ calls[a].phase = "executing" /\ s \in {"succeeded", "failed", "ambiguous"}
    /\ \/ Authorized(a) /\ SetInvocation(a, s) /\ Enters(a, IF s = "ambiguous" THEN "over" ELSE "ready")
       \/ ~Authorized(a) /\ Enters(a, "over") /\ UNCHANGED invocations
    /\ UNCHANGED <<quiet, approvals>>

CrashAttempt(a) ==
    /\ calls[a].phase \notin {"none", "over", "crashed"} /\ Enters(a, "crashed")
    /\ UNCHANGED <<quiet, invocations, approvals>>

-----------------------------------------------------------------------------
\* The owner.

Decided(s, i, state) == [s EXCEPT ![i].state = state]
ApproveAction(i) ==
    LET kept == ReconcilePending(approvals) IN
    /\ approvals[i].state = "pending"
    /\ approvals' = IF kept[i].state = "pending" THEN Decided(kept, i, "approved") ELSE kept
    /\ UNCHANGED <<quiet, calls, invocations>>
DenyAction(i) ==
    /\ approvals[i].state = "pending" /\ approvals' = Decided(approvals, i, "denied")
    /\ UNCHANGED <<quiet, calls, invocations>>
CancelAction(i) ==
    /\ approvals[i].state = "pending" /\ approvals' = Decided(approvals, i, "cancelled")
    /\ UNCHANGED <<quiet, calls, invocations>>
ListPending ==
    /\ approvals' = ReconcilePending(approvals)
    /\ UNCHANGED <<quiet, calls, invocations>>

TickClock ==
    /\ clock < MaxClock /\ clock' = clock + 1
    /\ UNCHANGED <<connectionVars, registered, grants, lastGrant, runVars, callVars>>

-----------------------------------------------------------------------------
Connecting ==
    \/ CreateConnection \/ DisableConnection \/ EnableConnection \/ DeleteConnection
    \/ \E t \in Remote, f \in Fingerprints \cup {0} : ServerChanges(t, f)
    \/ \E r \in Refreshers : BeginRefresh(r) \/ RecordDiscovery(r) \/ \E ok \in BOOLEAN : Discover(r, ok)
    \/ \E t \in Builtin, f \in Fingerprints : ReconcileBuiltin(t, f)
Granting == \E t \in Tools : GrantTool(t) \/ RevokeTool(t) \/ ReconfirmTool(t)
Running ==
    \/ SubmitWithCutoff \/ ClaimLapses \/ ReclaimAmbiguous \/ CancelRun
    \/ \E a \in Attempts : StartAttempt(a) \/ ScheduleRetry(a) \/ EndRun(a)
Calling ==
    \E a \in Attempts :
        \/ GatherDescriptors(a) \/ AssembleCatalog(a) \/ RecordRequested(a) \/ MarkDenied(a)
        \/ \E d \in calls[a].offered : CheckPermission(a, d)
        \/ Admit(a) \/ PollPermission(a) \/ CancelWait(a) \/ MarkStarted(a) \/ CrashAttempt(a)
        \/ \E s \in {"succeeded", "failed", "ambiguous"} : ConcludeInvocation(a, s)
Deciding ==
    \/ ListPending
    \/ \E i \in DOMAIN approvals : ApproveAction(i) \/ DenyAction(i) \/ CancelAction(i)
AccessNext == Connecting \/ Granting \/ Running \/ Calling \/ Deciding \/ TickClock

AccessFairness ==
    /\ WF_accessVars(TickClock)
    /\ \A a \in Attempts : WF_accessVars(Admit(a)) /\ WF_accessVars(PollPermission(a))
AccessSpec == AccessInit /\ [][AccessNext]_accessVars /\ AccessFairness
-----------------------------------------------------------------------------
AccessTypeOK ==
    /\ mcp \in [row : {"none", "present", "deleted"}, enabled : BOOLEAN, status : ConnectionStatus]
    /\ \A t \in Tools :
          /\ definition[t].status \in {"absent", "available", "unavailable", "unsupported_schema"}
          /\ grants[t].id \in 0..lastGrant
    /\ live \in Attempts \cup {0} /\ clock \in 0..MaxClock
    /\ \A a \in Attempts : calls[a].phase \in AttemptPhase /\ calls[a].invocation \in 0..Len(invocations)
    /\ \A k \in DOMAIN invocations :
          invocations[k].status \in Dispatched \cup {"requested", "denied", "cancelled"}
    /\ \A i \in DOMAIN approvals : approvals[i].state \in ApprovalState

Gated == {k \in DOMAIN invocations : invocations[k].status \in Dispatched /\ invocations[k].tool \in Remote}
Spent == {i \in DOMAIN approvals : approvals[i].state = "consumed"}
SameAction(k, i) ==
    /\ invocations[k].attempt = approvals[i].attempt /\ invocations[k].sequence = approvals[i].sequence
    /\ invocations[k].tool = approvals[i].tool /\ invocations[k].fingerprint = approvals[i].fingerprint

\* An external call that was dispatched spent an approval of that very action, in time, and no
\* approval let two calls through: mark_started consumes in the transaction that starts, so neither
\* the wait between admission and start nor a second Attempt opens a gap.
ApprovedOnce ==
    /\ \A k \in Gated : \E i \in Spent : SameAction(k, i) /\ approvals[i].consumedAt < approvals[i].expires
    /\ Cardinality(Gated) = Cardinality(Spent)

\* "A capability can never be silently acquired by a Run whose cutoff predates the review": what
\* starts is permitted by the very grant row the Run found at its submission, and the definition
\* still is the one that was reviewed, whatever was revoked, granted again, reconfirmed or
\* rediscovered between the catalogue, the request, the approval and the start.
NoCapabilityAcquired ==
    [][\A k \in DOMAIN invocations :
          invocations[k].status = "requested" /\ invocations'[k].status = "started" =>
             LET t == invocations[k].tool
             IN  grants[t] = reviewed[t] /\ grants[t].id # 0
                 /\ definition[t].fingerprint = reviewed[t].fingerprint
                 /\ (t \in Remote => mcp.enabled)]_accessVars

\* A catalogue that is not proven offers nothing: a connection's definition is available only while
\* its last verdict was a discovery, whatever the owner toggles and however late a refresh answers.
OfferedOnlyWhenProven ==
    \A t \in Remote : definition[t].status = "available" => mcp.status \in {"connected", "disabled"}

\* The audit keeps its references: a connection is deleted only when no invocation names one of its
\* definitions and no live Run could still call one.
HistoryKept ==
    \A k \in DOMAIN invocations : definition[invocations[k].tool].status # "absent"

\* The parts together: what the tool_invocations and action_approvals rows say of each other, of the
\* definitions they name and of the connection that offers them.
AccessSound == AccessTypeOK /\ ApprovedOnce /\ OfferedOnlyWhenProven /\ HistoryKept

\* A decision that closed an action never opens again: a denied, expired, cancelled or consumed
\* approval stays so, whoever polls, lists, abandons or decides afterwards.
DecisionFinal ==
    [][\A i \in DOMAIN approvals : approvals[i].state \notin Open => approvals'[i] = approvals[i]]_accessVars

\* A call that waits for its owner does not wait for ever: it is admitted, refused or abandoned at
\* the latest when the approval expires.
NoOneWaits == \A a \in Attempts : calls[a].phase \in {"waiting", "admitting"} => Matching(approvals, a) = {}
WaitEnds == []<>NoOneWaits
=============================================================================
