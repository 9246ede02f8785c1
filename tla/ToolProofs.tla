----------------------------- MODULE ToolProofs -----------------------------
(***************************************************************************)
(* Proofs about a tool call: who may make it (ToolAccess), the sessions it *)
(* goes through (Gateway) and the turns of the Attempt that asks for it    *)
(* (ToolLoop), each for every value of its constants.                      *)
(***************************************************************************)
EXTENDS ToolAccess, Gateway, ToolLoop, FiniteSetTheorems, SequenceTheorems,
        WellFoundedInduction, TLAPS

-----------------------------------------------------------------------------
(* The greatest element of a bounded set, and sequences of rows.           *)

LEMMA LeastExists ==
  ASSUME NEW T, T \subseteq Nat, T # {} PROVE \E x \in T : \A y \in T : x <= y
<1> DEFINE R == OpToRel(<, Nat)
<1>1. IsWellFoundedOn(R, Nat)
  BY NatLessThanWellFounded
<1>2. \A x, y \in Nat : y < x => <<y, x>> \in R
  BY DEF OpToRel
<1> HIDE DEF R
<1>3. PICK x \in T : \A y \in T : ~(<<y, x>> \in R)
  BY <1>1, WFMin
<1>4. \A y \in T : x \in Nat /\ y \in Nat /\ ~(y < x)
  BY <1>2, <1>3
<1>5. \A y \in T : x <= y
  BY <1>4
<1> QED
  BY <1>5
LEMMA MaxOfBounded ==
  ASSUME NEW n \in Nat, NEW S, S \subseteq 0..n, S # {} PROVE Max(S) \in S /\ \A y \in S : y <= Max(S)
<1> DEFINE T == {n - y : y \in S}
<1>1. T \subseteq Nat /\ T # {}
  <2>1. ASSUME NEW y \in S PROVE n - y \in Nat
    OBVIOUS
  <2> QED
    BY <2>1
<1>2. PICK m \in T : \A y \in T : m <= y
  BY <1>1, LeastExists
<1>3. PICK x \in S : m = n - x
  BY <1>2
<1>4. \A y \in S : x >= y
  BY <1>2, <1>3
<1> QED
  BY <1>4 DEF Max

LEMMA RowSet ==
  ASSUME NEW R, NEW s \in Seq(R), NEW k \in DOMAIN s, NEW row \in R, NEW t, t = [s EXCEPT ![k] = row]
  PROVE  t \in Seq(R) /\ Len(t) = Len(s) /\ t[k] = row /\ \A i \in DOMAIN s : i # k => t[i] = s[i]
OBVIOUS
LEMMA RowsMapped ==
  ASSUME NEW R, NEW s \in Seq(R), NEW t, t = [i \in DOMAIN s |-> t[i]], \A i \in DOMAIN s : t[i] \in R
  PROVE  t \in Seq(R) /\ Len(t) = Len(s)
OBVIOUS
LEMMA RowAppended ==
  ASSUME NEW R, NEW s \in Seq(R), NEW row \in R, NEW t, t = Append(s, row)
  PROVE  /\ t \in Seq(R) /\ Len(t) = Len(s) + 1 /\ t[Len(t)] = row /\ \A i \in DOMAIN s : t[i] = s[i]
         /\ \A i \in DOMAIN t : i \in DOMAIN s \/ i = Len(t)
OBVIOUS

-----------------------------------------------------------------------------
(* ToolAccess: the connection and its definitions, the grants and the      *)
(* Run's cutoff, the calls and the approvals they spend.                   *)

ConnectionRow == [row : {"none", "present", "deleted"}, enabled : BOOLEAN, status : ConnectionStatus]
DefinitionRow == [status : {"absent", "available", "unavailable", "unsupported_schema"}, fingerprint : Nat]
ReviewRow == [id : Nat, fingerprint : Nat]
RunRowType == [status : {"none", "queued", "running", "ended"}, cutoff : Nat, attempt : Attempts \union {0}]
CallRow == [phase : AttemptPhase, offered : SUBSET (Tools \X Nat), tool : Tools \union {0}, fingerprint : Nat, sequence : Nat,
            allowed : BOOLEAN, invocation : Nat]
InvocationRow == [attempt : Attempts, sequence : Nat, tool : Tools, fingerprint : Nat,
                  status : Dispatched \union {"requested", "denied", "cancelled"}]
ApprovalRow == [attempt : Attempts, sequence : Nat, tool : Tools, fingerprint : Nat, state : ApprovalState, expires : Nat, consumedAt : Nat]

AccessTypes ==
  /\ mcp \in ConnectionRow /\ definition \in [Tools -> DefinitionRow] /\ grants \in [Tools -> ReviewRow] /\ lastGrant \in Nat
  /\ runRow \in RunRowType /\ live \in Attempts \union {0} /\ clock \in 0..MaxClock
  /\ calls \in [Attempts -> CallRow] /\ invocations \in Seq(InvocationRow) /\ approvals \in Seq(ApprovalRow)

\* A connection that is not there has no definitions.
ConnectionInv == OfferedOnlyWhenProven /\ (mcp.row # "present" => \A t \in Remote : definition[t].status = "absent")

\* A grant under the cutoff is the one the Run found.
GrantsInv ==
  /\ \A t \in Tools : grants[t].id <= lastGrant
  /\ runRow.status # "none" => runRow.cutoff <= lastGrant
                               /\ \A t \in Tools : grants[t].id # 0 /\ grants[t].id <= runRow.cutoff => grants[t] = reviewed[t]
  /\ live # 0 => runRow.status # "none"
  /\ \A a \in Attempts : calls[a].phase # "none" => runRow.status # "none"

\* A call knows its invocation, which is dispatched exactly while or after it executes.
Held == {"denying", "admitting", "waiting", "starting", "executing"}
CallFits(a, c, rows) ==
  /\ c.invocation \in 0..Len(rows)
  /\ c.phase \in Held \union {"deciding"} => c.tool \in Tools
  /\ c.phase \in Held =>
        /\ c.invocation \in DOMAIN rows
        /\ rows[c.invocation].attempt = a /\ rows[c.invocation].sequence = c.sequence
        /\ rows[c.invocation].tool = c.tool /\ rows[c.invocation].fingerprint = c.fingerprint
        /\ rows[c.invocation].status \in Dispatched <=> c.phase = "executing"
  /\ c.phase \in {"admitting", "waiting"} => c.tool \in Remote
CallsInv == \A a \in Attempts : CallFits(a, calls[a], invocations)

AccessInv == AccessTypes /\ ConnectionInv /\ HistoryKept /\ GrantsInv /\ CallsInv /\ ApprovedOnce

\* What NoCapabilityAcquired and DecisionFinal say of one step.
Reviewed ==
  \A k \in DOMAIN invocations :
     invocations[k].status = "requested" /\ invocations'[k].status = "started" =>
        LET t == invocations[k].tool
        IN  grants[t] = reviewed[t] /\ grants[t].id # 0
            /\ definition[t].fingerprint = reviewed[t].fingerprint
            /\ (t \in Remote => mcp.enabled)
Closed == \A i \in DOMAIN approvals : approvals[i].state \notin Open => approvals'[i] = approvals[i]


\* Rows of tool_invocations that a step adds or moves without dispatching any.
CallsStay(old, new) ==
  /\ DOMAIN old \subseteq DOMAIN new
  /\ \A k \in DOMAIN old : /\ new[k].attempt = old[k].attempt /\ new[k].sequence = old[k].sequence
                           /\ new[k].tool = old[k].tool /\ new[k].fingerprint = old[k].fingerprint
                           /\ new[k].status \in Dispatched <=> old[k].status \in Dispatched
  /\ \A k \in DOMAIN new : k \in DOMAIN old \/ new[k].status \notin Dispatched
\* Rows of action_approvals that a step adds or closes without spending any.
ApprovalsStay(old, new) ==
  /\ DOMAIN old \subseteq DOMAIN new
  /\ \A i \in DOMAIN old : old[i].state \notin Open => new[i] = old[i]
  /\ \A i \in DOMAIN new : (i \in DOMAIN old /\ old[i].state \notin Open) \/ new[i].state # "consumed"

LEMMA Unspent ==
  ASSUME ApprovedOnce, CallsStay(invocations, invocations'), ApprovalsStay(approvals, approvals')
  PROVE  ApprovedOnce' /\ Reviewed /\ Closed
<1>1. Gated' = Gated
  BY DEF Gated, CallsStay
<1>2. Spent' = Spent /\ \A i \in Spent : approvals'[i] = approvals[i]
  BY DEF Spent, ApprovalsStay, Open
<1>3. \A k \in Gated : \E i \in Spent : SameAction(k, i) /\ approvals[i].consumedAt < approvals[i].expires
  BY DEF ApprovedOnce
<1>4. \A k \in Gated : /\ invocations'[k].attempt = invocations[k].attempt /\ invocations'[k].sequence = invocations[k].sequence
                       /\ invocations'[k].tool = invocations[k].tool /\ invocations'[k].fingerprint = invocations[k].fingerprint
  BY DEF Gated, CallsStay
<1>5. ASSUME NEW k \in Gated PROVE \E i \in Spent : SameAction(k, i)' /\ approvals'[i].consumedAt < approvals'[i].expires
  <2>1. PICK i \in Spent : SameAction(k, i) /\ approvals[i].consumedAt < approvals[i].expires
    BY <1>3
  <2>2. SameAction(k, i)' /\ approvals'[i].consumedAt < approvals'[i].expires
    BY <1>2, <1>4, <2>1 DEF SameAction
  <2> QED
    BY <2>2
<1>6. Cardinality(Gated') = Cardinality(Spent')
  BY <1>1, <1>2 DEF ApprovedOnce
<1>7. ApprovedOnce'
  BY <1>1, <1>2, <1>5, <1>6 DEF ApprovedOnce
<1>8. Reviewed
  BY DEF Reviewed, CallsStay, Dispatched
<1>9. Closed
  BY DEF Closed, ApprovalsStay
<1> QED
  BY <1>7, <1>8, <1>9

LEMMA NothingMoves ==
  CallsStay(invocations, invocations) /\ ApprovalsStay(approvals, approvals)
BY DEF CallsStay, ApprovalsStay, Open

\* Steps outside the mediator.
LEMMA ConnectionOnly ==
  ASSUME AccessInv, mcp' \in ConnectionRow, definition' \in [Tools -> DefinitionRow], ConnectionInv', HistoryKept',
         UNCHANGED <<grants, lastGrant, runVars, callVars, clock>>
  PROVE  AccessInv' /\ Reviewed /\ Closed
<1>1. AccessTypes' /\ GrantsInv' /\ CallsInv'
  BY DEF AccessInv, AccessTypes, GrantsInv, CallsInv, runVars, callVars
<1>2. CallsStay(invocations, invocations') /\ ApprovalsStay(approvals, approvals')
  BY NothingMoves DEF callVars
<1> QED
  BY <1>1, <1>2, Unspent DEF AccessInv

LEMMA UnavailableRows ==
  ASSUME definition \in [Tools -> DefinitionRow]
  PROVE  /\ MarkUnavailable \in [Tools -> DefinitionRow]
         /\ \A t \in Tools : MarkUnavailable[t].status = "absent" <=> definition[t].status = "absent"
         /\ \A t \in Remote : MarkUnavailable[t].status # "available"
<1>1. ASSUME NEW t \in Tools
      PROVE  /\ MarkUnavailable[t] \in DefinitionRow
             /\ MarkUnavailable[t].status = "absent" <=> definition[t].status = "absent"
             /\ t \in Remote => MarkUnavailable[t].status # "available"
  <2>1. MarkUnavailable[t] = IF t \in Remote /\ definition[t].status # "absent"
                             THEN [definition[t] EXCEPT !.status = "unavailable"] ELSE definition[t]
    BY DEF MarkUnavailable
  <2>2. definition[t] \in DefinitionRow
    OBVIOUS
  <2>3. CASE t \in Remote /\ definition[t].status # "absent"
    BY <2>1, <2>2, <2>3 DEF DefinitionRow
  <2>4. CASE ~(t \in Remote /\ definition[t].status # "absent")
    BY <2>1, <2>2, <2>4 DEF DefinitionRow
  <2> QED
    BY <2>3, <2>4
<1>2. MarkUnavailable = [t \in Tools |-> MarkUnavailable[t]]
  BY DEF MarkUnavailable
<1> QED
  BY <1>1, <1>2 DEF Remote

LEMMA ReconciledRows ==
  ASSUME definition \in [Tools -> DefinitionRow], NEW found
  PROVE  /\ Reconciled(found) \in [Tools -> DefinitionRow]
         /\ \A t \in Tools : definition[t].status # "absent" => Reconciled(found)[t].status # "absent"
<1>1. ASSUME NEW t \in Tools
      PROVE  /\ Reconciled(found)[t] \in DefinitionRow
             /\ definition[t].status # "absent" => Reconciled(found)[t].status # "absent"
  <2>1. CASE \E f \in Fingerprints : <<t, f>> \in found
    <3>1. PICK f \in Fingerprints : Reconciled(found)[t] = [status |-> RecordedStatus(f), fingerprint |-> f]
      BY <2>1 DEF Reconciled
    <3> QED
      BY <3>1, AccessAssumption DEF RecordedStatus, DefinitionRow
  <2>2. CASE ~\E f \in Fingerprints : <<t, f>> \in found
    <3>1. Reconciled(found)[t] = MarkUnavailable[t]
      BY <2>2 DEF Reconciled
    <3> QED
      BY <3>1, UnavailableRows
  <2> QED
    BY <2>1, <2>2
<1>2. Reconciled(found) = [t \in Tools |-> Reconciled(found)[t]]
  BY DEF Reconciled
<1> QED
  BY <1>1, <1>2

LEMMA ToolsKnown ==
  ASSUME AccessInv, NEW k \in DOMAIN invocations
  PROVE  invocations[k] \in InvocationRow /\ invocations[k].tool \in Tools /\ definition[invocations[k].tool].status # "absent"
<1>1. invocations \in Seq(InvocationRow) /\ HistoryKept
  BY DEF AccessInv, AccessTypes
<1>2. invocations[k] \in InvocationRow
  BY <1>1
<1> QED
  BY <1>1, <1>2 DEF HistoryKept, InvocationRow

LEMMA ConnectingKeeps ==
  ASSUME AccessInv, Connecting
  PROVE  AccessInv' /\ Reviewed /\ Closed
<1>t. mcp \in ConnectionRow /\ definition \in [Tools -> DefinitionRow] /\ grants \in [Tools -> ReviewRow]
  BY DEF AccessInv, AccessTypes
<1>c. ConnectionInv /\ HistoryKept
  BY DEF AccessInv
<1>k. ASSUME UNCHANGED invocations, \A t \in Tools : definition[t].status # "absent" => definition'[t].status # "absent"
      PROVE  HistoryKept'
  BY <1>k, ToolsKnown DEF HistoryKept
<1>1. CASE CreateConnection
  <2>1. mcp' \in ConnectionRow
    BY <1>1 DEF CreateConnection, ConnectionRow, ConnectionStatus
  <2>2. ConnectionInv'
    BY <1>1, <1>c DEF CreateConnection, ConnectionInv, OfferedOnlyWhenProven
  <2> QED
    BY <1>1, <1>t, <1>k, <2>1, <2>2, ConnectionOnly DEF CreateConnection, callVars
<1>2. CASE DisableConnection
  <2>1. mcp' \in ConnectionRow
    BY <1>2, <1>t DEF DisableConnection, ConnectionRow, ConnectionStatus
  <2>2. ConnectionInv'
    BY <1>2, <1>c, <1>t DEF DisableConnection, ConnectionInv, OfferedOnlyWhenProven, ConnectionRow
  <2> QED
    BY <1>2, <1>t, <1>k, <2>1, <2>2, ConnectionOnly DEF DisableConnection, callVars
<1>3. CASE EnableConnection
  <2>1. mcp' \in ConnectionRow
    BY <1>3, <1>t DEF EnableConnection, ConnectionRow, ConnectionStatus
  <2>2. definition' = MarkUnavailable /\ mcp'.row = "present"
    BY <1>3, <1>t DEF EnableConnection, ConnectionRow
  <2>3. ConnectionInv'
    BY <1>t, <2>2, UnavailableRows DEF ConnectionInv, OfferedOnlyWhenProven
  <2>4. HistoryKept'
    BY <1>3, <1>k, <1>t, <2>2, UnavailableRows DEF EnableConnection, callVars
  <2> QED
    BY <1>3, <1>t, <2>1, <2>2, <2>3, <2>4, UnavailableRows, ConnectionOnly DEF EnableConnection
<1>4. CASE DeleteConnection
  <2>1. mcp' \in ConnectionRow /\ mcp'.row = "deleted"
    BY <1>4, <1>t DEF DeleteConnection, ConnectionRow
  <2>2. definition' \in [Tools -> DefinitionRow] /\ grants' \in [Tools -> ReviewRow]
    BY <1>4, <1>t DEF DeleteConnection, DefinitionRow, ReviewRow, NoDefinition, NoGrant
  <2>3. \A t \in Remote : definition'[t].status = "absent"
    BY <1>4 DEF DeleteConnection, NoDefinition, Remote
  <2>4. ConnectionInv'
    BY <2>1, <2>3 DEF ConnectionInv, OfferedOnlyWhenProven
  <2>5. \A k \in DOMAIN invocations : invocations[k].tool \notin Remote
    BY <1>4 DEF DeleteConnection, HasHistory
  <2>6. HistoryKept'
    BY <1>4, <2>5, ToolsKnown DEF DeleteConnection, HistoryKept, callVars
  <2>7. \A t \in Tools : grants'[t] = grants[t] \/ grants'[t] = NoGrant
    BY <1>4, <1>t DEF DeleteConnection
  <2>u. UNCHANGED <<lastGrant, runVars, callVars, clock>>
    BY <1>4 DEF DeleteConnection
  <2>8. GrantsInv'
    BY <2>7, <2>u DEF AccessInv, AccessTypes, GrantsInv, NoGrant, runVars, callVars
  <2>9. AccessTypes' /\ CallsInv'
    BY <2>1, <2>2, <2>u DEF AccessInv, AccessTypes, CallsInv, runVars, callVars
  <2>10. CallsStay(invocations, invocations') /\ ApprovalsStay(approvals, approvals')
    BY <2>u, NothingMoves DEF callVars
  <2> QED
    BY <2>4, <2>6, <2>8, <2>9, <2>10, Unspent DEF AccessInv
<1>5. CASE \/ \E t \in Remote, f \in Fingerprints \cup {0} : ServerChanges(t, f)
           \/ \E r \in Refreshers : BeginRefresh(r) \/ \E ok \in BOOLEAN : Discover(r, ok)
  <2>1. UNCHANGED <<mcp, definition, grants, lastGrant, runVars, callVars, clock>>
    BY <1>5 DEF ServerChanges, BeginRefresh, Discover
  <2> QED
    BY <1>t, <1>c, <2>1, ConnectionOnly DEF ConnectionInv, OfferedOnlyWhenProven, HistoryKept, callVars
<1>6. ASSUME NEW r \in Refreshers, RecordDiscovery(r) PROVE AccessInv' /\ Reviewed /\ Closed
  <2>u. UNCHANGED <<grants, lastGrant, runVars, callVars, clock>>
    BY <1>6 DEF RecordDiscovery
  <2>1. CASE UNCHANGED <<mcp, definition>>
    BY <1>t, <1>c, <2>1, <2>u, ConnectionOnly DEF ConnectionInv, OfferedOnlyWhenProven, HistoryKept, callVars
  <2>2. CASE mcp.row = "present" /\ mcp' = [mcp EXCEPT !.status = "connected"] /\ definition' = Reconciled(refreshes[r].found)
    <3>1. mcp' \in ConnectionRow /\ mcp'.row = "present" /\ mcp'.status = "connected"
      BY <1>t, <2>2 DEF ConnectionRow, ConnectionStatus
    <3>2. ConnectionInv'
      BY <3>1 DEF ConnectionInv, OfferedOnlyWhenProven
    <3>3. HistoryKept'
      BY <1>t, <1>k, <2>2, <2>u, ReconciledRows DEF callVars
    <3> QED
      BY <1>t, <2>2, <2>u, <3>1, <3>2, <3>3, ReconciledRows, ConnectionOnly
  <2>3. CASE mcp.row = "present" /\ mcp' = [mcp EXCEPT !.status = "unavailable"] /\ definition' = MarkUnavailable
    <3>1. mcp' \in ConnectionRow /\ mcp'.row = "present"
      BY <1>t, <2>3 DEF ConnectionRow, ConnectionStatus
    <3>2. ConnectionInv'
      BY <1>t, <2>3, <3>1, UnavailableRows DEF ConnectionInv, OfferedOnlyWhenProven
    <3>3. HistoryKept'
      BY <1>t, <1>k, <2>3, <2>u, UnavailableRows DEF callVars
    <3> QED
      BY <1>t, <2>3, <2>u, <3>1, <3>2, <3>3, UnavailableRows, ConnectionOnly
  <2> QED
    BY <1>6, <2>1, <2>2, <2>3 DEF RecordDiscovery
<1>7. ASSUME NEW t \in Builtin, NEW f \in Fingerprints, ReconcileBuiltin(t, f) PROVE AccessInv' /\ Reviewed /\ Closed
  <2> DEFINE row == [status |-> "available", fingerprint |-> f]
  <2>1. row \in DefinitionRow
    BY AccessAssumption DEF DefinitionRow
  <2>2. definition' = [definition EXCEPT ![t] = row] /\ t \in Tools /\ t \notin Remote
    BY <1>7, AccessAssumption DEF ReconcileBuiltin, Remote
  <2>3. row.status # "absent"
    OBVIOUS
  <2> HIDE DEF row
  <2>4. /\ definition' \in [Tools -> DefinitionRow] /\ \A u \in Remote : definition'[u] = definition[u]
        /\ \A u \in Tools : definition[u].status # "absent" => definition'[u].status # "absent"
    BY <1>t, <2>1, <2>2, <2>3 DEF Remote
  <2>5. UNCHANGED <<mcp, grants, lastGrant, runVars, callVars, clock>>
    BY <1>7 DEF ReconcileBuiltin
  <2>6. ConnectionInv' /\ HistoryKept'
    BY <1>c, <1>k, <2>4, <2>5 DEF ConnectionInv, OfferedOnlyWhenProven, callVars
  <2> QED
    BY <1>t, <2>4, <2>5, <2>6, ConnectionOnly
<1> QED
  BY <1>1, <1>2, <1>3, <1>4, <1>5, <1>6, <1>7 DEF Connecting

\* The owner's grants.
LEMMA GrantingKeeps ==
  ASSUME AccessInv, Granting
  PROVE  AccessInv' /\ Reviewed /\ Closed
<1>t. definition \in [Tools -> DefinitionRow] /\ grants \in [Tools -> ReviewRow] /\ lastGrant \in Nat /\ runRow \in RunRowType
  BY DEF AccessInv, AccessTypes
<1>u. UNCHANGED <<connectionVars, runVars, callVars, clock>>
  BY DEF Granting, GrantTool, ReconfirmTool, RevokeTool
<1>1. grants' \in [Tools -> ReviewRow] /\ lastGrant' \in Nat /\ GrantsInv'
  <2>g. GrantsInv
    BY DEF AccessInv
  <2>1. ASSUME NEW t \in Tools, Insert(t) PROVE grants' \in [Tools -> ReviewRow] /\ lastGrant' \in Nat /\ GrantsInv'
    <3> DEFINE row == [id |-> lastGrant + 1, fingerprint |-> definition[t].fingerprint]
    <3>1. row \in ReviewRow /\ row.id = lastGrant + 1
      BY <1>t DEF DefinitionRow, ReviewRow
    <3>2. grants' = [grants EXCEPT ![t] = row] /\ lastGrant' = lastGrant + 1
      BY <2>1 DEF Insert
    <3> HIDE DEF row
    <3>3. /\ grants' \in [Tools -> ReviewRow] /\ lastGrant' \in Nat
          /\ \A u \in Tools : grants'[u] = grants[u] \/ grants'[u].id = lastGrant + 1
      BY <1>t, <3>1, <3>2
    <3>4. \A u \in Tools : grants[u].id \in Nat
      BY <1>t DEF ReviewRow
    <3>5. runRow.cutoff \in Nat
      BY <1>t DEF RunRowType
    <3>6. \A u \in Tools : grants'[u].id <= lastGrant'
      BY <1>t, <2>g, <3>2, <3>3, <3>4 DEF GrantsInv
    <3>7. runRow.status # "none" => runRow.cutoff <= lastGrant'
                                    /\ \A u \in Tools : grants'[u].id # 0 /\ grants'[u].id <= runRow.cutoff => grants'[u] = reviewed[u]
      BY <1>t, <2>g, <3>2, <3>3, <3>5 DEF GrantsInv
    <3> QED
      BY <1>u, <2>g, <3>3, <3>6, <3>7 DEF GrantsInv, runVars, callVars
  <2>2. ASSUME NEW t \in Tools, RevokeTool(t) PROVE grants' \in [Tools -> ReviewRow] /\ lastGrant' \in Nat /\ GrantsInv'
    <3>1. grants' = [grants EXCEPT ![t] = NoGrant] /\ lastGrant' = lastGrant
      BY <2>2 DEF RevokeTool
    <3>2. NoGrant \in ReviewRow /\ NoGrant.id = 0
      BY DEF NoGrant, ReviewRow
    <3>3. grants' \in [Tools -> ReviewRow] /\ \A u \in Tools : grants'[u] = grants[u] \/ grants'[u].id = 0
      BY <1>t, <3>1, <3>2
    <3> QED
      BY <1>t, <1>u, <2>g, <3>1, <3>3 DEF GrantsInv, runVars, callVars
  <2> QED
    BY <2>1, <2>2 DEF Granting, GrantTool, ReconfirmTool
<1>2. AccessTypes' /\ ConnectionInv' /\ HistoryKept' /\ CallsInv'
  BY <1>u, <1>1 DEF AccessInv, AccessTypes, ConnectionInv, OfferedOnlyWhenProven, HistoryKept, CallsInv, connectionVars, runVars, callVars
<1>3. CallsStay(invocations, invocations') /\ ApprovalsStay(approvals, approvals')
  BY <1>u, NothingMoves DEF callVars
<1> QED
  BY <1>1, <1>2, <1>3, Unspent DEF AccessInv

\* The cutoff is the greatest id granted so far.
LEMMA CutoffBounds ==
  ASSUME AccessInv
  PROVE  Cutoff \in Nat /\ Cutoff <= lastGrant
<1> DEFINE ids == {grants[t].id : t \in Tools} \cup {0}
<1>1. ids \subseteq 0..lastGrant /\ ids # {} /\ lastGrant \in Nat
  <2>1. ASSUME NEW t \in Tools PROVE grants[t].id \in 0..lastGrant
    <3>1. grants[t] \in ReviewRow /\ grants[t].id <= lastGrant /\ lastGrant \in Nat
      BY DEF AccessInv, AccessTypes, GrantsInv
    <3> QED
      BY <3>1 DEF ReviewRow
  <2>2. lastGrant \in Nat
    BY DEF AccessInv, AccessTypes
  <2> QED
    BY <2>1, <2>2
<1> HIDE DEF ids
<1>2. Max(ids) \in 0..lastGrant
  BY <1>1, MaxOfBounded
<1>3. Cutoff = Max(ids)
  BY DEF Cutoff, ids
<1> QED
  BY <1>1, <1>2, <1>3

\* A step that moves the Run and at most ends coroutines.
LEMMA RunOnly ==
  ASSUME AccessInv, runRow' \in RunRowType, live' \in Attempts \union {0}, calls' \in [Attempts -> CallRow],
         invocations' \in Seq(InvocationRow), CallsStay(invocations, invocations'), CallsInv', HistoryKept', GrantsInv',
         UNCHANGED <<connectionVars, registered, grants, lastGrant, approvals, clock>>
  PROVE  AccessInv' /\ Reviewed /\ Closed
<1>1. ApprovalsStay(approvals, approvals')
  BY NothingMoves
<1>2. ApprovedOnce' /\ Reviewed /\ Closed
  BY <1>1, Unspent DEF AccessInv
<1>3. AccessTypes' /\ ConnectionInv'
  BY DEF AccessInv, AccessTypes, ConnectionInv, OfferedOnlyWhenProven, connectionVars
<1> QED
  BY <1>2, <1>3 DEF AccessInv

LEMMA AbandonedRows ==
  ASSUME AccessInv
  PROVE  /\ AbandonedClosed \in Seq(InvocationRow) /\ Len(AbandonedClosed) = Len(invocations)
         /\ CallsStay(invocations, AbandonedClosed)
<1> DEFINE new == AbandonedClosed
<1>1. invocations \in Seq(InvocationRow)
  BY DEF AccessInv, AccessTypes
<1>2. ASSUME NEW k \in DOMAIN invocations
      PROVE  /\ new[k] \in InvocationRow
             /\ new[k].attempt = invocations[k].attempt /\ new[k].sequence = invocations[k].sequence
             /\ new[k].tool = invocations[k].tool /\ new[k].fingerprint = invocations[k].fingerprint
             /\ new[k].status \in Dispatched <=> invocations[k].status \in Dispatched
  <2>1. invocations[k] \in InvocationRow
    BY <1>1
  <2>2. CASE invocations[k].attempt # runRow.attempt
    BY <2>1, <2>2 DEF AbandonedClosed
  <2>3. CASE invocations[k].attempt = runRow.attempt
    <3>1. new[k] = [invocations[k] EXCEPT !.status = AbandonedStatus(invocations[k].status)]
      BY <2>3 DEF AbandonedClosed
    <3>2. /\ AbandonedStatus(invocations[k].status) \in Dispatched \union {"requested", "denied", "cancelled"}
          /\ AbandonedStatus(invocations[k].status) \in Dispatched <=> invocations[k].status \in Dispatched
      BY <2>1 DEF AbandonedStatus, InvocationRow, Dispatched
    <3> QED
      BY <2>1, <3>1, <3>2 DEF InvocationRow
  <2> QED
    BY <2>2, <2>3
<1>3. new = [k \in DOMAIN invocations |-> new[k]]
  BY DEF AbandonedClosed
<1> HIDE DEF new
<1>4. new \in Seq(InvocationRow) /\ Len(new) = Len(invocations) /\ DOMAIN new = DOMAIN invocations
  BY <1>1, <1>2, <1>3, RowsMapped
<1>5. CallsStay(invocations, new)
  BY <1>2, <1>4 DEF CallsStay
<1> QED
  BY <1>4, <1>5 DEF new

\* Rows that stay keep their definitions, and the calls that name them.
LEMMA RowsStay ==
  ASSUME AccessInv, CallsStay(invocations, invocations'), DOMAIN invocations' = DOMAIN invocations,
         invocations' \in Seq(InvocationRow), UNCHANGED definition
  PROVE  /\ HistoryKept'
         /\ \A a \in Attempts : CallFits(a, calls[a], invocations')
<1>1. HistoryKept'
  BY DEF AccessInv, HistoryKept, CallsStay
<1>2. invocations \in Seq(InvocationRow)
  BY DEF AccessInv, AccessTypes
<1>3. Len(invocations') = Len(invocations)
  BY <1>2
<1>4. ASSUME NEW a \in Attempts PROVE CallFits(a, calls[a], invocations')
  <2>1. CallFits(a, calls[a], invocations)
    BY DEF AccessInv, CallsInv
  <2> QED
    BY <1>3, <2>1 DEF CallFits, CallsStay
<1> QED
  BY <1>1, <1>4

LEMMA RunningKeeps ==
  ASSUME AccessInv, Running
  PROVE  AccessInv' /\ Reviewed /\ Closed
<1>t. /\ runRow \in RunRowType /\ live \in Attempts \union {0} /\ calls \in [Attempts -> CallRow]
      /\ invocations \in Seq(InvocationRow) /\ lastGrant \in Nat
  BY DEF AccessInv, AccessTypes
<1>g. GrantsInv /\ HistoryKept /\ CallsInv
  BY DEF AccessInv
<1>z. \A a \in Attempts : a # 0
  BY AccessAssumption
<1>n. CallsStay(invocations, invocations)
  BY NothingMoves
<1>1. CASE SubmitWithCutoff
  <2>u. UNCHANGED <<connectionVars, registered, grants, lastGrant, live, callVars, clock>> /\ reviewed' = grants
    BY <1>1 DEF SubmitWithCutoff
  <2>1. runRow' \in RunRowType /\ runRow'.status = "queued" /\ runRow'.cutoff = Cutoff
    BY <1>1, <1>t, CutoffBounds DEF SubmitWithCutoff, RunRowType
  <2>2. GrantsInv'
    BY <1>t, <1>g, <2>u, <2>1, CutoffBounds DEF GrantsInv, callVars
  <2>3. HistoryKept' /\ CallsInv'
    BY <1>g, <2>u DEF HistoryKept, CallsInv, connectionVars, callVars
  <2> QED
    BY <1>t, <1>n, <2>u, <2>1, <2>2, <2>3, RunOnly DEF callVars
<1>2. CASE ClaimLapses
  <2>u. UNCHANGED <<connectionVars, registered, grants, lastGrant, runRow, reviewed, callVars, clock>> /\ live' = 0
    BY <1>2 DEF ClaimLapses
  <2>2. GrantsInv'
    BY <1>g, <2>u DEF GrantsInv, callVars
  <2>3. HistoryKept' /\ CallsInv'
    BY <1>g, <2>u DEF HistoryKept, CallsInv, connectionVars, callVars
  <2> QED
    BY <1>t, <1>n, <2>u, <2>2, <2>3, RunOnly DEF callVars
<1>3. CASE ReclaimAmbiguous \/ CancelRun
  <2>1. CloseUnder /\ runRow.status # "none"
    BY <1>3 DEF ReclaimAmbiguous, CancelRun
  <2>u. UNCHANGED <<connectionVars, registered, grants, lastGrant, reviewed, calls, approvals, clock>> /\ live' = 0
    BY <2>1 DEF CloseUnder
  <2>2. runRow' \in RunRowType /\ runRow'.status = "ended" /\ runRow'.cutoff = runRow.cutoff
    BY <1>t, <2>1 DEF CloseUnder, RunRowType
  <2>3. /\ invocations' \in Seq(InvocationRow) /\ CallsStay(invocations, invocations')
        /\ Len(invocations') = Len(invocations)
    <3>1. invocations' = AbandonedClosed \/ invocations' = invocations
      BY <2>1 DEF CloseUnder
    <3> QED
      BY <1>t, <1>n, <3>1, AbandonedRows
  <2>4. HistoryKept' /\ \A a \in Attempts : CallFits(a, calls[a], invocations')
    <3>1. DOMAIN invocations' = DOMAIN invocations
      BY <1>t, <2>3
    <3> QED
      BY <2>u, <2>3, <3>1, RowsStay DEF connectionVars
  <2>5. CallsInv'
    BY <2>u, <2>4 DEF CallsInv
  <2>6. GrantsInv'
    BY <1>g, <2>1, <2>u, <2>2 DEF GrantsInv
  <2> QED
    BY <1>t, <2>u, <2>2, <2>3, <2>4, <2>5, <2>6, RunOnly
<1>4. ASSUME NEW a \in Attempts, StartAttempt(a) PROVE AccessInv' /\ Reviewed /\ Closed
  <2>u. UNCHANGED <<connectionVars, registered, grants, lastGrant, reviewed, callVars, clock>> /\ live' = a
    BY <1>4 DEF StartAttempt
  <2>1. runRow' \in RunRowType /\ runRow'.status = "running" /\ runRow'.cutoff = runRow.cutoff /\ runRow.status # "none"
    BY <1>4, <1>t DEF StartAttempt, RunRowType
  <2>2. GrantsInv'
    BY <1>g, <2>u, <2>1 DEF GrantsInv, callVars
  <2>3. HistoryKept' /\ CallsInv'
    BY <1>g, <2>u DEF HistoryKept, CallsInv, connectionVars, callVars
  <2> QED
    BY <1>t, <1>n, <2>u, <2>1, <2>2, <2>3, RunOnly DEF callVars
<1>5. ASSUME NEW a \in Attempts, ScheduleRetry(a) \/ EndRun(a) PROVE AccessInv' /\ Reviewed /\ Closed
  <2>u. /\ UNCHANGED <<connectionVars, registered, grants, lastGrant, reviewed, invocations, approvals, clock>> /\ live' = 0
        /\ calls' = [calls EXCEPT ![a].phase = "over"] /\ live = a
    BY <1>5 DEF ScheduleRetry, EndRun, AtRest
  <2>1. runRow.status # "none"
    BY <1>g, <1>z, <2>u DEF GrantsInv
  <2>2. runRow' \in RunRowType /\ runRow'.status # "none" /\ runRow'.cutoff = runRow.cutoff
    BY <1>5, <1>t DEF ScheduleRetry, EndRun, RunRowType
  <2> DEFINE row == [calls[a] EXCEPT !.phase = "over"]
  <2>3. calls[a] \in CallRow /\ CallFits(a, calls[a], invocations)
    BY <1>t, <1>g DEF CallsInv
  <2>4. row \in CallRow /\ CallFits(a, row, invocations)
    BY <2>3 DEF CallRow, AttemptPhase, CallFits, Held
  <2>5. calls' = [calls EXCEPT ![a] = row]
    BY <2>u
  <2> HIDE DEF row
  <2>6. calls' \in [Attempts -> CallRow] /\ CallsInv'
    BY <1>t, <1>g, <2>u, <2>4, <2>5 DEF CallsInv
  <2>7. GrantsInv'
    BY <1>g, <2>u, <2>1, <2>2 DEF GrantsInv
  <2>8. HistoryKept'
    BY <1>g, <2>u DEF HistoryKept, connectionVars
  <2> QED
    BY <1>t, <1>n, <2>u, <2>2, <2>6, <2>7, <2>8, RunOnly
<1> QED
  BY <1>1, <1>2, <1>3, <1>4, <1>5 DEF Running

\* One coroutine moves; no call is dispatched by it and no approval spent.
LEMMA CallMoves ==
  ASSUME AccessInv, NEW a \in Attempts, NEW row \in CallRow, calls' = [calls EXCEPT ![a] = row], runRow.status # "none",
         UNCHANGED <<connectionVars, grants, lastGrant, runVars, clock>>,
         invocations' \in Seq(InvocationRow), CallsStay(invocations, invocations'), HistoryKept',
         approvals' \in Seq(ApprovalRow), ApprovalsStay(approvals, approvals'), CallFits(a, row, invocations')
  PROVE  AccessInv' /\ Reviewed /\ Closed
<1>1. ApprovedOnce' /\ Reviewed /\ Closed
  BY Unspent DEF AccessInv
<1>t. calls \in [Attempts -> CallRow] /\ invocations \in Seq(InvocationRow)
  BY DEF AccessInv, AccessTypes
<1>2. calls' \in [Attempts -> CallRow] /\ calls'[a] = row /\ \A b \in Attempts : b # a => calls'[b] = calls[b]
  BY <1>t
<1>3. AccessTypes' /\ ConnectionInv' /\ GrantsInv'
  BY <1>2 DEF AccessInv, AccessTypes, ConnectionInv, OfferedOnlyWhenProven, GrantsInv, connectionVars, runVars
<1>4. Len(invocations) <= Len(invocations') /\ Len(invocations) \in Nat /\ Len(invocations') \in Nat
  BY <1>t DEF CallsStay
<1>5. ASSUME NEW b \in Attempts PROVE CallFits(b, calls'[b], invocations')
  <2>1. CASE b = a
    BY <1>2, <2>1
  <2>2. CASE b # a
    <3>1. CallFits(b, calls[b], invocations)
      BY DEF AccessInv, CallsInv
    <3>2. CallFits(b, calls[b], invocations')
      BY <1>4, <3>1 DEF CallFits, CallsStay
    <3> QED
      BY <1>2, <2>2, <3>2
  <2> QED
    BY <2>1, <2>2
<1>6. CallsInv'
  BY <1>5 DEF CallsInv
<1> QED
  BY <1>1, <1>3, <1>6 DEF AccessInv

\* A coroutine moves on with its invocation as it was, or lets go of it.
LEMMA CallEnters ==
  ASSUME AccessInv, NEW a \in Attempts, NEW p \in AttemptPhase \ {"none"}, calls[a].phase # "none", Enters(a, p), UNCHANGED quiet,
         invocations' \in Seq(InvocationRow), CallsStay(invocations, invocations'), DOMAIN invocations' = DOMAIN invocations,
         approvals' \in Seq(ApprovalRow), ApprovalsStay(approvals, approvals'),
         \/ p \notin Held \union {"deciding"}
         \/ /\ calls[a].phase \in Held \ {"executing"} /\ p \in Held \ {"executing"}
            /\ p \in {"admitting", "waiting"} => calls[a].phase \in {"admitting", "waiting"}
  PROVE  AccessInv' /\ Reviewed /\ Closed
<1>1. calls[a] \in CallRow /\ runRow.status # "none"
  BY DEF AccessInv, AccessTypes, GrantsInv
<1>2. HistoryKept' /\ CallFits(a, calls[a], invocations')
  BY RowsStay DEF quiet, connectionVars
<1> DEFINE row == [calls[a] EXCEPT !.phase = p]
<1>3. row \in CallRow /\ CallFits(a, row, invocations')
  BY <1>1, <1>2 DEF CallRow, CallFits, Held
<1>4. calls' = [calls EXCEPT ![a] = row]
  BY DEF Enters
<1> HIDE DEF row
<1> QED
  BY <1>1, <1>2, <1>3, <1>4, CallMoves DEF quiet

LEMMA StatusSet ==
  ASSUME AccessInv, NEW a \in Attempts, calls[a].phase \in Held, NEW s \in Dispatched \union {"requested", "denied", "cancelled"},
         SetInvocation(a, s)
  PROVE  LET k == calls[a].invocation
         IN  /\ k \in DOMAIN invocations /\ invocations' \in Seq(InvocationRow) /\ Len(invocations') = Len(invocations)
             /\ DOMAIN invocations' = DOMAIN invocations
             /\ invocations'[k] = [invocations[k] EXCEPT !.status = s] /\ invocations[k] \in InvocationRow
             /\ invocations'[k].status = s
             /\ \A j \in DOMAIN invocations : j # k => invocations'[j] = invocations[j]
             /\ (s \in Dispatched <=> calls[a].phase = "executing") => CallsStay(invocations, invocations')
<1> DEFINE k == calls[a].invocation
           row == [invocations[k] EXCEPT !.status = s]
<1>1. invocations \in Seq(InvocationRow) /\ CallFits(a, calls[a], invocations)
  BY DEF AccessInv, AccessTypes, CallsInv
<1>2. k \in DOMAIN invocations /\ (invocations[k].status \in Dispatched <=> calls[a].phase = "executing")
  BY <1>1 DEF CallFits
<1>3. invocations[k] \in InvocationRow
  BY <1>1, <1>2
<1>4. row \in InvocationRow /\ row.status = s
  BY <1>3 DEF InvocationRow
<1>5. /\ row.attempt = invocations[k].attempt /\ row.sequence = invocations[k].sequence
      /\ row.tool = invocations[k].tool /\ row.fingerprint = invocations[k].fingerprint
  BY <1>3 DEF InvocationRow
<1>6. invocations' = [invocations EXCEPT ![k] = row]
  BY DEF SetInvocation
<1>7. row = [invocations[k] EXCEPT !.status = s]
  OBVIOUS
<1> HIDE DEF row, k
<1>8. /\ invocations' \in Seq(InvocationRow) /\ Len(invocations') = Len(invocations) /\ invocations'[k] = row
      /\ \A j \in DOMAIN invocations : j # k => invocations'[j] = invocations[j]
  BY <1>1, <1>2, <1>4, <1>6, RowSet
<1>9. DOMAIN invocations' = DOMAIN invocations
  BY <1>6
<1>10. (s \in Dispatched <=> calls[a].phase = "executing") => CallsStay(invocations, invocations')
  BY <1>2, <1>4, <1>5, <1>8, <1>9 DEF CallsStay
<1> QED
  BY <1>2, <1>3, <1>4, <1>7, <1>8, <1>9, <1>10 DEF k

\* Settling closes what is open and leaves what is closed.
LEMMA ApprovalsSettle ==
  ASSUME AccessInv, NEW new, new = [i \in DOMAIN approvals |-> new[i]],
         \A i \in DOMAIN approvals : \/ new[i] = approvals[i] /\ approvals[i].state \in ApprovalState
                                     \/ \E to \in {"expired", "cancelled"} : new[i] = Settle(approvals[i], to)
  PROVE  new \in Seq(ApprovalRow) /\ Len(new) = Len(approvals) /\ DOMAIN new = DOMAIN approvals /\ ApprovalsStay(approvals, new)
<1>1. approvals \in Seq(ApprovalRow)
  BY DEF AccessInv, AccessTypes
<1>2. ASSUME NEW i \in DOMAIN approvals
      PROVE  /\ new[i] \in ApprovalRow
             /\ approvals[i].state \notin Open => new[i] = approvals[i]
             /\ approvals[i].state \notin Open \/ new[i].state # "consumed"
  <2>1. approvals[i] \in ApprovalRow
    BY <1>1
  <2>2. CASE new[i] = approvals[i]
    BY <2>1, <2>2 DEF Open
  <2>3. CASE new[i] # approvals[i]
    <3>1. PICK to \in {"expired", "cancelled"} : new[i] = Settle(approvals[i], to)
      BY <2>3
    <3>2. new[i] = [approvals[i] EXCEPT !.state = to] /\ approvals[i].state \in Open
      BY <2>3, <3>1 DEF Settle
    <3> QED
      BY <2>1, <3>2 DEF ApprovalRow, ApprovalState
  <2> QED
    BY <2>2, <2>3
<1>3. new \in Seq(ApprovalRow) /\ Len(new) = Len(approvals) /\ DOMAIN new = DOMAIN approvals
  BY <1>1, <1>2, RowsMapped
<1> QED
  BY <1>2, <1>3 DEF ApprovalsStay

LEMMA ApprovalStates ==
  ASSUME AccessInv PROVE approvals \in Seq(ApprovalRow) /\ \A i \in DOMAIN approvals : approvals[i] \in ApprovalRow /\ approvals[i].state \in ApprovalState
<1>1. approvals \in Seq(ApprovalRow)
  BY DEF AccessInv, AccessTypes
<1>2. \A i \in DOMAIN approvals : approvals[i] \in ApprovalRow
  BY <1>1
<1> QED
  BY <1>1, <1>2 DEF ApprovalRow

LEMMA ReconciledApprovals ==
  ASSUME AccessInv
  PROVE  LET new == ReconcilePending(approvals)
         IN  new \in Seq(ApprovalRow) /\ Len(new) = Len(approvals) /\ DOMAIN new = DOMAIN approvals /\ ApprovalsStay(approvals, new)
<1> DEFINE new == ReconcilePending(approvals)
<1>1. new = [i \in DOMAIN approvals |-> new[i]]
  BY DEF ReconcilePending
<1>2. \A i \in DOMAIN approvals : \/ new[i] = approvals[i] /\ approvals[i].state \in ApprovalState
                                  \/ \E to \in {"expired", "cancelled"} : new[i] = Settle(approvals[i], to)
  BY ApprovalStates DEF ReconcilePending
<1> HIDE DEF new
<1>3. new \in Seq(ApprovalRow) /\ Len(new) = Len(approvals) /\ DOMAIN new = DOMAIN approvals /\ ApprovalsStay(approvals, new)
  BY <1>1, <1>2, ApprovalsSettle
<1> QED
  BY <1>3 DEF new

LEMMA AbandonedApprovals ==
  ASSUME AccessInv, NEW a \in Attempts, Abandon(a)
  PROVE  approvals' \in Seq(ApprovalRow) /\ ApprovalsStay(approvals, approvals')
<1> DEFINE new == [i \in DOMAIN approvals |->
        IF approvals[i].attempt = a /\ approvals[i].sequence = calls[a].sequence
        THEN Settle(approvals[i], "cancelled") ELSE approvals[i]]
<1>1. new = [i \in DOMAIN approvals |-> new[i]]
  OBVIOUS
<1>2. \A i \in DOMAIN approvals : \/ new[i] = approvals[i] /\ approvals[i].state \in ApprovalState
                                  \/ \E to \in {"expired", "cancelled"} : new[i] = Settle(approvals[i], to)
  BY ApprovalStates
<1>3. approvals' = new
  BY DEF Abandon
<1> HIDE DEF new
<1> QED
  BY <1>1, <1>2, <1>3, ApprovalsSettle

\* The owner decides, or the rows are listed.
LEMMA DecidingKeeps ==
  ASSUME AccessInv, Deciding
  PROVE  AccessInv' /\ Reviewed /\ Closed
<1>u. UNCHANGED <<quiet, calls, invocations>>
  BY DEF Deciding, ListPending, ApproveAction, DenyAction, CancelAction
<1>1. ASSUME NEW rows \in Seq(ApprovalRow), DOMAIN rows = DOMAIN approvals, ApprovalsStay(approvals, rows),
             NEW i \in DOMAIN approvals, approvals[i].state = "pending", NEW state \in {"approved", "denied", "cancelled"},
             approvals' = Decided(rows, i, state)
      PROVE  approvals' \in Seq(ApprovalRow) /\ ApprovalsStay(approvals, approvals')
  <2> DEFINE row == [rows[i] EXCEPT !.state = state]
  <2>1. rows[i] \in ApprovalRow
    BY <1>1
  <2>2. row \in ApprovalRow /\ row.state # "consumed"
    BY <2>1 DEF ApprovalRow, ApprovalState
  <2>3. approvals' = [rows EXCEPT ![i] = row]
    BY <1>1 DEF Decided
  <2> HIDE DEF row
  <2>4. /\ approvals' \in Seq(ApprovalRow) /\ Len(approvals') = Len(rows) /\ approvals'[i] = row
        /\ \A j \in DOMAIN rows : j # i => approvals'[j] = rows[j]
    BY <1>1, <2>2, <2>3, RowSet
  <2>5. DOMAIN approvals' = DOMAIN rows
    BY <2>3
  <2> QED
    BY <1>1, <2>2, <2>4, <2>5 DEF ApprovalsStay, Open
<1>2. approvals' \in Seq(ApprovalRow) /\ ApprovalsStay(approvals, approvals')
  <2>1. CASE approvals' = ReconcilePending(approvals)
    BY <2>1, ReconciledApprovals
  <2>2. ASSUME NEW i \in DOMAIN approvals, ApproveAction(i) PROVE approvals' \in Seq(ApprovalRow) /\ ApprovalsStay(approvals, approvals')
    <3> DEFINE kept == ReconcilePending(approvals)
    <3>1. kept \in Seq(ApprovalRow) /\ DOMAIN kept = DOMAIN approvals /\ ApprovalsStay(approvals, kept)
      BY ReconciledApprovals
    <3>2. approvals[i].state = "pending" /\ (approvals' = kept \/ approvals' = Decided(kept, i, "approved"))
      BY <2>2 DEF ApproveAction
    <3> HIDE DEF kept
    <3> QED
      BY <1>1, <3>1, <3>2
  <2>3. ASSUME NEW i \in DOMAIN approvals, DenyAction(i) \/ CancelAction(i)
        PROVE  approvals' \in Seq(ApprovalRow) /\ ApprovalsStay(approvals, approvals')
    <3>1. approvals[i].state = "pending" /\ \E state \in {"denied", "cancelled"} : approvals' = Decided(approvals, i, state)
      BY <2>3 DEF DenyAction, CancelAction
    <3> QED
      BY <1>1, <3>1, ApprovalStates, NothingMoves
  <2> QED
    BY <2>1, <2>2, <2>3 DEF Deciding, ListPending
<1>3. ApprovedOnce' /\ Reviewed /\ Closed
  <2>1. CallsStay(invocations, invocations')
    BY <1>u, NothingMoves
  <2> QED
    BY <1>2, <2>1, Unspent DEF AccessInv
<1>4. AccessTypes' /\ ConnectionInv' /\ HistoryKept' /\ GrantsInv' /\ CallsInv'
  BY <1>u, <1>2 DEF AccessInv, AccessTypes, ConnectionInv, OfferedOnlyWhenProven, HistoryKept, GrantsInv, CallsInv, quiet, connectionVars, runVars
<1> QED
  BY <1>3, <1>4 DEF AccessInv

\* The catalogue, the check and the request.
LEMMA AskingKeeps ==
  ASSUME AccessInv, NEW a \in Attempts,
         GatherDescriptors(a) \/ AssembleCatalog(a) \/ (\E d \in calls[a].offered : CheckPermission(a, d))
  PROVE  AccessInv' /\ Reviewed /\ Closed
<1>t. /\ calls \in [Attempts -> CallRow] /\ calls[a] \in CallRow /\ CallFits(a, calls[a], invocations)
      /\ invocations \in Seq(InvocationRow) /\ approvals \in Seq(ApprovalRow) /\ definition \in [Tools -> DefinitionRow]
  BY DEF AccessInv, AccessTypes, CallsInv
<1>n. CallsStay(invocations, invocations) /\ ApprovalsStay(approvals, approvals)
  BY NothingMoves
<1>u. UNCHANGED <<connectionVars, grants, lastGrant, runVars, invocations, approvals, clock>>
  BY DEF GatherDescriptors, AssembleCatalog, CheckPermission, quiet
<1>h. HistoryKept'
  BY <1>u DEF AccessInv, HistoryKept, connectionVars
<1>r. calls[a].phase # "none" \/ live = a => runRow.status # "none"
  BY AccessAssumption DEF AccessInv, GrantsInv
<1>m. ASSUME NEW row \in CallRow, CallFits(a, row, invocations), calls' = [calls EXCEPT ![a] = row], calls[a].phase # "none" \/ live = a
      PROVE  AccessInv' /\ Reviewed /\ Closed
  BY <1>h, <1>m, <1>n, <1>r, <1>t, <1>u, CallMoves
<1>1. CASE GatherDescriptors(a)
  <2> DEFINE known == registered \/ (mcp.row = "present" /\ mcp.enabled /\ mcp.status # "disabled")
             seen == {<<t, definition[t].fingerprint>> : t \in {u \in Tools : definition[u].status = "available" /\ (u \in Remote => known)}}
             row == [calls[a] EXCEPT !.phase = "gathered", !.offered = seen]
  <2>1. seen \subseteq Tools \X Nat
    <3>1. \A t \in Tools : definition[t].fingerprint \in Nat
      BY <1>t DEF DefinitionRow
    <3> QED
      BY <3>1
  <2>2. calls' = [calls EXCEPT ![a] = row] /\ live = a
    BY <1>1 DEF GatherDescriptors
  <2> HIDE DEF seen
  <2>3. row \in CallRow /\ CallFits(a, row, invocations)
    BY <1>t, <2>1 DEF CallRow, AttemptPhase, CallFits, Held
  <2> QED
    BY <1>m, <2>2, <2>3
<1>2. CASE AssembleCatalog(a)
  <2> DEFINE seen == {d \in calls[a].offered : Permitted(d[1])}
             row == [calls[a] EXCEPT !.phase = "ready", !.offered = seen]
  <2>1. seen \subseteq Tools \X Nat
    BY <1>t DEF CallRow
  <2>2. calls' = [calls EXCEPT ![a] = row] /\ calls[a].phase # "none"
    BY <1>2 DEF AssembleCatalog
  <2> HIDE DEF seen
  <2>3. row \in CallRow /\ CallFits(a, row, invocations)
    BY <1>t, <2>1 DEF CallRow, AttemptPhase, CallFits, Held
  <2> QED
    BY <1>m, <2>2, <2>3
<1>3. ASSUME NEW d \in calls[a].offered, CheckPermission(a, d) PROVE AccessInv' /\ Reviewed /\ Closed
  <2> DEFINE may == Permitted(d[1])
             next == calls[a].sequence + 1
             row == [calls[a] EXCEPT !.phase = "deciding", !.tool = d[1], !.fingerprint = d[2], !.sequence = next, !.allowed = may]
  <2>1. d[1] \in Tools /\ d[2] \in Nat /\ next \in Nat
    BY <1>t DEF CallRow
  <2>2. may \in BOOLEAN
    BY DEF Permitted
  <2>3. calls' = [calls EXCEPT ![a] = row] /\ calls[a].phase # "none"
    BY <1>3 DEF CheckPermission
  <2> HIDE DEF may, next
  <2>4. row \in CallRow /\ CallFits(a, row, invocations)
    BY <1>t, <2>1, <2>2 DEF CallRow, AttemptPhase, CallFits, Held
  <2> QED
    BY <1>m, <2>3, <2>4
<1> QED
  BY <1>1, <1>2, <1>3

LEMMA RequestingKeeps ==
  ASSUME AccessInv, NEW a \in Attempts, RecordRequested(a)
  PROVE  AccessInv' /\ Reviewed /\ Closed
<1>t. /\ calls \in [Attempts -> CallRow] /\ calls[a] \in CallRow /\ CallFits(a, calls[a], invocations)
      /\ invocations \in Seq(InvocationRow) /\ approvals \in Seq(ApprovalRow) /\ HistoryKept /\ runRow.status # "none"
  BY DEF AccessInv, AccessTypes, CallsInv, GrantsInv, RecordRequested
<1>n. CallsStay(invocations, invocations) /\ ApprovalsStay(approvals, approvals)
  BY NothingMoves
<1>u. UNCHANGED <<quiet, approvals>>
  BY DEF RecordRequested
<1> DEFINE next == IF ~calls[a].allowed THEN "denying" ELSE IF RequiresApproval(calls[a].tool) THEN "admitting" ELSE "starting"
           asked == [attempt |-> a, sequence |-> calls[a].sequence, tool |-> calls[a].tool,
                     fingerprint |-> calls[a].fingerprint, status |-> "requested"]
<1>1. CASE Authorized(a) /\ definition[calls[a].tool].status # "absent" /\ invocations' = Append(invocations, asked)
           /\ calls' = [calls EXCEPT ![a].phase = next, ![a].invocation = Len(invocations')]
  <2>1. calls[a].tool \in Tools
    BY <1>t DEF RecordRequested, CallFits
  <2>2. asked \in InvocationRow
    BY <1>t, <2>1 DEF CallRow, InvocationRow
  <2>3. asked.attempt = a /\ asked.sequence = calls[a].sequence /\ asked.tool = calls[a].tool
        /\ asked.fingerprint = calls[a].fingerprint /\ asked.status = "requested"
    OBVIOUS
  <2> DEFINE n == Len(invocations')
             row == [calls[a] EXCEPT !.phase = next, !.invocation = n]
  <2>4. calls' = [calls EXCEPT ![a] = row]
    BY <1>1
  <2>5. next \in {"denying", "admitting", "starting"} /\ (next = "admitting" => calls[a].tool \in Remote)
    BY DEF RequiresApproval
  <2> HIDE DEF asked, next
  <2>6. /\ invocations' \in Seq(InvocationRow) /\ n = Len(invocations) + 1 /\ invocations'[n] = asked
        /\ \A k \in DOMAIN invocations : invocations'[k] = invocations[k]
        /\ \A k \in DOMAIN invocations' : k \in DOMAIN invocations \/ k = n
    BY <1>1, <1>t, <2>2, RowAppended
  <2>7. n \in Nat /\ n \in DOMAIN invocations' /\ n = Len(invocations') /\ DOMAIN invocations \subseteq DOMAIN invocations'
    BY <1>t, <2>6
  <2> HIDE DEF n
  <2>8. CallsStay(invocations, invocations')
    BY <2>3, <2>6, <2>7 DEF CallsStay, Dispatched
  <2>9. row \in CallRow
    BY <1>t, <2>5, <2>7 DEF CallRow, AttemptPhase
  <2>10. CallFits(a, row, invocations')
    <3>1. row.phase = next /\ row.invocation = n /\ row.tool = calls[a].tool /\ row.sequence = calls[a].sequence
          /\ row.fingerprint = calls[a].fingerprint
      BY <1>t DEF CallRow
    <3> HIDE DEF row
    <3> QED
      BY <2>1, <2>3, <2>5, <2>6, <2>7, <3>1 DEF CallFits, Held, Dispatched
  <2>11. HistoryKept'
    <3>1. UNCHANGED definition
      BY <1>u DEF quiet, connectionVars
    <3> QED
      BY <1>1, <1>t, <2>3, <2>6, <3>1 DEF HistoryKept
  <2> HIDE DEF row
  <2> QED
    BY <1>n, <1>t, <1>u, <2>4, <2>6, <2>8, <2>9, <2>10, <2>11, CallMoves DEF quiet
<1>2. CASE Enters(a, "over") /\ UNCHANGED invocations
  <2>1. calls[a].phase # "none"
    BY DEF RecordRequested
  <2> QED
    BY <1>2, <1>n, <1>t, <1>u, <2>1, CallEnters DEF AttemptPhase, Held
<1> QED
  BY <1>1, <1>2 DEF RecordRequested

LEMMA AdmittingKeeps ==
  ASSUME AccessInv, NEW a \in Attempts, Admit(a)
  PROVE  AccessInv' /\ Reviewed /\ Closed
<1>t. /\ calls \in [Attempts -> CallRow] /\ calls[a] \in CallRow /\ CallFits(a, calls[a], invocations)
      /\ invocations \in Seq(InvocationRow) /\ clock \in Nat
  BY AccessAssumption DEF AccessInv, AccessTypes, CallsInv
<1>u. UNCHANGED <<quiet, invocations>> /\ calls[a].phase = "admitting"
  BY DEF Admit
<1> DEFINE kept == ReconcilePending(approvals)
           asked == Request(a)
<1>1. kept \in Seq(ApprovalRow) /\ DOMAIN kept = DOMAIN approvals /\ ApprovalsStay(approvals, kept)
  BY ReconciledApprovals
<1>2. \E p \in {"denying", "waiting", "starting"} : Enters(a, p)
  BY DEF Admit
<1>3. approvals' = kept \/ approvals' = Append(kept, asked)
  BY DEF Admit
<1>4. asked \in ApprovalRow /\ asked.state = "pending"
  <2>1. calls[a].tool \in Tools /\ clock + ApprovalTtl \in Nat
    BY <1>t, <1>u, AccessAssumption DEF CallFits, Held
  <2> QED
    BY <1>t, <2>1 DEF Request, CallRow, ApprovalRow, ApprovalState
<1> HIDE DEF kept, asked
<1>5. approvals' \in Seq(ApprovalRow) /\ ApprovalsStay(approvals, approvals')
  <2>1. CASE approvals' = kept
    BY <1>1, <2>1
  <2>2. CASE approvals' = Append(kept, asked)
    <3>1. /\ approvals' \in Seq(ApprovalRow) /\ Len(approvals') = Len(kept) + 1 /\ approvals'[Len(approvals')] = asked
          /\ \A i \in DOMAIN kept : approvals'[i] = kept[i]
          /\ \A i \in DOMAIN approvals' : i \in DOMAIN kept \/ i = Len(approvals')
      BY <1>1, <1>4, <2>2, RowAppended
    <3>2. DOMAIN kept \subseteq DOMAIN approvals'
      BY <1>1, <3>1
    <3>3. ApprovalsStay(approvals, approvals')
      BY <1>1, <1>4, <3>1, <3>2 DEF ApprovalsStay
    <3> QED
      BY <3>1, <3>3
  <2> QED
    BY <1>3, <2>1, <2>2
<1>6. CallsStay(invocations, invocations')
  BY <1>u, NothingMoves
<1> QED
  BY <1>2, <1>5, <1>6, <1>t, <1>u, CallEnters DEF AttemptPhase, Held

\* The ends of a call that dispatch nothing new.
LEMMA EndingKeeps ==
  ASSUME AccessInv, NEW a \in Attempts,
         MarkDenied(a) \/ PollPermission(a) \/ CancelWait(a) \/ CrashAttempt(a)
         \/ (\E s \in {"succeeded", "failed", "ambiguous"} : ConcludeInvocation(a, s))
  PROVE  AccessInv' /\ Reviewed /\ Closed
<1>t. invocations \in Seq(InvocationRow) /\ approvals \in Seq(ApprovalRow)
  BY DEF AccessInv, AccessTypes
<1>n. CallsStay(invocations, invocations) /\ ApprovalsStay(approvals, approvals)
  BY NothingMoves
<1>u. UNCHANGED quiet /\ calls[a].phase # "none"
  BY DEF MarkDenied, PollPermission, CancelWait, CrashAttempt, ConcludeInvocation
<1>a. Abandon(a) => approvals' \in Seq(ApprovalRow) /\ ApprovalsStay(approvals, approvals')
  BY AbandonedApprovals
<1>1. CASE MarkDenied(a)
  <2>1. invocations' \in Seq(InvocationRow) /\ CallsStay(invocations, invocations') /\ DOMAIN invocations' = DOMAIN invocations
    BY <1>1, <1>n, <1>t, StatusSet DEF MarkDenied, Held, Dispatched
  <2> QED
    BY <1>1, <1>n, <1>t, <1>u, <2>1, CallEnters DEF MarkDenied, AttemptPhase, Held
<1>2. CASE PollPermission(a)
  <2>1. approvals' \in Seq(ApprovalRow) /\ ApprovalsStay(approvals, approvals')
    BY <1>2, <1>a, <1>n, <1>t DEF PollPermission
  <2> QED
    BY <1>2, <1>n, <1>t, <1>u, <2>1, CallEnters DEF PollPermission, AttemptPhase, Held
<1>3. CASE CancelWait(a)
  <2>1. invocations' \in Seq(InvocationRow) /\ CallsStay(invocations, invocations') /\ DOMAIN invocations' = DOMAIN invocations
    BY <1>3, <1>n, <1>t, StatusSet DEF CancelWait, Held, Dispatched
  <2>2. approvals' \in Seq(ApprovalRow) /\ ApprovalsStay(approvals, approvals')
    BY <1>3, <1>a DEF CancelWait
  <2> QED
    BY <1>3, <1>u, <2>1, <2>2, CallEnters DEF CancelWait, AttemptPhase, Held
<1>4. CASE CrashAttempt(a)
  BY <1>4, <1>n, <1>t, <1>u, CallEnters DEF CrashAttempt, AttemptPhase, Held
<1>5. ASSUME NEW s \in {"succeeded", "failed", "ambiguous"}, ConcludeInvocation(a, s) PROVE AccessInv' /\ Reviewed /\ Closed
  <2>1. invocations' \in Seq(InvocationRow) /\ CallsStay(invocations, invocations') /\ DOMAIN invocations' = DOMAIN invocations
    BY <1>5, <1>n, <1>t, StatusSet DEF ConcludeInvocation, Held, Dispatched
  <2>2. \E p \in {"over", "ready"} : Enters(a, p)
    BY <1>5 DEF ConcludeInvocation
  <2>3. UNCHANGED approvals
    BY <1>5 DEF ConcludeInvocation
  <2> QED
    BY <1>n, <1>t, <1>u, <2>1, <2>2, <2>3, CallEnters DEF AttemptPhase, Held
<1> QED
  BY <1>1, <1>2, <1>3, <1>4, <1>5

\* The start: the one step that dispatches, and that spends an approval if the tool needs one.
LEMMA StartingKeeps ==
  ASSUME AccessInv, NEW a \in Attempts, calls[a].phase = "starting", Authorized(a), Permitted(calls[a].tool),
         RequiresApproval(calls[a].tool) => Consumable(a) # {},
         Enters(a, "executing"), SetInvocation(a, "started"), UNCHANGED quiet,
         approvals' = IF RequiresApproval(calls[a].tool) THEN Consumed(a) ELSE approvals
  PROVE  AccessInv' /\ Reviewed /\ Closed
<1> DEFINE k == calls[a].invocation
           t == calls[a].tool
<1>t. /\ calls \in [Attempts -> CallRow] /\ calls[a] \in CallRow /\ CallFits(a, calls[a], invocations)
      /\ invocations \in Seq(InvocationRow) /\ clock \in Nat /\ ApprovedOnce
  BY AccessAssumption DEF AccessInv, AccessTypes, CallsInv
<1>1. /\ invocations' \in Seq(InvocationRow) /\ Len(invocations') = Len(invocations) /\ DOMAIN invocations' = DOMAIN invocations
      /\ invocations'[k] = [invocations[k] EXCEPT !.status = "started"] /\ invocations[k] \in InvocationRow /\ k \in DOMAIN invocations
      /\ \A j \in DOMAIN invocations : j # k => invocations'[j] = invocations[j]
  BY StatusSet DEF Held, Dispatched
<1>2. /\ invocations[k].attempt = a /\ invocations[k].sequence = calls[a].sequence /\ invocations[k].tool = t
      /\ invocations[k].fingerprint = calls[a].fingerprint /\ invocations[k].status \notin Dispatched /\ t \in Tools
  BY <1>t DEF CallFits, Held
<1>3. /\ invocations'[k].attempt = a /\ invocations'[k].sequence = calls[a].sequence /\ invocations'[k].tool = t
      /\ invocations'[k].fingerprint = calls[a].fingerprint /\ invocations'[k].status = "started"
  BY <1>1, <1>2 DEF InvocationRow
<1> DEFINE row == [calls[a] EXCEPT !.phase = "executing"]
<1>4. row \in CallRow /\ CallFits(a, row, invocations')
  <2>1. row.phase = "executing" /\ row.invocation = k /\ row.tool = t /\ row.sequence = calls[a].sequence
        /\ row.fingerprint = calls[a].fingerprint
    BY <1>t DEF CallRow
  <2>2. row \in CallRow
    BY <1>t DEF CallRow, AttemptPhase
  <2>3. k \in 0..Len(invocations')
    BY <1>t, <1>1 DEF CallFits
  <2> HIDE DEF row, k
  <2>4. CallFits(a, row, invocations')
    BY <1>1, <1>2, <1>3, <2>1, <2>3 DEF CallFits, Held, Dispatched
  <2> QED
    BY <2>2, <2>4
<1>5. calls' = [calls EXCEPT ![a] = row]
  BY DEF Enters
<1> HIDE DEF row
<1>6. calls' \in [Attempts -> CallRow] /\ CallsInv'
  <2>1. calls' \in [Attempts -> CallRow] /\ calls'[a] = row /\ \A b \in Attempts : b # a => calls'[b] = calls[b]
    BY <1>t, <1>4, <1>5
  <2>2. ASSUME NEW b \in Attempts, b # a PROVE CallFits(b, calls[b], invocations')
    <3>1. CallFits(b, calls[b], invocations)
      BY DEF AccessInv, CallsInv
    <3>2. calls[b].phase \in Held => calls[b].invocation # k
      BY <1>2, <2>2, <3>1 DEF CallFits
    <3> HIDE DEF k
    <3> QED
      BY <1>1, <3>1, <3>2 DEF CallFits
  <2> QED
    BY <1>4, <2>1, <2>2 DEF CallsInv
<1>7. HistoryKept'
  <2>1. \A j \in DOMAIN invocations : invocations'[j].tool = invocations[j].tool
    BY <1>1, <1>2, <1>3
  <2> QED
    BY <1>1, <2>1 DEF AccessInv, HistoryKept, quiet, connectionVars
<1>8. ConnectionInv' /\ GrantsInv'
  <2>1. runRow.status # "none" /\ \A b \in Attempts : runRow'.status # "none"
    BY DEF AccessInv, GrantsInv, quiet, runVars
  <2> QED
    BY <2>1 DEF AccessInv, ConnectionInv, OfferedOnlyWhenProven, GrantsInv, quiet, connectionVars, runVars
<1>9. Reviewed
  <2>1. runRow.status # "none" /\ GrantsInv
    BY DEF AccessInv, GrantsInv
  <2>2. grants[t] = reviewed[t] /\ grants[t].id # 0 /\ definition[t].fingerprint = reviewed[t].fingerprint /\ (t \in Remote => mcp.enabled)
    BY <1>2, <2>1 DEF Permitted, GrantsInv
  <2>3. ASSUME NEW j \in DOMAIN invocations, invocations[j].status = "requested", invocations'[j].status = "started" PROVE j = k
    BY <1>1, <2>3
  <2> QED
    BY <1>2, <2>2, <2>3 DEF Reviewed
<1>g. Gated' = IF t \in Remote THEN Gated \union {k} ELSE Gated
  BY <1>1, <1>2, <1>3 DEF Gated, Dispatched
<1>a. approvals \in Seq(ApprovalRow)
  BY ApprovalStates
<1>10. CASE t \in Remote
  <2> DEFINE i == Max(Consumable(a))
  <2>1. Consumable(a) \subseteq 0..Len(approvals) /\ Consumable(a) # {} /\ Len(approvals) \in Nat
    BY <1>10, <1>a DEF Consumable, Matching, RequiresApproval
  <2>2. i \in Consumable(a)
    BY <2>1, MaxOfBounded
  <2>3. approvals' = [approvals EXCEPT ![i] = [approvals[i] EXCEPT !.state = "consumed", !.consumedAt = clock]]
    BY <1>10 DEF RequiresApproval, Consumed
  <2> HIDE DEF i
  <2>4. /\ i \in DOMAIN approvals /\ approvals[i].attempt = a /\ approvals[i].sequence = calls[a].sequence
        /\ approvals[i].tool = t /\ approvals[i].fingerprint = calls[a].fingerprint /\ approvals[i].state = "approved"
        /\ ~(approvals[i].expires <= clock)
    BY <2>2 DEF Consumable, Matching, Expired
  <2>5. approvals[i] \in ApprovalRow
    BY <1>a, <2>4
  <2> DEFINE spentGrant == [approvals[i] EXCEPT !.state = "consumed", !.consumedAt = clock]
  <2>6. spentGrant \in ApprovalRow
    BY <1>t, <2>5 DEF ApprovalRow, ApprovalState
  <2>7. /\ spentGrant.attempt = a /\ spentGrant.sequence = calls[a].sequence /\ spentGrant.tool = t /\ spentGrant.fingerprint = calls[a].fingerprint
        /\ spentGrant.state = "consumed" /\ spentGrant.consumedAt = clock /\ spentGrant.expires = approvals[i].expires
    BY <2>4, <2>5 DEF ApprovalRow
  <2>8. approvals' = [approvals EXCEPT ![i] = spentGrant]
    BY <2>3
  <2> HIDE DEF spentGrant
  <2>9. /\ approvals' \in Seq(ApprovalRow) /\ Len(approvals') = Len(approvals) /\ approvals'[i] = spentGrant
        /\ \A j \in DOMAIN approvals : j # i => approvals'[j] = approvals[j]
    BY <1>a, <2>4, <2>6, <2>8, RowSet
  <2>10. DOMAIN approvals' = DOMAIN approvals
    BY <2>8
  <2>11. Closed
    BY <2>4, <2>9 DEF Closed, Open
  <2>12. Spent' = Spent \union {i} /\ i \notin Spent /\ \A j \in Spent : j # i
    BY <2>4, <2>7, <2>9, <2>10 DEF Spent
  <2>13. Gated' = Gated \union {k} /\ k \notin Gated
    BY <1>10, <1>2, <1>g DEF Gated
  <2>14. approvals[i].expires \in Nat /\ clock < approvals[i].expires
    <3>1. approvals[i].expires \in Nat
      BY <2>5 DEF ApprovalRow
    <3> QED
      BY <1>t, <2>4, <3>1
  <2> DEFINE Fits(j, e) ==
        /\ invocations'[j].attempt = approvals'[e].attempt /\ invocations'[j].sequence = approvals'[e].sequence
        /\ invocations'[j].tool = approvals'[e].tool /\ invocations'[j].fingerprint = approvals'[e].fingerprint
        /\ approvals'[e].consumedAt < approvals'[e].expires
  <2>15. Fits(k, i)
    BY <1>3, <2>7, <2>9, <2>14
  <2>16. \A j \in Gated' : \E e \in Spent' : Fits(j, e)
    <3>1. ASSUME NEW j \in Gated PROVE \E e \in Spent' : Fits(j, e)
      <4>1. PICK e \in Spent : SameAction(j, e) /\ approvals[e].consumedAt < approvals[e].expires
        BY <1>t DEF ApprovedOnce
      <4>2. j # k /\ e # i /\ j \in DOMAIN invocations /\ e \in DOMAIN approvals
        BY <2>12, <2>13 DEF Gated, Spent
      <4>3. invocations'[j] = invocations[j] /\ approvals'[e] = approvals[e]
        BY <1>1, <2>9, <4>2
      <4>4. Fits(j, e)
        BY <4>1, <4>3 DEF SameAction
      <4> QED
        BY <2>12, <4>1, <4>4
    <3> HIDE DEF Fits
    <3> QED
      BY <2>12, <2>13, <2>15, <3>1
  <2>17. Cardinality(Gated') = Cardinality(Spent')
    <3>1. IsFiniteSet(Gated) /\ IsFiniteSet(Spent)
      <4>1. Gated \subseteq DOMAIN invocations /\ DOMAIN invocations = 1..Len(invocations) /\ Len(invocations) \in Nat
        BY <1>t DEF Gated
      <4>2. Spent \subseteq DOMAIN approvals /\ DOMAIN approvals = 1..Len(approvals) /\ Len(approvals) \in Nat
        BY <1>a DEF Spent
      <4>3. IsFiniteSet(1..Len(invocations)) /\ IsFiniteSet(1..Len(approvals))
        BY <4>1, <4>2, FS_Interval
      <4> QED
        BY <4>1, <4>2, <4>3, FS_Subset
    <3>2. Cardinality(Gated \union {k}) = Cardinality(Gated) + 1
      BY <2>13, <3>1, FS_AddElement
    <3>3. Cardinality(Spent \union {i}) = Cardinality(Spent) + 1
      BY <2>12, <3>1, FS_AddElement
    <3> QED
      BY <1>t, <2>12, <2>13, <3>2, <3>3 DEF ApprovedOnce
  <2>18. ApprovedOnce'
    BY <2>16, <2>17 DEF ApprovedOnce, SameAction
  <2>19. AccessTypes'
    BY <1>1, <1>6, <2>9 DEF AccessInv, AccessTypes, quiet, connectionVars, runVars
  <2> QED
    BY <1>6, <1>7, <1>8, <1>9, <2>11, <2>18, <2>19 DEF AccessInv
<1>11. CASE t \notin Remote
  <2>1. UNCHANGED approvals
    BY <1>11 DEF RequiresApproval
  <2>2. Gated' = Gated /\ Spent' = Spent
    BY <1>11, <1>g, <2>1 DEF Spent
  <2>3. \A j \in Gated : invocations'[j] = invocations[j]
    BY <1>1, <1>2, <1>11 DEF Gated
  <2>4. \A j \in Gated : \E e \in Spent : SameAction(j, e)' /\ approvals'[e].consumedAt < approvals'[e].expires
    BY <1>t, <2>1, <2>3 DEF ApprovedOnce, SameAction
  <2>5. Cardinality(Gated') = Cardinality(Spent')
    BY <1>t, <2>2 DEF ApprovedOnce
  <2>6. ApprovedOnce'
    BY <2>2, <2>4, <2>5 DEF ApprovedOnce
  <2>7. Closed
    BY <2>1 DEF Closed
  <2>8. AccessTypes'
    BY <1>1, <1>6, <2>1 DEF AccessInv, AccessTypes, quiet, connectionVars, runVars
  <2> QED
    BY <1>6, <1>7, <1>8, <1>9, <2>6, <2>7, <2>8 DEF AccessInv
<1> QED
  BY <1>10, <1>11

LEMMA MarkStartedKeeps ==
  ASSUME AccessInv, NEW a \in Attempts, MarkStarted(a)
  PROVE  AccessInv' /\ Reviewed /\ Closed
<1>t. invocations \in Seq(InvocationRow) /\ approvals \in Seq(ApprovalRow)
  BY DEF AccessInv, AccessTypes
<1>n. CallsStay(invocations, invocations) /\ ApprovalsStay(approvals, approvals)
  BY NothingMoves
<1>u. UNCHANGED quiet /\ calls[a].phase = "starting"
  BY DEF MarkStarted
<1>1. CASE Enters(a, "over") /\ UNCHANGED <<invocations, approvals>>
  BY <1>1, <1>n, <1>t, <1>u, CallEnters DEF AttemptPhase, Held
<1>2. CASE Enters(a, "ready") /\ SetInvocation(a, "denied") /\ UNCHANGED approvals
  <2>1. invocations' \in Seq(InvocationRow) /\ CallsStay(invocations, invocations') /\ DOMAIN invocations' = DOMAIN invocations
    BY <1>2, <1>u, StatusSet DEF Held, Dispatched
  <2> QED
    BY <1>2, <1>n, <1>t, <1>u, <2>1, CallEnters DEF AttemptPhase, Held
<1>3. CASE /\ Authorized(a) /\ Permitted(calls[a].tool) /\ (RequiresApproval(calls[a].tool) => Consumable(a) # {})
           /\ Enters(a, "executing") /\ SetInvocation(a, "started")
           /\ approvals' = IF RequiresApproval(calls[a].tool) THEN Consumed(a) ELSE approvals
  BY <1>3, <1>u, StartingKeeps
<1> QED
  BY <1>1, <1>2, <1>3 DEF MarkStarted

LEMMA AccessInitial == AccessInit => AccessInv
<1> SUFFICES ASSUME AccessInit PROVE AccessInv
  OBVIOUS
<1>1. NewCall \in CallRow /\ NoGrant \in ReviewRow /\ NoDefinition \in DefinitionRow
  BY DEF NewCall, CallRow, AttemptPhase, NoGrant, ReviewRow, NoDefinition, DefinitionRow
<1>2. mcp \in ConnectionRow /\ runRow \in RunRowType
  BY DEF AccessInit, ConnectionRow, ConnectionStatus, RunRowType
<1>3. AccessTypes
  BY <1>1, <1>2, AccessAssumption DEF AccessInit, AccessTypes
<1>4. ConnectionInv /\ HistoryKept /\ GrantsInv
  BY DEF AccessInit, ConnectionInv, OfferedOnlyWhenProven, HistoryKept, GrantsInv, NoDefinition, NoGrant, NewCall, Remote
<1>5. CallsInv
  BY DEF AccessInit, CallsInv, CallFits, NewCall, Held
<1>6. ApprovedOnce
  <2>1. Gated = {} /\ Spent = {}
    BY DEF AccessInit, Gated, Spent
  <2> QED
    BY <2>1 DEF ApprovedOnce
<1> QED
  BY <1>3, <1>4, <1>5, <1>6 DEF AccessInv

LEMMA AccessKeeps ==
  ASSUME AccessInv, [AccessNext]_accessVars
  PROVE  AccessInv' /\ [Reviewed /\ Closed]_accessVars
<1>1. CASE AccessNext
  <2>1. CASE Calling
    <3>1. PICK a \in Attempts :
             \/ GatherDescriptors(a) \/ AssembleCatalog(a) \/ (\E d \in calls[a].offered : CheckPermission(a, d))
             \/ RecordRequested(a) \/ Admit(a) \/ MarkStarted(a)
             \/ MarkDenied(a) \/ PollPermission(a) \/ CancelWait(a) \/ CrashAttempt(a)
             \/ (\E s \in {"succeeded", "failed", "ambiguous"} : ConcludeInvocation(a, s))
      BY <2>1 DEF Calling
    <3>2. CASE GatherDescriptors(a) \/ AssembleCatalog(a) \/ (\E d \in calls[a].offered : CheckPermission(a, d))
      BY <3>2, AskingKeeps
    <3>3. CASE RecordRequested(a)
      BY <3>3, RequestingKeeps
    <3>4. CASE Admit(a)
      BY <3>4, AdmittingKeeps
    <3>5. CASE MarkStarted(a)
      BY <3>5, MarkStartedKeeps
    <3>6. CASE MarkDenied(a) \/ PollPermission(a) \/ CancelWait(a) \/ CrashAttempt(a)
               \/ (\E s \in {"succeeded", "failed", "ambiguous"} : ConcludeInvocation(a, s))
      BY <3>6, EndingKeeps
    <3> QED
      BY <3>1, <3>2, <3>3, <3>4, <3>5, <3>6
  <2>2. CASE TickClock
    <3>1. clock' \in 0..MaxClock
      BY <2>2, AccessAssumption DEF TickClock, AccessInv, AccessTypes
    <3>2. UNCHANGED <<connectionVars, registered, grants, lastGrant, runVars, callVars>>
      BY <2>2 DEF TickClock
    <3>3. AccessTypes' /\ ConnectionInv' /\ HistoryKept' /\ GrantsInv' /\ CallsInv'
      BY <3>1, <3>2 DEF AccessInv, AccessTypes, ConnectionInv, OfferedOnlyWhenProven, HistoryKept, GrantsInv, CallsInv,
                        connectionVars, runVars, callVars
    <3>4. ApprovedOnce' /\ Reviewed /\ Closed
      BY <3>2, NothingMoves, Unspent DEF AccessInv, callVars
    <3> QED
      BY <3>3, <3>4 DEF AccessInv
  <2> QED
    BY <1>1, <2>1, <2>2, ConnectingKeeps, GrantingKeeps, RunningKeeps, DecidingKeeps DEF AccessNext
<1>2. CASE UNCHANGED accessVars
  BY <1>2 DEF accessVars, AccessInv, AccessTypes, ConnectionInv, OfferedOnlyWhenProven, HistoryKept, GrantsInv, CallsInv,
              ApprovedOnce, Gated, Spent, SameAction
<1> QED
  BY <1>1, <1>2

\* The inductive invariant of tool access.
THEOREM AccessInvariant == AccessSpec => []AccessInv
<1>1. AccessInit => AccessInv
  BY AccessInitial
<1>2. AccessInv /\ [AccessNext]_accessVars => AccessInv'
  BY AccessKeeps
<1> QED
  BY <1>1, <1>2, PTL DEF AccessSpec

(* A dispatched external call spent an approval of that very action in     *)
(* time, and no approval let two through (mark_started,                    *)
(* consume_on_connection); what is offered was proven by the connection's  *)
(* last discovery, and the audit keeps the definitions it names.           *)
THEOREM AccessSoundHolds == AccessSpec => []AccessSound
<1>1. AccessInv => AccessSound
  <2> SUFFICES ASSUME AccessInv PROVE AccessSound
    OBVIOUS
  <2>t. AccessTypes /\ GrantsInv /\ CallsInv
    BY DEF AccessInv
  <2>1. \A t \in Tools : definition[t].status \in {"absent", "available", "unavailable", "unsupported_schema"} /\ grants[t].id \in 0..lastGrant
    <3>1. ASSUME NEW t \in Tools PROVE definition[t] \in DefinitionRow /\ grants[t] \in ReviewRow /\ grants[t].id <= lastGrant
      BY <2>t DEF AccessTypes, GrantsInv
    <3>2. lastGrant \in Nat
      BY <2>t DEF AccessTypes
    <3> QED
      BY <3>1, <3>2 DEF DefinitionRow, ReviewRow
  <2>2. \A a \in Attempts : calls[a].phase \in AttemptPhase /\ calls[a].invocation \in 0..Len(invocations)
    <3>1. \A a \in Attempts : calls[a] \in CallRow /\ CallFits(a, calls[a], invocations)
      BY <2>t DEF AccessTypes, CallsInv
    <3> QED
      BY <3>1 DEF CallRow, CallFits
  <2>3. \A k \in DOMAIN invocations : invocations[k].status \in Dispatched \cup {"requested", "denied", "cancelled"}
    <3>1. \A k \in DOMAIN invocations : invocations[k] \in InvocationRow
      BY ToolsKnown
    <3> QED
      BY <3>1 DEF InvocationRow
  <2>4. \A i \in DOMAIN approvals : approvals[i].state \in ApprovalState
    BY ApprovalStates
  <2>5. mcp \in ConnectionRow /\ live \in Attempts \cup {0} /\ clock \in 0..MaxClock
    BY <2>t DEF AccessTypes
  <2>6. AccessTypeOK
    BY <2>1, <2>2, <2>3, <2>4, <2>5 DEF AccessTypeOK, ConnectionRow
  <2> QED
    BY <2>6 DEF AccessSound, AccessInv, ConnectionInv
<1> QED
  BY AccessInvariant, <1>1, PTL

(* A capability is never silently acquired by a Run whose cutoff predates  *)
(* the review: what starts is permitted by the grant its submission found  *)
(* and the definition that was reviewed (mark_started, evaluate).          *)
THEOREM NoCapabilityAcquiredHolds == AccessSpec => NoCapabilityAcquired
<1>1. AccessInv /\ [AccessNext]_accessVars => [Reviewed /\ Closed]_accessVars
  BY AccessKeeps
<1>2. [Reviewed /\ Closed]_accessVars
      => [\A k \in DOMAIN invocations :
             invocations[k].status = "requested" /\ invocations'[k].status = "started" =>
                LET t == invocations[k].tool
                IN  grants[t] = reviewed[t] /\ grants[t].id # 0
                    /\ definition[t].fingerprint = reviewed[t].fingerprint
                    /\ (t \in Remote => mcp.enabled)]_accessVars
  BY DEF Reviewed
<1> QED
  BY AccessInvariant, <1>1, <1>2, PTL DEF AccessSpec, NoCapabilityAcquired

(* A closed approval never opens again and is never spent again, whoever   *)
(* polls, lists, abandons or decides (reconcile_pending, decide, abandon). *)
THEOREM DecisionFinalHolds == AccessSpec => DecisionFinal
<1>1. AccessInv /\ [AccessNext]_accessVars => [Reviewed /\ Closed]_accessVars
  BY AccessKeeps
<1>2. [Reviewed /\ Closed]_accessVars
      => [\A i \in DOMAIN approvals : approvals[i].state \notin Open => approvals'[i] = approvals[i]]_accessVars
  BY DEF Closed
<1> QED
  BY AccessInvariant, <1>1, <1>2, PTL DEF AccessSpec, DecisionFinal

-----------------------------------------------------------------------------
(* Gateway: the sessions of the Worker's MCP connections.                  *)

ClientRow == [peer : Peers, owner : {"opening", "live", "closing", "closed"}, old : BOOLEAN, ready : {"waiting", "set", "failed", "cancelled"}]
ToolCaller == [phase : CallPhase, peer : Peers \union {0}, session : Nat, closing : Nat, then : {"none", "create", "unknown", "told"}, outcome : Outcome]

\* What a caller remembers names a session that was created.
ToolCallerFits(row, made) ==
  /\ row \in ToolCaller /\ row.session \in 0..made
  /\ row.phase \in {"joining", "calling"} => row.session # 0 /\ row.peer \in Peers
  /\ row.phase = "invalidating" => row.closing \in 1..made /\ row.peer \in Peers

\* The cache holds the live sessions, each once.
CacheFits(held, made) ==
  /\ held \in Seq(Nat)
  /\ \A i \in DOMAIN held : held[i] \in DOMAIN made /\ made[held[i]].owner = "live"
  /\ \A i, j \in DOMAIN held : held[i] = held[j] => i = j
  /\ \A s \in DOMAIN made : made[s].owner = "live" => \E i \in DOMAIN held : held[i] = s
\* What is pending for a connection is the session being opened for it.
PendingFits(opening, made) ==
  /\ opening \in [Peers -> Nat]
  /\ \A c \in Peers : opening[c] # 0 => opening[c] \in DOMAIN made /\ made[opening[c]].peer = c /\ made[opening[c]].owner = "opening"
  /\ \A s \in DOMAIN made : made[s].owner = "opening" => opening[made[s].peer] = s
OneEach(made) == \A r, s \in DOMAIN made : made[r].peer = made[s].peer /\ made[r].owner \in {"opening", "live"} /\ made[s].owner \in {"opening", "live"} => r = s
ClientsFit(held, opening, made) == made \in Seq(ClientRow) /\ CacheFits(held, made) /\ PendingFits(opening, made) /\ OneEach(made)

GatewayInv ==
  /\ ClientsFit(cache, pending, sessions)
  /\ DOMAIN callers = Callers /\ \A a \in Callers : ToolCallerFits(callers[a], Len(sessions))

LEMMA GatewayInitial == GatewayInit => GatewayInv
<1> SUFFICES ASSUME GatewayInit PROVE GatewayInv
  OBVIOUS
<1>1. cache = <<>> /\ sessions = <<>> /\ pending = [c \in Peers |-> 0] /\ callers = [a \in Callers |-> Fresh]
  BY DEF GatewayInit
<1>2. ToolCallerFits(Fresh, 0)
  BY DEF ToolCallerFits, Fresh, ToolCaller, CallPhase, Outcome
<1>3. ClientsFit(cache, pending, sessions)
  BY <1>1 DEF ClientsFit, CacheFits, PendingFits, OneEach
<1> QED
  BY <1>1, <1>2, <1>3 DEF GatewayInv

\* One entry of a sequence or function is replaced.
CachedAfter(cached, held, s, row) == (row.owner = "live" /\ cached = Append(held, s)) \/ (row.owner = "closed" /\ cached = held)
Uncached(held, made, c) == \A i \in DOMAIN held : made[held[i]].peer # c
Adds(next, f, entry) == next = Append(f, entry)
Becomes(next, f, k, entry) == next = [f EXCEPT ![k] = entry]

LEMMA ClientPeer == ASSUME NEW made \in Seq(ClientRow), NEW s \in DOMAIN made PROVE made[s].peer \in Peers /\ made[s].old \in BOOLEAN
<1>1. made[s] \in ClientRow
  OBVIOUS
<1> QED
  BY <1>1 DEF ClientRow

\* Who owns a session stays; the flags may change.
LEMMA OwnersStay ==
  ASSUME NEW held, NEW opening, NEW made, ClientsFit(held, opening, made), NEW s \in DOMAIN made, NEW row \in ClientRow,
         row.peer = made[s].peer, row.owner = made[s].owner, NEW next, Becomes(next, made, s, row)
  PROVE  ClientsFit(held, opening, next) /\ Len(next) = Len(made)
<1>1. made \in Seq(ClientRow) /\ CacheFits(held, made) /\ PendingFits(opening, made) /\ OneEach(made)
  BY DEF ClientsFit
<1>2. next \in Seq(ClientRow) /\ Len(next) = Len(made) /\ DOMAIN next = DOMAIN made
  BY <1>1 DEF Becomes
<1>3. \A r \in DOMAIN made : next[r].peer = made[r].peer /\ next[r].owner = made[r].owner
  BY <1>1 DEF Becomes
<1>4. CacheFits(held, next)
  BY <1>1, <1>2, <1>3 DEF CacheFits
<1>5. PendingFits(opening, next)
  BY <1>1, <1>2, <1>3 DEF PendingFits
<1>6. OneEach(next)
  BY <1>1, <1>2, <1>3 DEF OneEach
<1> QED
  BY <1>2, <1>4, <1>5, <1>6 DEF ClientsFit

\* A session is created only where none is live and none is being opened.
LEMMA SessionCreated ==
  ASSUME NEW held, NEW opening, NEW made, ClientsFit(held, opening, made), NEW c \in Peers, opening[c] = 0,
         Uncached(held, made, c), NEW next, Adds(next, made, NewSession(c)),
         NEW after, Becomes(after, opening, c, Len(next))
  PROVE  ClientsFit(held, after, next) /\ Len(next) = Len(made) + 1
<1> DEFINE new == NewSession(c)
<1>1. made \in Seq(ClientRow) /\ CacheFits(held, made) /\ PendingFits(opening, made) /\ OneEach(made)
  BY DEF ClientsFit
<1>2. new \in ClientRow /\ new.peer = c /\ new.owner = "opening" /\ next = Append(made, new)
  BY DEF NewSession, ClientRow, Adds
<1> HIDE DEF new
<1>3. /\ next \in Seq(ClientRow) /\ Len(next) = Len(made) + 1 /\ next[Len(next)] = new /\ (\A s \in DOMAIN made : next[s] = made[s])
      /\ \A s \in DOMAIN next : s \in DOMAIN made \/ s = Len(next)
  BY <1>1, <1>2, RowAppended
<1>4. Len(next) \in Nat \ {0} /\ Len(next) \notin DOMAIN made /\ Len(next) \in DOMAIN next /\ DOMAIN made \subseteq DOMAIN next
  BY <1>1, <1>3
<1>5. after \in [Peers -> Nat] /\ after[c] = Len(next) /\ \A d \in Peers : d # c => after[d] = opening[d]
  BY <1>1, <1>4 DEF PendingFits, Becomes
<1>6. \A s \in DOMAIN made : made[s].peer = c => made[s].owner \notin {"opening", "live"}
  <2>1. \A s \in DOMAIN made : s # 0
    BY <1>1
  <2> QED
    BY <1>1, <2>1 DEF CacheFits, PendingFits, Uncached
<1>7. CacheFits(held, next)
  BY <1>1, <1>2, <1>3, <1>4 DEF CacheFits
<1>8. PendingFits(after, next)
  <2>1. \A d \in Peers : after[d] # 0 => after[d] \in DOMAIN next /\ next[after[d]].peer = d /\ next[after[d]].owner = "opening"
    BY <1>1, <1>2, <1>3, <1>4, <1>5 DEF PendingFits
  <2>2. ASSUME NEW s \in DOMAIN next, next[s].owner = "opening" PROVE after[next[s].peer] = s
    <3>1. CASE s = Len(next)
      BY <1>2, <1>3, <1>5, <3>1
    <3>2. CASE s \in DOMAIN made
      <4>1. made[s].peer \in Peers
        BY <1>1, <3>2, ClientPeer
      <4> QED
        BY <1>1, <1>3, <1>5, <1>6, <2>2, <3>2, <4>1 DEF PendingFits
    <3> QED
      BY <1>3, <3>1, <3>2
  <2> QED
    BY <1>5, <2>1, <2>2 DEF PendingFits
<1>9. OneEach(next)
  BY <1>1, <1>2, <1>3, <1>6 DEF OneEach
<1> QED
  BY <1>3, <1>7, <1>8, <1>9 DEF ClientsFit

\* The newest session leaves the cache and starts to close.
LEMMA SessionPopped ==
  ASSUME NEW held, NEW opening, NEW made, ClientsFit(held, opening, made), held # <<>>, NEW row \in ClientRow,
         row.owner = "closing", row.peer = made[Last(held)].peer, NEW next, Becomes(next, made, Last(held), row)
  PROVE  ClientsFit(Front(held), opening, next) /\ Len(next) = Len(made) /\ Last(held) \in DOMAIN made
<1> DEFINE n == Len(held)
           s == Last(held)
           rest1 == Front(held)
<1>1. made \in Seq(ClientRow) /\ CacheFits(held, made) /\ PendingFits(opening, made) /\ OneEach(made) /\ held \in Seq(Nat)
  BY DEF ClientsFit, CacheFits
<1>2. n \in Nat \ {0} /\ n \in DOMAIN held /\ s = held[n]
  BY <1>1 DEF Last
<1>3. s \in DOMAIN made /\ made[s].owner = "live"
  BY <1>1, <1>2 DEF CacheFits
<1>4. rest1 \in Seq(Nat) /\ DOMAIN rest1 = 1..(n - 1) /\ \A i \in 1..(n - 1) : rest1[i] = held[i]
  BY <1>1, <1>2 DEF Front
<1>5. 1..(n - 1) \subseteq DOMAIN held /\ n \notin 1..(n - 1) /\ \A i \in DOMAIN held : i \in 1..(n - 1) \/ i = n
  BY <1>1, <1>2
<1> HIDE DEF n, s, rest1
<1>6. next = [made EXCEPT ![s] = row] /\ row.peer = made[s].peer
  BY DEF s, Becomes
<1>7. next \in Seq(ClientRow) /\ Len(next) = Len(made) /\ DOMAIN next = DOMAIN made /\ next[s] = row /\ \A r \in DOMAIN made : r # s => next[r] = made[r]
  BY <1>1, <1>3, <1>6
<1>8. CacheFits(rest1, next)
  <2>1. ASSUME NEW i \in DOMAIN rest1 PROVE rest1[i] # s /\ rest1[i] \in DOMAIN next /\ next[rest1[i]].owner = "live"
    <3>1. i \in DOMAIN held /\ i # n /\ rest1[i] = held[i]
      BY <1>4, <1>5
    <3>2. held[i] # s /\ held[i] \in DOMAIN made /\ made[held[i]].owner = "live"
      BY <1>1, <1>2, <3>1 DEF CacheFits
    <3> QED
      BY <1>7, <3>1, <3>2
  <2>2. ASSUME NEW i \in DOMAIN rest1, NEW j \in DOMAIN rest1, rest1[i] = rest1[j] PROVE i = j
    <3>1. i \in DOMAIN held /\ j \in DOMAIN held /\ held[i] = held[j]
      BY <1>4, <1>5, <2>2
    <3> QED
      BY <1>1, <3>1 DEF CacheFits
  <2>3. ASSUME NEW r \in DOMAIN next, next[r].owner = "live" PROVE \E i \in DOMAIN rest1 : rest1[i] = r
    <3>1. r \in DOMAIN made /\ r # s /\ made[r].owner = "live"
      BY <1>6, <1>7, <2>3
    <3>2. PICK i \in DOMAIN held : held[i] = r
      BY <1>1, <3>1 DEF CacheFits
    <3>3. i \in DOMAIN rest1 /\ rest1[i] = held[i]
      BY <1>2, <1>4, <1>5, <3>1, <3>2
    <3> QED
      BY <3>2, <3>3
  <2> QED
    BY <1>4, <2>1, <2>2, <2>3 DEF CacheFits
<1>9. PendingFits(opening, next)
  BY <1>1, <1>3, <1>6, <1>7 DEF PendingFits
<1>10. OneEach(next)
  BY <1>1, <1>3, <1>6, <1>7 DEF OneEach
<1> QED
  BY <1>3, <1>7, <1>8, <1>9, <1>10 DEF ClientsFit, s, rest1

\* The owner task of a session: open, or closed before or after.
OwnerEnds(held, opening, made, s, row, next, after, cached) ==
  /\ ClientsFit(held, opening, made) /\ s \in DOMAIN made /\ made[s].owner = "opening"
  /\ row \in ClientRow /\ row.peer = made[s].peer
  /\ Becomes(next, made, s, row) /\ Becomes(after, opening, made[s].peer, 0) /\ CachedAfter(cached, held, s, row)
LEMMA SessionOwned ==
  ASSUME NEW held, NEW opening, NEW made, NEW s, NEW row, NEW next, NEW after, NEW cached, OwnerEnds(held, opening, made, s, row, next, after, cached)
  PROVE  ClientsFit(cached, after, next) /\ Len(next) = Len(made)
<1> USE DEF OwnerEnds
<1>1. made \in Seq(ClientRow) /\ CacheFits(held, made) /\ PendingFits(opening, made) /\ OneEach(made) /\ held \in Seq(Nat)
  BY DEF ClientsFit, CacheFits
<1>2. next \in Seq(ClientRow) /\ Len(next) = Len(made) /\ DOMAIN next = DOMAIN made /\ next[s] = row /\ \A r \in DOMAIN made : r # s => next[r] = made[r]
  BY <1>1 DEF Becomes
<1>3. made[s].peer \in Peers /\ s \in Nat
  BY <1>1, ClientPeer
<1>4. after \in [Peers -> Nat] /\ after[made[s].peer] = 0 /\ \A d \in Peers : d # made[s].peer => after[d] = opening[d]
  BY <1>1, <1>3 DEF PendingFits, Becomes
<1>5. \A i \in DOMAIN held : held[i] # s
  BY <1>1 DEF CacheFits
<1>6. CacheFits(cached, next)
  <2>1. CASE row.owner = "closed" /\ cached = held
    BY <1>1, <1>2, <1>5, <2>1 DEF CacheFits, Becomes
  <2>2. CASE row.owner = "live" /\ cached = Append(held, s)
    <3>1. /\ cached \in Seq(Nat) /\ Len(cached) = Len(held) + 1 /\ cached[Len(cached)] = s /\ (\A i \in DOMAIN held : cached[i] = held[i])
          /\ \A i \in DOMAIN cached : i \in DOMAIN held \/ i = Len(cached)
      BY <1>1, <1>3, <2>2, RowAppended
    <3>2. Len(cached) \in DOMAIN cached /\ DOMAIN held \subseteq DOMAIN cached
      BY <1>1, <3>1
    <3>3. \A i \in DOMAIN cached : cached[i] \in DOMAIN next /\ next[cached[i]].owner = "live"
      BY <1>1, <1>2, <1>5, <2>2, <3>1 DEF CacheFits
    <3>4. ASSUME NEW i \in DOMAIN cached, NEW j \in DOMAIN cached, cached[i] = cached[j] PROVE i = j
      <4>1. CASE i \in DOMAIN held /\ j \in DOMAIN held
        BY <1>1, <3>1, <3>4, <4>1 DEF CacheFits
      <4>2. CASE i = Len(cached) /\ j = Len(cached)
        BY <4>2
      <4>3. CASE (i \in DOMAIN held /\ j = Len(cached)) \/ (i = Len(cached) /\ j \in DOMAIN held)
        BY <1>5, <3>1, <3>4, <4>3
      <4> QED
        BY <3>1, <4>1, <4>2, <4>3
    <3>5. \A r \in DOMAIN next : next[r].owner = "live" => \E i \in DOMAIN cached : cached[i] = r
      BY <1>1, <1>2, <3>1, <3>2 DEF CacheFits
    <3> QED
      BY <3>1, <3>3, <3>4, <3>5 DEF CacheFits
  <2> QED
    BY <2>1, <2>2 DEF CachedAfter
<1>7. PendingFits(after, next)
  <2>1. \A d \in Peers : after[d] # 0 => after[d] \in DOMAIN next /\ next[after[d]].peer = d /\ next[after[d]].owner = "opening"
    <3>1. ASSUME NEW d \in Peers, after[d] # 0 PROVE after[d] \in DOMAIN next /\ next[after[d]].peer = d /\ next[after[d]].owner = "opening"
      <4>1. d # made[s].peer /\ after[d] = opening[d]
        BY <1>4, <3>1
      <4>2. opening[d] \in DOMAIN made /\ made[opening[d]].peer = d /\ made[opening[d]].owner = "opening"
        BY <1>1, <3>1, <4>1 DEF PendingFits
      <4>3. opening[d] # s
        BY <4>1, <4>2
      <4> QED
        BY <1>2, <4>1, <4>2, <4>3
    <3> QED
      BY <3>1
  <2>2. ASSUME NEW r \in DOMAIN next, next[r].owner = "opening" PROVE after[next[r].peer] = r
    <3>1. r # s /\ next[r] = made[r]
      BY <1>2, <2>2 DEF CachedAfter
    <3>2. made[r].peer \in Peers /\ made[r].peer # made[s].peer
      <4>1. made[r].peer \in Peers /\ r \in DOMAIN made
        BY <1>1, <1>2, ClientPeer
      <4> QED
        BY <1>1, <2>2, <3>1, <4>1 DEF OneEach
    <3> QED
      BY <1>1, <1>2, <1>4, <2>2, <3>1, <3>2 DEF PendingFits
  <2> QED
    BY <1>4, <2>1, <2>2 DEF PendingFits
<1>8. OneEach(next)
  BY <1>1, <1>2 DEF OneEach
<1> QED
  BY <1>2, <1>6, <1>7, <1>8 DEF ClientsFit

LEMMA SessionClosed ==
  ASSUME NEW held, NEW opening, NEW made, ClientsFit(held, opening, made), NEW s \in DOMAIN made, made[s].owner = "closing",
         NEW row \in ClientRow, row.peer = made[s].peer, row.owner = "closed", NEW next, Becomes(next, made, s, row)
  PROVE  ClientsFit(held, opening, next) /\ Len(next) = Len(made) /\ s \notin Range(held)
<1>1. made \in Seq(ClientRow) /\ CacheFits(held, made) /\ PendingFits(opening, made) /\ OneEach(made) /\ held \in Seq(Nat)
  BY DEF ClientsFit, CacheFits
<1>2. next \in Seq(ClientRow) /\ Len(next) = Len(made) /\ DOMAIN next = DOMAIN made /\ next[s] = row /\ \A r \in DOMAIN made : r # s => next[r] = made[r]
  BY <1>1 DEF Becomes
<1>3. \A i \in DOMAIN held : held[i] # s
  BY <1>1 DEF CacheFits
<1>4. CacheFits(held, next)
  BY <1>1, <1>2, <1>3 DEF CacheFits
<1>5. PendingFits(opening, next)
  <2>1. ASSUME NEW d \in Peers, opening[d] # 0 PROVE opening[d] \in DOMAIN next /\ next[opening[d]].peer = d /\ next[opening[d]].owner = "opening"
    BY <1>1, <1>2, <2>1, SMTT(30) DEF PendingFits
  <2>2. ASSUME NEW r \in DOMAIN next, next[r].owner = "opening" PROVE opening[next[r].peer] = r
    <3>1. r # s /\ r \in DOMAIN made /\ next[r] = made[r]
      BY <1>2, <2>2
    <3> QED
      BY <1>1, <2>2, <3>1 DEF PendingFits
  <2> QED
    BY <1>1, <2>1, <2>2 DEF PendingFits
<1>6. OneEach(next)
  BY <1>1, <1>2 DEF OneEach
<1> QED
  BY <1>2, <1>3, <1>4, <1>5, <1>6 DEF ClientsFit, Range

\* One caller moves on, and what it remembers fits the sessions that come of it.
Moved(row) == ClientsFit(cache', pending', sessions') /\ Len(sessions') >= Len(sessions) /\ Len(sessions') \in Nat /\ ToolCallerFits(row, Len(sessions'))
Rested == ClientsFit(cache', pending', sessions') /\ Len(sessions') = Len(sessions)
LEMMA ToolCallerMoves == ASSUME GatewayInv, NEW a \in Callers, NEW row, SetCaller(a, row), Moved(row) PROVE GatewayInv'
<1> DEFINE m == Len(sessions)
           n == Len(sessions')
<1>1. DOMAIN callers = Callers /\ (\A b \in Callers : ToolCallerFits(callers[b], m)) /\ m \in Nat
  BY DEF GatewayInv, ClientsFit
<1>2. n \in Nat /\ n >= m /\ ToolCallerFits(row, n) /\ callers' = [callers EXCEPT ![a] = row] /\ ClientsFit(cache', pending', sessions')
  BY DEF Moved, SetCaller
<1> HIDE DEF m, n
<1>3. \A b \in Callers : ToolCallerFits(callers[b], n)
  BY <1>1, <1>2 DEF ToolCallerFits
<1>4. DOMAIN callers' = Callers /\ \A b \in Callers : ToolCallerFits(callers'[b], n)
  BY <1>1, <1>2, <1>3
<1> QED
  BY <1>2, <1>4 DEF GatewayInv, n

LEMMA ToolCallersRest == ASSUME GatewayInv, UNCHANGED callers, Rested PROVE GatewayInv'
BY DEF GatewayInv, Rested

\* A caller's own row, and the end it comes to.
LEMMA CallerEnds == ASSUME NEW n \in Nat, NEW outcome \in Outcome PROVE ToolCallerFits(Returned(outcome), n) /\ ToolCallerFits([Returned(outcome) EXCEPT !.then = "told"], n)
<1> DEFINE row == Returned(outcome)
           told == [row EXCEPT !.then = "told"]
<1>1. row \in ToolCaller /\ row.phase = "done" /\ row.session = 0
  BY DEF Returned, Fresh, ToolCaller, CallPhase
<1> HIDE DEF row
<1>2. told \in ToolCaller /\ told.phase = "done" /\ told.session = 0
  BY <1>1 DEF ToolCaller
<1> QED
  BY <1>1, <1>2 DEF ToolCallerFits, row

LEMMA CachedIs ==
  ASSUME GatewayInv, NEW c
  PROVE  /\ Cached(c) = 0 => \A i \in DOMAIN cache : sessions[cache[i]].peer # c
         /\ Cached(c) # 0 => Cached(c) \in DOMAIN sessions /\ sessions[Cached(c)].peer = c /\ cache # <<>>
<1>1. cache \in Seq(Nat) /\ sessions \in Seq(ClientRow) /\ \A i \in DOMAIN cache : cache[i] \in DOMAIN sessions
  BY DEF GatewayInv, ClientsFit, CacheFits
<1>2. CASE Of(c) = {}
  BY <1>2 DEF Of, Cached
<1>3. CASE Of(c) # {}
  <2> DEFINE i == CHOOSE k \in Of(c) : TRUE
  <2>1. i \in Of(c)
    BY <1>3
  <2>2. Cached(c) = cache[i]
    BY <1>3 DEF Cached
  <2>3. i \in DOMAIN cache /\ sessions[cache[i]].peer = c
    BY <2>1 DEF Of
  <2>4. cache[i] \in DOMAIN sessions /\ cache[i] # 0 /\ cache # <<>>
    BY <1>1, <2>3
  <2> HIDE DEF i
  <2> QED
    BY <2>2, <2>3, <2>4
<1> QED
  BY <1>2, <1>3

LEMMA JoinOrCreateKeeps ==
  ASSUME GatewayInv, NEW a \in Callers, NEW c \in Peers, NEW caller \in ToolCaller, caller.peer = c, caller.session \in 0..Len(sessions),
         JoinOrCreate(a, c, caller), UNCHANGED cache
  PROVE  GatewayInv'
<1>1. ClientsFit(cache, pending, sessions) /\ sessions \in Seq(ClientRow) /\ Len(sessions) \in Nat /\ pending \in [Peers -> Nat]
      /\ PendingFits(pending, sessions)
  BY DEF GatewayInv, ClientsFit, PendingFits
<1>2. ASSUME NEW phase \in {"joining", "calling"}, NEW s \in Nat, s # 0
      PROVE  LET row == [caller EXCEPT !.phase = phase, !.session = s]
             IN  row \in ToolCaller /\ row.phase = phase /\ row.session = s /\ row.peer = c
  BY <1>2 DEF ToolCaller, CallPhase
<1>3. CASE /\ Cached(c) # 0
           /\ SetCaller(a, [caller EXCEPT !.phase = "calling", !.session = Cached(c)])
           /\ sessions' = [sessions EXCEPT ![Cached(c)].old = FALSE]
           /\ UNCHANGED pending
  <2> DEFINE s == Cached(c)
             new == [sessions[s] EXCEPT !.old = FALSE]
             row == [caller EXCEPT !.phase = "calling", !.session = s]
             next == sessions'
  <2>1. s \in DOMAIN sessions /\ s \in Nat /\ s # 0 /\ s \in 1..Len(sessions)
    BY <1>1, <1>3, CachedIs
  <2>2. sessions[s] \in ClientRow
    BY <1>1, <2>1
  <2>3. new \in ClientRow /\ new.peer = sessions[s].peer /\ new.owner = sessions[s].owner
    BY <2>2 DEF ClientRow
  <2>4. row \in ToolCaller /\ row.phase = "calling" /\ row.session = s /\ row.peer = c
    BY <1>2, <2>1
  <2>5. Becomes(next, sessions, s, new) /\ SetCaller(a, row)
    BY <1>3 DEF Becomes
  <2> HIDE DEF s, new, row, next
  <2>6. ClientsFit(cache, pending, next) /\ Len(next) = Len(sessions)
    BY <1>1, <2>1, <2>3, <2>5, OwnersStay
  <2>7. ToolCallerFits(row, Len(next))
    BY <1>1, <2>1, <2>4, <2>6 DEF ToolCallerFits
  <2>9. Moved(row)
    BY <1>1, <1>3, <2>5, <2>6, <2>7 DEF Moved, next
  <2> QED
    BY <1>1, <1>3, <2>5, <2>6, <2>7, <2>9, ToolCallerMoves
<1>4. CASE /\ Cached(c) = 0 /\ pending[c] # 0
           /\ SetCaller(a, [caller EXCEPT !.phase = "joining", !.session = pending[c]])
           /\ UNCHANGED <<sessions, pending>>
  <2> DEFINE s == pending[c]
             row == [caller EXCEPT !.phase = "joining", !.session = s]
  <2>1. s \in DOMAIN sessions /\ s \in Nat /\ s # 0 /\ s \in 1..Len(sessions)
    BY <1>1, <1>4 DEF PendingFits
  <2>2. row \in ToolCaller /\ row.phase = "joining" /\ row.session = s /\ row.peer = c
    BY <1>2, <2>1
  <2>3. SetCaller(a, row) /\ UNCHANGED <<sessions, pending>>
    BY <1>4
  <2> HIDE DEF s, row
  <2>4. ToolCallerFits(row, Len(sessions))
    BY <1>1, <2>1, <2>2 DEF ToolCallerFits
  <2>9. Moved(row)
    BY <1>1, <2>3, <2>4 DEF Moved
  <2> QED
    BY <1>1, <2>3, <2>4, <2>9, ToolCallerMoves
<1>5. CASE /\ Cached(c) = 0 /\ pending[c] = 0 /\ Len(sessions) < MaxSessions
           /\ sessions' = Append(sessions, NewSession(c))
           /\ pending' = [pending EXCEPT ![c] = Len(sessions')]
           /\ SetCaller(a, [caller EXCEPT !.phase = "joining", !.session = Len(sessions')])
  <2> DEFINE next == sessions'
             after == pending'
             s == Len(next)
             row == [caller EXCEPT !.phase = "joining", !.session = s]
  <2>1. Uncached(cache, sessions, c)
    BY <1>5, CachedIs DEF Uncached
  <2>2. Adds(next, sessions, NewSession(c)) /\ pending[c] = 0 /\ Becomes(after, pending, c, Len(next)) /\ SetCaller(a, row)
    BY <1>5 DEF Becomes, Adds
  <2> HIDE DEF next, after
  <2>3. ClientsFit(cache, after, next) /\ Len(next) = Len(sessions) + 1
    BY <1>1, <2>1, <2>2, SessionCreated
  <2>4. s \in Nat /\ s # 0 /\ s >= Len(sessions)
    BY <1>1, <2>3
  <2>5. row \in ToolCaller /\ row.phase = "joining" /\ row.session = s /\ row.peer = c
    BY <1>2, <2>4
  <2> HIDE DEF row
  <2>6. ToolCallerFits(row, Len(next))
    BY <2>4, <2>5 DEF ToolCallerFits
  <2>9. Moved(row)
    BY <2>2, <2>3, <2>4, <2>6 DEF Moved, next, after, s
  <2> QED
    BY <2>2, <2>3, <2>4, <2>6, <2>9, ToolCallerMoves
<1> QED
  BY <1>3, <1>4, <1>5 DEF JoinOrCreate

LEMMA PopNewestKeeps ==
  ASSUME GatewayInv, NEW a \in Callers, NEW caller \in ToolCaller, caller.peer \in Peers, caller.session \in 0..Len(sessions),
         PopNewest(a, caller), UNCHANGED pending, cache # <<>>
  PROVE  GatewayInv'
<1> DEFINE s == Last(cache)
           new == [sessions[s] EXCEPT !.owner = "closing", !.old = FALSE]
           row == [caller EXCEPT !.phase = "invalidating", !.closing = s]
           next == sessions'
           held == cache'
<1>1. ClientsFit(cache, pending, sessions) /\ sessions \in Seq(ClientRow) /\ Len(sessions) \in Nat
      /\ cache \in Seq(Nat) /\ \A i \in DOMAIN cache : cache[i] \in DOMAIN sessions
  BY DEF GatewayInv, ClientsFit, CacheFits
<1>2. s \in DOMAIN sessions /\ s \in 1..Len(sessions) /\ s \in Nat
  <2>1. Len(cache) \in DOMAIN cache /\ s = cache[Len(cache)]
    BY <1>1 DEF Last
  <2> QED
    BY <1>1, <2>1
<1>3. sessions[s] \in ClientRow
  BY <1>1, <1>2
<1>4. new \in ClientRow /\ new.owner = "closing" /\ new.peer = sessions[s].peer
  BY <1>3 DEF ClientRow
<1>5. row \in ToolCaller /\ row.phase = "invalidating" /\ row.closing = s /\ row.peer = caller.peer /\ row.session = caller.session
  BY <1>2 DEF ToolCaller, CallPhase
<1>6. Becomes(next, sessions, s, new) /\ held = Front(cache) /\ SetCaller(a, row)
  BY DEF PopNewest, Becomes
<1> HIDE DEF new, row, next, held
<1>7. ClientsFit(held, pending, next) /\ Len(next) = Len(sessions)
  BY <1>1, <1>4, <1>6, SessionPopped
<1> HIDE DEF s
<1>8. ToolCallerFits(row, Len(next))
  BY <1>2, <1>5, <1>7 DEF ToolCallerFits
<1>9. Moved(row)
  BY <1>1, <1>6, <1>7, <1>8 DEF Moved, next, held
<1> QED
  BY <1>1, <1>6, <1>7, <1>8, <1>9, ToolCallerMoves

LEMMA ClientOwnerKeeps ==
  ASSUME GatewayInv, NEW s \in Ids, OpenClient(s) \/ FailToOpen(s) \/ CloseClient(s) \/ GrowOld(s)
  PROVE  GatewayInv'
<1> DEFINE made == sessions
           next == sessions'
           after == pending'
           held == cache'
<1>1. ClientsFit(cache, pending, made) /\ made \in Seq(ClientRow) /\ s \in DOMAIN made
  BY DEF GatewayInv, ClientsFit, Ids
<1>2. made[s] \in ClientRow
  BY <1>1
<1>3. ASSUME NEW row \in ClientRow, row.peer = made[s].peer, made[s].owner = "opening", Becomes(next, made, s, row),
             CachedAfter(held, cache, s, row), Becomes(after, pending, made[s].peer, 0), UNCHANGED callers
      PROVE  GatewayInv'
  <2> HIDE DEF made, next, after, held
  <2>1. ClientsFit(held, after, next) /\ Len(next) = Len(made)
    <3>1. OwnerEnds(cache, pending, made, s, row, next, after, held)
      BY <1>1, <1>3 DEF OwnerEnds
    <3> QED
      BY <3>1, SessionOwned
  <2>2. Rested
    BY <2>1 DEF Rested, made, next, after, held
  <2> QED
    BY <1>3, <2>2, ToolCallersRest
<1>4. CASE OpenClient(s)
  <2> DEFINE row == [made[s] EXCEPT !.owner = "live", !.ready = IF sessions[s].ready = "waiting" THEN "set" ELSE sessions[s].ready]
  <2>1. row \in ClientRow /\ row.owner = "live" /\ row.peer = made[s].peer
    BY <1>2 DEF ClientRow
  <2>2. made[s].owner = "opening" /\ Becomes(next, made, s, row) /\ held = Append(cache, s) /\ Becomes(after, pending, made[s].peer, 0) /\ UNCHANGED callers
    BY <1>4 DEF OpenClient, Becomes
  <2>3. CachedAfter(held, cache, s, row)
    BY <2>1, <2>2 DEF CachedAfter
  <2> HIDE DEF row
  <2> QED
    BY <1>3, <2>1, <2>2, <2>3
<1>5. CASE FailToOpen(s)
  <2> DEFINE row == [made[s] EXCEPT !.owner = "closed", !.ready = IF sessions[s].ready = "waiting" THEN "failed" ELSE sessions[s].ready]
  <2>1. row \in ClientRow /\ row.owner = "closed" /\ row.peer = made[s].peer
    BY <1>2 DEF ClientRow
  <2>2. made[s].owner = "opening" /\ Becomes(next, made, s, row) /\ Becomes(after, pending, made[s].peer, 0) /\ UNCHANGED callers
    BY <1>5 DEF FailToOpen, Becomes
  <2>3. CachedAfter(held, cache, s, row)
    BY <1>5, <2>1 DEF CachedAfter, FailToOpen
  <2> HIDE DEF row
  <2> QED
    BY <1>3, <2>1, <2>2, <2>3
<1>6. CASE CloseClient(s)
  <2> DEFINE row == [made[s] EXCEPT !.owner = "closed"]
  <2>1. row \in ClientRow /\ row.owner = "closed" /\ row.peer = made[s].peer
    BY <1>2 DEF ClientRow
  <2>2. made[s].owner = "closing" /\ Becomes(next, made, s, row) /\ after = pending /\ UNCHANGED callers
    BY <1>6 DEF CloseClient, Becomes
  <2> HIDE DEF made, next, after, row
  <2>3. ClientsFit(cache, pending, next) /\ Len(next) = Len(made) /\ s \notin Range(cache)
    BY <1>1, <2>1, <2>2, SessionClosed
  <2>4. held = cache
    BY <1>6, <2>3 DEF CloseClient
  <2> HIDE DEF held
  <2>9. Rested
    BY <2>2, <2>3, <2>4 DEF Rested, made, next, after, held
  <2> QED
    BY <2>2, <2>3, <2>4, <2>9, ToolCallersRest
<1>7. CASE GrowOld(s)
  <2> DEFINE row == [made[s] EXCEPT !.old = TRUE]
  <2>1. row \in ClientRow /\ row.owner = made[s].owner /\ row.peer = made[s].peer
    BY <1>2 DEF ClientRow
  <2>2. Becomes(next, made, s, row) /\ held = cache /\ after = pending /\ UNCHANGED callers
    BY <1>7 DEF GrowOld, Becomes
  <2> HIDE DEF made, next, after, held, row
  <2>3. ClientsFit(cache, pending, next) /\ Len(next) = Len(made)
    BY <1>1, <2>1, <2>2, OwnersStay
  <2>9. Rested
    BY <2>2, <2>3 DEF Rested, made, next, after, held
  <2> QED
    BY <2>2, <2>3, <2>9, ToolCallersRest
<1> QED
  BY <1>4, <1>5, <1>6, <1>7

LEMMA CallToolKeeps == ASSUME GatewayInv, NEW a \in Callers, NEW c \in Peers, CallTool(a, c) PROVE GatewayInv'
<1> DEFINE n == Len(sessions)
           caller == [callers[a] EXCEPT !.peer = c]
           then == [caller EXCEPT !.then = "create"]
<1>1. ClientsFit(cache, pending, sessions) /\ n \in Nat /\ ToolCallerFits(callers[a], n)
  BY DEF GatewayInv, ClientsFit
<1>2. callers[a] \in ToolCaller /\ callers[a].session \in 0..n
  BY <1>1 DEF ToolCallerFits
<1>3. caller \in ToolCaller /\ caller.peer = c /\ caller.session = callers[a].session
  BY <1>2 DEF ToolCaller
<1>4. then \in ToolCaller /\ then.peer = c /\ then.session = callers[a].session
  BY <1>2 DEF ToolCaller
<1>5. CASE Done(a, "failed") /\ UNCHANGED <<cache, pending, sessions>>
  <2>1. SetCaller(a, Returned("failed")) /\ ToolCallerFits(Returned("failed"), n)
    BY <1>1, <1>5, CallerEnds DEF Done, Outcome
  <2>9. Moved(Returned("failed"))
    BY <1>1, <1>5, <2>1 DEF Moved
  <2> QED
    BY <1>1, <1>5, <2>1, <2>9, ToolCallerMoves
<1>6. CASE Cached(c) # 0 /\ PopNewest(a, then) /\ UNCHANGED pending
  <2>1. cache # <<>>
    BY <1>6, CachedIs
  <2> HIDE DEF then
  <2> QED
    BY <1>2, <1>4, <1>6, <2>1, PopNewestKeeps
<1>7. CASE JoinOrCreate(a, c, caller) /\ UNCHANGED cache
  <2> HIDE DEF caller
  <2> QED
    BY <1>2, <1>3, <1>7, JoinOrCreateKeeps
<1> QED
  BY <1>5, <1>6, <1>7 DEF CallTool

LEMMA AwaitKeeps ==
  ASSUME GatewayInv, NEW a \in Callers, JoinReturns(a) \/ Answer(a) \/ CancelCaller(a)
  PROVE  GatewayInv'
<1> DEFINE n == Len(sessions)
<1>1. ClientsFit(cache, pending, sessions) /\ sessions \in Seq(ClientRow) /\ n \in Nat /\ ToolCallerFits(callers[a], n)
  BY DEF GatewayInv, ClientsFit
<1>2. callers[a] \in ToolCaller
  BY <1>1 DEF ToolCallerFits
<1>3. ASSUME NEW outcome \in Outcome, Done(a, outcome), UNCHANGED <<cache, pending, sessions>> PROVE GatewayInv'
  <2>1. SetCaller(a, Returned(outcome)) /\ ToolCallerFits(Returned(outcome), n)
    BY <1>1, <1>3, CallerEnds DEF Done
  <2>9. Moved(Returned(outcome))
    BY <1>1, <1>3, <2>1 DEF Moved
  <2> QED
    BY <1>1, <1>3, <2>1, <2>9, ToolCallerMoves
<1>4. CASE JoinReturns(a)
  <2>1. CASE SetCaller(a, [callers[a] EXCEPT !.phase = "calling"])
    <3> DEFINE row == [callers[a] EXCEPT !.phase = "calling"]
    <3>1. row \in ToolCaller /\ row.phase = "calling" /\ row.session = callers[a].session /\ row.peer = callers[a].peer
      BY <1>2 DEF ToolCaller, CallPhase
    <3>2. SetCaller(a, row) /\ callers[a].phase = "joining" /\ UNCHANGED <<cache, pending, sessions>>
      BY <1>4, <2>1 DEF JoinReturns
    <3> HIDE DEF row
    <3>3. ToolCallerFits(row, n)
      BY <1>1, <3>1, <3>2 DEF ToolCallerFits
    <3>9. Moved(row)
      BY <1>1, <3>2, <3>3 DEF Moved
    <3> QED
      BY <1>1, <3>2, <3>3, <3>9, ToolCallerMoves
  <2> QED
    BY <1>3, <1>4, <2>1 DEF JoinReturns, Outcome
<1>5. CASE Answer(a)
  BY <1>3, <1>5 DEF Answer, Outcome
<1>6. CASE CancelCaller(a) /\ callers[a].phase = "invalidating"
  <2> DEFINE row == [callers[a] EXCEPT !.then = "told"]
  <2>1. row \in ToolCaller /\ row.phase = "invalidating" /\ row.session = callers[a].session
        /\ row.closing = callers[a].closing /\ row.peer = callers[a].peer
    BY <1>2, <1>6 DEF ToolCaller
  <2>2. SetCaller(a, row) /\ UNCHANGED <<cache, pending, sessions>>
    BY <1>6 DEF CancelCaller
  <2> HIDE DEF row
  <2>3. ToolCallerFits(row, n)
    BY <1>1, <1>6, <2>1 DEF ToolCallerFits
  <2>9. Moved(row)
    BY <1>1, <2>2, <2>3 DEF Moved
  <2> QED
    BY <1>1, <2>2, <2>3, <2>9, ToolCallerMoves
<1>7. CASE CancelCaller(a) /\ callers[a].phase # "invalidating"
  <2> DEFINE s == callers[a].session
             row == [Returned("cancelled") EXCEPT !.then = "told"]
             next == sessions'
  <2>1. s \in DOMAIN sessions
    BY <1>1, <1>7 DEF CancelCaller, ToolCallerFits
  <2>2. ClientsFit(cache, pending, next) /\ Len(next) = n
    <3>1. CASE next = sessions
      BY <1>1, <3>1
    <3>2. CASE next = [sessions EXCEPT ![s].ready = "cancelled"]
      <4> DEFINE new == [sessions[s] EXCEPT !.ready = "cancelled"]
      <4>1. sessions[s] \in ClientRow
        BY <1>1, <2>1
      <4>2. new \in ClientRow /\ new.owner = sessions[s].owner /\ new.peer = sessions[s].peer
        BY <4>1 DEF ClientRow
      <4>3. Becomes(next, sessions, s, new)
        BY <3>2 DEF Becomes
      <4> HIDE DEF new, next, s
      <4> QED
        BY <1>1, <2>1, <4>2, <4>3, OwnersStay
    <3> QED
      BY <1>7, <3>1, <3>2 DEF CancelCaller
  <2>3. ToolCallerFits(row, n)
    BY <1>1, CallerEnds DEF Outcome
  <2>4. SetCaller(a, row) /\ UNCHANGED <<cache, pending>>
    BY <1>7 DEF CancelCaller
  <2> HIDE DEF row
  <2>9. Moved(row)
    BY <1>1, <2>2, <2>3, <2>4 DEF Moved
  <2> QED
    BY <1>1, <2>2, <2>3, <2>4, <2>9, ToolCallerMoves
<1> QED
  BY <1>4, <1>5, <1>6, <1>7

LEMMA InvalidationKeeps == ASSUME GatewayInv, NEW a \in Callers, CallRaises(a) \/ InvalidateReturns(a) PROVE GatewayInv'
<1> DEFINE n == Len(sessions)
           old == callers[a]
           raised == [old EXCEPT !.then = "unknown"]
           again == [old EXCEPT !.closing = 0, !.then = "none"]
<1>1. ClientsFit(cache, pending, sessions) /\ n \in Nat /\ ToolCallerFits(old, n)
  BY DEF GatewayInv, ClientsFit
<1>2. old \in ToolCaller /\ old.session \in 0..n /\ old.peer \in Peers
  BY <1>1 DEF ToolCallerFits, CallRaises, InvalidateReturns
<1>3. raised \in ToolCaller /\ raised.peer = old.peer /\ raised.session = old.session
  BY <1>2 DEF ToolCaller
<1>4. again \in ToolCaller /\ again.peer = old.peer /\ again.session = old.session
  BY <1>2 DEF ToolCaller
<1>5. CASE Done(a, "unknown") /\ UNCHANGED <<cache, pending, sessions>>
  <2>1. SetCaller(a, Returned("unknown")) /\ ToolCallerFits(Returned("unknown"), n)
    BY <1>1, <1>5, CallerEnds DEF Done, Outcome
  <2>9. Moved(Returned("unknown"))
    BY <1>1, <1>5, <2>1 DEF Moved
  <2> QED
    BY <1>1, <1>5, <2>1, <2>9, ToolCallerMoves
<1>6. CASE Of(old.peer) # {} /\ PopNewest(a, raised) /\ UNCHANGED pending
  <2>1. cache # <<>>
    BY <1>6 DEF Of
  <2> HIDE DEF raised, old
  <2> QED
    BY <1>2, <1>3, <1>6, <2>1, PopNewestKeeps
<1>7. CASE ~Invalidated(a) /\ PopNewest(a, old) /\ UNCHANGED pending
  <2>1. cache # <<>>
    BY <1>7 DEF Invalidated
  <2> HIDE DEF old
  <2> QED
    BY <1>2, <1>7, <2>1, PopNewestKeeps
<1>8. CASE JoinOrCreate(a, old.peer, again) /\ UNCHANGED cache
  <2> HIDE DEF again, old
  <2> QED
    BY <1>2, <1>4, <1>8, JoinOrCreateKeeps
<1>9. CASE SetCaller(a, [Returned("cancelled") EXCEPT !.then = "told"]) /\ UNCHANGED <<cache, pending, sessions>>
  <2> DEFINE row == [Returned("cancelled") EXCEPT !.then = "told"]
  <2>1. ToolCallerFits(row, n)
    BY <1>1, CallerEnds DEF Outcome
  <2>2. SetCaller(a, row)
    BY <1>9
  <2> HIDE DEF row, old
  <2>9. Moved(row)
    BY <1>1, <1>9, <2>1, <2>2 DEF Moved
  <2> QED
    BY <1>1, <1>9, <2>1, <2>2, <2>9, ToolCallerMoves
<1> QED
  BY <1>3, <1>5, <1>6, <1>7, <1>8, <1>9 DEF CallRaises, InvalidateReturns

LEMMA GatewayStep == GatewayInv /\ [GatewayNext]_gatewayVars => GatewayInv'
<1> SUFFICES ASSUME GatewayInv, [GatewayNext]_gatewayVars PROVE GatewayInv'
  OBVIOUS
<1>1. ASSUME UNCHANGED <<cache, pending, sessions, callers>> PROVE GatewayInv'
  BY <1>1 DEF GatewayInv
<1>2. ASSUME NEW c \in Peers, DisablePeer(c) PROVE GatewayInv'
  BY <1>1, <1>2 DEF DisablePeer
<1> QED
  BY <1>1, <1>2, CallToolKeeps, ClientOwnerKeeps, AwaitKeeps, InvalidationKeeps DEF GatewayNext, gatewayVars

\* The sessions of a connection, its creation and its callers' memory of them.
THEOREM GatewayInvariant == GatewaySpec => []GatewayInv
<1>1. GatewayInit => GatewayInv
  BY GatewayInitial
<1>2. GatewayInv /\ [GatewayNext]_gatewayVars => GatewayInv'
  BY GatewayStep
<1> QED
  BY <1>1, <1>2, PTL DEF GatewaySpec

THEOREM GatewaySoundHolds == GatewaySpec => []GatewaySound
<1>1. ASSUME GatewayInv PROVE GatewaySound
  <2>1. sessions \in Seq(ClientRow) /\ CacheFits(cache, sessions) /\ PendingFits(pending, sessions) /\ OneEach(sessions) /\ Len(sessions) \in Nat
        /\ \A a \in Callers : ToolCallerFits(callers[a], Len(sessions))
    BY <1>1 DEF GatewayInv, ClientsFit
  <2>2. \A s \in Ids : sessions[s] \in ClientRow
    BY <2>1 DEF Ids
  <2>3. GatewayTypeOK
    <3>1. \A s \in Ids : sessions[s].owner \in {"opening", "live", "closing", "closed"} /\ sessions[s].ready \in {"waiting", "set", "failed", "cancelled"}
      BY <2>2 DEF ClientRow
    <3>2. \A c \in Peers : pending[c] \in Ids \union {0}
      BY <2>1 DEF PendingFits, Ids
    <3>3. \A a \in Callers : callers[a].phase \in CallPhase /\ callers[a].outcome \in Outcome
      BY <2>1 DEF ToolCallerFits, ToolCaller
    <3>4. \A a \in Callers : callers[a].session \in Ids \union {0}
      BY <2>1 DEF ToolCallerFits, Ids
    <3> QED
      BY <3>1, <3>2, <3>3, <3>4 DEF GatewayTypeOK
  <2>4. ASSUME NEW c \in Peers PROVE Cardinality({s \in Ids : sessions[s].peer = c /\ sessions[s].owner \in {"opening", "live"}}) <= 1
    <3> DEFINE usable == {s \in Ids : sessions[s].peer = c /\ sessions[s].owner \in {"opening", "live"}}
    <3>1. \A r, s \in usable : r = s
      BY <2>1 DEF OneEach, Ids
    <3>2. CASE usable = {}
      BY <3>2, FS_EmptySet
    <3>3. CASE usable # {}
      <4>1. PICK s \in usable : usable = {s}
        BY <3>1, <3>3
      <4> QED
        BY <4>1, FS_Singleton
    <3> QED
      BY <3>2, <3>3
  <2>5. \A i \in DOMAIN cache : sessions[cache[i]].owner = "live"
    BY <2>1 DEF CacheFits
  <2> QED
    BY <2>3, <2>4, <2>5 DEF GatewaySound, OneUsableSession
<1> QED
  BY <1>1, GatewayInvariant, PTL

-----------------------------------------------------------------------------
(* ToolLoop: the limits, the transcript and the usage of one Attempt.      *)

LoopRow == [phase : {"turn", "asked", "dispatching", "over"}, modelCalls : Nat, toolCalls : Nat, sequence : Nat, failures : Nat, retries : Nat,
            end : {"none", "tool_loop_limit", "rate_limited", "model_error", "response_invalid", "internal", "answered", "aborted"}]
Entry == [kind : {"call", "result"}, id : CallIds]
AskedFor(id) == [kind |-> "call", id |-> id]
ResultOf(id) == [kind |-> "result", id |-> id]

\* No entry stands twice; a result follows its call; a call waits in the queue or has its result.
TranscriptFits(turns, seen, waiting) ==
  /\ turns \in Seq(Entry) /\ seen \subseteq CallIds
  /\ \A i, j \in DOMAIN turns : turns[i] = turns[j] => i = j
  /\ \A j \in DOMAIN turns : turns[j].kind = "result" =>
        turns[j].id \notin waiting /\ \E i \in DOMAIN turns : i < j /\ turns[i] = AskedFor(turns[j].id)
  /\ \A i \in DOMAIN turns : turns[i].kind = "call" =>
        turns[i].id \in seen /\ (turns[i].id \in waiting \/ \E j \in DOMAIN turns : turns[j] = ResultOf(turns[i].id))
  /\ \A id \in waiting : \E i \in DOMAIN turns : turns[i] = AskedFor(id)
QueueFits(batch) == batch \in Seq(CallIds) /\ batch # <<>> /\ IsInjective(batch)

LimitsFit(row) == row \in LoopRow /\ row.modelCalls <= MaxModelCalls /\ row.toolCalls <= MaxToolCalls /\ row.sequence <= row.toolCalls
UsageFits(usage) == usage.total \in Nat /\ usage.stored = usage.total
LoopInv ==
  /\ LimitsFit(loop) /\ queue \in Seq(CallIds) /\ seenIds \subseteq CallIds
  /\ loop.phase # "over" => loop.failures < MaxFailures /\ UsageFits(spent)
  /\ loop.phase \in {"turn", "asked"} => TranscriptFits(transcript, seenIds, {})
  /\ loop.phase = "dispatching" =>
        /\ QueueFits(queue) /\ TranscriptFits(transcript, seenIds, Range(queue))
        /\ loop.toolCalls + Len(queue) <= MaxToolCalls /\ spent.total > 0

LEMMA LoopInitial == LoopInit => LoopInv
<1> SUFFICES ASSUME LoopInit PROVE LoopInv
  OBVIOUS
<1>1. loop \in LoopRow /\ loop.phase = "turn" /\ loop.modelCalls = 0 /\ loop.toolCalls = 0 /\ loop.sequence = 0 /\ loop.failures = 0
  BY DEF LoopInit, LoopRow
<1>2. TranscriptFits(transcript, seenIds, {}) /\ queue = <<>> /\ UsageFits(spent)
  BY DEF LoopInit, TranscriptFits, UsageFits
<1> QED
  BY <1>1, <1>2, LoopAssumption DEF LoopInv, LimitsFit, TranscriptFits

\* A response appends its calls, all of them new.
LEMMA CallsAppended ==
  ASSUME NEW turns, NEW seen, TranscriptFits(turns, seen, {}), NEW batch \in Seq(CallIds), IsInjective(batch), Range(batch) \cap seen = {},
         NEW next, next = turns \o [i \in DOMAIN batch |-> AskedFor(batch[i])]
  PROVE  TranscriptFits(next, seen \union Range(batch), Range(batch))
<1> DEFINE added == [i \in DOMAIN batch |-> AskedFor(batch[i])]
           m == Len(turns)
           n == Len(batch)
<1>1. turns \in Seq(Entry) /\ m \in Nat /\ n \in Nat /\ DOMAIN batch = 1..n /\ DOMAIN turns = 1..m
  BY DEF TranscriptFits
<1>2. \A i \in 1..n : batch[i] \in CallIds /\ AskedFor(batch[i]) \in Entry
  BY <1>1 DEF AskedFor, Entry
<1>3. added \in Seq(Entry) /\ Len(added) = n
  BY <1>1, <1>2
<1>4. next \in Seq(Entry) /\ Len(next) = m + n /\ DOMAIN next = 1..(m + n)
  BY <1>1, <1>3
<1>5. (\A i \in 1..m : next[i] = turns[i]) /\ \A i \in 1..n : next[m + i] = AskedFor(batch[i])
  BY <1>1, <1>3
<1> HIDE DEF added, m, n
<1>6. \A i \in DOMAIN next : (i \in 1..m /\ next[i] = turns[i]) \/ \E k \in 1..n : i = m + k /\ next[i] = AskedFor(batch[k])
  <2>1. ASSUME NEW i \in 1..(m + n), i \notin 1..m PROVE i - m \in 1..n /\ i = m + (i - m)
    BY <1>1, <2>1
  <2> QED
    BY <1>1, <1>4, <1>5, <2>1
<1>7. Range(batch) \subseteq CallIds /\ \A k \in 1..n : batch[k] \in Range(batch) /\ batch[k] \notin seen
  BY <1>1, <1>2 DEF Range
<1>8. \A id : AskedFor(id).kind = "call" /\ AskedFor(id).id = id /\ ResultOf(id).kind = "result" /\ ResultOf(id).id = id
  BY DEF AskedFor, ResultOf
<1>9. ASSUME NEW i \in 1..m, turns[i].kind = "call" PROVE turns[i].id \in seen /\ \E j \in 1..m : turns[j] = ResultOf(turns[i].id)
  BY <1>1, <1>9 DEF TranscriptFits
<1>15. ASSUME NEW i \in 1..m, turns[i].kind = "result" PROVE \E j \in 1..m : j < i /\ turns[j] = AskedFor(turns[i].id)
  BY <1>1, <1>15 DEF TranscriptFits
<1>16. ASSUME NEW i \in 1..m, turns[i].kind = "result" PROVE turns[i].id \in seen
  <2>1. PICK j \in 1..m : turns[j] = AskedFor(turns[i].id)
    BY <1>15, <1>16
  <2>2. turns[j].kind = "call" /\ turns[j].id = turns[i].id
    BY <1>8, <2>1
  <2> QED
    BY <1>9, <2>2
<1>17. \A i \in 1..m : i \in DOMAIN next /\ turns[i] = next[i]
  BY <1>1, <1>4, <1>5
<1>10. ASSUME NEW i \in DOMAIN next, NEW j \in DOMAIN next, next[i] = next[j] PROVE i = j
  <2>1. CASE i \in 1..m /\ j \in 1..m
    BY <1>1, <1>5, <1>10, <2>1 DEF TranscriptFits
  <2>2. ASSUME NEW k \in 1..n, NEW l \in 1..n, i = m + k, j = m + l, next[i] = AskedFor(batch[k]), next[j] = AskedFor(batch[l]) PROVE i = j
    <3>1. batch[k] = batch[l]
      BY <1>8, <1>10, <2>2
    <3>2. k = l
      BY <1>1, <3>1 DEF IsInjective
    <3> QED
      BY <2>2, <3>2
  <2>3. ASSUME NEW p \in 1..m, NEW k \in 1..n, turns[p] = AskedFor(batch[k]) PROVE FALSE
    <3>1. turns[p].kind = "call" /\ turns[p].id = batch[k]
      BY <1>8, <2>3
    <3>2. turns[p].id \in seen
      BY <1>9, <3>1
    <3> QED
      BY <1>7, <3>1, <3>2
  <2> QED
    BY <1>6, <1>10, <2>1, <2>2, <2>3
<1>11. ASSUME NEW j \in DOMAIN next, next[j].kind = "result"
       PROVE next[j].id \notin Range(batch) /\ \E i \in DOMAIN next : i < j /\ next[i] = AskedFor(next[j].id)
  <2>1. j \in 1..m /\ next[j] = turns[j]
    <3>1. \A k \in 1..n : next[j] # AskedFor(batch[k])
      BY <1>8, <1>11
    <3> QED
      BY <1>6, <3>1
  <2>2. turns[j].kind = "result"
    BY <1>11, <2>1
  <2>3. PICK i \in 1..m : i < j /\ turns[i] = AskedFor(turns[j].id)
    BY <1>15, <2>1, <2>2
  <2>4. turns[j].id \notin Range(batch)
    <3>1. turns[j].id \in seen
      BY <1>16, <2>1, <2>2
    <3> QED
      BY <3>1
  <2> QED
    BY <1>17, <2>1, <2>3, <2>4
<1>12. ASSUME NEW i \in DOMAIN next, next[i].kind = "call"
       PROVE /\ next[i].id \in seen \union Range(batch)
             /\ next[i].id \in Range(batch) \/ \E j \in DOMAIN next : next[j] = ResultOf(next[i].id)
  <2>1. CASE i \in 1..m /\ next[i] = turns[i]
    <3>1. PICK j \in 1..m : turns[i].id \in seen /\ turns[j] = ResultOf(turns[i].id)
      BY <1>9, <1>12, <2>1
    <3> QED
      BY <1>17, <2>1, <3>1
  <2>2. CASE \E k \in 1..n : next[i] = AskedFor(batch[k])
    BY <1>7, <1>8, <2>2
  <2> QED
    BY <1>6, <2>1, <2>2
<1>13. ASSUME NEW id \in Range(batch) PROVE \E i \in DOMAIN next : next[i] = AskedFor(id)
  <2>1. PICK k \in 1..n : batch[k] = id
    BY <1>1 DEF Range
  <2>2. m + k \in DOMAIN next /\ next[m + k] = AskedFor(id)
    BY <1>1, <1>4, <1>5, <2>1
  <2> QED
    BY <2>2
<1>14. seen \union Range(batch) \subseteq CallIds
  BY <1>7 DEF TranscriptFits
<1> QED
  BY <1>4, <1>10, <1>11, <1>12, <1>13, <1>14 DEF TranscriptFits

\* The first call that waits gets its result.
LEMMA ResultAppended ==
  ASSUME NEW turns, NEW seen, NEW batch, QueueFits(batch), TranscriptFits(turns, seen, Range(batch)), NEW next, next = Append(turns, ResultOf(Head(batch)))
  PROVE  /\ TranscriptFits(next, seen, Range(Tail(batch)))
         /\ Len(batch) # 1 => QueueFits(Tail(batch))
         /\ Len(batch) = 1 => Range(Tail(batch)) = {}
         /\ Tail(batch) \in Seq(CallIds) /\ Len(Tail(batch)) = Len(batch) - 1 /\ Len(batch) \in Nat \ {0}
<1> DEFINE first == Head(batch)
           left == Tail(batch)
           n == Len(batch)
           new == ResultOf(first)
<1>1. batch \in Seq(CallIds) /\ n \in Nat \ {0} /\ DOMAIN batch = 1..n /\ first = batch[1] /\ first \in CallIds /\ \A i, j \in 1..n : batch[i] = batch[j] => i = j
  BY DEF QueueFits, IsInjective
<1>2. left \in Seq(CallIds) /\ Len(left) = n - 1 /\ DOMAIN left = 1..(n - 1) /\ \A i \in 1..(n - 1) : left[i] = batch[i + 1]
  BY <1>1
<1>3. \A id : id \in Range(left) <=> id \in Range(batch) /\ id # first
  <2>1. ASSUME NEW i \in 1..(n - 1) PROVE left[i] \in Range(batch) /\ left[i] # first
    <3>1. i + 1 \in 1..n /\ i + 1 # 1 /\ 1 \in 1..n
      BY <1>1
    <3> QED
      BY <1>1, <1>2, <3>1 DEF Range
  <2>2. ASSUME NEW k \in 1..n, batch[k] # first PROVE batch[k] \in Range(left)
    <3>1. k # 1 /\ k - 1 \in 1..(n - 1) /\ (k - 1) + 1 = k
      BY <1>1, <2>2
    <3>2. batch[k] = left[k - 1]
      BY <1>2, <3>1
    <3> QED
      BY <1>2, <3>1, <3>2 DEF Range
  <2>3. ASSUME NEW id \in Range(left) PROVE id \in Range(batch) /\ id # first
    <3>1. PICK i \in 1..(n - 1) : id = left[i]
      BY <1>2 DEF Range
    <3> QED
      BY <2>1, <3>1
  <2>4. ASSUME NEW id \in Range(batch), id # first PROVE id \in Range(left)
    <3>1. PICK k \in 1..n : id = batch[k]
      BY <1>1 DEF Range
    <3> QED
      BY <2>2, <2>4, <3>1
  <2> QED
    BY <2>3, <2>4
<1>4. n # 1 => QueueFits(left)
  <2>1. ASSUME NEW i \in 1..(n - 1), NEW j \in 1..(n - 1), left[i] = left[j] PROVE i = j
    <3>1. i + 1 \in 1..n /\ j + 1 \in 1..n /\ batch[i + 1] = batch[j + 1]
      BY <1>1, <1>2, <2>1
    <3>2. i + 1 = j + 1
      BY <1>1, <3>1
    <3> QED
      BY <3>2
  <2>2. n # 1 => left # <<>>
    BY <1>1, <1>2
  <2> QED
    BY <1>2, <2>1, <2>2 DEF QueueFits, IsInjective
<1>5. n = 1 => Range(left) = {}
  BY <1>1, <1>2 DEF Range
<1>6. new \in Entry /\ new.kind = "result" /\ new.id = first /\ first \in Range(batch)
  BY <1>1 DEF ResultOf, Entry, Range
<1>7. turns \in Seq(Entry) /\ Len(turns) \in Nat /\ DOMAIN turns = 1..Len(turns)
  BY DEF TranscriptFits
<1> DEFINE m == Len(turns)
<1>8. next \in Seq(Entry) /\ Len(next) = m + 1 /\ DOMAIN next = 1..(m + 1) /\ next[m + 1] = new /\ \A i \in 1..m : next[i] = turns[i]
  BY <1>6, <1>7
<1> HIDE DEF first, left, n, new, m
<1>9. m \in Nat /\ m + 1 \in DOMAIN next /\ DOMAIN turns = 1..m /\ (\A i \in 1..m : i \in DOMAIN next /\ i < m + 1) /\ \A i \in DOMAIN next : i \in 1..m \/ i = m + 1
  BY <1>7, <1>8 DEF m
<1>10. \A i \in 1..m : turns[i] # new
  BY <1>6, <1>9 DEF TranscriptFits
<1>11. ASSUME NEW i \in DOMAIN next, NEW j \in DOMAIN next, next[i] = next[j] PROVE i = j
  <2>1. CASE i \in 1..m /\ j \in 1..m
    BY <1>8, <1>9, <1>11, <2>1 DEF TranscriptFits
  <2> QED
    BY <1>8, <1>9, <1>10, <1>11, <2>1
<1>12. ASSUME NEW j \in DOMAIN next, next[j].kind = "result"
       PROVE next[j].id \notin Range(left) /\ \E i \in DOMAIN next : i < j /\ next[i] = AskedFor(next[j].id)
  <2>1. CASE j \in 1..m
    <3>1. turns[j].id \notin Range(batch) /\ \E i \in 1..m : i < j /\ turns[i] = AskedFor(turns[j].id)
      BY <1>8, <1>9, <1>12, <2>1 DEF TranscriptFits
    <3> QED
      BY <1>3, <1>8, <1>9, <2>1, <3>1
  <2>2. CASE j = m + 1
    <3>1. PICK i \in 1..m : turns[i] = AskedFor(first)
      BY <1>6, <1>9 DEF TranscriptFits
    <3> QED
      BY <1>3, <1>6, <1>8, <1>9, <2>2, <3>1
  <2> QED
    BY <1>9, <2>1, <2>2
<1>13. ASSUME NEW i \in DOMAIN next, next[i].kind = "call"
       PROVE next[i].id \in seen /\ (next[i].id \in Range(left) \/ \E j \in DOMAIN next : next[j] = ResultOf(next[i].id))
  <2>1. i \in 1..m /\ next[i] = turns[i]
    BY <1>6, <1>8, <1>9, <1>13
  <2>2. turns[i].id \in seen /\ (turns[i].id \in Range(batch) \/ \E j \in 1..m : turns[j] = ResultOf(turns[i].id))
    BY <1>9, <1>13, <2>1 DEF TranscriptFits
  <2>3. CASE turns[i].id = first
    BY <1>8, <1>9, <2>1, <2>2, <2>3 DEF new
  <2>4. CASE turns[i].id # first
    BY <1>3, <1>8, <1>9, <2>1, <2>2, <2>4
  <2> QED
    BY <2>3, <2>4
<1>14. ASSUME NEW id \in Range(left) PROVE \E i \in DOMAIN next : next[i] = AskedFor(id)
  <2>1. PICK i \in 1..m : turns[i] = AskedFor(id)
    BY <1>3, <1>9 DEF TranscriptFits
  <2> QED
    BY <1>8, <1>9, <2>1
<1>15. TranscriptFits(next, seen, Range(left))
  <2>1. seen \subseteq CallIds
    BY DEF TranscriptFits
  <2> QED
    BY <1>8, <1>11, <1>12, <1>13, <1>14, <2>1 DEF TranscriptFits
<1> QED
  BY <1>1, <1>2, <1>4, <1>5, <1>15 DEF left, n


\* What the model asks for is a finite sequence of call ids.
LEMMA ResponseIs == ASSUME NEW batch \in Responses PROVE batch \in Seq(CallIds) /\ Len(batch) \in Nat
<1>1. PICK n \in 0..Batch : batch \in [1..n -> CallIds]
  BY DEF Responses
<1>2. n \in Nat
  OBVIOUS
<1> QED
  BY <1>1, <1>2

\* The end of the Attempt.
LEMMA LoopEnding ==
  ASSUME LimitsFit(loop), NEW how \in {"tool_loop_limit", "rate_limited", "model_error", "response_invalid", "internal", "answered"}, End(how),
         queue' \in Seq(CallIds), seenIds' \subseteq CallIds
  PROVE  LoopInv'
<1> DEFINE row == [loop EXCEPT !.phase = "over", !.end = how]
<1>1. row \in LoopRow /\ row.phase = "over" /\ row.modelCalls = loop.modelCalls /\ row.toolCalls = loop.toolCalls /\ row.sequence = loop.sequence
  BY DEF LimitsFit, LoopRow
<1>2. loop' = row
  BY DEF End
<1> HIDE DEF row
<1>3. LimitsFit(row)
  BY <1>1 DEF LimitsFit
<1> QED
  BY <1>1, <1>2, <1>3 DEF LoopInv

LEMMA ModelKeeps ==
  ASSUME LoopInv, OutOfBudget \/ AskModel \/ RateLimited \/ ModelFails
  PROVE  LoopInv'
<1>1. LimitsFit(loop) /\ loop \in LoopRow /\ queue \in Seq(CallIds) /\ seenIds \subseteq CallIds
  BY DEF LoopInv, LimitsFit
<1>2. CASE OutOfBudget
  BY <1>1, <1>2, LoopEnding DEF OutOfBudget
<1>3. CASE ModelFails
  BY <1>1, <1>3, LoopEnding DEF ModelFails
<1>4. CASE AskModel
  <2> DEFINE row == [loop EXCEPT !.phase = "asked", !.modelCalls = loop.modelCalls + 1]
  <2>1. loop.modelCalls \in Nat /\ loop.modelCalls + 1 \in Nat
    BY <1>1 DEF LoopRow
  <2>2. /\ row \in LoopRow /\ row.phase = "asked" /\ row.modelCalls = loop.modelCalls + 1 /\ row.toolCalls = loop.toolCalls
        /\ row.sequence = loop.sequence /\ row.failures = loop.failures
    BY <1>1, <2>1 DEF LoopRow
  <2>3. loop.modelCalls + 1 <= MaxModelCalls
    BY <1>4, <2>1, LoopAssumption DEF AskModel, BudgetSpent
  <2>4. loop.phase = "turn" /\ loop' = row /\ UNCHANGED <<queue, transcript, seenIds, spent>>
    BY <1>4 DEF AskModel
  <2> HIDE DEF row
  <2>5. LimitsFit(row)
    BY <1>1, <2>2, <2>3 DEF LimitsFit
  <2> QED
    BY <1>1, <2>2, <2>4, <2>5 DEF LoopInv
<1>5. CASE RateLimited
  <2>1. spent'.total = spent.total /\ spent'.stored = spent.stored /\ loop.phase = "asked" /\ UNCHANGED <<queue, transcript, seenIds>>
    BY <1>5 DEF RateLimited
  <2>2. CASE End("rate_limited")
    BY <1>1, <2>1, <2>2, LoopEnding
  <2>3. CASE loop' = [loop EXCEPT !.phase = "turn", !.retries = loop.retries + 1]
    <3> DEFINE row == [loop EXCEPT !.phase = "turn", !.retries = loop.retries + 1]
    <3>1. loop.retries + 1 \in Nat
      BY <1>1 DEF LoopRow
    <3>2. /\ row \in LoopRow /\ row.phase = "turn" /\ row.modelCalls = loop.modelCalls /\ row.toolCalls = loop.toolCalls
          /\ row.sequence = loop.sequence /\ row.failures = loop.failures
      BY <1>1, <3>1 DEF LoopRow
    <3>3. loop' = row
      BY <2>3
    <3> HIDE DEF row
    <3>4. LimitsFit(row)
      BY <1>1, <3>2 DEF LimitsFit
    <3>5. UsageFits(spent')
      BY <2>1 DEF LoopInv, UsageFits
    <3> QED
      BY <1>1, <2>1, <3>2, <3>3, <3>4, <3>5 DEF LoopInv
  <2> QED
    BY <1>5, <2>2, <2>3 DEF RateLimited
<1> QED
  BY <1>2, <1>3, <1>4, <1>5

LEMMA RespondKeeps ==
  ASSUME LoopInv, NEW batch \in Responses, NEW shapely \in BOOLEAN, NEW stored \in BOOLEAN, Respond(batch, shapely, stored)
  PROVE  LoopInv'
<1>1. LimitsFit(loop) /\ loop \in LoopRow /\ queue \in Seq(CallIds) /\ seenIds \subseteq CallIds /\ loop.phase = "asked"
      /\ TranscriptFits(transcript, seenIds, {}) /\ loop.failures < MaxFailures /\ UsageFits(spent)
  BY DEF LoopInv, LimitsFit, Respond
<1>2. batch \in Seq(CallIds) /\ Len(batch) \in Nat /\ Range(batch) \subseteq CallIds
  <2>1. batch \in Seq(CallIds) /\ Len(batch) \in Nat
    BY ResponseIs
  <2> QED
    BY <2>1 DEF Range
<1>3. ASSUME NEW how \in {"tool_loop_limit", "response_invalid", "internal", "answered"}, End(how), queue' = queue,
             seenIds' = seenIds \/ seenIds' = seenIds \union Range(batch)
      PROVE  LoopInv'
  <2>1. seenIds' \subseteq CallIds
    BY <1>1, <1>2, <1>3
  <2> QED
    BY <1>1, <1>3, <2>1, LoopEnding
<1>4. CASE /\ loop' = [loop EXCEPT !.phase = "dispatching", !.retries = 0]
           /\ queue' = batch /\ batch # <<>> /\ WithinToolBudget(batch) /\ stored /\ FreshIds(batch) /\ seenIds' = seenIds \union Range(batch)
           /\ transcript' = transcript \o [i \in DOMAIN batch |-> [kind |-> "call", id |-> batch[i]]]
           /\ spent' = [reported |-> spent.reported + 1, total |-> spent.total + 1,
                        stored |-> IF stored THEN spent.total + 1 ELSE spent.stored]
  <2> DEFINE row == [loop EXCEPT !.phase = "dispatching", !.retries = 0]
  <2>1. /\ row \in LoopRow /\ row.phase = "dispatching" /\ row.modelCalls = loop.modelCalls /\ row.toolCalls = loop.toolCalls
        /\ row.sequence = loop.sequence /\ row.failures = loop.failures
    BY <1>1 DEF LoopRow
  <2>2. loop' = row /\ row.toolCalls + Len(batch) <= MaxToolCalls
    BY <1>4, <2>1 DEF WithinToolBudget
  <2> HIDE DEF row
  <2>3. LimitsFit(row)
    BY <1>1, <2>1 DEF LimitsFit
  <2>4. QueueFits(batch) /\ Range(batch) \cap seenIds = {}
    BY <1>2, <1>4 DEF QueueFits, FreshIds
  <2>5. TranscriptFits(transcript', seenIds', Range(batch))
    <3>1. transcript' = transcript \o [i \in DOMAIN batch |-> AskedFor(batch[i])] /\ IsInjective(batch)
      BY <1>4, <2>4 DEF AskedFor, QueueFits
    <3>2. TranscriptFits(transcript', seenIds \union Range(batch), Range(batch))
      BY <1>1, <1>2, <2>4, <3>1, CallsAppended
    <3> QED
      BY <1>4, <3>2
  <2>6. UsageFits(spent') /\ spent'.total > 0
    <3>1. spent.total \in Nat
      BY <1>1 DEF UsageFits
    <3> QED
      BY <1>4, <3>1 DEF UsageFits
  <2>7. seenIds' \subseteq CallIds /\ queue' = batch
    BY <1>1, <1>2, <1>4
  <2> QED
    BY <1>1, <1>2, <2>1, <2>2, <2>3, <2>4, <2>5, <2>6, <2>7 DEF LoopInv
<1> QED
  BY <1>3, <1>4 DEF Respond, UsageStored

\* One call of the queue ends: answered, refused or failed.
LEMMA ResultKeeps ==
  ASSUME LoopInv, loop.phase = "dispatching", NEW row, row \in LoopRow, row.phase = Turn, row.modelCalls = loop.modelCalls, row.toolCalls = loop.toolCalls + 1,
         row.sequence <= loop.sequence + 1, row.failures < MaxFailures, loop' = row, queue' = Tail(queue), transcript' = Result, UNCHANGED <<seenIds, spent>>
  PROVE  LoopInv'
<1> DEFINE left == Tail(queue)
           turns == transcript'
<1>1. LimitsFit(loop) /\ loop \in LoopRow /\ seenIds \subseteq CallIds /\ QueueFits(queue) /\ TranscriptFits(transcript, seenIds, Range(queue))
      /\ loop.toolCalls + Len(queue) <= MaxToolCalls /\ UsageFits(spent) /\ spent.total > 0
  BY DEF LoopInv, LimitsFit
<1>2. turns = Append(transcript, ResultOf(Head(queue)))
  BY DEF Result, ResultOf
<1> HIDE DEF turns
<1>3. /\ TranscriptFits(turns, seenIds, Range(left))
      /\ Len(queue) # 1 => QueueFits(left)
      /\ Len(queue) = 1 => Range(left) = {}
      /\ left \in Seq(CallIds) /\ Len(left) = Len(queue) - 1 /\ Len(queue) \in Nat \ {0}
  BY <1>1, <1>2, ResultAppended
<1> HIDE DEF left
<1>4. row.toolCalls + Len(left) <= MaxToolCalls /\ row.toolCalls <= MaxToolCalls
  <2>1. loop.toolCalls \in Nat /\ MaxToolCalls \in Nat
    BY <1>1, LoopAssumption DEF LoopRow
  <2> QED
    BY <1>1, <1>3, <2>1
<1>5. LimitsFit(row)
  <2>1. row.sequence \in Nat /\ loop.sequence \in Nat /\ loop.toolCalls \in Nat
    BY <1>1 DEF LoopRow
  <2> QED
    BY <1>1, <1>4, <2>1 DEF LimitsFit
<1>6. CASE Len(queue) = 1
  <2>1. row.phase = "turn" /\ TranscriptFits(turns, seenIds, {})
    BY <1>3, <1>6 DEF Turn
  <2> QED
    BY <1>1, <1>3, <1>5, <2>1 DEF LoopInv, left, turns
<1>7. CASE Len(queue) # 1
  <2>1. row.phase = "dispatching"
    BY <1>7 DEF Turn
  <2> QED
    BY <1>1, <1>3, <1>4, <1>5, <1>7, <2>1 DEF LoopInv, left, turns
<1> QED
  BY <1>6, <1>7

LEMMA DispatchKeeps ==
  ASSUME LoopInv, Refuse \/ FailCall \/ AnswerCall \/ AbortCall
  PROVE  LoopInv'
<1>1. LimitsFit(loop) /\ loop \in LoopRow /\ loop.phase = "dispatching" /\ queue \in Seq(CallIds) /\ seenIds \subseteq CallIds
      /\ loop.toolCalls \in Nat /\ loop.sequence \in Nat /\ loop.failures \in Nat /\ loop.toolCalls + 1 <= MaxToolCalls
  <2>1. LimitsFit(loop) /\ loop \in LoopRow /\ loop.phase = "dispatching" /\ queue \in Seq(CallIds) /\ seenIds \subseteq CallIds
        /\ queue # <<>> /\ loop.toolCalls + Len(queue) <= MaxToolCalls
    BY DEF LoopInv, LimitsFit, QueueFits, Refuse, FailCall, AnswerCall, AbortCall
  <2>2. loop.toolCalls \in Nat /\ loop.sequence \in Nat /\ loop.failures \in Nat /\ Len(queue) \in Nat \ {0} /\ MaxToolCalls \in Nat
    BY <2>1, LoopAssumption DEF LoopRow
  <2> QED
    BY <2>1, <2>2
<1>2. Turn \in {"turn", "dispatching"}
  BY DEF Turn
<1>6. loop.toolCalls + 1 \in Nat /\ loop.sequence + 1 \in Nat /\ loop.failures + 1 \in Nat
  BY <1>1
<1>3. CASE AnswerCall
  <2> DEFINE row == [loop EXCEPT !.phase = Turn, !.toolCalls = loop.toolCalls + 1, !.sequence = loop.sequence + 1, !.failures = 0]
  <2>1. loop' = row /\ queue' = Tail(queue) /\ transcript' = Result /\ UNCHANGED <<seenIds, spent>>
    BY <1>3 DEF AnswerCall, Observe
  <2>2. /\ row \in LoopRow /\ row.phase = Turn /\ row.modelCalls = loop.modelCalls /\ row.toolCalls = loop.toolCalls + 1
        /\ row.sequence = loop.sequence + 1 /\ row.failures = 0
    BY <1>1, <1>2, <1>6 DEF LoopRow
  <2> HIDE DEF row
  <2>3. row.sequence <= loop.sequence + 1 /\ row.failures < MaxFailures
    BY <1>1, <2>2, LoopAssumption
  <2> QED
    BY <1>1, <2>1, <2>2, <2>3, ResultKeeps
<1>4. ASSUME NEW mediated \in BOOLEAN, ObserveFailure(mediated) PROVE LoopInv'
  <2> DEFINE counted == [loop EXCEPT !.toolCalls = loop.toolCalls + 1, !.failures = loop.failures + 1,
                                     !.sequence = IF mediated THEN loop.sequence + 1 ELSE loop.sequence]
             last == [counted EXCEPT !.phase = "over", !.end = "tool_loop_limit"]
             row == [counted EXCEPT !.phase = Turn]
  <2>1. \/ counted.failures >= MaxFailures /\ loop' = last /\ UNCHANGED <<queue, transcript>>
        \/ counted.failures < MaxFailures /\ loop' = row /\ queue' = Tail(queue) /\ transcript' = Result
    BY <1>4 DEF ObserveFailure
  <2>2. UNCHANGED <<seenIds, spent>>
    BY <1>4 DEF ObserveFailure
  <2>3. /\ counted \in LoopRow /\ counted.modelCalls = loop.modelCalls /\ counted.toolCalls = loop.toolCalls + 1
        /\ counted.sequence \in {loop.sequence, loop.sequence + 1} /\ counted.failures = loop.failures + 1
    BY <1>1, <1>6 DEF LoopRow
  <2> HIDE DEF counted
  <2>4. last \in LoopRow /\ last.phase = "over" /\ last.modelCalls = counted.modelCalls /\ last.toolCalls = counted.toolCalls /\ last.sequence = counted.sequence
    BY <2>3 DEF LoopRow
  <2>5. row \in LoopRow /\ row.phase = Turn /\ row.modelCalls = counted.modelCalls /\ row.toolCalls = counted.toolCalls /\ row.sequence = counted.sequence /\ row.failures = counted.failures
    BY <1>2, <2>3 DEF LoopRow
  <2> HIDE DEF last, row
  <2>6. CASE loop' = last /\ UNCHANGED <<queue, transcript>>
    <3>1. LimitsFit(last)
      <4>1. loop.sequence <= loop.toolCalls /\ loop.modelCalls <= MaxModelCalls
        BY <1>1 DEF LimitsFit
      <4> QED
        BY <1>1, <2>3, <2>4, <4>1 DEF LimitsFit
    <3> QED
      BY <1>1, <2>2, <2>4, <2>6, <3>1 DEF LoopInv
  <2>7. CASE counted.failures < MaxFailures /\ loop' = row /\ queue' = Tail(queue) /\ transcript' = Result
    <3>1. row.sequence <= loop.sequence + 1 /\ row.failures < MaxFailures
      BY <1>1, <2>3, <2>5, <2>7
    <3> QED
      BY <1>1, <2>2, <2>3, <2>5, <2>7, <3>1, ResultKeeps
  <2> QED
    BY <2>1, <2>6, <2>7
<1>5. CASE AbortCall
  <2> DEFINE row == [loop EXCEPT !.phase = "over", !.end = "aborted", !.toolCalls = loop.toolCalls + 1]
  <2>1. row \in LoopRow /\ row.phase = "over" /\ row.modelCalls = loop.modelCalls /\ row.toolCalls = loop.toolCalls + 1 /\ row.sequence = loop.sequence
    BY <1>1, <1>6 DEF LoopRow
  <2>2. loop' = row /\ UNCHANGED <<queue, transcript, seenIds, spent>>
    BY <1>5 DEF AbortCall
  <2> HIDE DEF row
  <2>3. LimitsFit(row)
    <3>1. loop.sequence <= loop.toolCalls /\ loop.modelCalls <= MaxModelCalls
      BY <1>1 DEF LimitsFit
    <3> QED
      BY <1>1, <2>1, <3>1 DEF LimitsFit
  <2> QED
    BY <1>1, <2>1, <2>2, <2>3 DEF LoopInv
<1> QED
  BY <1>3, <1>4, <1>5 DEF Refuse, FailCall

LEMMA LoopStep == LoopInv /\ [LoopNext]_loopVars => LoopInv'
<1> SUFFICES ASSUME LoopInv, [LoopNext]_loopVars PROVE LoopInv'
  OBVIOUS
<1>1. CASE UNCHANGED loopVars
  BY <1>1 DEF LoopInv, loopVars
<1> QED
  BY <1>1, ModelKeeps, RespondKeeps, DispatchKeeps DEF LoopNext

\* Within its limits, paired and paid for: the loop of an Attempt at every moment.
THEOREM LoopInvariant == LoopSpec => []LoopInv
<1>1. LoopInit => LoopInv
  BY LoopInitial
<1>2. LoopInv /\ [LoopNext]_loopVars => LoopInv'
  BY LoopStep
<1> QED
  BY <1>1, <1>2, PTL DEF LoopSpec

\* A call and its result stand in the transcript once each, in that order.
LEMMA TranscriptPairs ==
  ASSUME NEW turns, NEW seen, TranscriptFits(turns, seen, {}), NEW id
  PROVE  LET batch == {i \in DOMAIN turns : turns[i] = [kind |-> "call", id |-> id]}
             results == {i \in DOMAIN turns : turns[i] = [kind |-> "result", id |-> id]}
         IN  /\ Cardinality(batch) <= 1 /\ Cardinality(results) = Cardinality(batch)
             /\ \A i \in batch, j \in results : i < j
<1> DEFINE batch == {i \in DOMAIN turns : turns[i] = AskedFor(id)}
           results == {i \in DOMAIN turns : turns[i] = ResultOf(id)}
<1>1. AskedFor(id).kind = "call" /\ AskedFor(id).id = id /\ ResultOf(id).kind = "result" /\ ResultOf(id).id = id
  BY DEF AskedFor, ResultOf
<1>2. (\A i, j \in batch : i = j) /\ \A i, j \in results : i = j
  BY DEF TranscriptFits
<1>3. \A j \in results : \E i \in batch : i < j
  BY <1>1 DEF TranscriptFits
<1>4. \A i \in batch : \E j \in results : TRUE
  BY <1>1 DEF TranscriptFits
<1>5. \A i \in batch, j \in results : i < j
  BY <1>2, <1>3
<1> HIDE DEF batch, results
<1>6. CASE batch = {}
  <2>1. results = {}
    BY <1>3, <1>6
  <2>2. Cardinality(batch) = 0 /\ Cardinality(results) = 0
    BY <1>6, <2>1, FS_EmptySet
  <2> QED
    BY <1>5, <2>2 DEF batch, results, AskedFor, ResultOf
<1>7. CASE batch # {}
  <2>1. PICK i \in batch : TRUE
    BY <1>7
  <2>2. PICK j \in results : TRUE
    BY <1>4, <2>1
  <2>3. batch = {i} /\ results = {j}
    BY <1>2, <2>1, <2>2
  <2>4. Cardinality(batch) = 1 /\ Cardinality(results) = 1
    BY <2>3, FS_Singleton
  <2> QED
    BY <1>5, <2>4 DEF batch, results, AskedFor, ResultOf
<1> QED
  BY <1>6, <1>7

THEOREM LoopSoundHolds == LoopSpec => []LoopSound
<1>1. ASSUME LoopInv PROVE LoopSound
  <2>1. LoopTypeOK
    BY <1>1 DEF LoopInv, LimitsFit, LoopRow, LoopTypeOK
  <2>2. LimitsHeld
    BY <1>1 DEF LoopInv, LimitsFit, LimitsHeld
  <2>3. TranscriptPaired
    <3>1. loop.phase = "asked" => TranscriptFits(transcript, seenIds, {})
      BY <1>1 DEF LoopInv
    <3> QED
      BY <3>1, TranscriptPairs DEF TranscriptPaired
  <2>4. UsageBeforeAction
    BY <1>1 DEF LoopInv, UsageFits, UsageBeforeAction
  <2> QED
    BY <2>1, <2>2, <2>3, <2>4 DEF LoopSound
<1> QED
  BY <1>1, LoopInvariant, PTL
=============================================================================
