------------------------------- MODULE Memory -------------------------------
(***************************************************************************)
(* Long-term memory of one agent instance and its owner, on top of         *)
(* Conversations: infrastructure/database/memory.py (items, versions,      *)
(* candidates of a context) and runtime_integration.py (what a Run         *)
(* proposes, the policy it was submitted under, the Worker's maintenance   *)
(* pass, the owner's review).  The pass is three parts with other          *)
(* transactions in between: project the Runs it read, queue extraction     *)
(* Runs, turn pending proposals into suggestions and automatic saves.      *)
(***************************************************************************)
EXTENDS Conversations

CONSTANTS
    Facts,          \* contents of a memory
    Editors,        \* clients of the memory API, each with what it last read
    ScopeCapacity,  \* active items a scope may hold
    PerScope,       \* candidates taken of each scope before refilling
    MemoryBudget,   \* memories one context may hold
    ExtractLimit,   \* rows one extraction pass looks at
    MaxItems,       \* bound: memory items ever created
    MaxVersions,    \* bound: versions of one item
    MaxPolicies     \* bound: edits of the policy

ASSUME MemoryConstants ==
    /\ {ScopeCapacity, PerScope, MemoryBudget, ExtractLimit, MaxItems,
        MaxVersions, MaxPolicies} \subseteq Nat
    /\ IsFiniteSet(Facts)  \* at most 32000 bytes each

VARIABLES
    policy,         \* agent_memory_policies: mode, extraction, revision
    integrations,   \* run_integrations, one per Run
    items,          \* memory_items with their memory_versions
    suggestions,    \* memory_suggestions
    readers,        \* what each client read: [item, version]
    pass,           \* the maintenance pass: its phase and the Runs to project
    instanceEnabled \* agent_instances.enabled

memoryOnly == <<policy, integrations, items, suggestions, readers, pass, instanceEnabled>>
memoryVars == <<talkVars, memoryOnly>>

Mode == {"manual", "review", "automatic_private"}
MemScope == {"user", "agent"}
Proposals == [scope : MemScope, fact : Facts]

MemoryInit ==
    /\ ConversationInit
    /\ policy = [mode |-> "manual", extraction |-> FALSE, revision |-> 0]
    /\ integrations = <<>> /\ items = <<>> /\ suggestions = <<>>
    /\ readers = [e \in Editors |-> [item |-> 0, version |-> 0]]
    /\ pass = [phase |-> "idle", todo |-> {}]
    /\ instanceEnabled = TRUE

-----------------------------------------------------------------------------
(* Items.                                                                  *)

CurrentVersion(i) == Len(items[i].versions)
CurrentFact(i) == items[i].versions[CurrentVersion(i)].fact
ActiveIn(its, scope) == {i \in DOMAIN its : its[i].scope = scope /\ its[i].status = "active"}

NewItem(scope, fact, automatic) ==
    [scope |-> scope, status |-> "active", automatic |-> automatic,
     versions |-> <<[fact |-> fact, base |-> 0]>>]

\* Mutant: the capacity is compared one too late.
RoomForOneMore(its, scope) == Cardinality(ActiveIn(its, scope)) <= ScopeCapacity
HasRoom(its, scope) == Cardinality(ActiveIn(its, scope)) < ScopeCapacity

\* The newest active items of a scope, as [item, version], newest first.
Newest1st(scope) ==
    LET ids == Reverse(Ascending(ActiveIn(items, scope)))
    IN [k \in 1..Len(ids) |-> [item |-> ids[k], version |-> CurrentVersion(ids[k])]]

Take(seq, k) == SubSeq(seq, 1, Min({Len(seq), k}))

\* PerScope of each scope; a full scope is refilled by what the other lacks.
Share(mine, other) ==
    IF Len(other) < PerScope THEN Take(mine, PerScope + (PerScope - Len(other)))
    ELSE Take(mine, PerScope)

\* What the next context of message m injects: user memories first.
Candidates(m) ==
    LET user == Newest1st("user")
        own == Newest1st("agent")
        fit == Min({MemoryBudget, ContextBudget - Cost[m]})
    IN ToSet(Take(Share(user, own) \o Share(own, user), fit))

-----------------------------------------------------------------------------
(* Submission captures the policy; success captures what the Run proposes. *)

Capture(mode, extraction) ==
    [mode |-> mode, extraction |-> extraction, revision |-> policy.revision,
     proposals |-> {}, state |-> "none", derived |-> 0]

\* Mutant: a Run is submitted without its row.
CaptureNothing == UNCHANGED integrations

CaptureIntegration ==
    integrations' = Append(integrations, Capture(policy.mode, policy.extraction))

TalkSubmit ==
    /\ \/ \E m \in ClientMessage : SendMessage(m, Candidates(m))
       \/ \E i \in DOMAIN turns : RetryTurn(i, Candidates(turns[i].message))
    /\ CaptureIntegration
    /\ UNCHANGED <<policy, items, suggestions, readers, pass, instanceEnabled>>

\* A Run outside any conversation: its context holds memories only.
SubmitRun(m) ==
    /\ instanceEnabled /\ Len(runs) < MaxRuns
    /\ runs' = Append(runs, NewRun(0, m, Candidates(m)))
    /\ CaptureIntegration
    /\ UNCHANGED <<conversation, turns, replies, owed, refreshes, compaction>>
    /\ UNCHANGED <<policy, items, suggestions, readers, pass, instanceEnabled>>

Parents(r) == {q \in DOMAIN integrations : integrations[q].derived = r}

\* capture_proposals, in the transaction that lets the Run succeed.  An
\* extraction Run reports to its parent and proposes agent facts only.
Captured(r, proposed) ==
    IF Parents(r) # {}
    THEN [q \in DOMAIN integrations |->
            IF q \in Parents(r)
            THEN [integrations[q] EXCEPT !.proposals = proposed,
                    !.state = IF proposed # {} THEN "pending" ELSE "no_facts"]
            ELSE integrations[q]]
    ELSE IF integrations[r].mode = "manual" THEN integrations
    ELSE [integrations EXCEPT ![r] = [@ EXCEPT !.proposals = proposed,
            !.state = IF proposed # {} THEN "pending"
                      ELSE IF integrations[r].extraction THEN "extraction_pending" ELSE "none"]]

SucceedProposing(r, proposed) ==
    /\ Parents(r) # {} => \A p \in proposed : p.scope = "agent"
    /\ SettleAttempt(r, "succeeded")
    /\ integrations' = Captured(r, proposed)
    /\ UNCHANGED <<policy, items, suggestions, readers, pass, instanceEnabled>>

\* Everything else a conversation does leaves the memory alone.
TalkOn ==
    /\ TalkStep
    /\ \A r \in DOMAIN runs : runs'[r].status = "succeeded" => runs[r].status = "succeeded"
    /\ UNCHANGED memoryOnly

-----------------------------------------------------------------------------
(* The maintenance pass of a Worker.                                       *)

Waiting(r) == runs[r].status = "succeeded" /\ integrations[r].state \in {"pending", "extraction_pending"}

BeginPass ==
    /\ pass.phase = "idle"
    /\ pass' = [phase |-> "projecting", todo |-> {r \in DOMAIN runs : Waiting(r)}]
    /\ UNCHANGED <<talkVars, policy, integrations, items, suggestions, readers, instanceEnabled>>

\* An error anywhere ends the pass; the next one starts over.
AbandonPass ==
    /\ pass.phase # "idle"
    /\ pass' = [phase |-> "idle", todo |-> {}]
    /\ UNCHANGED <<talkVars, policy, integrations, items, suggestions, readers, instanceEnabled>>

PassProjects(r) ==
    /\ pass.phase = "projecting" /\ r \in pass.todo
    /\ pass' = [pass EXCEPT !.todo = @ \ {r}]
    /\ IF runs[r].turn # 0 THEN ProjectRun(r, "succeeded")
       ELSE UNCHANGED <<turns, replies, refreshes>>
    /\ UNCHANGED <<conversation, runs, owed, compaction>>
    /\ UNCHANGED <<policy, integrations, items, suggestions, readers, instanceEnabled>>

AuthoritativeSource(r) == runs[r].turn = 0 \/ turns[runs[r].turn].authority = r

\* What the extraction transaction makes of a Run it looks at.
ExtractionVerdict(r) ==
    IF ~AuthoritativeSource(r) THEN "extraction_pending"
    ELSE IF policy.revision # integrations[r].revision \/ ~policy.extraction
            \/ policy.mode = "manual" THEN "policy_changed"
    ELSE IF ~instanceEnabled THEN "agent_disabled"
    ELSE "extraction_queued"

\* The oldest k of a set of Runs.
FirstOf(rows, k) == {r \in rows : Cardinality({q \in rows : q < r}) < k}

\* A full queue leaves the rest of the rows for the next pass.
QueueExtractions ==
    LET rows == FirstOf({r \in DOMAIN runs : /\ runs[r].status = "succeeded"
                                            /\ integrations[r].state = "extraction_pending"},
                        ExtractLimit)
        queued == FirstOf({r \in rows : ExtractionVerdict(r) = "extraction_queued"},
                          MaxRuns - Len(runs))
        derivedOf(r) == Len(runs) + Cardinality({q \in queued : q <= r})
    IN /\ pass.phase = "projecting" /\ pass.todo = {}
       /\ pass' = [pass EXCEPT !.phase = "materializing"]
       /\ \E m \in ClientMessage :
             runs' = runs \o [k \in 1..Cardinality(queued) |-> NewRun(0, m, Candidates(m))]
       /\ integrations' =
            [r \in DOMAIN integrations |->
                IF r \in queued
                THEN [integrations[r] EXCEPT !.state = "extraction_queued", !.derived = derivedOf(r)]
                ELSE IF r \in rows /\ ExtractionVerdict(r) # "extraction_queued"
                THEN [integrations[r] EXCEPT !.state = ExtractionVerdict(r)]
                ELSE IF /\ integrations[r].state = "extraction_queued"
                        /\ runs[integrations[r].derived].status \in RunEnded \ {"succeeded"}
                THEN [integrations[r] EXCEPT !.state = "extraction_failed"]
                ELSE integrations[r]]
            \o [k \in 1..Cardinality(queued) |-> Capture("manual", FALSE)]
       /\ UNCHANGED <<conversation, turns, replies, owed, refreshes, compaction>>
       /\ UNCHANGED <<policy, items, suggestions, readers, instanceEnabled>>

\* Mutant: a fact the owner deleted may be saved again by itself.
KnownNever(its, scope, fact) == FALSE
KnownBefore(its, scope, fact) ==
    \E i \in DOMAIN its : its[i].scope = scope
        /\ \E v \in DOMAIN its[i].versions : its[i].versions[v].fact = fact

Held(its, scope, fact) ==
    \E i \in ActiveIn(its, scope) : its[i].versions[Len(its[i].versions)].fact = fact

\* _save_suggestion on suggestion number k of the books [items, suggestions].
Save(books, k, automatic) ==
    LET s == books.suggestions[k]
        its == books.items
        mark(state, item) == [books.suggestions EXCEPT ![k].state = state, ![k].item = item]
    IN IF Held(its, s.scope, s.fact)
       THEN [books EXCEPT !.suggestions = mark("duplicate", 0)]
       ELSE IF automatic /\ KnownBefore(its, s.scope, s.fact) THEN books
       ELSE IF ~HasRoom(its, s.scope) THEN [books EXCEPT !.suggestions = mark("quota", 0)]
       ELSE [items |-> Append(its, NewItem(s.scope, s.fact, automatic)),
             suggestions |-> mark("saved", Len(its) + 1)]

Suggest(books, r, p) ==
    LET prior == \E k \in DOMAIN books.suggestions :
                    books.suggestions[k].source = r /\ books.suggestions[k].scope = p.scope
                    /\ books.suggestions[k].fact = p.fact
        grown == [books EXCEPT !.suggestions = Append(@,
                    [source |-> r, scope |-> p.scope, fact |-> p.fact,
                     state |-> "pending", item |-> 0])]
    IN IF prior THEN books
       ELSE IF /\ integrations[r].mode = "automatic_private"
               /\ policy.mode = "automatic_private" /\ p.scope = "agent"
       THEN Save(grown, Len(grown.suggestions), TRUE)
       ELSE grown

\* Mutant: any Run of a Turn counts as its source.
AnySource(r) == runs[r].turn = 0 \/ conversation # "deleted"

\* eligible_conversation_source
EligibleSource(r) ==
    runs[r].turn = 0 \/ (conversation # "deleted" /\ turns[runs[r].turn].authority = r)

\* Mutant: an ineligible row is left as it is.
PendingForever(r) ==
    IF ~EligibleSource(r) THEN "pending"
    ELSE IF policy.mode = "manual" \/ policy.revision # integrations[r].revision
    THEN "policy_changed" ELSE "processed"

PendingVerdict(r) ==
    IF ~EligibleSource(r) THEN "source_ineligible"
    ELSE IF policy.mode = "manual" \/ policy.revision # integrations[r].revision
    THEN "policy_changed" ELSE "processed"

\* The rows that wait, and the proposals of those still wanted: <<Run, proposal>>.
PendingRows == {r \in DOMAIN integrations : runs[r].status = "succeeded" /\ integrations[r].state = "pending"}
ToProcess == {w \in PendingRows \X Proposals :
                PendingVerdict(w[1]) = "processed" /\ w[2] \in integrations[w[1]].proposals}

\* Run after Run; the order of one Run's proposals is any.
Orders == {w \in SetToSeqs(ToProcess) : \A j, k \in DOMAIN w : j < k => w[j][1] <= w[k][1]}

\* The books after each proposal in turn.
Books(work) ==
    LET books[k \in 0..Len(work)] ==
            IF k = 0 THEN [items |-> items, suggestions |-> suggestions]
            ELSE Suggest(books[k - 1], work[k][1], work[k][2])
    IN books

MaterializePending ==
    \E work \in Orders :
        LET books == Books(work)[Len(work)] IN
        /\ pass.phase = "materializing"
        /\ Len(books.items) <= MaxItems
        /\ pass' = [phase |-> "idle", todo |-> {}]
        /\ items' = books.items /\ suggestions' = books.suggestions
        /\ integrations' = [r \in DOMAIN integrations |->
               IF r \in PendingRows THEN [integrations[r] EXCEPT !.state = PendingVerdict(r)]
               ELSE integrations[r]]
        /\ UNCHANGED <<talkVars, policy, readers, instanceEnabled>>

-----------------------------------------------------------------------------
(* The owner.                                                              *)

\* A client saves the policy it read: a stale revision is refused, so every
\* accepted write is the next revision.
SetPolicy(mode, extraction) ==
    /\ policy.revision < MaxPolicies
    /\ policy' = [mode |-> mode, extraction |-> extraction, revision |-> policy.revision + 1]
    /\ UNCHANGED <<talkVars, integrations, items, suggestions, readers, pass, instanceEnabled>>

DecideSuggestion(k, approve) ==
    LET books == [items |-> items, suggestions |-> suggestions]
        decided == IF approve THEN Save(books, k, FALSE)
                   ELSE [books EXCEPT !.suggestions[k].state = "dismissed"]
    IN /\ suggestions[k].state = "pending"
       /\ Len(decided.items) <= MaxItems
       /\ items' = decided.items /\ suggestions' = decided.suggestions
       /\ UNCHANGED <<talkVars, policy, integrations, readers, pass, instanceEnabled>>

CreateMemory(scope, fact) ==
    /\ Len(items) < MaxItems
    /\ HasRoom(items, scope)
    /\ items' = Append(items, NewItem(scope, fact, FALSE))
    /\ UNCHANGED <<talkVars, policy, integrations, suggestions, readers, pass, instanceEnabled>>

\* From a Run that succeeded with output; the owner may reword it.
PromoteRun(r, scope, fact) ==
    /\ runs[r].status = "succeeded"
    /\ CreateMemory(scope, fact)

ReadMemory(e, i) ==
    /\ readers' = [readers EXCEPT ![e] = [item |-> i, version |-> CurrentVersion(i)]]
    /\ UNCHANGED <<talkVars, policy, integrations, items, suggestions, pass, instanceEnabled>>

\* Mutant: the expected version is not compared.
EditsAnyVersion(e, i) == items[i].status = "active"
VersionExpected(e, i) == items[i].status = "active" /\ readers[e].version = CurrentVersion(i)

EditMemory(e, fact) ==
    LET i == readers[e].item IN
    /\ i # 0 /\ VersionExpected(e, i)
    /\ CurrentVersion(i) < MaxVersions
    /\ items' = [items EXCEPT ![i].versions = Append(@, [fact |-> fact, base |-> readers[e].version])]
    /\ UNCHANGED <<talkVars, policy, integrations, suggestions, readers, pass, instanceEnabled>>

\* With the version read, or without one.
DeleteMemory(i) ==
    /\ items[i].status = "active"
    /\ items' = [items EXCEPT ![i].status = "deleted"]
    /\ UNCHANGED <<talkVars, policy, integrations, suggestions, readers, pass, instanceEnabled>>

ToggleInstance ==
    /\ instanceEnabled' = ~instanceEnabled
    /\ UNCHANGED <<talkVars, policy, integrations, items, suggestions, readers, pass>>

-----------------------------------------------------------------------------
MemoryRuns ==
    \/ TalkSubmit
    \/ \E m \in ClientMessage : SubmitRun(m)
    \/ \E r \in DOMAIN runs : \E ps \in SUBSET Proposals :
          Cardinality(ps) <= 1 /\ SucceedProposing(r, ps)
    \/ TalkOn

MemoryPass ==
    \/ BeginPass
    \/ \E r \in DOMAIN runs : PassProjects(r)
    \/ QueueExtractions
    \/ MaterializePending

OwnerEdits ==
    \/ \E mode \in Mode : \E x \in BOOLEAN : SetPolicy(mode, x)
    \/ \E k \in DOMAIN suggestions : \E a \in BOOLEAN : DecideSuggestion(k, a)
    \/ \E sc \in MemScope : \E f \in Facts : CreateMemory(sc, f)
    \/ \E r \in DOMAIN runs : \E sc \in MemScope : \E f \in Facts : PromoteRun(r, sc, f)
    \/ \E e \in Editors : \E i \in DOMAIN items : ReadMemory(e, i)
    \/ \E e \in Editors : \E f \in Facts : EditMemory(e, f)
    \/ \E i \in DOMAIN items : DeleteMemory(i)

MemoryNext == MemoryRuns \/ MemoryPass \/ AbandonPass \/ OwnerEdits \/ ToggleInstance
MemorySpec == MemoryInit /\ [][MemoryNext]_memoryVars

(* Fairness: the Worker starts a pass every few seconds and carries it on; *)
(* an error may end passes, but not every one of them.                     *)
PassesGoOn == WF_memoryVars(MemoryPass) /\ SF_memoryVars(MaterializePending)

-----------------------------------------------------------------------------
(* The stored rows are well formed.                                        *)
MemoryTypeOK ==
    /\ policy.mode \in Mode /\ policy.revision \in 0..MaxPolicies
    /\ DOMAIN integrations = DOMAIN runs
    /\ \A r \in DOMAIN integrations :
          /\ integrations[r].revision <= policy.revision
          /\ integrations[r].derived \in 0..Len(runs)
    /\ \A k \in DOMAIN suggestions : suggestions[k].item \in 0..Len(items)

(* A scope never holds more active items than its capacity, whichever of   *)
(* the four ways in (create, promote, an approved suggestion, an automatic *)
(* save) filled it.                                                        *)
ScopeWithinCapacity == \A sc \in MemScope : Cardinality(ActiveIn(items, sc)) <= ScopeCapacity

(* Nothing is learnt by itself twice: an automatic save is of an agent     *)
(* fact that no item of that scope, deleted ones included, ever held, so   *)
(* what the owner deleted stays forgotten (_save_suggestion).              *)
NothingRelearnt ==
    \A i \in DOMAIN items : items[i].automatic =>
        /\ items[i].scope = "agent"
        /\ \A j \in 1..(i - 1) : items[j].scope = "agent" =>
              items[j].versions[1].fact # items[i].versions[1].fact

(* A suggestion drawn from a conversation comes from the Run whose answer  *)
(* the Turn kept, never from one a retry superseded                        *)
(* (eligible_conversation_source).                                         *)
SuggestedFromAnswer ==
    \A k \in DOMAIN suggestions :
        LET r == suggestions[k].source IN
        runs[r].status = "succeeded" /\ (runs[r].turn # 0 => turns[runs[r].turn].authority = r)

(* No edit is lost: every version was written by someone who had read the  *)
(* one before it (edit_memory).                                            *)
NoLostEdit ==
    \A i \in DOMAIN items : \A v \in DOMAIN items[i].versions : items[i].versions[v].base = v - 1

(* What the memory of an agent holds, whichever way it came in.            *)
MemorySound ==
    /\ MemoryTypeOK /\ ScopeWithinCapacity /\ NothingRelearnt
    /\ SuggestedFromAnswer /\ NoLostEdit

(* Proposals do not stay pending: while passes run to completion, each is  *)
(* turned into suggestions or given up for a recorded reason.              *)
StillPending(r) == r \in DOMAIN integrations /\ integrations[r].state = "pending"
ProposalsSettle == \A r \in 1..MaxRuns : StillPending(r) ~> ~StillPending(r)
=============================================================================
