------------------------------ MODULE Workflows ------------------------------
(***************************************************************************)
(* Durable autonomous workflows: infrastructure/database/workflows.py over *)
(* domain/workflows.py.  A workflow is a row whose checkpoint revision     *)
(* advances by one per step; each step is one ordinary Run with a single   *)
(* attempt.  Four actors write to it, each in one serialised transaction:  *)
(* the owner (create, pause, cancel, signal, decide), the Worker that      *)
(* settles the step's Run (commit_step inside the success transaction),    *)
(* whatever else ends the Run (failure, cancellation, recovery), and the   *)
(* Scheduler's continuation tick.                                          *)
(*                                                                         *)
(* Data kept: a checkpoint's content is the number of the step that wrote  *)
(* it, the pinned executable identity is a configuration number, the three *)
(* cumulative reservations, which are checked and drawn down alike, are    *)
(* one number, and updated_at, read only to order the tick's scan, is the  *)
(* position of the workflow in scanOrder.                                  *)
(***************************************************************************)
EXTENDS Integers, Sequences, FiniteSets

CONSTANTS
    Workflow,       \* submission keys of one owner: a key names one workflow
    Budgets,        \* records [steps, reservation] a request may carry
    StepClaim,      \* reservation_for(limits): one step's share
    SignalKeys,     \* keys a step may wait for
    Payloads,       \* signal contents
    MaxActive,      \* active workflows of one owner
    QueueCapacity,  \* unfinished Runs the queue admits
    ScanLimit,      \* rows one scan of the tick looks at
    Retained,       \* max_retained_checkpoints
    DeadlineAfter,  \* deadline_hours, in instants
    DecisionLife,   \* instants a decision stays decidable
    MaxInstant,     \* bound: the clock stops here
    MaxEdits        \* bound: edits of agent instances

ASSUME WorkflowConstants ==
    /\ \A b \in Budgets : b.steps \in Nat \ {0} /\ b.reservation \in Nat
    /\ {StepClaim, MaxActive, QueueCapacity, ScanLimit, Retained,
        DeadlineAfter, DecisionLife} \subseteq Nat \ {0}
    /\ {MaxInstant, MaxEdits} \subseteq Nat

VARIABLES
    wf,         \* workflow_executions: a row per submission key, or Absent
    steps,      \* workflow_steps, with the status of each step's Run
    checkpoints,\* workflow_checkpoints kept: records [rev, step]
    decisions,  \* workflow_decisions: records [rev, state, expires]
    signals,    \* workflow_signals accepted: records [key, payload, rev]
    scanOrder,  \* workflow ids by updated_at, oldest first
    wfAgent,    \* each workflow's agent instance: enabled, config, resolvable
    edits,      \* edits of agent instances so far
    instant     \* the clock

wfVars == <<wf, steps, checkpoints, decisions, signals, scanOrder, wfAgent, edits, instant>>

WfTerminal == {"succeeded", "failed", "cancelled", "needs_review"}
WfActive == {"pending", "runnable", "running", "waiting"}
WaitKind == {"none", "time", "signal", "owner_decision"}
StepStatus == {"pending", "running", "succeeded", "failed", "cancelled"}
DecisionState == {"pending", "approved", "denied", "expired", "cancelled", "consumed"}
StepRunEnded == {"succeeded", "failed", "cancelled"}
ReviewReason == {"none", "configuration_changed", "run_terminal_without_progress",
                 "authority_lost", "deadline_exceeded", "budget_exhausted",
                 "step_limit_reached"}

Absent == [status |-> "absent"]
Exists(w) == wf[w] # Absent

\* What a step's package may answer: decoded and bounded at the Worker.
Directives ==
    {[kind |-> "complete"], [kind |-> "next"]}
    \cup [kind : {"time"}, wakeup : 1..MaxInstant + 1]
    \cup [kind : {"signal"}, key : SignalKeys]
    \cup {[kind |-> "owner_decision"]}

LastStep(w) == steps[w][Len(steps[w])]

\* updated_at = now: the row moves behind every row written before.
Touch(order, w) == Append(SelectSeq(order, LAMBDA v : v # w), w)

\* Mutant: a new status that leaves the wait behind.
MovedStillWaiting(row, status) == [row EXCEPT !.status = status]

\* A row with its wait fields cleared and a new status.
Moved(row, status) ==
    [row EXCEPT !.status = status, !.wait = "none", !.wakeup = 0, !.key = "none"]

ActiveCount == Cardinality({w \in Workflow : Exists(w) /\ wf[w].status \in WfActive})

\* Workflows with a Run the queue counts against its capacity; a workflow has
\* at most one (StepChain).
LiveRuns == {w \in Workflow : \E i \in DOMAIN steps[w] : steps[w][i].run \notin StepRunEnded}

NewStep(rev, content) ==
    [run |-> "created", rev |-> rev, state |-> content, status |-> "running"]

WorkflowInit ==
    /\ wf = [w \in Workflow |-> Absent]
    /\ steps = [w \in Workflow |-> <<>>]
    /\ checkpoints = [w \in Workflow |-> {}]
    /\ decisions = [w \in Workflow |-> {}]
    /\ signals = [w \in Workflow |-> {}]
    /\ scanOrder = <<>>
    /\ wfAgent = [w \in Workflow |-> [enabled |-> TRUE, config |-> 0, resolvable |-> TRUE]]
    /\ edits = 0
    /\ instant = 0

-----------------------------------------------------------------------------
(* The owner.  A create whose key already names a workflow returns that    *)
(* workflow or reports a conflict: no row changes.                         *)

CreateWorkflow(w, b) ==
    /\ ~Exists(w)
    /\ ActiveCount < MaxActive
    /\ StepClaim <= b.reservation
    /\ wfAgent[w].enabled /\ wfAgent[w].resolvable
    /\ Cardinality(LiveRuns) < QueueCapacity
    /\ wf' = [wf EXCEPT ![w] =
                [status |-> "running", paused |-> FALSE, rev |-> 0, steps |-> 1,
                 budget |-> b, reserved |-> StepClaim,
                 deadline |-> instant + DeadlineAfter, config |-> wfAgent[w].config,
                 wait |-> "none", wakeup |-> 0, key |-> "none", reason |-> "none"]]
    /\ steps' = [steps EXCEPT ![w] = <<NewStep(0, 0)>>]
    /\ scanOrder' = Touch(scanOrder, w)
    /\ UNCHANGED <<checkpoints, decisions, signals, wfAgent, edits, instant>>

SetPaused(w, flag) ==
    /\ Exists(w) /\ wf[w].status \notin WfTerminal
    /\ wf[w].paused # flag          \* writing the same flag changes nothing
    /\ wf' = [wf EXCEPT ![w].paused = flag]
    /\ scanOrder' = Touch(scanOrder, w)
    /\ UNCHANGED <<steps, checkpoints, decisions, signals, wfAgent, edits, instant>>

\* The step's Run is not cancelled here: it goes on and commits nothing.
CancelWorkflow(w) ==
    /\ Exists(w) /\ wf[w].status \in WfActive
    /\ wf' = [wf EXCEPT ![w] = Moved(@, "cancelled")]
    /\ decisions' = [decisions EXCEPT ![w] =
           {IF d.state = "pending" THEN [d EXCEPT !.state = "cancelled"] ELSE d : d \in @}]
    /\ scanOrder' = Touch(scanOrder, w)
    /\ UNCHANGED <<steps, checkpoints, signals, wfAgent, edits, instant>>

\* Mutant: any current delivery under an unused key is accepted.
SignalUnwaited(w, key, rev) == (\A s \in signals[w] : s.key # key) /\ rev = wf[w].rev

\* Whether a delivery is new, current and waited for; every other delivery is
\* answered (replayed, conflict, stale, not waiting, cancelled) without a write.
SignalAccepted(w, key, rev) ==
    /\ \A s \in signals[w] : s.key # key
    /\ rev = wf[w].rev
    /\ wf[w].status = "waiting" /\ wf[w].wait = "signal" /\ wf[w].key = key

DeliverSignal(w, key, payload, rev) ==
    /\ Exists(w)
    /\ SignalAccepted(w, key, rev)
    /\ signals' = [signals EXCEPT ![w] =
                      @ \cup {[key |-> key, payload |-> payload, rev |-> rev]}]
    /\ wf' = [wf EXCEPT ![w] = Moved(@, "runnable")]
    /\ scanOrder' = Touch(scanOrder, w)
    /\ UNCHANGED <<steps, checkpoints, decisions, wfAgent, edits, instant>>

\* Mutant: the workflow row is moved whatever it is doing.
DecideUnfenced(w, d, approve) ==
    /\ d.state = "pending" /\ d.expires > instant
    /\ decisions' = [decisions EXCEPT ![w] = (@ \ {d}) \cup
           {[d EXCEPT !.state = IF approve THEN "approved" ELSE "denied"]}]
    /\ wf' = [wf EXCEPT ![w] = Moved(@, IF approve THEN "runnable" ELSE "cancelled")]
    /\ scanOrder' = Touch(scanOrder, w)
    /\ UNCHANGED <<steps, checkpoints, signals, wfAgent, edits, instant>>

\* Mutant: a denial lets the workflow go on.
DecideAlwaysResumes(w, d, approve) ==
    /\ d.state = "pending" /\ d.expires > instant
    /\ decisions' = [decisions EXCEPT ![w] = (@ \ {d}) \cup
           {[d EXCEPT !.state = IF approve THEN "approved" ELSE "denied"]}]
    /\ wf' = [wf EXCEPT ![w] = Moved(@, "runnable")]
    /\ scanOrder' = Touch(scanOrder, w)
    /\ UNCHANGED <<steps, checkpoints, signals, wfAgent, edits, instant>>

\* An expired decision is refused; the EXPIRED written just before the refusal
\* is rolled back with it.  The workflow row moves only if it still waits for
\* this decision.
Decide(w, d, approve) ==
    LET waits == /\ wf[w].status = "waiting" /\ wf[w].wait = "owner_decision"
                 /\ wf[w].rev = d.rev + 1
    IN  /\ d.state = "pending"
        /\ d.expires > instant
        /\ decisions' = [decisions EXCEPT ![w] = (@ \ {d}) \cup
               {[d EXCEPT !.state = IF approve THEN "approved" ELSE "denied"]}]
        /\ IF waits
           THEN /\ wf' = [wf EXCEPT ![w] =
                            Moved(@, IF approve THEN "runnable" ELSE "cancelled")]
                /\ scanOrder' = Touch(scanOrder, w)
           ELSE UNCHANGED <<wf, scanOrder>>
        /\ UNCHANGED <<steps, checkpoints, signals, wfAgent, edits, instant>>

-----------------------------------------------------------------------------
(* The step's Run, as the job engine moves it.                             *)

StartStepRun(w) ==
    /\ steps[w] # <<>> /\ LastStep(w).run = "created"
    /\ steps' = [steps EXCEPT ![w][Len(steps[w])].run = "running"]
    /\ UNCHANGED <<wf, checkpoints, decisions, signals, scanOrder, wfAgent, edits, instant>>

\* Failure, cancellation or recovery of the Run: no workflow row is written.
LoseStepRun(w, outcome) ==
    /\ steps[w] # <<>> /\ LastStep(w).run \in {"created", "running"}
    /\ outcome = "failed" => LastStep(w).run = "running"
    /\ steps' = [steps EXCEPT ![w][Len(steps[w])].run = outcome]
    /\ UNCHANGED <<wf, checkpoints, decisions, signals, scanOrder, wfAgent, edits, instant>>

\* commit_step's fence: the step and the workflow are as the step found them.
StepFence(w) ==
    /\ LastStep(w).status = "running"
    /\ LastStep(w).rev = wf[w].rev
    /\ wf[w].status = "running"

\* The workflow row after directive dir is committed at revision rev + 1.
Directed(row, dir) ==
    CASE dir.kind = "complete" -> [row EXCEPT !.status = "succeeded"]
      [] dir.kind = "next" -> [row EXCEPT !.status = "runnable"]
      [] dir.kind = "time" -> [row EXCEPT !.status = "waiting", !.wait = "time",
                                          !.wakeup = dir.wakeup]
      [] dir.kind = "signal" -> [row EXCEPT !.status = "waiting", !.wait = "signal",
                                            !.key = dir.key]
      [] dir.kind = "owner_decision" -> [row EXCEPT !.status = "waiting",
                                                    !.wait = "owner_decision"]

\* Success of the Run and commit_step, one transaction: when the fence fails
\* the success is rolled back with it.
CommitStep(w, dir) ==
    LET n == Len(steps[w])
        rev == wf[w].rev + 1
    IN  /\ steps[w] # <<>> /\ LastStep(w).run = "running"
        /\ wf[w].status # "cancelled" /\ StepFence(w)
        /\ dir.kind = "time" => dir.wakeup > instant
        /\ steps' = [steps EXCEPT ![w][n].run = "succeeded", ![w][n].status = "succeeded"]
        /\ checkpoints' = [checkpoints EXCEPT ![w] =
               {c \in @ \cup {[rev |-> rev, step |-> n]} : c.rev > rev - Retained}]
        /\ decisions' = [decisions EXCEPT ![w] = @ \cup
               (IF dir.kind = "owner_decision"
                THEN {[rev |-> LastStep(w).rev, state |-> "pending",
                       expires |-> instant + DecisionLife]}
                ELSE {})]
        /\ wf' = [wf EXCEPT ![w] = Directed([@ EXCEPT !.rev = rev], dir)]
        /\ scanOrder' = Touch(scanOrder, w)
        /\ UNCHANGED <<signals, wfAgent, edits, instant>>

\* The Run of a cancelled workflow succeeds; its step closes, nothing else moves.
CommitCancelled(w) ==
    /\ steps[w] # <<>> /\ LastStep(w).run = "running"
    /\ wf[w].status = "cancelled"
    /\ steps' = [steps EXCEPT ![w][Len(steps[w])].run = "succeeded",
                              ![w][Len(steps[w])].status = "succeeded"]
    /\ UNCHANGED <<wf, checkpoints, decisions, signals, scanOrder, wfAgent, edits, instant>>

-----------------------------------------------------------------------------
(* The Scheduler's continuation tick: one transaction of _one.             *)

\* Mutant: a running step counts as lost whatever its Run does.
RunLostUnjoined(w) == \E i \in DOMAIN steps[w] : steps[w][i].status = "running"

RunLost(w) == \E i \in DOMAIN steps[w] :
    steps[w][i].status = "running" /\ steps[w][i].run \in StepRunEnded

\* Mutant: the pause also hides a workflow whose Run ended.
DueUnlessPaused(w) ==
    /\ Exists(w) /\ ~wf[w].paused
    /\ \/ wf[w].status = "running" /\ RunLost(w)
       \/ /\ wf[w].status \in {"pending", "runnable", "waiting"}
          /\ \/ wf[w].deadline <= instant
             \/ wf[w].wait \in {"none", "time"} /\ wf[w].wakeup <= instant

Due(w) ==
    /\ Exists(w)
    /\ \/ wf[w].status = "running" /\ RunLost(w)
       \/ /\ ~wf[w].paused
          /\ wf[w].status \in {"pending", "runnable", "waiting"}
          /\ \/ wf[w].deadline <= instant
             \/ wf[w].wait \in {"none", "time"} /\ wf[w].wakeup <= instant

Scan == LET due == SelectSeq(scanOrder, Due)
        IN  SubSeq(due, 1, IF Len(due) < ScanLimit THEN Len(due) ELSE ScanLimit)

Approved(w) == {d \in decisions[w] : d.state = "approved" /\ d.rev = wf[w].rev - 1}

\* Mutant: asks whether anything is left, not whether a whole step is.
AcceptsAnyRest(row) == row.reserved <= row.budget.reservation
AcceptsReservation(row) == row.reserved + StepClaim <= row.budget.reservation

\* What _advance does to a due workflow: the ladder of its early returns.
Advance(w) ==
    LET row == wf[w] IN
    CASE row.status = "running" -> "run_terminal_without_progress"
      [] row.status # "running" /\ instant >= row.deadline -> "deadline_exceeded"
      [] OTHER ->
         IF row.wait \in {"signal", "owner_decision"} THEN "defer"
         ELSE IF row.steps >= row.budget.steps THEN "step_limit_reached"
         ELSE IF \E d \in Approved(w) : d.expires <= instant THEN "authority_lost"
         ELSE IF ~wfAgent[w].enabled THEN "defer"
         ELSE IF ~wfAgent[w].resolvable THEN "configuration_changed"
         ELSE IF ~AcceptsReservation(row) THEN "budget_exhausted"
         ELSE IF Cardinality(LiveRuns) >= QueueCapacity THEN "defer"
         ELSE IF row.config # wfAgent[w].config THEN "configuration_changed"
         ELSE "dispatch"

FailureReason == {"deadline_exceeded", "step_limit_reached", "budget_exhausted"}

Deferred(w) == Advance(w) = "defer"

\* The deferred rows at the head of a scan: they are touched, and the first
\* other row is advanced.
Passed(scan) == Cardinality({i \in DOMAIN scan : \A j \in 1..i : Deferred(scan[j])})

\* Mutant: a deferred row keeps its place.
TouchNone(order, rows) == order

TouchAll(order, rows) ==
    SelectSeq(order, LAMBDA v : \A i \in DOMAIN rows : rows[i] # v) \o rows

AdvancedBy(w, outcomes) ==
    LET scan == Scan
        n == Passed(scan)
    IN  /\ Due(w) /\ Advance(w) \in outcomes
        /\ n < Len(scan) /\ w = scan[n + 1]
        /\ scanOrder' = TouchAll(scanOrder, SubSeq(scan, 1, n + 1))

TickDefers ==
    /\ Scan # <<>> /\ Passed(Scan) = Len(Scan)
    /\ scanOrder' = TouchAll(scanOrder, Scan)
    /\ UNCHANGED <<wf, steps, checkpoints, decisions, signals, wfAgent, edits, instant>>

\* _finish, with the running step failed when its Run ended without progress.
TickEnds(w) ==
    LET reason == Advance(w) IN
    /\ AdvancedBy(w, ReviewReason)
    /\ wf' = [wf EXCEPT ![w] =
          [Moved(@, IF reason \in FailureReason THEN "failed" ELSE "needs_review")
             EXCEPT !.reason = reason]]
    /\ steps' = IF reason = "run_terminal_without_progress"
                THEN [steps EXCEPT ![w] = [i \in DOMAIN @ |->
                        IF @[i].status = "running" THEN [@[i] EXCEPT !.status = "failed"]
                        ELSE @[i]]]
                ELSE steps
    /\ decisions' = IF reason = "authority_lost"
                    THEN [decisions EXCEPT ![w] =
                            (@ \ Approved(w)) \cup
                            {[d EXCEPT !.state = "expired"] : d \in Approved(w)}]
                    ELSE decisions
    /\ UNCHANGED <<checkpoints, signals, wfAgent, edits, instant>>

\* Mutant: every continuation starts from the empty state.
LatestStateEmpty(w) == 0
\* The state of the newest checkpoint, empty when there is none.
LatestState(w) ==
    IF checkpoints[w] = {} THEN 0
    ELSE (CHOOSE c \in checkpoints[w] : \A o \in checkpoints[w] : o.rev <= c.rev).step

\* submit_continuation: Run, Job, step and draw-down, and the approval that
\* authorised the step is consumed.
TickDispatches(w) ==
    /\ AdvancedBy(w, {"dispatch"})
    /\ steps' = [steps EXCEPT ![w] = Append(@, NewStep(wf[w].rev, LatestState(w)))]
    /\ wf' = [wf EXCEPT ![w] = [Moved(wf[w], "running") EXCEPT
                   !.steps = wf[w].steps + 1, !.reserved = wf[w].reserved + StepClaim]]
    /\ decisions' = [decisions EXCEPT ![w] =
           (@ \ Approved(w)) \cup {[d EXCEPT !.state = "consumed"] : d \in Approved(w)}]
    /\ UNCHANGED <<checkpoints, signals, wfAgent, edits, instant>>

WorkflowTick == TickDefers \/ \E w \in Workflow : TickEnds(w) \/ TickDispatches(w)

-----------------------------------------------------------------------------
(* The environment: the owner edits the agent instance, the clock moves.   *)

AgentEdits(a) ==
    {[a EXCEPT !.enabled = ~@], [a EXCEPT !.resolvable = FALSE], [a EXCEPT !.config = @ + 1]}

EditAgent(w, edited) ==
    /\ edits < MaxEdits
    /\ edits' = edits + 1
    /\ wfAgent' = [wfAgent EXCEPT ![w] = edited]
    /\ UNCHANGED <<wf, steps, checkpoints, decisions, signals, scanOrder, instant>>

PassInstant ==
    /\ instant < MaxInstant
    /\ instant' = instant + 1
    /\ UNCHANGED <<wf, steps, checkpoints, decisions, signals, scanOrder, wfAgent, edits>>

\* Revisions an owner may name.
Revisions == UNION {0..b.steps : b \in Budgets}

WorkflowNext ==
    \/ \E w \in Workflow : \E b \in Budgets : CreateWorkflow(w, b)
    \/ \E w \in Workflow : \E f \in BOOLEAN : SetPaused(w, f)
    \/ \E w \in Workflow : CancelWorkflow(w)
    \/ \E w \in Workflow : \E k \in SignalKeys : \E p \in Payloads : \E r \in Revisions :
          DeliverSignal(w, k, p, r)
    \/ \E w \in Workflow : \E d \in decisions[w] : \E a \in BOOLEAN : Decide(w, d, a)
    \/ \E w \in Workflow : StartStepRun(w)
    \/ \E w \in Workflow : \E o \in {"failed", "cancelled"} : LoseStepRun(w, o)
    \/ \E w \in Workflow : \E dir \in Directives : CommitStep(w, dir)
    \/ \E w \in Workflow : CommitCancelled(w)
    \/ TickDefers
    \/ \E w \in Workflow : TickEnds(w)
    \/ \E w \in Workflow : TickDispatches(w)
    \/ \E w \in Workflow : \E a \in AgentEdits(wfAgent[w]) : EditAgent(w, a)
    \/ PassInstant

WorkflowSpec == WorkflowInit /\ [][WorkflowNext]_wfVars

\* Fairness: no Run stays unfinished for ever.  One of these is enabled as
\* long as the step's Run is live, so weak fairness says just that; whether it
\* ends by this failure or by another action is left open.
StepRunProgress(w) == StartStepRun(w) \/ LoseStepRun(w, "failed")

-----------------------------------------------------------------------------
(* Correctness.                                                            *)

WorkflowRow ==
    [status : WfTerminal \cup WfActive, paused : BOOLEAN, rev : Nat, steps : Nat,
     budget : Budgets, reserved : Nat, deadline : Nat, config : Nat,
     wait : WaitKind, wakeup : Nat, key : SignalKeys \cup {"none"}, reason : ReviewReason]

\* Every row has its columns' types, and only a waiting workflow records a wait.
WorkflowTypeOK ==
    /\ \A w \in Workflow : Exists(w) =>
          /\ wf[w] \in WorkflowRow
          /\ (wf[w].status = "waiting") <=> (wf[w].wait # "none")
    /\ \A w \in Workflow : \A i \in DOMAIN steps[w] :
          steps[w][i] \in [run : StepRunEnded \cup {"created", "running"}, rev : Nat,
                           state : Nat, status : StepStatus]
    /\ \A w \in Workflow : \A d \in decisions[w] :
          d \in [rev : Nat, state : DecisionState, expires : Nat]

\* Steps form one chain: step i was given revision i - 1 and the state step
\* i - 1 committed, every step but the last succeeded with its Run, and the
\* checkpoint revision counts exactly the committed steps, whoever else wrote
\* to the workflow meanwhile.  (A step submitted twice for a revision, or a
\* checkpoint written twice for a step, would break it.)
StepChain ==
    \A w \in Workflow : Exists(w) =>
       /\ wf[w].steps = Len(steps[w])
       /\ \A i \in DOMAIN steps[w] : steps[w][i].rev = i - 1 /\ steps[w][i].state = i - 1
       /\ \A i \in 1..Len(steps[w]) - 1 :
             steps[w][i].status = "succeeded" /\ steps[w][i].run = "succeeded"
       /\ wf[w].rev \in {wf[w].steps - 1, wf[w].steps}
       /\ wf[w].rev > 0 => \E c \in checkpoints[w] : c = [rev |-> wf[w].rev, step |-> wf[w].rev]

\* A Run that can still succeed can commit: commit_step never has a reason to
\* fence the success of a step's Run, however the owner, the tick and the
\* clock interleave with it.
LiveRunCommits ==
    \A w \in LiveRuns : wf[w].status = "cancelled" \/ StepFence(w)

\* The step after a request for a decision exists exactly when the owner's
\* approval was consumed for it: no step passes an undecided, denied or
\* expired decision, and no approval authorises a second step.
DecisionGates ==
    \A w \in Workflow : \A d \in decisions[w] :
       (d.state = "consumed") <=> (\E i \in DOMAIN steps[w] : steps[w][i].rev = d.rev + 1)

\* Cumulative limits hold over the workflow's whole life: what the steps drew
\* is never refunded and never passes the budget, and one owner never has
\* more than the allowed active workflows.
BudgetHeld ==
    /\ ActiveCount <= MaxActive
    /\ \A w \in Workflow : Exists(w) =>
          /\ wf[w].reserved = wf[w].steps * StepClaim
          /\ wf[w].reserved <= wf[w].budget.reservation
          /\ wf[w].steps <= wf[w].budget.steps

\* A step is woken by at most one accepted signal, so the wake_signal it reads
\* is the one that woke it.
OneWakeup ==
    \A w \in Workflow : \A s, t \in signals[w] : s.rev = t.rev => s = t

\* What the rows of a workflow say together.
WorkflowSound ==
    WorkflowTypeOK /\ StepChain /\ LiveRunCommits /\ DecisionGates /\ BudgetHeld /\ OneWakeup

\* A terminal workflow is final: no late success, signal, decision or tick
\* changes its row, adds a step or writes a checkpoint.
WorkflowFinal ==
    [][\A w \in Workflow : Exists(w) /\ wf[w].status \in WfTerminal =>
          wf'[w] = wf[w] /\ Len(steps'[w]) = Len(steps[w])
          /\ checkpoints'[w] = checkpoints[w]]_wfVars

\* A workflow whose step's Run ended without committing is always brought to
\* an end, even while paused.
LostRunReviewed ==
    \A w \in Workflow :
       (Exists(w) /\ wf[w].status = "running" /\ RunLost(w)) ~> (wf[w].status \in WfTerminal)

Ready(w) ==
    /\ Exists(w) /\ ~wf[w].paused /\ wfAgent[w].enabled
    /\ wf[w].status \in {"runnable", "waiting"} /\ wf[w].wait \in {"none", "time"}
    /\ wf[w].wakeup <= instant

\* A workflow that is ready to go on is not ready for ever: it is dispatched
\* or ended, though other due workflows are deferred ahead of it in the scan
\* and others hold the queue's capacity.
ReadyServed == \A w \in Workflow : []<>~Ready(w)

\* No workflow is forgotten by the tick: a lost step is reviewed, a ready one served.
WorkflowProgress == LostRunReviewed /\ ReadyServed
=============================================================================
