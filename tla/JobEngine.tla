----------------------------- MODULE JobEngine -----------------------------
(***************************************************************************)
(* The durable job engine of nervos-core: the Job, Run, Attempt,           *)
(* tool-invocation, fairness-marker and event rows, and the transactions   *)
(* that write them.                                                        *)
(*                                                                         *)
(* Every operation of the persistence classes is one BEGIN IMMEDIATE       *)
(* transaction whose compare-and-set statements roll the whole operation   *)
(* back when one of them matches no row.  It is therefore ONE action here, *)
(* and a lost compare-and-set (_Fenced) is an action that is not enabled.  *)
(*                                                                         *)
(* A Job and its Run are inserted together and are one-to-one, so both are *)
(* named by the Job's key.  The 32 random bytes of a claim token, with the *)
(* worker_id recorded beside them, are fresh for every claim: the claim of *)
(* the n-th Attempt of a Job is named by n, and NULL is the number 0.      *)
(*                                                                         *)
(* The holder of a claim is left free: any claim ever issued may be        *)
(* presented again at any later moment.  That covers a paused or           *)
(* partitioned Worker, a crashed one (its claim is never presented again)  *)
(* and a lost response.  Module JobExecution adds the Worker's own code.   *)
(***************************************************************************)
EXTENDS Integers, FiniteSets, Sequences

CONSTANTS
  Jobs,                \* primary keys of the Jobs (and their Runs)
  Agents,              \* Agent Instance ids: the queue partitions
  Providers,           \* model provider ids
  Instances,           \* <<agent, provider>> pairs an owner may submit to
  Workers,             \* Worker processes
  Capability,          \* Capability[w]: the providers Worker w has configured
  Budget,              \* Budget[w]: max_active of Worker w
  MaxAttempts,         \* max_attempts, the claim budget of a Job
  LeaseDuration,       \* LEASE_DURATION
  ReclaimBackoff,      \* RECLAIM_BACKOFF
  RetryBase,           \* RETRY_BASE_DELAY
  GlobalActive, AgentActive, ProviderActive,         \* QueuePolicy
  MaxPending, MaxPendingPerAgent, MaxPendingPerProvider,
  MaxCalls,            \* bound: tool calls per Attempt
  MaxLag,              \* bound: age of a transaction's `now` at its commit
  MaxTime              \* bound: last instant of the clock

ASSUME IdAssumption ==
  /\ Jobs \subseteq Nat \ {0} /\ IsFiniteSet(Jobs)
  /\ Agents \subseteq Nat \ {0} /\ Providers \subseteq Nat \ {0}
  /\ Instances \subseteq Agents \X Providers
  /\ Capability \in [Workers -> SUBSET Providers]
  /\ Budget \in [Workers -> Nat \ {0}]

ASSUME BoundAssumption ==
  /\ MaxAttempts \in Nat \ {0} /\ LeaseDuration \in Nat \ {0}
  /\ ReclaimBackoff \in Nat /\ RetryBase \in Nat
  /\ {GlobalActive, AgentActive, ProviderActive} \subseteq Nat \ {0}
  /\ {MaxPending, MaxPendingPerAgent, MaxPendingPerProvider} \subseteq Nat \ {0}
  /\ MaxCalls \in Nat /\ MaxLag \in Nat /\ MaxTime \in Nat \ {0}

VARIABLES
  clock,        \* real time; instants start at 1, so that 0 can stand for NULL
  job,          \* jobs rows
  run,          \* runs rows
  attempt,      \* job_attempts rows, by Job and attempt_number
  calls,        \* tool_invocations rows, by Attempt and tool_sequence
  served,       \* queue_partitions.last_served_attempt_id
  attemptId,    \* the highest job_attempts.id
  timeline      \* run_events of a Run, in sequence order

vars == <<clock, job, run, attempt, calls, served, attemptId, timeline>>

-----------------------------------------------------------------------------
(* Row shapes.                                                             *)

NULL == 0
Numbers == 1..MaxAttempts
Slots == 1..MaxCalls

TerminalStatus == {"succeeded", "failed", "cancelled"}
JobStatus == {"absent", "queued", "claimed", "running", "retry_wait"} \cup TerminalStatus
RunStatus == {"absent", "created", "running"} \cup TerminalStatus
ActiveStatus == {"claimed", "running"}
ClosedStatus == {"succeeded", "failed", "cancelled", "expired"}
AttemptStatus == {"absent"} \cup ActiveStatus \cup ClosedStatus
OccupyingStatus == {"queued", "claimed", "running", "retry_wait"}
Disposition == {"none", "SAFE_TO_RETRY", "DO_NOT_RETRY", "AMBIGUOUS"}
OpenCall == {"requested", "started"}
DispatchedCall == {"started", "succeeded", "failed", "ambiguous"}
CallStatus == {"absent", "requested", "denied", "cancelled"} \cup DispatchedCall

\* One normalized failure code for each disposition of DISPOSITION_BY_CODE.
FailureCode == {"model_rate_limited", "model_refused", "model_timed_out"}
RunError == FailureCode \cup
            {"none", "worker_recovery_exhausted", "execution_outcome_ambiguous"}

RunEventType ==
  {"run.created", "run.queued", "attempt.claimed", "attempt.started",
   "attempt.failed", "attempt.expired", "retry.scheduled",
   "recovery.pre_start", "recovery.ambiguous", "cancellation.requested",
   "run.succeeded", "run.failed", "run.cancelled",
   "tool.requested", "tool.started", "tool.denied", "tool.succeeded",
   "tool.failed", "tool.ambiguous"}
TerminalEvent == {"run.succeeded", "run.failed", "run.cancelled"}

JobRow == [status: JobStatus, agent: Agents \cup {NULL},
           provider: Providers \cup {NULL}, available: Nat,
           count: 0..MaxAttempts, token: 0..MaxAttempts, lease: Nat,
           cancelRequested: BOOLEAN]
RunRow == [status: RunStatus, startedAt: Nat, error: RunError]
AttemptRow == [status: AttemptStatus, started: BOOLEAN,
               disposition: Disposition, lease: Nat]

AbsentJob == [status |-> "absent", agent |-> NULL, provider |-> NULL,
              available |-> NULL, count |-> 0, token |-> NULL,
              lease |-> NULL, cancelRequested |-> FALSE]
AbsentRun == [status |-> "absent", startedAt |-> NULL, error |-> "none"]
AbsentAttempt == [status |-> "absent", started |-> FALSE,
                  disposition |-> "none", lease |-> NULL]

Init ==
  /\ clock = 1
  /\ job = [j \in Jobs |-> AbsentJob]
  /\ run = [j \in Jobs |-> AbsentRun]
  /\ attempt = [j \in Jobs |-> [n \in Numbers |-> AbsentAttempt]]
  /\ calls = [j \in Jobs |-> [n \in Numbers |-> [k \in Slots |-> "absent"]]]
  /\ served = [a \in Agents |-> NULL]
  /\ attemptId = 0
  /\ timeline = [j \in Jobs |-> << >>]

-----------------------------------------------------------------------------
(* Time.  A caller reads its clock before the transaction takes the write  *)
(* lock, and a lock wait or a retried transaction keeps that reading: the  *)
(* `now` of a transaction may lie up to MaxLag before its commit.          *)

Instants == {t \in 1..clock : clock - t =< MaxLag}

Tick ==
  /\ clock < MaxTime
  /\ clock' = clock + 1
  /\ UNCHANGED <<job, run, attempt, calls, served, attemptId, timeline>>

Log(j, events) == timeline' = [timeline EXCEPT ![j] = @ \o events]

\* UPDATE of one row.
PutJob(j, row) == job' = [job EXCEPT ![j] = row]
PutRun(j, row) == run' = [run EXCEPT ![j] = row]
PutAttempt(j, n, row) == attempt' = [attempt EXCEPT ![j][n] = row]

-----------------------------------------------------------------------------
(* Submission: insert_run_and_job_on_connection.                           *)

Occupying == {j \in Jobs : job[j].status \in OccupyingStatus}

Admits(a, p) ==
  /\ Cardinality(Occupying) < MaxPending
  /\ Cardinality({j \in Occupying : job[j].agent = a}) < MaxPendingPerAgent
  /\ Cardinality({j \in Occupying : job[j].provider = p}) < MaxPendingPerProvider

Submit(j, a, p, t) ==
  /\ job[j].status = "absent"
  /\ \A i \in Jobs : i < j => job[i].status # "absent"   \* autoincremented key
  /\ Admits(a, p)
  /\ PutJob(j, [status |-> "queued", agent |-> a, provider |-> p, available |-> t,
                count |-> 0, token |-> NULL, lease |-> NULL,
                cancelRequested |-> FALSE])
  /\ PutRun(j, [status |-> "created", startedAt |-> NULL, error |-> "none"])
  /\ Log(j, <<"run.created", "run.queued">>)
  /\ UNCHANGED <<clock, attempt, calls, served, attemptId>>

-----------------------------------------------------------------------------
(* Claiming: claim_next and _claim_once.                                   *)

\* _CLAIMABLE_SOURCES: the Job/Run pairs a claim may be taken from.
ClaimableSources == {<<"queued", "created">>, <<"retry_wait", "running">>}

LiveLeases(t) ==
  {j \in Jobs : job[j].status \in ActiveStatus /\ job[j].lease > t}

AgentSaturated(a, t) ==
  Cardinality({j \in LiveLeases(t) : job[j].agent = a}) >= AgentActive
ProviderSaturated(p, t) ==
  Cardinality({j \in LiveLeases(t) : job[j].provider = p}) >= ProviderActive

Eligible(w, t) ==
  {j \in Jobs : /\ <<job[j].status, run[j].status>> \in ClaimableSources
                /\ job[j].available =< t
                /\ job[j].count < MaxAttempts
                /\ job[j].provider \in Capability[w]}

\* Mutation: ORDER BY available_at alone.
OlderDueNoTieBreak(i, j) == job[i].available < job[j].available

\* ORDER BY available_at, id inside one Agent partition.
OlderDue(i, j) ==
  \/ job[i].available < job[j].available
  \/ job[i].available = job[j].available /\ i < j

Heads(w, t) ==
  {j \in Eligible(w, t) : \A i \in Eligible(w, t) \ {j} :
                            job[i].agent = job[j].agent => OlderDue(j, i)}

Candidates(w, t) ==
  {j \in Heads(w, t) : /\ ~AgentSaturated(job[j].agent, t)
                       /\ ~ProviderSaturated(job[j].provider, t)}

\* Mutation: the durable marker is not consulted.
ServedBeforeById(i, j) == job[i].agent < job[j].agent

\* ORDER BY last_served_attempt_id NULLS FIRST, agent_instance_id.
ServedBefore(i, j) ==
  LET a == job[i].agent  b == job[j].agent
  IN  served[a] < served[b] \/ (served[a] = served[b] /\ a < b)

NextClaim(w, t) ==
  {j \in Candidates(w, t) : \A i \in Candidates(w, t) \ {j} : ServedBefore(j, i)}

\* Mutation: the ceiling is off by one.
HasCapacityOffByOne(w, t) ==
  Cardinality(LiveLeases(t)) =< IF Budget[w] < GlobalActive THEN Budget[w]
                                                            ELSE GlobalActive

HasCapacity(w, t) ==
  Cardinality(LiveLeases(t)) < IF Budget[w] < GlobalActive THEN Budget[w]
                                                           ELSE GlobalActive

Claim(w, t) ==
  /\ HasCapacity(w, t)
  /\ \E j \in NextClaim(w, t) :
       LET n == job[j].count + 1 IN
       /\ PutJob(j, [job[j] EXCEPT !.status = "claimed", !.token = n,
                                   !.lease = t + LeaseDuration, !.count = n])
       /\ PutAttempt(j, n, [status |-> "claimed", started |-> FALSE,
                             disposition |-> "none", lease |-> t + LeaseDuration])
       /\ attemptId' = attemptId + 1
       /\ served' = [served EXCEPT ![job[j].agent] = attemptId + 1]
       /\ Log(j, <<"attempt.claimed">>)
  /\ UNCHANGED <<clock, run, calls>>

-----------------------------------------------------------------------------
(* Owner writes.  <<j, n>> is the claim presented; each write repeats the  *)
(* compare-and-set conditions of its own statements.                       *)

JobHeld(j, n, status) == job[j].status = status /\ job[j].token = n
JobLeaseLive(j, t) == job[j].lease > t
AttemptOpen(j, n, status, t) ==
  attempt[j][n].status = status /\ attempt[j][n].lease > t

\* The Run a start may hang off: never started, or started by an earlier Attempt.
StartableRun(j) ==
  \/ run[j].status = "created" /\ run[j].startedAt = NULL
  \/ run[j].status = "running" /\ run[j].startedAt # NULL

\* Mutation: a retry start moves Run.started_at.
StartRestamps(j, n, t) ==
  /\ AttemptOpen(j, n, "claimed", t)
  /\ JobHeld(j, n, "claimed") /\ JobLeaseLive(j, t) /\ ~job[j].cancelRequested
  /\ StartableRun(j)
  /\ PutAttempt(j, n, [attempt[j][n] EXCEPT !.status = "running", !.started = TRUE])
  /\ PutJob(j, [job[j] EXCEPT !.status = "running"])
  /\ PutRun(j, [run[j] EXCEPT !.status = "running", !.startedAt = t])
  /\ Log(j, <<"attempt.started">>)
  /\ UNCHANGED <<clock, calls, served, attemptId>>

Start(j, n, t) ==
  /\ AttemptOpen(j, n, "claimed", t)
  /\ JobHeld(j, n, "claimed") /\ JobLeaseLive(j, t) /\ ~job[j].cancelRequested
  /\ StartableRun(j)
  /\ PutAttempt(j, n, [attempt[j][n] EXCEPT !.status = "running", !.started = TRUE])
  /\ PutJob(j, [job[j] EXCEPT !.status = "running"])
  /\ IF run[j].status = "created"
     THEN PutRun(j, [run[j] EXCEPT !.status = "running", !.startedAt = t])
     ELSE UNCHANGED run
  /\ Log(j, <<"attempt.started">>)
  /\ UNCHANGED <<clock, calls, served, attemptId>>

\* Mutation: only the Job's lease is extended.
RenewJobOnly(j, n, t) ==
  /\ JobHeld(j, n, "running") /\ JobLeaseLive(j, t)
  /\ AttemptOpen(j, n, "running", t)
  /\ PutJob(j, [job[j] EXCEPT !.lease = t + LeaseDuration])
  /\ UNCHANGED <<clock, run, attempt, calls, served, attemptId, timeline>>

RenewLease(j, n, t) ==
  /\ JobHeld(j, n, "running") /\ JobLeaseLive(j, t)
  /\ AttemptOpen(j, n, "running", t)
  /\ PutJob(j, [job[j] EXCEPT !.lease = t + LeaseDuration])
  /\ PutAttempt(j, n, [attempt[j][n] EXCEPT !.lease = t + LeaseDuration])
  /\ UNCHANGED <<clock, run, calls, served, attemptId, timeline>>

\* The Job columns of a settled Job: its status, and no claim.
Released(row, status) ==
  [row EXCEPT !.status = status, !.token = NULL, !.lease = NULL]

CloseAttempt(j, n, status, disposition) ==
  PutAttempt(j, n, [attempt[j][n] EXCEPT !.status = status, !.disposition = disposition])

Succeed(j, n, t) ==
  /\ AttemptOpen(j, n, "running", t)
  /\ JobHeld(j, n, "running")
  /\ run[j].status = "running"
  /\ PutAttempt(j, n, [attempt[j][n] EXCEPT !.status = "succeeded"])
  /\ PutJob(j, Released(job[j], "succeeded"))
  /\ PutRun(j, [run[j] EXCEPT !.status = "succeeded"])
  /\ Log(j, <<"run.succeeded">>)
  /\ UNCHANGED <<clock, calls, served, attemptId>>

-----------------------------------------------------------------------------
(* Failure settlement: record_failure.                                     *)

DispositionFor(code) ==
  CASE code = "model_rate_limited" -> "SAFE_TO_RETRY"
    [] code = "model_refused" -> "DO_NOT_RETRY"
    [] OTHER -> "AMBIGUOUS"

\* _dispatched_tool_call
Dispatched(j, n) == \E k \in Slots : calls[j][n][k] \in DispatchedCall

\* Mutation: dispatched tool calls are not consulted.
RetryableUnchecked(j, n, code) ==
  /\ DispositionFor(code) = "SAFE_TO_RETRY" /\ code = "model_rate_limited"
  /\ job[j].count < MaxAttempts

Retryable(j, n, code) ==
  /\ DispositionFor(code) = "SAFE_TO_RETRY" /\ code = "model_rate_limited"
  /\ ~Dispatched(j, n)
  /\ job[j].count < MaxAttempts

\* _retry_ordinal_on_connection, counted after Attempt n was closed as failed.
RetryOrdinal(j, n) ==
  1 + Cardinality({m \in Numbers \ {n} :
        /\ attempt[j][m].status = "failed" /\ attempt[j][m].started
        /\ attempt[j][m].disposition = "SAFE_TO_RETRY"})

\* retry_delay: doubled per ordinal, capped at RETRY_MAX_DELAY = 4 * RETRY_BASE_DELAY.
RetryDelay(ordinal) ==
  CASE ordinal = 1 -> RetryBase
    [] ordinal = 2 -> 2 * RetryBase
    [] OTHER -> 4 * RetryBase

FailureFence(j, n, t) ==
  /\ AttemptOpen(j, n, "running", t)
  /\ JobHeld(j, n, "running") /\ JobLeaseLive(j, t) /\ ~job[j].cancelRequested
  /\ run[j].status = "running"

\* anchor: the instant the normalized result existed, read before `now`.
ScheduleRetry(j, n, t, anchor, code) ==
  /\ FailureFence(j, n, t) /\ run[j].startedAt # NULL
  /\ Retryable(j, n, code)
  /\ CloseAttempt(j, n, "failed", DispositionFor(code))
  /\ PutJob(j, [Released(job[j], "retry_wait") EXCEPT
                  !.available = anchor + RetryDelay(RetryOrdinal(j, n))])
  /\ Log(j, <<"attempt.failed", "retry.scheduled">>)
  /\ UNCHANGED <<clock, run, calls, served, attemptId>>

CloseFailed(j, n, t, code) ==
  /\ FailureFence(j, n, t)
  /\ ~Retryable(j, n, code)
  /\ CloseAttempt(j, n, "failed", DispositionFor(code))
  /\ PutJob(j, Released(job[j], "failed"))
  /\ PutRun(j, [run[j] EXCEPT !.status = "failed", !.error = code])
  /\ Log(j, <<"attempt.failed", "run.failed">>)
  /\ UNCHANGED <<clock, calls, served, attemptId>>

-----------------------------------------------------------------------------
(* Tool calls of a running Attempt: SqlAlchemyToolInvocationPersistence.   *)

\* _authority: live and not cancelled.
CallAuthority(j, n, t) ==
  /\ AttemptOpen(j, n, "running", t) /\ attempt[j][n].started
  /\ JobHeld(j, n, "running") /\ ~job[j].cancelRequested

SetCall(j, n, k, status) ==
  calls' = [calls EXCEPT ![j][n][k] = status]

RequestCall(j, n, k, t) ==
  /\ CallAuthority(j, n, t)
  /\ calls[j][n][k] = "absent"
  /\ \A i \in Slots : i < k => calls[j][n][i] # "absent"
  /\ SetCall(j, n, k, "requested")
  /\ Log(j, <<"tool.requested">>)
  /\ UNCHANGED <<clock, job, run, attempt, served, attemptId>>

\* mark_started re-evaluates the permission: allowed starts, refused denies.
StartCall(j, n, k, t, allowed) ==
  /\ CallAuthority(j, n, t)
  /\ calls[j][n][k] = "requested"
  /\ SetCall(j, n, k, IF allowed THEN "started" ELSE "denied")
  /\ Log(j, <<IF allowed THEN "tool.started" ELSE "tool.denied">>)
  /\ UNCHANGED <<clock, job, run, attempt, served, attemptId>>

\* mark_cancelled: the approval wait before the start boundary was interrupted.
WithdrawCall(j, n, k, t) ==
  /\ CallAuthority(j, n, t)
  /\ calls[j][n][k] = "requested"
  /\ SetCall(j, n, k, "cancelled")
  /\ UNCHANGED <<clock, job, run, attempt, served, attemptId, timeline>>

EventCount(j, e) == Cardinality({i \in DOMAIN timeline[j] : timeline[j][i] = e})

\* record_pre_dispatch_refusal: an unknown tool or unusable arguments leave an
\* event and no row.  Refusals count against the tool-call budget (bound).
RefuseCall(j, n, t) ==
  /\ CallAuthority(j, n, t)
  /\ EventCount(j, "tool.denied") < MaxCalls
  /\ Log(j, <<"tool.denied">>)
  /\ UNCHANGED <<clock, job, run, attempt, calls, served, attemptId>>

CallOutcome == {"succeeded", "failed", "ambiguous"}
ToolEvent(outcome) ==
  CASE outcome = "succeeded" -> "tool.succeeded"
    [] outcome = "failed" -> "tool.failed"
    [] OTHER -> "tool.ambiguous"

ConcludeCall(j, n, k, t, outcome) ==
  /\ CallAuthority(j, n, t)
  /\ calls[j][n][k] = "started"
  /\ SetCall(j, n, k, outcome)
  /\ Log(j, <<ToolEvent(outcome)>>)
  /\ UNCHANGED <<clock, job, run, attempt, served, attemptId>>

\* Mutation: the Attempt's word for abandonment is written to a tool call.
ReconcileCallExpired(status) == IF status \in OpenCall THEN "expired" ELSE status

\* _reconcile_abandoned_tool_invocations
ReconcileCall(status) ==
  CASE status = "requested" -> "cancelled"
    [] status = "started" -> "ambiguous"
    [] OTHER -> status

\* Mutation: the rows are selected by Job and not by Attempt.
ReconcileCallsOfJob(j, n) ==
  calls' = [calls EXCEPT ![j] =
    [m \in Numbers |-> [k \in Slots |-> ReconcileCall(calls[j][m][k])]]]

ReconcileCalls(j, n) ==
  calls' = [calls EXCEPT ![j][n] = [k \in Slots |-> ReconcileCall(calls[j][n][k])]]

AmbiguousEvents(j, n) ==
  [i \in 1..Cardinality({k \in Slots : calls[j][n][k] = "started"}) |-> "tool.ambiguous"]

-----------------------------------------------------------------------------
(* Expired-lease reclamation: reclaim_next_expired_claim.                  *)

\* Mutation: only claims that never started are selected.
ReclaimablePreStart(j, n, t) ==
  /\ job[j].lease # NULL /\ job[j].lease =< t
  /\ job[j].status = "claimed" /\ attempt[j][n].status = "claimed"
  /\ ~attempt[j][n].started

Reclaimable(j, n, t) ==
  /\ job[j].lease # NULL /\ job[j].lease =< t
  /\ \/ /\ job[j].status = "claimed" /\ attempt[j][n].status = "claimed"
        /\ ~attempt[j][n].started
     \/ /\ job[j].status = "running" /\ attempt[j][n].status = "running"
        /\ attempt[j][n].started

\* ORDER BY lease_expires_at, id LIMIT 1.
ReclaimHead(j, t) ==
  \A i \in Jobs \ {j} : (\E m \in Numbers : Reclaimable(i, m, t)) =>
    \/ job[j].lease < job[i].lease
    \/ job[j].lease = job[i].lease /\ j < i

\* The compare-and-sets shared by the three reclamations.
ReclaimFence(j, n, t) ==
  /\ Reclaimable(j, n, t) /\ ReclaimHead(j, t)
  /\ job[j].token = n /\ attempt[j][n].lease =< t

ReclaimPreStartRequeue(j, n, t) ==
  /\ ReclaimFence(j, n, t)
  /\ job[j].status = "claimed" /\ job[j].count < MaxAttempts
  /\ CloseAttempt(j, n, "expired", "SAFE_TO_RETRY")
  /\ PutJob(j, [Released(job[j], "queued") EXCEPT
                  !.available = t + ReclaimBackoff])
  /\ Log(j, <<"attempt.expired", "recovery.pre_start">>)
  /\ UNCHANGED <<clock, run, calls, served, attemptId>>

\* Mutation: the Run is closed whether or not it had started.
ReclaimExhaustedUnfenced(j, n, t) ==
  /\ ReclaimFence(j, n, t)
  /\ job[j].status = "claimed" /\ job[j].count >= MaxAttempts
  /\ CloseAttempt(j, n, "expired", "SAFE_TO_RETRY")
  /\ PutJob(j, Released(job[j], "failed"))
  /\ PutRun(j, [run[j] EXCEPT !.status = "failed",
                              !.error = "worker_recovery_exhausted"])
  /\ Log(j, <<"attempt.expired", "recovery.pre_start", "run.failed">>)
  /\ UNCHANGED <<clock, calls, served, attemptId>>

\* Mutation: the Run is left behind.
ReclaimExhaustedJobOnly(j, n, t) ==
  /\ ReclaimFence(j, n, t)
  /\ job[j].status = "claimed" /\ job[j].count >= MaxAttempts
  /\ run[j].status = "created" /\ run[j].startedAt = NULL
  /\ CloseAttempt(j, n, "expired", "SAFE_TO_RETRY")
  /\ PutJob(j, Released(job[j], "failed"))
  /\ Log(j, <<"attempt.expired", "recovery.pre_start", "run.failed">>)
  /\ UNCHANGED <<clock, run, calls, served, attemptId>>

ReclaimPreStartExhausted(j, n, t) ==
  /\ ReclaimFence(j, n, t)
  /\ job[j].status = "claimed" /\ job[j].count >= MaxAttempts
  /\ run[j].status = "created" /\ run[j].startedAt = NULL
  /\ CloseAttempt(j, n, "expired", "SAFE_TO_RETRY")
  /\ PutJob(j, Released(job[j], "failed"))
  /\ PutRun(j, [run[j] EXCEPT !.status = "failed",
                              !.error = "worker_recovery_exhausted"])
  /\ Log(j, <<"attempt.expired", "recovery.pre_start", "run.failed">>)
  /\ UNCHANGED <<clock, calls, served, attemptId>>

\* Mutation: the calls are reconciled after the Run's closing event.
ReclaimAmbiguousLate(j, n, t) ==
  /\ ReclaimFence(j, n, t)
  /\ job[j].status = "running"
  /\ run[j].status = "running" /\ run[j].startedAt # NULL
  /\ CloseAttempt(j, n, "expired", "AMBIGUOUS")
  /\ PutJob(j, Released(job[j], "failed"))
  /\ PutRun(j, [run[j] EXCEPT !.status = "failed",
                              !.error = "execution_outcome_ambiguous"])
  /\ ReconcileCalls(j, n)
  /\ Log(j, <<"attempt.expired", "recovery.ambiguous", "run.failed">>
              \o AmbiguousEvents(j, n))
  /\ UNCHANGED <<clock, served, attemptId>>

ReclaimPostStartAmbiguous(j, n, t) ==
  /\ ReclaimFence(j, n, t)
  /\ job[j].status = "running"
  /\ run[j].status = "running" /\ run[j].startedAt # NULL
  /\ CloseAttempt(j, n, "expired", "AMBIGUOUS")
  /\ PutJob(j, Released(job[j], "failed"))
  /\ PutRun(j, [run[j] EXCEPT !.status = "failed",
                              !.error = "execution_outcome_ambiguous"])
  /\ ReconcileCalls(j, n)
  /\ Log(j, <<"attempt.expired", "recovery.ambiguous">>
              \o AmbiguousEvents(j, n) \o <<"run.failed">>)
  /\ UNCHANGED <<clock, served, attemptId>>

-----------------------------------------------------------------------------
(* Owner cancellation: cancel_run.  A repeat on a cancelled Run, and a     *)
(* request for a settled, foreign or unknown Run, write nothing.           *)

ActiveNumbers(j) == {n \in Numbers : attempt[j][n].status \in ActiveStatus}

\* Mutation: only a repeat is recognised, not a settled Run.
CancellableUnlessRepeat(j) == run[j].status \notin {"absent", "cancelled"}

Cancellable(j) == run[j].status \in {"created", "running"}

Cancel(j) ==
  /\ Cancellable(j)
  /\ PutJob(j, [Released(job[j], "cancelled") EXCEPT
                  !.cancelRequested = TRUE])
  /\ PutRun(j, [run[j] EXCEPT !.status = "cancelled"])
  /\ \/ /\ ActiveNumbers(j) = {}
        /\ Log(j, <<"cancellation.requested", "run.cancelled">>)
        /\ UNCHANGED <<attempt, calls>>
     \/ \E n \in ActiveNumbers(j) :
          /\ \A m \in ActiveNumbers(j) : m =< n
          /\ PutAttempt(j, n, [attempt[j][n] EXCEPT !.status = "cancelled"])
          /\ ReconcileCalls(j, n)
          /\ Log(j, <<"cancellation.requested">>
                      \o AmbiguousEvents(j, n) \o <<"run.cancelled">>)
  /\ UNCHANGED <<clock, served, attemptId>>

-----------------------------------------------------------------------------

OwnerStep(j, n, t) ==
  \/ Start(j, n, t)
  \/ RenewLease(j, n, t)
  \/ Succeed(j, n, t)
  \/ \E code \in FailureCode :
       \/ CloseFailed(j, n, t, code)
       \/ \E anchor \in 1..t : ScheduleRetry(j, n, t, anchor, code)
  \/ RefuseCall(j, n, t)
  \/ \E k \in Slots :
       \/ RequestCall(j, n, k, t)
       \/ WithdrawCall(j, n, k, t)
       \/ \E allowed \in BOOLEAN : StartCall(j, n, k, t, allowed)
       \/ \E outcome \in CallOutcome : ConcludeCall(j, n, k, t, outcome)

Reclaim(j, n, t) ==
  \/ ReclaimPreStartRequeue(j, n, t)
  \/ ReclaimPreStartExhausted(j, n, t)
  \/ ReclaimPostStartAmbiguous(j, n, t)

Next ==
  \/ Tick
  \/ \E t \in Instants :
       \/ \E j \in Jobs, i \in Instances : Submit(j, i[1], i[2], t)
       \/ \E w \in Workers : Claim(w, t)
       \/ \E j \in Jobs, n \in Numbers : OwnerStep(j, n, t) \/ Reclaim(j, n, t)
  \/ \E j \in Jobs : Cancel(j)

Spec == Init /\ [][Next]_vars

\* Every Worker polls for work and sweeps for expired claims as long as it
\* lives (Worker._slot, Worker._reclaim_periodically), and time passes.
FairSpec ==
  /\ Spec
  /\ WF_vars(Tick)
  /\ \A w \in Workers : WF_vars(\E t \in Instants : Claim(w, t))
  /\ WF_vars(\E t \in Instants, j \in Jobs, n \in Numbers : Reclaim(j, n, t))

-----------------------------------------------------------------------------
(* Properties.                                                             *)

\* Every row stays within the value sets its table declares.
TypeOK ==
  /\ clock \in 1..MaxTime
  /\ job \in [Jobs -> JobRow]
  /\ run \in [Jobs -> RunRow]
  /\ attempt \in [Jobs -> [Numbers -> AttemptRow]]
  /\ calls \in [Jobs -> [Numbers -> [Slots -> CallStatus]]]
  /\ served \in [Agents -> Nat]
  /\ attemptId \in Nat
  /\ timeline \in [Jobs -> Seq(RunEventType)]

HeldByLatest(j) ==
  /\ job[j].status \in ActiveStatus =>
       /\ job[j].token = job[j].count /\ job[j].count \in Numbers
       /\ attempt[j][job[j].count].status = job[j].status
       /\ attempt[j][job[j].count].lease = job[j].lease
  /\ \A n \in Numbers : attempt[j][n].status \in ActiveStatus =>
       job[j].status \in ActiveStatus /\ job[j].token = n

\* One authority per Job.  A claimed or running Job is held by its latest
\* Attempt, whose status and lease agree with the Job's, and no other Attempt of
\* it is open: after a reclamation, a retry or a cancellation the previous
\* holder's Attempt can never be open beside the new one (claim_next,
\* start_attempt, renew_lease, record_failure, reclaim_next_expired_claim).
ClaimAgreement == \A j \in Jobs : HeldByLatest(j)

SafelyEnded(j, n) ==
  \/ attempt[j][n].status = "expired" /\ ~attempt[j][n].started
  \/ /\ attempt[j][n].status = "failed"
     /\ attempt[j][n].disposition = "SAFE_TO_RETRY"
     /\ ~Dispatched(j, n)

\* No blind replay.  An Attempt has a successor only when it provably did
\* nothing: it expired before its start boundary, or the provider declined it as
\* safe to retry and it never dispatched a tool call (ADR 0010, 0011 and 0017;
\* _failure_on_connection, the reclaim branches).
ReplayOnlyWhenSafe ==
  \A j \in Jobs : \A m, n \in Numbers :
    m < n /\ attempt[j][n].status # "absent" => SafelyEnded(j, m)

SettlesTogether(j) ==
  /\ {job[j].status, run[j].status} \cap ({"absent"} \cup TerminalStatus) # {} =>
       job[j].status = run[j].status
  /\ job[j].status \in {"running", "retry_wait"} => run[j].status = "running"
  /\ job[j].cancelRequested <=> job[j].status = "cancelled"
  /\ \A n \in Numbers : attempt[j][n].status # "absent" <=> n =< job[j].count

\* Job and Run settle together and in the same way, a Job waits for a retry or
\* runs only under a running Run, and the claim budget counts the Attempts.
SettlementAgreement == \A j \in Jobs : SettlesTogether(j)

StartIsKnown(j) ==
  /\ run[j].startedAt # NULL <=> \E n \in Numbers : attempt[j][n].started
  /\ run[j].status = "created" => run[j].startedAt = NULL
  /\ run[j].status \in {"running", "succeeded"} => run[j].startedAt # NULL
  /\ run[j].status = "failed" =>
       (run[j].error = "worker_recovery_exhausted" <=> run[j].startedAt = NULL)

\* The Run tells the truth about its start: started_at is set exactly when some
\* Attempt crossed the execution-start boundary, and worker_recovery_exhausted is
\* the code of exactly the failed Runs that never started (the Run-lifecycle
\* CHECK of models.py; _start_once, _reclaim_pre_start_exhausted).
StartTruthful == \A j \in Jobs : StartIsKnown(j)

CallRows(j, statuses) ==
  {c \in Numbers \X Slots : calls[j][c[1]][c[2]] \in statuses}

\* The timeline tells the Run's story: one attempt.claimed per claim, one
\* attempt.started per started Attempt, one tool.requested per tool call and one
\* tool.started per call that crossed its start boundary, one tool.ambiguous per
\* call of unknown outcome, and one closing event exactly when the Run is settled,
\* agreeing with its status and last (append_event_on_connection and its callers).
TimelineTruthful ==
  \A j \in Jobs :
    LET log == timeline[j] IN
    /\ EventCount(j, "attempt.claimed") = job[j].count
    /\ EventCount(j, "attempt.started") =
         Cardinality({n \in Numbers : attempt[j][n].started})
    /\ EventCount(j, "tool.requested") =
         Cardinality(CallRows(j, CallStatus \ {"absent"}))
    /\ EventCount(j, "tool.started") = Cardinality(CallRows(j, DispatchedCall))
    /\ EventCount(j, "tool.ambiguous") = Cardinality(CallRows(j, {"ambiguous"}))
    /\ \A i \in DOMAIN log : log[i] \in TerminalEvent => i = Len(log)
    /\ run[j].status \in TerminalStatus <=>
         log # << >> /\ log[Len(log)] \in TerminalEvent
    /\ run[j].status = "cancelled" <=> EventCount(j, "run.cancelled") = 1
    /\ run[j].status = "succeeded" <=> EventCount(j, "run.succeeded") = 1

\* A settled Run is final: no late start, result, heartbeat, tool call,
\* reclamation or cancellation changes any row of it (every owner write is
\* fenced on the claim that settlement released).
SettledIsFrozen ==
  [][\A j \in Jobs : run[j].status \in TerminalStatus =>
       UNCHANGED <<run[j], job[j], attempt[j], calls[j], timeline[j]>>]_vars

\* A closed Attempt is immutable evidence, its tool calls included: a Worker that
\* lost its claim cannot write to the Attempt it used to own.
ClosedAttemptIsFrozen ==
  [][\A j \in Jobs, n \in Numbers : attempt[j][n].status \in ClosedStatus =>
       UNCHANGED <<attempt[j][n], calls[j][n]>>]_vars

\* Run.started_at is written once, by the first start; a retry start leaves it.
StartedAtIsWriteOnce ==
  [][\A j \in Jobs : run[j].startedAt # NULL => UNCHANGED run[j].startedAt]_vars

\* What is history stays as it is: settled Runs with all their rows, closed
\* Attempts with their tool calls, and the first start of a Run.
HistoryIsFrozen == SettledIsFrozen /\ ClosedAttemptIsFrozen /\ StartedAtIsWriteOnce

\* The claims that reclamation cannot settle: pre-start claims of a Run that a
\* previous Attempt already started, with no claim budget left.
Wedged(j) ==
  /\ job[j].status = "claimed" /\ job[j].lease =< clock
  /\ job[j].count = MaxAttempts /\ run[j].status = "running"

Expired(j) == job[j].status \in ActiveStatus /\ job[j].lease =< clock

\* Recovery makes progress: an expired claim is settled or requeued, unless a
\* wedged claim stands in the way (Worker._reclaim_periodically).
ExpiredClaimsDrain ==
  \A j \in Jobs : Expired(j) ~> (~Expired(j) \/ \E i \in Jobs : Wedged(i))

Due(j) ==
  /\ <<job[j].status, run[j].status>> \in ClaimableSources
  /\ job[j].available =< clock /\ job[j].count < MaxAttempts

\* No claimable work is starved: a due Job in a claimable pair is eventually
\* claimed or settled while a capable Worker keeps polling (Worker._slot).
DueWorkIsClaimed ==
  \A j \in Jobs : Due(j) ~> job[j].status \notin {"queued", "retry_wait"}

\* Accepted work moves on: expired claims drain and due Jobs are claimed.
WorkProgresses == ExpiredClaimsDrain /\ DueWorkIsClaimed

\* ADR 0010: "A crashed Worker no longer strands accepted work: pre-start loss is
\* recovered automatically".  A requeued Job whose time has come is claimed,
\* settled or cancelled.
RecoveredWorkIsServed ==
  \A j \in Jobs : (job[j].status = "queued" /\ job[j].available =< clock)
                    ~> job[j].status # "queued"

\* The docstring of reclaim_next_expired_claim: "a selected row is always
\* actionable and the caller can never spin on an unreclaimable one".
SelectedRowIsActionable ==
  \A j \in Jobs, n \in Numbers :
    Reclaimable(j, n, clock) /\ ReclaimHead(j, clock) =>
      \/ job[j].status = "claimed" /\ job[j].count < MaxAttempts
      \/ job[j].status = "claimed" /\ run[j].status = "created"
      \/ job[j].status = "running" /\ run[j].status = "running"

\* The promise the engine implements, and where each pair of rows stands in it.
PhaseOf(j) ==
  CASE run[j].status = "created" -> "accepted"
    [] run[j].status = "running" /\ job[j].status = "running" -> "executing"
    [] run[j].status = "running" /\ job[j].status # "running" -> "declined"
    [] OTHER -> run[j].status

Lifecycle == INSTANCE RunLifecycle WITH
  Runs <- Jobs, Executions <- Numbers,
  phase <- [j \in Jobs |-> PhaseOf(j)],
  begun <- [j \in Jobs |-> {n \in Numbers : attempt[j][n].started}]

\* The engine implements the promise of RunLifecycle for every Run: no execution
\* begins twice, beside another one, or after an outcome that is not a decline.
ImplementsLifecycle == Lifecycle!Spec
=============================================================================
