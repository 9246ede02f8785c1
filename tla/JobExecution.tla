---------------------------- MODULE JobExecution ----------------------------
(***************************************************************************)
(* The Worker's side of a claim: JobExecutionService.execute with its      *)
(* heartbeat task, its three racers (provider, authority watcher,          *)
(* deadline), the bounded finalization and the conversation projection,    *)
(* run against the durable engine of JobEngine.                            *)
(*                                                                         *)
(* A slot is named by the claim it works for, the n-th Attempt of Job j.   *)
(* Every persistence call is a step of its own; its response may be lost   *)
(* after the commit or the call may fail before it, and the read that      *)
(* reconciles it is a later step.  Every Job here is the Run of one        *)
(* conversation Turn (send_message).                                       *)
(***************************************************************************)
EXTENDS JobEngine

CONSTANT MaxTries    \* PERSISTENCE_FINALIZATION_ATTEMPTS

ASSUME TriesAssumption == MaxTries \in Nat \ {0}

VARIABLES
  slot,       \* the local state of execute() for each claim
  invoked,    \* history: provider invocations made under each claim
  turn        \* conversation_turns.state of the Turn linked to each Run

localVars == <<slot, invoked, turn>>
execVars == <<vars, localVars>>

Stage == {"none", "claimed", "checking", "loading", "providing", "finalizing",
          "inspecting", "projecting", "done", "gone"}
Working == {"loading", "providing", "finalizing", "inspecting", "projecting"}
Outcome == {"none", "succeeded"} \cup FailureCode
Beat == {"off", "on", "asking", "dead"}
TurnState == {"none", "running", "succeeded", "failed"}

\* now: the instant a reconciling read inherits from the write it follows.
SlotState == [stage: Stage, outcome: Outcome, anchor: Nat, tries: Nat, now: Nat,
              beat: Beat, lost: BOOLEAN]

NoSlot == [stage |-> "none", outcome |-> "none", anchor |-> NULL, tries |-> 0,
           now |-> NULL, beat |-> "off", lost |-> FALSE]

ExecInit ==
  /\ Init
  /\ slot = [j \in Jobs |-> [n \in Numbers |-> NoSlot]]
  /\ invoked = [j \in Jobs |-> [n \in Numbers |-> 0]]
  /\ turn = [j \in Jobs |-> "none"]

At(j, n, stage) == slot[j][n].stage = stage

SetSlot(j, n, s) == slot' = [slot EXCEPT ![j][n] = s]

Move(j, n, stage) ==
  /\ SetSlot(j, n, [slot[j][n] EXCEPT !.stage = stage])
  /\ UNCHANGED <<invoked, turn>>

\* execute() returned: its finally clause ends the heartbeat.
Leave(j, n, stage) ==
  /\ SetSlot(j, n, [slot[j][n] EXCEPT !.stage = stage, !.beat = "off"])
  /\ UNCHANGED <<invoked, turn>>

-----------------------------------------------------------------------------
(* Submission of a message, and the claim a slot takes up.                 *)

SendMessage(j, a, p, t) ==
  /\ Submit(j, a, p, t)
  /\ turn' = [turn EXCEPT ![j] = "running"]
  /\ UNCHANGED <<slot, invoked>>

TakeClaim(w, t) ==
  /\ Claim(w, t)
  /\ slot' = [j \in Jobs |-> [n \in Numbers |->
       IF attempt[j][n].status = "absent" /\ attempt'[j][n].status = "claimed"
       THEN [slot[j][n] EXCEPT !.stage = "claimed"] ELSE slot[j][n]]]
  /\ UNCHANGED <<invoked, turn>>

-----------------------------------------------------------------------------
(* start_attempt.  A fenced, contended or uncertain start is never         *)
(* replayed: durable state is read back under the call's own `now`.        *)

BeginExecution(j, n) ==
  /\ SetSlot(j, n, [slot[j][n] EXCEPT !.stage = "loading", !.beat = "on"])
  /\ UNCHANGED <<invoked, turn>>

StartReturns(j, n, t) ==
  /\ At(j, n, "claimed")
  /\ Start(j, n, t)
  /\ BeginExecution(j, n)

StartIsUncertain(j, n, t) ==
  /\ At(j, n, "claimed")
  /\ Start(j, n, t) \/ UNCHANGED vars
  /\ SetSlot(j, n, [slot[j][n] EXCEPT !.stage = "checking", !.now = t])
  /\ UNCHANGED <<invoked, turn>>

\* Mutation: an uncertain start is taken for a committed one.
StartAssumedCommitted(j, n, t) == TRUE

StartAlreadyCommitted(j, n, t) ==
  /\ AttemptOpen(j, n, "running", t) /\ attempt[j][n].started
  /\ JobHeld(j, n, "running") /\ JobLeaseLive(j, t)

StartReadBack(j, n) ==
  /\ At(j, n, "checking")
  /\ IF StartAlreadyCommitted(j, n, slot[j][n].now)
     THEN BeginExecution(j, n)
     ELSE Leave(j, n, "done")
  /\ UNCHANGED vars

-----------------------------------------------------------------------------
(* _run_provider.                                                          *)

Conclude(j, n, outcome) ==
  /\ SetSlot(j, n, [slot[j][n] EXCEPT !.stage = "finalizing", !.outcome = outcome,
                                      !.anchor = clock])
  /\ UNCHANGED <<invoked, turn>>

InvokeProvider(j, n) ==
  /\ At(j, n, "loading")
  /\ SetSlot(j, n, [slot[j][n] EXCEPT !.stage = "providing"])
  /\ invoked' = [invoked EXCEPT ![j][n] = @ + 1]
  /\ UNCHANGED <<vars, turn>>

\* A missing or altered context snapshot: internal_execution_error, an AMBIGUOUS
\* code, without a provider call.
SnapshotRejected(j, n) ==
  /\ At(j, n, "loading")
  /\ Conclude(j, n, "model_timed_out")
  /\ UNCHANGED vars

\* The loop takes its calls one at a time and ends with an ambiguous one.
BetweenCalls(j, n) ==
  \A k \in Slots : calls[j][n][k] \notin OpenCall \cup {"ambiguous"}

\* The tool loop and its mediator.
ToolStep(j, n, t) ==
  /\ At(j, n, "providing")
  /\ \/ BetweenCalls(j, n) /\ RefuseCall(j, n, t)
     \/ \E k \in Slots :
          \/ BetweenCalls(j, n) /\ RequestCall(j, n, k, t)
          \/ \E allowed \in BOOLEAN : StartCall(j, n, k, t, allowed)
          \/ \E outcome \in CallOutcome : ConcludeCall(j, n, k, t, outcome)
  /\ UNCHANGED localVars

\* Any outcome between two calls.  A call whose outcome is unknown, that was fenced
\* or whose record failed ends the loop with an AMBIGUOUS code.
Reportable(j, n, outcome) ==
  BetweenCalls(j, n) \/ outcome = "model_timed_out"

ProviderReturns(j, n, outcome) ==
  /\ At(j, n, "providing")
  /\ Reportable(j, n, outcome)
  /\ Conclude(j, n, outcome)
  /\ UNCHANGED vars

LossDetected(j, n) ==
  /\ At(j, n, "providing") /\ slot[j][n].lost
  /\ Leave(j, n, "done")
  /\ UNCHANGED vars

\* Mutation: the deadline is only honoured between two tool calls.
DeadlineBetweenCalls(j, n, t) ==
  /\ At(j, n, "providing") /\ \A k \in Slots : calls[j][n][k] \notin OpenCall
  /\ Conclude(j, n, "model_timed_out")
  /\ UNCHANGED vars

\* The deadline cancels the execution task.  A call waiting for approval is
\* withdrawn if that write succeeds; a started call is left as it is.
Deadline(j, n, t) ==
  /\ At(j, n, "providing")
  /\ Conclude(j, n, "model_timed_out")
  /\ UNCHANGED vars \/ \E k \in Slots : WithdrawCall(j, n, k, t)

-----------------------------------------------------------------------------
(* inspect_claim, and the heartbeat task that consults it.                 *)

Cancelled(j, n) == "cancelled" \in {job[j].status, attempt[j][n].status}
Terminal(j, n) ==
  /\ ~Cancelled(j, n)
  /\ \/ job[j].status \in {"succeeded", "failed"}
     \/ attempt[j][n].status \in {"succeeded", "failed", "expired"}
Active(j, n, t) ==
  /\ JobHeld(j, n, "running") /\ JobLeaseLive(j, t)
  /\ attempt[j][n].status = "running"

Renewable(j, n, t) ==
  /\ JobHeld(j, n, "running") /\ JobLeaseLive(j, t) /\ AttemptOpen(j, n, "running", t)

BeatRenews(j, n, t) ==
  /\ slot[j][n].beat = "on"
  /\ RenewLease(j, n, t)
  /\ UNCHANGED localVars

BeatRefused(j, n, t) ==
  /\ slot[j][n].beat = "on" /\ ~Renewable(j, n, t)
  /\ SetSlot(j, n, [slot[j][n] EXCEPT !.beat = "asking"])
  /\ UNCHANGED <<vars, invoked, turn>>

\* Mutation: a cancelled claim is treated like any other settled one.
LossKnownUnlessSettled(j, n, t) ==
  ~Active(j, n, t) /\ ~Terminal(j, n) /\ ~Cancelled(j, n)

LossKnown(j, n, t) == ~Active(j, n, t) /\ ~Terminal(j, n)

BeatAsks(j, n, t) ==
  /\ slot[j][n].beat = "asking"
  /\ SetSlot(j, n, [slot[j][n] EXCEPT
       !.beat = IF Active(j, n, t) THEN "on" ELSE "off",
       !.lost = LossKnown(j, n, t)])
  /\ UNCHANGED <<vars, invoked, turn>>

\* inspect_claim is not guarded: a database error ends the heartbeat task.
BeatDies(j, n) ==
  /\ slot[j][n].beat = "asking"
  /\ SetSlot(j, n, [slot[j][n] EXCEPT !.beat = "dead"])
  /\ UNCHANGED <<vars, invoked, turn>>

-----------------------------------------------------------------------------
(* _finalize: only the durable write is retried, at most MaxTries times.   *)

TryAgain(j, n) ==
  IF slot[j][n].tries + 1 < MaxTries
  THEN /\ SetSlot(j, n, [slot[j][n] EXCEPT !.stage = "finalizing", !.tries = @ + 1])
       /\ UNCHANGED <<invoked, turn>>
  ELSE Leave(j, n, "done")

SuccessFence(j, n, t) ==
  AttemptOpen(j, n, "running", t) /\ JobHeld(j, n, "running") /\ run[j].status = "running"

Finalizing(j, n) == At(j, n, "finalizing")
SucceededSlot(j, n) == slot[j][n].outcome = "succeeded"

\* The terminal write this slot tries.
Settle(j, n, t) ==
  LET outcome == slot[j][n].outcome IN
  \/ outcome = "succeeded" /\ Succeed(j, n, t)
  \/ /\ outcome \in FailureCode
     /\ \/ CloseFailed(j, n, t, outcome)
        \/ slot[j][n].anchor =< t /\ ScheduleRetry(j, n, t, slot[j][n].anchor, outcome)

FinalizeCommits(j, n, t) ==
  /\ Finalizing(j, n)
  /\ Settle(j, n, t)
  /\ Move(j, n, "projecting")

\* _finalize_success projects whenever the write was answered, committed or not.
FinalizeFenced(j, n, t) ==
  /\ Finalizing(j, n) /\ SucceededSlot(j, n) /\ ~SuccessFence(j, n, t)
  /\ Move(j, n, "projecting")
  /\ UNCHANGED vars

FinalizeContended(j, n) ==
  /\ Finalizing(j, n) /\ SucceededSlot(j, n)
  /\ TryAgain(j, n)
  /\ UNCHANGED vars

\* The response is lost or the call failed; a fenced failure takes this path too.
FinalizeUncertain(j, n, t) ==
  /\ Finalizing(j, n)
  /\ Settle(j, n, t) \/ UNCHANGED vars
  /\ SetSlot(j, n, [slot[j][n] EXCEPT !.stage = "inspecting", !.now = t])
  /\ UNCHANGED <<invoked, turn>>

InspectSuccess(j, n, t) ==
  /\ At(j, n, "inspecting") /\ SucceededSlot(j, n)
  /\ IF Active(j, n, t) THEN TryAgain(j, n) ELSE Leave(j, n, "done")
  /\ UNCHANGED vars

\* _inspect_failure_once: UNSETTLED under the exact live claim; every other answer
\* ends the retries and is projected.
InspectFailure(j, n) ==
  /\ At(j, n, "inspecting") /\ ~SucceededSlot(j, n)
  /\ IF Active(j, n, slot[j][n].now) THEN TryAgain(j, n) ELSE Move(j, n, "projecting")
  /\ UNCHANGED vars

\* Mutation: the outcome itself is written as the Turn's state.
ProjectedOutcome(j, n) ==
  IF turn[j] = "running" THEN slot[j][n].outcome ELSE turn[j]

\* _project_terminal_run_on_connection: a compare-and-set on a running Turn.
ProjectedTurn(j, n) ==
  IF turn[j] = "running"
  THEN IF SucceededSlot(j, n) THEN "succeeded" ELSE "failed"
  ELSE turn[j]

\* A projection error is suppressed.
Project(j, n) ==
  /\ At(j, n, "projecting")
  /\ SetSlot(j, n, [slot[j][n] EXCEPT !.stage = "done", !.beat = "off"])
  /\ turn' \in {turn, [turn EXCEPT ![j] = ProjectedTurn(j, n)]}
  /\ UNCHANGED <<vars, invoked>>

\* The process crashes, shutdown cancels the slot, or an error escapes execute().
Crash(j, n) ==
  /\ slot[j][n].stage \in {"claimed", "checking"} \cup Working
  /\ Leave(j, n, "gone")
  /\ UNCHANGED vars

-----------------------------------------------------------------------------

StartStep(j, n, t) ==
  StartReturns(j, n, t) \/ StartIsUncertain(j, n, t) \/ StartReadBack(j, n)

HeartbeatStep(j, n, t) ==
  BeatRenews(j, n, t) \/ BeatRefused(j, n, t) \/ BeatAsks(j, n, t) \/ BeatDies(j, n)

FinalizeStep(j, n, t) ==
  \/ FinalizeCommits(j, n, t) \/ FinalizeFenced(j, n, t) \/ FinalizeContended(j, n)
  \/ FinalizeUncertain(j, n, t) \/ InspectSuccess(j, n, t) \/ InspectFailure(j, n)
  \/ Project(j, n)

ExecutionStep(j, n, t) ==
  \/ StartStep(j, n, t)
  \/ InvokeProvider(j, n) \/ SnapshotRejected(j, n)
  \/ ToolStep(j, n, t)
  \/ \E outcome \in Outcome \ {"none"} : ProviderReturns(j, n, outcome)
  \/ LossDetected(j, n) \/ Deadline(j, n, t)
  \/ HeartbeatStep(j, n, t) \/ FinalizeStep(j, n, t)
  \/ Crash(j, n)

ExecNext ==
  \/ Tick /\ UNCHANGED localVars
  \/ \E t \in Instants :
       \/ \E j \in Jobs, i \in Instances : SendMessage(j, i[1], i[2], t)
       \/ \E w \in Workers : TakeClaim(w, t)
       \/ \E j \in Jobs, n \in Numbers :
            ExecutionStep(j, n, t) \/ (Reclaim(j, n, t) /\ UNCHANGED localVars)
  \/ \E j \in Jobs : Cancel(j) /\ UNCHANGED localVars

ExecSpec == ExecInit /\ [][ExecNext]_execVars

\* The event loop runs a ready coroutine and a thread returns from its database
\* call; the deadline is a timer.  Nothing is assumed of the provider.
ExecFairness ==
  \A j \in Jobs, n \in Numbers :
    /\ WF_execVars(\E t \in Instants : StartStep(j, n, t))
    /\ WF_execVars(InvokeProvider(j, n) \/ SnapshotRejected(j, n))
    /\ WF_execVars(\E t \in Instants : Deadline(j, n, t))
    /\ WF_execVars(\E t \in Instants : FinalizeStep(j, n, t))

\* The heartbeat without the deadline.
HeartbeatFairness ==
  \A j \in Jobs, n \in Numbers :
    /\ WF_execVars(\E t \in Instants : BeatRefused(j, n, t) \/ BeatAsks(j, n, t))
    /\ WF_execVars(LossDetected(j, n))

-----------------------------------------------------------------------------
(* Properties.                                                             *)

\* The local state of every slot, and the Turn, keep their shape.
ExecTypeOK ==
  /\ slot \in [Jobs -> [Numbers -> SlotState]]
  /\ invoked \in [Jobs -> [Numbers -> Nat]]
  /\ turn \in [Jobs -> TurnState]

\* The provider is called only after the start boundary of that Attempt is
\* durable, and once per Attempt, whatever responses of start_attempt are lost
\* (start_attempt: "A caller may therefore invoke the provider exactly when True is
\* returned, and must not invoke it otherwise").
ProviderAfterBoundary ==
  \A j \in Jobs, n \in Numbers :
    invoked[j][n] =< 1 /\ (invoked[j][n] = 1 => attempt[j][n].started)

\* No second provider call without a decline: when two Attempts of a Job both
\* called the provider, the earlier call had already returned a rate limit.  No
\* crash, lost response, stale heartbeat or late deadline leads to a replay of a
\* call that may have been processed, nor to two calls in flight.
ReinvokedOnlyAfterDecline ==
  \A j \in Jobs : \A m, n \in Numbers :
    m < n /\ invoked[j][m] > 0 /\ invoked[j][n] > 0 =>
      slot[j][m].outcome = "model_rate_limited"

\* The provider's calls, over every Attempt of a Job: each after its durable
\* start, none repeated unless the provider declined the one before.
ExecSound == ExecTypeOK /\ ProviderAfterBoundary /\ ReinvokedOnlyAfterDecline

\* A slot is always freed, when the event loop keeps running: even if the provider
\* never answers, its deadline and the bounded finalization end execute()
\* (_run_provider, _finalize).
SlotIsFreed ==
  ExecFairness =>
    \A j \in Jobs, n \in Numbers :
      slot[j][n].stage # "none" ~> slot[j][n].stage \in {"done", "gone"}

\* A cancelled Run's Worker stops waiting for the provider through its heartbeat
\* alone, no deadline being assumed, as long as that heartbeat lives (_heartbeat: "this
\* Worker must stop waiting on the provider now rather than hold the slot until the
\* execution deadline lapses").
CancellationEndsWait ==
  HeartbeatFairness =>
    \A j \in Jobs, n \in Numbers :
      (run[j].status = "cancelled" /\ At(j, n, "providing") /\ slot[j][n].beat = "on")
        ~> (~At(j, n, "providing") \/ slot[j][n].beat = "dead")

\* The comment in _heartbeat: after a cancellation "the durable authority is already
\* revoked, so whatever the provider eventually returns can never be persisted".  The
\* Turn of a cancelled Run never shows an answer.
NoAnswerForCancelledRun ==
  \A j \in Jobs : run[j].status = "cancelled" => turn[j] # "succeeded"
=============================================================================
