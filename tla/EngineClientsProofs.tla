------------------------ MODULE EngineClientsProofs ------------------------
(***************************************************************************)
(* Proofs about the modules built on the job engine: the Worker's slot     *)
(* (JobExecution), the caller of submit (Submission) and the order of      *)
(* claims (ClaimFairness).  Each is shown to ask nothing of the engine     *)
(* that the engine's own specification does not allow, so that every       *)
(* theorem about JobEngine holds of it, and then to keep its own promise.  *)
(***************************************************************************)
EXTENDS JobExecution, Submission, ClaimFairness, JobEngineProofs

(* What the engine does to the Attempt row a slot works for.               *)

RowKept(row, next) ==
  /\ row.status = "absent" <=> next.status = "absent"
  /\ row.started => next.started
  /\ next.status = "failed" => row.status = "failed" /\ next.disposition = row.disposition

RowsKept == \A i \in Jobs, m \in Numbers : RowKept(attempt[i][m], attempt'[i][m])

\* Writing one row moves no other.
LEMMA OneRowKept ==
  ASSUME TypeOK, NEW j \in Jobs, NEW n \in Numbers, NEW row, PutAttempt(j, n, row),
         RowKept(attempt[j][n], row)
  PROVE  RowsKept
<1> SUFFICES ASSUME NEW i \in Jobs, NEW m \in Numbers
             PROVE  RowKept(attempt[i][m], attempt'[i][m])
  BY DEF RowsKept
<1>1. CASE i = j /\ m = n
  BY <1>1, PutFacts
<1>2. CASE ~(i = j /\ m = n)
  <2>1. attempt'[i][m] = attempt[i][m]
    BY <1>2, PutFacts
  <2> QED BY <2>1 DEF RowKept
<1> QED BY <1>1, <1>2

\* An engine step that does not write Attempts moves none.
LEMMA UnwrittenRowsKept ==
  ASSUME UNCHANGED attempt PROVE RowsKept
BY DEF RowsKept, RowKept

\* The columns of a rewritten row.
LEMMA AttemptColumns ==
  ASSUME NEW row \in AttemptRow, NEW status, NEW lease, NEW disposition
  PROVE  /\ [row EXCEPT !.status = status].status = status
         /\ [row EXCEPT !.status = status].started = row.started
         /\ [row EXCEPT !.status = status, !.started = TRUE].status = status
         /\ [row EXCEPT !.status = status, !.started = TRUE].started = TRUE
         /\ [row EXCEPT !.lease = lease].status = row.status
         /\ [row EXCEPT !.lease = lease].started = row.started
         /\ [row EXCEPT !.lease = lease].disposition = row.disposition
         /\ [row EXCEPT !.status = status, !.disposition = disposition].status = status
         /\ [row EXCEPT !.status = status, !.disposition = disposition].started = row.started
         /\ [row EXCEPT !.status = status, !.disposition = disposition].disposition = disposition
BY DEF AttemptRow

\* Start, heartbeat, success, tool calls, reclamation and cancellation fail no
\* Attempt, and none is un-started or forgotten.
LEMMA EngineKeepsRows ==
  ASSUME TypeOK, NEW j \in Jobs, NEW n \in Numbers, NEW t
  PROVE  /\ Start(j, n, t) => RowsKept
         /\ RenewLease(j, n, t) => RowsKept
         /\ Succeed(j, n, t) => RowsKept
         /\ Reclaim(j, n, t) => RowsKept
         /\ Cancel(j) => RowsKept
<1> DEFINE row == attempt[j][n]
<1>1. row \in AttemptRow
  BY RowTypes
<1>2. ASSUME NEW next, PutAttempt(j, n, next), RowKept(row, next) PROVE RowsKept
  BY <1>2, OneRowKept
<1>3. ASSUME Start(j, n, t) PROVE RowsKept
  <2>1. RowKept(row, [row EXCEPT !.status = "running", !.started = TRUE])
    BY <1>1, <1>3, AttemptColumns DEF RowKept, Start, AttemptOpen
  <2> QED BY <1>2, <1>3, <2>1 DEF Start
<1>4. ASSUME RenewLease(j, n, t) PROVE RowsKept
  <2>1. RowKept(row, [row EXCEPT !.lease = t + LeaseDuration])
    BY <1>1, AttemptColumns DEF RowKept
  <2> QED BY <1>2, <1>4, <2>1 DEF RenewLease
<1>5. ASSUME Succeed(j, n, t) PROVE RowsKept
  <2>1. RowKept(row, [row EXCEPT !.status = "succeeded"])
    BY <1>1, <1>5, AttemptColumns DEF RowKept, Succeed, AttemptOpen
  <2> QED BY <1>2, <1>5, <2>1 DEF Succeed
<1>6. ASSUME Reclaim(j, n, t) PROVE RowsKept
  <2>1. PICK disposition : CloseAttempt(j, n, "expired", disposition)
    BY <1>6 DEF Reclaim, ReclaimPreStartRequeue, ReclaimPreStartExhausted, ReclaimPostStartAmbiguous
  <2>2. row.status # "absent"
    BY <1>6 DEF Reclaim, ReclaimPreStartRequeue, ReclaimPreStartExhausted, ReclaimPostStartAmbiguous,
       ReclaimFence, Reclaimable
  <2>3. RowKept(row, [row EXCEPT !.status = "expired", !.disposition = disposition])
    BY <1>1, <2>2, AttemptColumns DEF RowKept
  <2> QED BY <1>2, <2>1, <2>3 DEF CloseAttempt
<1>7. ASSUME Cancel(j) PROVE RowsKept
  <2>1. CASE UNCHANGED attempt
    BY <2>1, UnwrittenRowsKept
  <2>2. ASSUME NEW m \in ActiveNumbers(j), PutAttempt(j, m, [attempt[j][m] EXCEPT !.status = "cancelled"])
        PROVE  RowsKept
    <3>1. m \in Numbers /\ attempt[j][m].status # "absent" /\ attempt[j][m] \in AttemptRow
      BY RowTypes DEF ActiveNumbers, ActiveStatus
    <3>2. RowKept(attempt[j][m], [attempt[j][m] EXCEPT !.status = "cancelled"])
      BY <3>1, AttemptColumns DEF RowKept
    <3> QED BY <2>2, <3>1, <3>2, OneRowKept
  <2> QED BY <1>7, <2>1, <2>2 DEF Cancel
<1> QED BY <1>3, <1>4, <1>5, <1>6, <1>7

\* A tool call never writes the Attempt.
LEMMA ToolCallsKeepRows ==
  ASSUME NEW j, NEW n, NEW t, NEW k
  PROVE  /\ RefuseCall(j, n, t) => RowsKept
         /\ RequestCall(j, n, k, t) => RowsKept
         /\ WithdrawCall(j, n, k, t) => RowsKept
         /\ \A allowed : StartCall(j, n, k, t, allowed) => RowsKept
         /\ \A outcome : ConcludeCall(j, n, k, t, outcome) => RowsKept
BY UnwrittenRowsKept DEF RefuseCall, RequestCall, WithdrawCall, StartCall, ConcludeCall

-----------------------------------------------------------------------------
(* The Worker's slot.  Its invariant ties the local state of execute() to  *)
(* the Attempt row of its claim: nothing was invoked before the start was  *)
(* known to be durable, and a failed Attempt carries the disposition of    *)
(* the outcome this slot reported, which it can no longer change.          *)

BeforeCall == {"none", "claimed", "checking", "loading"}
Answered == {"finalizing", "inspecting", "projecting"}

SlotFits(s, row, count, now) ==
  /\ s.stage = "none" <=> row.status = "absent"
  /\ s.stage \in BeforeCall => count = 0
  /\ s.stage \in {"loading", "providing"} => row.started
  /\ count =< 1 /\ (count = 1 => row.started)
  /\ s.stage \in Answered => s.outcome # "none" /\ s.anchor \in 1..now
  /\ row.status = "failed" =>
       /\ s.stage \notin BeforeCall \cup {"providing"}
       /\ s.outcome \in FailureCode /\ row.disposition = DispositionFor(s.outcome)

SlotsFit ==
  \A j \in Jobs, n \in Numbers : SlotFits(slot[j][n], attempt[j][n], invoked[j][n], clock)

ExecInv == EngineInv /\ ExecTypeOK /\ SlotsFit

\* A slot fits the row the engine leaves behind, at any later time.
LEMMA FitsKept ==
  ASSUME NEW s, NEW row, NEW next, NEW count, NEW now \in Nat, NEW later \in Nat,
         SlotFits(s, row, count, now), RowKept(row, next), now =< later
  PROVE  SlotFits(s, next, count, later)
BY DEF SlotFits, RowKept

\* One slot moves and fits; the rows of the others are kept.
LEMMA SlotStep ==
  ASSUME ExecInv, NEW j \in Jobs, NEW n \in Numbers, NEW s \in SlotState, SetSlot(j, n, s),
         UNCHANGED <<invoked, clock>>, turn' \in [Jobs -> TurnState],
         \A i \in Jobs, m \in Numbers : (i = j /\ m = n) \/ RowKept(attempt[i][m], attempt'[i][m]),
         SlotFits(s, attempt'[j][n], invoked[j][n], clock)
  PROVE  ExecTypeOK' /\ SlotsFit'
<1>1. slot \in [Jobs -> [Numbers -> SlotState]] /\ invoked \in [Jobs -> [Numbers -> Nat]]
  BY DEF ExecInv, ExecTypeOK
<1>2. /\ slot' \in [Jobs -> [Numbers -> SlotState]] /\ slot'[j][n] = s
      /\ \A i \in Jobs, m \in Numbers : (i = j /\ m = n) \/ slot'[i][m] = slot[i][m]
  BY <1>1 DEF SetSlot
<1>3. clock \in Nat
  BY DEF ExecInv, EngineInv, TypeOK
<1>4. ASSUME NEW i \in Jobs, NEW m \in Numbers
      PROVE  SlotFits(slot'[i][m], attempt'[i][m], invoked[i][m], clock)
  <2>1. CASE i = j /\ m = n
    BY <1>2, <2>1
  <2>2. CASE ~(i = j /\ m = n)
    <3>1. SlotFits(slot[i][m], attempt[i][m], invoked[i][m], clock) /\ slot'[i][m] = slot[i][m]
      BY <1>2, <2>2 DEF ExecInv, SlotsFit
    <3> QED BY <1>3, <2>2, <3>1, FitsKept
  <2> QED BY <2>1, <2>2
<1> QED BY <1>1, <1>2, <1>4 DEF ExecTypeOK, SlotsFit

\* The same when the engine keeps the row of the moving slot too.
LEMMA SlotStepKept ==
  ASSUME ExecInv, NEW j \in Jobs, NEW n \in Numbers, NEW s \in SlotState, SetSlot(j, n, s),
         UNCHANGED <<invoked, clock, turn>>, RowsKept,
         SlotFits(s, attempt[j][n], invoked[j][n], clock)
  PROVE  ExecTypeOK' /\ SlotsFit'
<1>1. clock \in Nat /\ turn' \in [Jobs -> TurnState]
  BY DEF ExecInv, EngineInv, TypeOK, ExecTypeOK
<1>2. SlotFits(s, attempt'[j][n], invoked[j][n], clock)
  BY <1>1, FitsKept DEF RowsKept
<1> QED BY <1>1, <1>2, SlotStep DEF RowsKept

\* Nothing moves in any slot.
LEMMA SlotsRest ==
  ASSUME ExecInv, UNCHANGED localVars, RowsKept, clock' \in Nat, clock =< clock'
  PROVE  ExecTypeOK' /\ SlotsFit'
<1>1. clock \in Nat /\ UNCHANGED <<slot, invoked, turn>>
  BY DEF ExecInv, EngineInv, TypeOK, localVars
<1>2. ASSUME NEW i \in Jobs, NEW m \in Numbers
      PROVE  SlotFits(slot[i][m], attempt'[i][m], invoked[i][m], clock')
  BY <1>1, FitsKept DEF ExecInv, SlotsFit, RowsKept
<1> QED BY <1>1, <1>2 DEF ExecInv, ExecTypeOK, SlotsFit

\* A slot that leaves execute(), or only moves its heartbeat, still fits.
LEMMA FitsLeave ==
  ASSUME NEW s, NEW r, NEW row, NEW count, NEW now,
         SlotFits(s, row, count, now), r.outcome = s.outcome, r.anchor = s.anchor,
         r.stage = s.stage \/ (s.stage # "none" /\ r.stage \in {"done", "gone"})
  PROVE  SlotFits(r, row, count, now)
BY DEF SlotFits, BeforeCall, Answered

\* A slot that has its outcome moves among the steps of its finalization.
LEMMA FitsAnswered ==
  ASSUME NEW s, NEW r, NEW row, NEW count, NEW now,
         SlotFits(s, row, count, now), r.outcome = s.outcome, r.anchor = s.anchor,
         s.stage \in Answered, r.stage \in Answered \cup {"done"}
  PROVE  SlotFits(r, row, count, now)
BY DEF SlotFits, BeforeCall, Answered

\* A slot that reaches its outcome; its Attempt is not failed yet.
LEMMA FitsConclude ==
  ASSUME NEW s, NEW r, NEW row, NEW count, NEW now \in Nat \ {0},
         SlotFits(s, row, count, now), s.stage \in {"loading", "providing"},
         r.stage = "finalizing", r.outcome # "none", r.anchor = now
  PROVE  SlotFits(r, row, count, now)
BY DEF SlotFits, BeforeCall, Answered

\* The facts every step of a slot starts from.
LEMMA SlotHere ==
  ASSUME ExecInv, NEW j \in Jobs, NEW n \in Numbers
  PROVE  /\ slot[j][n] \in SlotState /\ invoked[j][n] \in Nat /\ clock \in Nat \ {0}
         /\ SlotFits(slot[j][n], attempt[j][n], invoked[j][n], clock)
<1>1. slot[j][n] \in SlotState /\ invoked[j][n] \in Nat
  BY DEF ExecInv, ExecTypeOK
<1>2. clock \in Nat \ {0}
  BY DEF ExecInv, EngineInv, TypeOK
<1> QED BY <1>1, <1>2 DEF ExecInv, SlotsFit

\* execute() returns or only its heartbeat moves, beside an engine step that keeps the rows.
LEMMA LeaveKeeps ==
  ASSUME ExecInv, NEW j \in Jobs, NEW n \in Numbers, NEW stage \in {"done", "gone"},
         slot[j][n].stage # "none", Leave(j, n, stage), UNCHANGED vars
  PROVE  ExecTypeOK' /\ SlotsFit'
<1> DEFINE r == [slot[j][n] EXCEPT !.stage = stage, !.beat = "off"]
<1>1. r \in SlotState /\ r.stage = stage /\ r.outcome = slot[j][n].outcome /\ r.anchor = slot[j][n].anchor
  <2>1. slot[j][n] \in SlotState /\ stage \in Stage /\ "off" \in Beat
    BY SlotHere DEF Stage, Beat
  <2> QED BY <2>1 DEF SlotState
<1>2. SetSlot(j, n, r) /\ UNCHANGED <<invoked, clock, turn>> /\ RowsKept
  BY UnwrittenRowsKept DEF Leave, vars
<1> HIDE DEF r
<1>3. SlotFits(r, attempt[j][n], invoked[j][n], clock)
  BY <1>1, SlotHere, FitsLeave
<1> QED BY <1>1, <1>2, <1>3, SlotStepKept

\* A result is normalized: Conclude.
LEMMA ConcludeKeeps ==
  ASSUME ExecInv, NEW j \in Jobs, NEW n \in Numbers, NEW outcome \in Outcome \ {"none"},
         slot[j][n].stage \in {"loading", "providing"}, Conclude(j, n, outcome), RowsKept, clock' = clock
  PROVE  ExecTypeOK' /\ SlotsFit'
<1> DEFINE r == [slot[j][n] EXCEPT !.stage = "finalizing", !.outcome = outcome, !.anchor = clock]
<1>1. r \in SlotState /\ r.stage = "finalizing" /\ r.outcome = outcome /\ r.anchor = clock
  <2>1. slot[j][n] \in SlotState /\ "finalizing" \in Stage /\ clock \in Nat
    BY SlotHere DEF Stage
  <2> QED BY <2>1 DEF SlotState
<1>2. SetSlot(j, n, r) /\ UNCHANGED <<invoked, turn>>
  BY DEF Conclude
<1> HIDE DEF r
<1>3. SlotFits(r, attempt[j][n], invoked[j][n], clock)
  BY <1>1, SlotHere, FitsConclude
<1> QED BY <1>1, <1>2, <1>3, SlotStepKept

\* The retries of the durable write: TryAgain.
LEMMA TryAgainKeeps ==
  ASSUME ExecInv, NEW j \in Jobs, NEW n \in Numbers, slot[j][n].stage \in Answered,
         TryAgain(j, n), UNCHANGED vars
  PROVE  ExecTypeOK' /\ SlotsFit'
<1>1. CASE Leave(j, n, "done")
  BY <1>1, LeaveKeeps DEF Answered
<1>2. CASE ~Leave(j, n, "done")
  <2> DEFINE r == [slot[j][n] EXCEPT !.stage = "finalizing", !.tries = @ + 1]
  <2>1. /\ r \in SlotState /\ r.stage = "finalizing" /\ r.outcome = slot[j][n].outcome
        /\ r.anchor = slot[j][n].anchor
    <3>1. ASSUME NEW tries \in Nat, NEW q, q = [slot[j][n] EXCEPT !.stage = "finalizing", !.tries = tries]
          PROVE  /\ q \in SlotState /\ q.stage = "finalizing" /\ q.outcome = slot[j][n].outcome
                 /\ q.anchor = slot[j][n].anchor
      <4>1. slot[j][n] \in SlotState /\ "finalizing" \in Stage
        BY SlotHere DEF Stage
      <4> QED BY <3>1, <4>1 DEF SlotState
    <3>2. slot[j][n].tries + 1 \in Nat
      BY SlotHere DEF SlotState
    <3> QED BY <3>1, <3>2
  <2>2. SetSlot(j, n, r) /\ UNCHANGED <<invoked, clock, turn>> /\ RowsKept
    BY <1>2, UnwrittenRowsKept DEF TryAgain, vars
  <2> HIDE DEF r
  <2>3. SlotFits(r, attempt[j][n], invoked[j][n], clock)
    BY <2>1, SlotHere, FitsAnswered DEF Answered
  <2> QED BY <2>1, <2>2, <2>3, SlotStepKept
<1> QED BY <1>1, <1>2

\* The terminal write of a slot closes its own Attempt only: as succeeded, or as
\* failed with the disposition of the outcome the slot holds.
LEMMA SettleRows ==
  ASSUME TypeOK, NEW j \in Jobs, NEW n \in Numbers, NEW t, Settle(j, n, t)
  PROVE  /\ \A i \in Jobs, m \in Numbers : (i = j /\ m = n) \/ attempt'[i][m] = attempt[i][m]
         /\ clock' = clock /\ attempt[j][n].status = "running"
         /\ attempt'[j][n].started = attempt[j][n].started
         /\ \/ attempt'[j][n].status = "succeeded"
            \/ /\ attempt'[j][n].status = "failed" /\ slot[j][n].outcome \in FailureCode
               /\ attempt'[j][n].disposition = DispositionFor(slot[j][n].outcome)
<1> DEFINE row == attempt[j][n]
<1>1. row \in AttemptRow
  BY RowTypes
<1>2. clock' = clock /\ row.status = "running"
  BY DEF Settle, Succeed, CloseFailed, ScheduleRetry, FailureFence, AttemptOpen
<1>3. \/ PutAttempt(j, n, [row EXCEPT !.status = "succeeded"])
      \/ /\ slot[j][n].outcome \in FailureCode
         /\ PutAttempt(j, n, [row EXCEPT !.status = "failed",
                                         !.disposition = DispositionFor(slot[j][n].outcome)])
  BY DEF Settle, Succeed, CloseFailed, ScheduleRetry, CloseAttempt
<1>4. CASE PutAttempt(j, n, [row EXCEPT !.status = "succeeded"])
  <2>1. attempt'[j][n] = [row EXCEPT !.status = "succeeded"]
    BY <1>4, PutFacts
  <2>2. \A i \in Jobs, m \in Numbers : (i = j /\ m = n) \/ attempt'[i][m] = attempt[i][m]
    BY <1>4, PutFacts
  <2>3. attempt'[j][n].status = "succeeded" /\ attempt'[j][n].started = row.started
    BY <1>1, <2>1 DEF AttemptRow
  <2> QED BY <1>2, <2>2, <2>3
<1>5. CASE /\ slot[j][n].outcome \in FailureCode
           /\ PutAttempt(j, n, [row EXCEPT !.status = "failed",
                                           !.disposition = DispositionFor(slot[j][n].outcome)])
  <2>1. attempt'[j][n] = [row EXCEPT !.status = "failed", !.disposition = DispositionFor(slot[j][n].outcome)]
    BY <1>5, PutFacts
  <2>2. \A i \in Jobs, m \in Numbers : (i = j /\ m = n) \/ attempt'[i][m] = attempt[i][m]
    BY <1>5, PutFacts
  <2>3. /\ attempt'[j][n].status = "failed" /\ attempt'[j][n].started = row.started
        /\ attempt'[j][n].disposition = DispositionFor(slot[j][n].outcome)
    BY <1>1, <2>1 DEF AttemptRow
  <2> QED BY <1>2, <1>5, <2>2, <2>3
<1> QED BY <1>3, <1>4, <1>5

\* The slot fits the row its terminal write left.
LEMMA FitsSettled ==
  ASSUME NEW s, NEW r, NEW row, NEW next, NEW count, NEW now,
         SlotFits(s, row, count, now), s.stage = "finalizing", row.status = "running",
         r.outcome = s.outcome, r.anchor = s.anchor, r.stage \in {"projecting", "inspecting"},
         next.started = row.started,
         \/ next.status = "succeeded"
         \/ /\ next.status = "failed" /\ s.outcome \in FailureCode
            /\ next.disposition = DispositionFor(s.outcome)
  PROVE  SlotFits(r, next, count, now)
BY DEF SlotFits, BeforeCall, Answered

\* The write committed, and the slot is told so or not.
LEMMA SettleKeeps ==
  ASSUME ExecInv, NEW j \in Jobs, NEW n \in Numbers, NEW t, Settle(j, n, t),
         slot[j][n].stage = "finalizing", NEW r \in SlotState, SetSlot(j, n, r), UNCHANGED <<invoked, turn>>,
         r.outcome = slot[j][n].outcome, r.anchor = slot[j][n].anchor, r.stage \in {"projecting", "inspecting"}
  PROVE  ExecTypeOK' /\ SlotsFit'
<1>1. TypeOK /\ turn \in [Jobs -> TurnState]
  BY DEF ExecInv, EngineInv, ExecTypeOK
<1>2. SlotFits(r, attempt'[j][n], invoked[j][n], clock)
  BY <1>1, SettleRows, SlotHere, FitsSettled
<1>3. \A i \in Jobs, m \in Numbers : (i = j /\ m = n) \/ RowKept(attempt[i][m], attempt'[i][m])
  BY <1>1, SettleRows DEF RowKept
<1> QED BY <1>1, <1>2, <1>3, SettleRows, SlotStep

\* The write did not happen, and the slot moves on within its finalization.
LEMMA AnsweredKeeps ==
  ASSUME ExecInv, NEW j \in Jobs, NEW n \in Numbers, UNCHANGED vars, slot[j][n].stage \in Answered,
         NEW r \in SlotState, SetSlot(j, n, r), UNCHANGED <<invoked, turn>>,
         r.outcome = slot[j][n].outcome, r.anchor = slot[j][n].anchor, r.stage \in Answered
  PROVE  ExecTypeOK' /\ SlotsFit'
<1>1. UNCHANGED <<clock, attempt>>
  BY DEF vars
<1>2. SlotFits(r, attempt[j][n], invoked[j][n], clock)
  BY SlotHere, FitsAnswered
<1> QED BY <1>1, <1>2, UnwrittenRowsKept, SlotStepKept

\* The start boundary: told, lost or read back, the provider is approached only
\* once the start is known to be durable.
LEMMA StartKeeps ==
  ASSUME ExecInv, NEW j \in Jobs, NEW n \in Numbers, NEW t \in Nat, StartStep(j, n, t)
  PROVE  ExecTypeOK' /\ SlotsFit'
<1> DEFINE begun == [slot[j][n] EXCEPT !.stage = "loading", !.beat = "on"]
           asked == [slot[j][n] EXCEPT !.stage = "checking", !.now = t]
<1>0. slot[j][n] \in SlotState /\ TypeOK /\ turn \in [Jobs -> TurnState]
  BY SlotHere DEF ExecInv, EngineInv, ExecTypeOK
<1>1. /\ begun \in SlotState /\ begun.stage = "loading" /\ begun.outcome = slot[j][n].outcome
      /\ begun.anchor = slot[j][n].anchor
  BY <1>0 DEF SlotState, Stage, Beat
<1>2. /\ asked \in SlotState /\ asked.stage = "checking" /\ asked.outcome = slot[j][n].outcome
      /\ asked.anchor = slot[j][n].anchor
  BY <1>0 DEF SlotState, Stage
<1>3. BeginExecution(j, n) => SetSlot(j, n, begun) /\ UNCHANGED <<invoked, turn>>
  BY DEF BeginExecution
<1>4. StartIsUncertain(j, n, t) => SetSlot(j, n, asked) /\ UNCHANGED <<invoked, turn>>
  BY DEF StartIsUncertain
<1> HIDE DEF begun, asked
<1>5. CASE StartReturns(j, n, t)
  <2>1. /\ Start(j, n, t) /\ slot[j][n].stage = "claimed" /\ clock' = clock /\ RowsKept
        /\ SetSlot(j, n, begun) /\ UNCHANGED <<invoked, turn>>
    BY <1>0, <1>3, <1>5, EngineKeepsRows DEF StartReturns, Start, At
  <2>2. attempt'[j][n] = [attempt[j][n] EXCEPT !.status = "running", !.started = TRUE]
    BY <1>0, <2>1, PutFacts DEF Start
  <2>3. attempt'[j][n].status = "running" /\ attempt'[j][n].started
    BY <1>0, <2>2, RowTypes DEF AttemptRow
  <2>4. SlotFits(begun, attempt'[j][n], invoked[j][n], clock)
    BY <1>1, <2>1, <2>3, SlotHere DEF SlotFits, BeforeCall, Answered
  <2> QED BY <1>0, <1>1, <2>1, <2>4, SlotStep DEF RowsKept
<1>6. CASE StartIsUncertain(j, n, t)
  <2>1. slot[j][n].stage = "claimed" /\ clock' = clock /\ RowsKept
    BY <1>0, <1>6, EngineKeepsRows, UnwrittenRowsKept DEF StartIsUncertain, At, Start, vars
  <2>2. SlotFits(asked, attempt[j][n], invoked[j][n], clock)
    BY <1>2, <2>1, SlotHere DEF SlotFits, BeforeCall, Answered
  <2> QED BY <1>2, <1>4, <1>6, <2>1, <2>2, SlotStepKept
<1>7. CASE StartReadBack(j, n)
  <2>1. slot[j][n].stage = "checking" /\ UNCHANGED <<vars, clock, attempt>>
    BY <1>7 DEF StartReadBack, At, vars
  <2>2. ASSUME StartAlreadyCommitted(j, n, slot[j][n].now), BeginExecution(j, n)
        PROVE  ExecTypeOK' /\ SlotsFit'
    <3>1. attempt[j][n].started /\ attempt[j][n].status = "running"
      BY <2>2 DEF StartAlreadyCommitted, AttemptOpen
    <3>2. SlotFits(begun, attempt[j][n], invoked[j][n], clock)
      BY <1>1, <2>1, <3>1, SlotHere DEF SlotFits, BeforeCall, Answered
    <3> QED BY <1>1, <1>3, <2>1, <2>2, <3>2, UnwrittenRowsKept, SlotStepKept
  <2>3. ASSUME Leave(j, n, "done") PROVE ExecTypeOK' /\ SlotsFit'
    BY <2>1, <2>3, LeaveKeeps
  <2> QED BY <1>7, <2>2, <2>3 DEF StartReadBack
<1> QED BY <1>5, <1>6, <1>7 DEF StartStep

\* The provider call: the first one of the slot, after its durable start.
LEMMA InvokeKeeps ==
  ASSUME ExecInv, NEW j \in Jobs, NEW n \in Numbers, InvokeProvider(j, n)
  PROVE  ExecTypeOK' /\ SlotsFit'
<1> DEFINE r == [slot[j][n] EXCEPT !.stage = "providing"]
<1>0. /\ slot \in [Jobs -> [Numbers -> SlotState]] /\ invoked \in [Jobs -> [Numbers -> Nat]]
      /\ turn \in [Jobs -> TurnState] /\ slot[j][n] \in SlotState
  BY DEF ExecInv, ExecTypeOK
<1>1. r \in SlotState /\ r.stage = "providing"
  BY <1>0 DEF SlotState, Stage
<1>2. SetSlot(j, n, r) /\ slot[j][n].stage = "loading" /\ UNCHANGED <<clock, attempt, turn>>
  BY DEF InvokeProvider, At, vars
<1> HIDE DEF r
<1>3. /\ slot' \in [Jobs -> [Numbers -> SlotState]] /\ slot'[j][n] = r
      /\ \A i \in Jobs, m \in Numbers : (i = j /\ m = n) \/ slot'[i][m] = slot[i][m]
  BY <1>0, <1>1, <1>2 DEF SetSlot
<1>4. /\ invoked' \in [Jobs -> [Numbers -> Nat]] /\ invoked'[j][n] = invoked[j][n] + 1
      /\ \A i \in Jobs, m \in Numbers : (i = j /\ m = n) \/ invoked'[i][m] = invoked[i][m]
  BY <1>0 DEF InvokeProvider
<1>5. SlotFits(r, attempt[j][n], invoked[j][n] + 1, clock)
  BY <1>1, <1>2, SlotHere DEF SlotFits, BeforeCall, Answered
<1>6. ASSUME NEW i \in Jobs, NEW m \in Numbers
      PROVE  SlotFits(slot'[i][m], attempt[i][m], invoked'[i][m], clock)
  <2>1. CASE i = j /\ m = n
    BY <1>3, <1>4, <1>5, <2>1
  <2>2. CASE ~(i = j /\ m = n)
    BY <1>3, <1>4, <2>2 DEF ExecInv, SlotsFit
  <2> QED BY <2>1, <2>2
<1> QED BY <1>0, <1>2, <1>3, <1>4, <1>6 DEF ExecTypeOK, SlotsFit

\* The heartbeat task, whatever it learns.
LEMMA BeatKeeps ==
  ASSUME ExecInv, NEW j \in Jobs, NEW n \in Numbers, NEW t, HeartbeatStep(j, n, t)
  PROVE  ExecTypeOK' /\ SlotsFit'
<1>0. slot[j][n] \in SlotState /\ TypeOK /\ clock \in Nat
  BY SlotHere DEF ExecInv, EngineInv
<1>1. CASE BeatRenews(j, n, t)
  BY <1>0, <1>1, EngineKeepsRows, SlotsRest DEF BeatRenews, RenewLease
<1>2. ASSUME NEW r \in SlotState, SetSlot(j, n, r), UNCHANGED <<vars, invoked, turn>>,
             r.stage = slot[j][n].stage, r.outcome = slot[j][n].outcome, r.anchor = slot[j][n].anchor
      PROVE  ExecTypeOK' /\ SlotsFit'
  <2>1. UNCHANGED <<clock, attempt>>
    BY <1>2 DEF vars
  <2>2. SlotFits(r, attempt[j][n], invoked[j][n], clock)
    BY <1>2, SlotHere, FitsLeave
  <2> QED BY <1>2, <2>1, <2>2, UnwrittenRowsKept, SlotStepKept
<1>3. ASSUME NEW beat \in Beat, NEW r, r = [slot[j][n] EXCEPT !.beat = beat]
      PROVE  /\ r \in SlotState /\ r.stage = slot[j][n].stage /\ r.outcome = slot[j][n].outcome
             /\ r.anchor = slot[j][n].anchor
  BY <1>0, <1>3 DEF SlotState
<1>4. CASE BeatRefused(j, n, t)
  BY <1>2, <1>3, <1>4 DEF BeatRefused, Beat
<1>5. CASE BeatDies(j, n)
  BY <1>2, <1>3, <1>5 DEF BeatDies, Beat
<1>6. CASE BeatAsks(j, n, t)
  <2> DEFINE beat == IF Active(j, n, t) THEN "on" ELSE "off"
             r == [slot[j][n] EXCEPT !.beat = beat, !.lost = LossKnown(j, n, t)]
  <2>1. beat \in Beat /\ LossKnown(j, n, t) \in BOOLEAN
    BY DEF Beat, LossKnown
  <2>2. SetSlot(j, n, r) /\ UNCHANGED <<vars, invoked, turn>>
    BY <1>6 DEF BeatAsks
  <2> HIDE DEF beat
  <2>3. /\ r \in SlotState /\ r.stage = slot[j][n].stage /\ r.outcome = slot[j][n].outcome
        /\ r.anchor = slot[j][n].anchor
    BY <1>0, <2>1 DEF SlotState
  <2> QED BY <1>2, <2>2, <2>3
<1> QED BY <1>1, <1>4, <1>5, <1>6 DEF HeartbeatStep

\* The bounded finalization and the projection of its result.
LEMMA FinalizeKeeps ==
  ASSUME ExecInv, NEW j \in Jobs, NEW n \in Numbers, NEW t \in Nat, FinalizeStep(j, n, t)
  PROVE  ExecTypeOK' /\ SlotsFit'
<1> DEFINE told == [slot[j][n] EXCEPT !.stage = "projecting"]
           unsure == [slot[j][n] EXCEPT !.stage = "inspecting", !.now = t]
           ended == [slot[j][n] EXCEPT !.stage = "done", !.beat = "off"]
<1>0. slot[j][n] \in SlotState /\ turn \in [Jobs -> TurnState]
  BY SlotHere DEF ExecInv, ExecTypeOK
<1>1. /\ told \in SlotState /\ told.stage = "projecting" /\ told.outcome = slot[j][n].outcome
      /\ told.anchor = slot[j][n].anchor
  BY <1>0 DEF SlotState, Stage
<1>2. /\ unsure \in SlotState /\ unsure.stage = "inspecting" /\ unsure.outcome = slot[j][n].outcome
      /\ unsure.anchor = slot[j][n].anchor
  BY <1>0 DEF SlotState, Stage
<1>3. /\ ended \in SlotState /\ ended.stage = "done" /\ ended.outcome = slot[j][n].outcome
      /\ ended.anchor = slot[j][n].anchor
  BY <1>0 DEF SlotState, Stage, Beat
<1>4. /\ Move(j, n, "projecting") => SetSlot(j, n, told) /\ UNCHANGED <<invoked, turn>>
      /\ FinalizeUncertain(j, n, t) => SetSlot(j, n, unsure) /\ UNCHANGED <<invoked, turn>>
      /\ Project(j, n) => SetSlot(j, n, ended) /\ UNCHANGED <<vars, invoked>>
  BY DEF Move, FinalizeUncertain, Project
<1> HIDE DEF told, unsure, ended
<1>5. CASE FinalizeCommits(j, n, t)
  BY <1>1, <1>4, <1>5, SettleKeeps DEF FinalizeCommits, Finalizing, At
<1>6. CASE FinalizeFenced(j, n, t)
  BY <1>1, <1>4, <1>6, AnsweredKeeps DEF FinalizeFenced, Finalizing, At, Answered
<1>7. CASE FinalizeContended(j, n)
  BY <1>7, TryAgainKeeps DEF FinalizeContended, Finalizing, At, Answered
<1>8. CASE FinalizeUncertain(j, n, t)
  <2>1. slot[j][n].stage = "finalizing" /\ (Settle(j, n, t) \/ UNCHANGED vars)
    BY <1>8 DEF FinalizeUncertain, Finalizing, At
  <2>2. CASE Settle(j, n, t)
    BY <1>2, <1>4, <1>8, <2>1, <2>2, SettleKeeps
  <2>3. CASE UNCHANGED vars
    BY <1>2, <1>4, <1>8, <2>1, <2>3, AnsweredKeeps DEF Answered
  <2> QED BY <2>1, <2>2, <2>3
<1>9. CASE InspectSuccess(j, n, t)
  <2>1. slot[j][n].stage = "inspecting" /\ UNCHANGED vars /\ (TryAgain(j, n) \/ Leave(j, n, "done"))
    BY <1>9 DEF InspectSuccess, At
  <2> QED BY <2>1, TryAgainKeeps, LeaveKeeps DEF Answered
<1>10. CASE InspectFailure(j, n)
  <2>1. slot[j][n].stage = "inspecting" /\ UNCHANGED vars /\ (TryAgain(j, n) \/ Move(j, n, "projecting"))
    BY <1>10 DEF InspectFailure, At
  <2>2. CASE TryAgain(j, n)
    BY <2>1, <2>2, TryAgainKeeps DEF Answered
  <2>3. CASE Move(j, n, "projecting")
    BY <1>1, <1>4, <2>1, <2>3, AnsweredKeeps DEF Answered
  <2> QED BY <2>1, <2>2, <2>3
<1>11. CASE Project(j, n)
  <2>1. slot[j][n].stage = "projecting" /\ UNCHANGED <<vars, clock, attempt>>
    BY <1>11 DEF Project, At, vars
  <2>2. turn' \in [Jobs -> TurnState]
    <3>1. turn[j] \in TurnState /\ ProjectedTurn(j, n) \in TurnState
      BY <1>0 DEF ProjectedTurn, TurnState
    <3>2. turn' \in {turn, [turn EXCEPT ![j] = ProjectedTurn(j, n)]}
      BY <1>11 DEF Project
    <3> QED BY <1>0, <3>1, <3>2
  <2>3. SlotFits(ended, attempt[j][n], invoked[j][n], clock)
    BY <1>3, <2>1, SlotHere, FitsLeave
  <2>4. RowsKept
    BY <2>1, UnwrittenRowsKept
  <2> QED BY <1>3, <1>4, <1>11, <2>1, <2>2, <2>3, <2>4, SlotStep DEF RowsKept
<1> QED BY <1>5, <1>6, <1>7, <1>8, <1>9, <1>10, <1>11 DEF FinalizeStep

\* The racers of _run_provider: an answer, a lost claim, the deadline, a tool call.
LEMMA RaceKeeps ==
  ASSUME ExecInv, NEW j \in Jobs, NEW n \in Numbers, NEW t,
         \/ SnapshotRejected(j, n) \/ ToolStep(j, n, t) \/ LossDetected(j, n) \/ Deadline(j, n, t)
         \/ \E outcome \in Outcome \ {"none"} : ProviderReturns(j, n, outcome)
  PROVE  ExecTypeOK' /\ SlotsFit'
<1>0. clock \in Nat /\ "model_timed_out" \in Outcome \ {"none"}
  BY SlotHere DEF Outcome, FailureCode
<1>1. CASE SnapshotRejected(j, n)
  BY <1>0, <1>1, ConcludeKeeps, UnwrittenRowsKept DEF SnapshotRejected, At, vars
<1>2. CASE ToolStep(j, n, t)
  <2>1. UNCHANGED <<clock, attempt>>
    BY <1>2 DEF ToolStep, RefuseCall, RequestCall, StartCall, ConcludeCall
  <2> QED BY <1>0, <1>2, <2>1, UnwrittenRowsKept, SlotsRest DEF ToolStep
<1>3. CASE LossDetected(j, n)
  BY <1>3, LeaveKeeps DEF LossDetected, At
<1>4. CASE Deadline(j, n, t)
  <2>1. UNCHANGED <<clock, attempt>>
    BY <1>4 DEF Deadline, WithdrawCall, vars
  <2> QED BY <1>0, <1>4, <2>1, ConcludeKeeps, UnwrittenRowsKept DEF Deadline, At
<1>5. ASSUME NEW outcome \in Outcome \ {"none"}, ProviderReturns(j, n, outcome)
      PROVE  ExecTypeOK' /\ SlotsFit'
  BY <1>5, ConcludeKeeps, UnwrittenRowsKept DEF ProviderReturns, At, vars
<1> QED BY <1>1, <1>2, <1>3, <1>4, <1>5

\* A claim: its slot is taken up, for an Attempt that did not exist.
LEMMA TakeClaimKeeps ==
  ASSUME ExecInv, NEW w \in Workers, NEW t \in Instants, TakeClaim(w, t)
  PROVE  ExecTypeOK' /\ SlotsFit'
<1>0. /\ slot \in [Jobs -> [Numbers -> SlotState]] /\ UNCHANGED <<invoked, turn, clock>> /\ TypeOK
      /\ clock \in Nat
  BY DEF ExecInv, EngineInv, ExecTypeOK, TakeClaim, Claim, TypeOK
<1>1. PICK j \in Jobs : /\ job[j].count < MaxAttempts
        /\ PutAttempt(j, job[j].count + 1, [status |-> "claimed", started |-> FALSE,
                                            disposition |-> "none", lease |-> t + LeaseDuration])
  BY DEF TakeClaim, Claim, NextClaim, Candidates, Heads, Eligible
<1> DEFINE n == job[j].count + 1
           new == [status |-> "claimed", started |-> FALSE, disposition |-> "none", lease |-> t + LeaseDuration]
<1>2. n \in Numbers /\ attempt[j][n].status = "absent"
  <2>1. job[j].count \in 0..MaxAttempts
    BY <1>0, RowTypes DEF JobRow
  <2>2. n \in Numbers
    BY <1>1, <2>1, BoundAssumption DEF Numbers, BoundAssumption
  <2> QED BY <1>1, <2>1, <2>2, BoundAssumption DEF ExecInv, EngineInv, JobInv, SettlesTogether, BoundAssumption
<1> HIDE DEF n
<1>3. /\ attempt'[j][n] = new
      /\ \A i \in Jobs, m \in Numbers : (i = j /\ m = n) \/ attempt'[i][m] = attempt[i][m]
  BY <1>0, <1>1, <1>2, PutFacts DEF n
<1>4. ASSUME NEW i \in Jobs, NEW m \in Numbers
      PROVE  slot'[i][m] \in SlotState /\ SlotFits(slot'[i][m], attempt'[i][m], invoked[i][m], clock)
  <2>1. slot[i][m] \in SlotState /\ SlotFits(slot[i][m], attempt[i][m], invoked[i][m], clock)
    BY SlotHere
  <2>2. slot'[i][m] = IF attempt[i][m].status = "absent" /\ attempt'[i][m].status = "claimed"
                      THEN [slot[i][m] EXCEPT !.stage = "claimed"] ELSE slot[i][m]
    BY DEF TakeClaim
  <2>3. CASE i = j /\ m = n
    <3> DEFINE r == [slot[i][m] EXCEPT !.stage = "claimed"]
    <3>1. slot'[i][m] = r
      BY <1>2, <1>3, <2>2, <2>3
    <3>2. r \in SlotState /\ r.stage = "claimed"
      BY <2>1 DEF SlotState, Stage
    <3> HIDE DEF r
    <3>3. SlotFits(r, new, invoked[i][m], clock)
      BY <1>2, <2>1, <2>3, <3>2 DEF SlotFits, BeforeCall, Answered
    <3> QED BY <1>3, <2>3, <3>1, <3>2, <3>3
  <2>4. CASE ~(i = j /\ m = n)
    BY <1>3, <2>1, <2>2, <2>4
  <2> QED BY <2>3, <2>4
<1>5. slot' \in [Jobs -> [Numbers -> SlotState]]
  BY <1>4 DEF TakeClaim
<1> QED BY <1>0, <1>4, <1>5 DEF ExecInv, ExecTypeOK, SlotsFit

\* The terminal write of a slot is one the engine's own specification allows: its
\* outcome is a failure code, and the anchor it presents is an instant before `now`.
LEMMA SettleIsOwnerStep ==
  ASSUME ExecInv, NEW j \in Jobs, NEW n \in Numbers, NEW t \in Instants,
         slot[j][n].stage = "finalizing", Settle(j, n, t)
  PROVE  OwnerStep(j, n, t)
<1>1. slot[j][n].anchor \in 1..clock
  BY SlotHere DEF SlotFits, Answered
<1>2. ASSUME slot[j][n].anchor =< t PROVE slot[j][n].anchor \in 1..t
  BY <1>1, <1>2, SlotHere DEF Instants
<1> QED BY <1>2 DEF Settle, OwnerStep

\* Whatever a Worker's slot does, the engine sees one of its own steps, or nothing.
LEMMA ExecImplements ==
  ASSUME ExecInv, [ExecNext]_execVars PROVE [Next]_vars
<1>1. ASSUME NEW t \in Instants, NEW j \in Jobs, NEW n \in Numbers, ExecutionStep(j, n, t)
      PROVE  OwnerStep(j, n, t) \/ UNCHANGED vars
  <2>1. CASE StartStep(j, n, t)
    BY <2>1 DEF StartStep, StartReturns, StartIsUncertain, StartReadBack, OwnerStep
  <2>2. CASE FinalizeStep(j, n, t)
    <3>1. FinalizeCommits(j, n, t) \/ FinalizeUncertain(j, n, t) => UNCHANGED vars \/ OwnerStep(j, n, t)
      BY SettleIsOwnerStep DEF FinalizeCommits, FinalizeUncertain, Finalizing, At
    <3>2. UNCHANGED vars \/ FinalizeCommits(j, n, t) \/ FinalizeUncertain(j, n, t)
      BY <2>2 DEF FinalizeStep, FinalizeFenced, FinalizeContended, InspectSuccess, InspectFailure, Project
    <3> QED BY <3>1, <3>2
  <2>3. CASE HeartbeatStep(j, n, t)
    BY <2>3 DEF HeartbeatStep, BeatRenews, BeatRefused, BeatAsks, BeatDies, OwnerStep
  <2>4. CASE ToolStep(j, n, t)
    BY <2>4 DEF ToolStep, OwnerStep
  <2>5. CASE Deadline(j, n, t)
    BY <2>5 DEF Deadline, OwnerStep
  <2> QED BY <1>1, <2>1, <2>2, <2>3, <2>4, <2>5
          DEF ExecutionStep, InvokeProvider, SnapshotRejected, ProviderReturns, LossDetected, Crash
<1>2. ASSUME NEW t \in Instants, NEW j \in Jobs, NEW i \in Instances, SendMessage(j, i[1], i[2], t)
      PROVE  Next
  BY <1>2 DEF SendMessage, Next
<1>3. ASSUME NEW t \in Instants, NEW w \in Workers, TakeClaim(w, t) PROVE Next
  BY <1>3 DEF TakeClaim, Next
<1>4. ASSUME NEW t \in Instants, NEW j \in Jobs, NEW n \in Numbers, Reclaim(j, n, t) PROVE Next
  BY <1>4 DEF Next
<1>5. ASSUME NEW t \in Instants, NEW j \in Jobs, NEW n \in Numbers, OwnerStep(j, n, t) PROVE Next
  BY <1>5 DEF Next
<1>6. CASE UNCHANGED execVars
  BY <1>6 DEF execVars
<1>7. Tick \/ (\E j \in Jobs : Cancel(j)) => Next
  BY DEF Next
<1> QED BY <1>1, <1>2, <1>3, <1>4, <1>5, <1>6, <1>7 DEF ExecNext

\* The slots start idle.
LEMMA ExecInitInv == ExecInit => ExecInv
<1> SUFFICES ASSUME ExecInit PROVE ExecInv
  OBVIOUS
<1>1. EngineInv
  BY EngineInit, IdAssumption, BoundAssumption DEF ExecInit
<1>2. NoSlot \in SlotState
  BY DEF NoSlot, SlotState, Stage, Outcome, Beat, NULL
<1>3. ExecTypeOK
  BY <1>2 DEF ExecInit, ExecTypeOK, TurnState
<1>4. SlotFits(NoSlot, AbsentAttempt, 0, clock)
  BY DEF SlotFits, NoSlot, AbsentAttempt, BeforeCall, Answered
<1>5. SlotsFit
  BY <1>4 DEF SlotsFit, ExecInit, Init
<1> QED BY <1>1, <1>3, <1>5 DEF ExecInv

\* Every step of every slot, and of the engine beside it, keeps the invariant.
LEMMA ExecStepInv == ExecInv /\ [ExecNext]_execVars => ExecInv'
<1> SUFFICES ASSUME ExecInv, [ExecNext]_execVars PROVE ExecInv'
  OBVIOUS
<1>1. EngineInv'
  <2>1. [Next]_vars /\ EngineInv
    BY ExecImplements DEF ExecInv
  <2> QED BY <2>1, EngineStep, IdAssumption, BoundAssumption
<1>2. clock \in Nat /\ clock' \in Nat /\ TypeOK /\ turn \in [Jobs -> TurnState]
  BY <1>1 DEF ExecInv, EngineInv, TypeOK, ExecTypeOK
<1>3. ASSUME NEW t \in Instants, NEW j \in Jobs, NEW n \in Numbers, ExecutionStep(j, n, t)
      PROVE  ExecTypeOK' /\ SlotsFit'
  <2>1. t \in Nat
    BY <1>2, InstantsType, BoundAssumption
  <2>2. ASSUME Crash(j, n) PROVE ExecTypeOK' /\ SlotsFit'
    BY <2>2, LeaveKeeps DEF Crash, Working
  <2> QED BY <1>3, <2>1, <2>2, StartKeeps, InvokeKeeps, RaceKeeps, BeatKeeps, FinalizeKeeps DEF ExecutionStep
<1>4. ASSUME Tick, UNCHANGED localVars PROVE ExecTypeOK' /\ SlotsFit'
  BY <1>2, <1>4, UnwrittenRowsKept, SlotsRest DEF Tick
<1>5. ASSUME NEW t \in Instants, NEW j \in Jobs, NEW a, NEW p, SendMessage(j, a, p, t)
      PROVE  ExecTypeOK' /\ SlotsFit'
  <2>1. UNCHANGED <<slot, invoked, clock, attempt>>
    BY <1>5 DEF SendMessage, Submit
  <2>2. turn' \in [Jobs -> TurnState]
    BY <1>2, <1>5 DEF SendMessage, TurnState
  <2> QED BY <2>1, <2>2 DEF ExecInv, ExecTypeOK, SlotsFit
<1>6. ASSUME NEW t \in Instants, NEW w \in Workers, TakeClaim(w, t) PROVE ExecTypeOK' /\ SlotsFit'
  BY <1>6, TakeClaimKeeps
<1>7. ASSUME NEW t \in Instants, NEW j \in Jobs, NEW n \in Numbers, Reclaim(j, n, t), UNCHANGED localVars
      PROVE  ExecTypeOK' /\ SlotsFit'
  <2>1. RowsKept
    BY <1>2, <1>7, EngineKeepsRows
  <2>2. clock' = clock
    BY <1>7 DEF Reclaim, ReclaimPreStartRequeue, ReclaimPreStartExhausted, ReclaimPostStartAmbiguous
  <2> QED BY <1>2, <1>7, <2>1, <2>2, SlotsRest
<1>8. ASSUME NEW j \in Jobs, Cancel(j), UNCHANGED localVars PROVE ExecTypeOK' /\ SlotsFit'
  <2>1. RowsKept
    <3>1. 1 \in Numbers
      BY BoundAssumption DEF BoundAssumption, Numbers
    <3> QED BY <1>2, <1>8, <3>1, EngineKeepsRows
  <2>2. clock' = clock
    BY <1>8 DEF Cancel
  <2> QED BY <1>2, <1>8, <2>1, <2>2, SlotsRest
<1>9. CASE UNCHANGED execVars
  <2>1. UNCHANGED <<vars, localVars, clock, attempt>>
    BY <1>9 DEF execVars, vars
  <2> QED BY <1>1, <1>2, <2>1, UnwrittenRowsKept, SlotsRest DEF ExecInv
<1> QED BY <1>1, <1>3, <1>4, <1>5, <1>6, <1>7, <1>8, <1>9 DEF ExecNext, ExecInv

\* The invariant of the slots and of the engine below them.
THEOREM ExecInvariant == ExecSpec => []ExecInv
BY ExecInitInv, ExecStepInv, PTL DEF ExecSpec

\* The Worker's execution service is a client the engine's specification allows:
\* crashes, lost responses, read-backs and retried finalizations included, it only
\* ever takes steps of JobEngine, so every theorem of JobEngineProofs holds of the
\* Worker's behaviours.
THEOREM ExecRefinesEngine == ExecSpec => Spec
<1>1. ExecInit => Init
  BY DEF ExecInit
<1>2. ExecInv /\ [ExecNext]_execVars => [Next]_vars
  BY ExecImplements
<1> QED BY <1>1, <1>2, ExecInvariant, PTL DEF ExecSpec, Spec

\* A second call to the provider needs the decline of the first.
LEMMA InvIsExecSound == ExecInv => ExecSound
<1> SUFFICES ASSUME ExecInv PROVE ExecSound
  OBVIOUS
<1>1. ProviderAfterBoundary
  BY SlotHere DEF ProviderAfterBoundary, SlotFits
<1>2. ASSUME NEW j \in Jobs, NEW m \in Numbers, NEW n \in Numbers, m < n,
             invoked[j][m] > 0, invoked[j][n] > 0
      PROVE  slot[j][m].outcome = "model_rate_limited"
  <2>1. attempt[j][m].started /\ attempt[j][n].started
    BY <1>2, SlotHere DEF SlotFits
  <2>2. SafelyEnded(j, m)
    <3>1. attempt[j][n].status # "absent"
      BY <2>1 DEF ExecInv, EngineInv, JobInv, BoundaryKnown
    <3>2. n =< job[j].count
      BY <3>1 DEF ExecInv, EngineInv, JobInv, SettlesTogether
    <3>3. job[j].count \in Nat /\ m \in Nat /\ n \in Nat
      BY RowTypes, BoundAssumption DEF ExecInv, EngineInv, JobRow, Numbers, BoundAssumption
    <3>4. Superseded(j, m)
      BY <1>2, <3>2, <3>3 DEF Superseded
    <3> QED BY <3>4 DEF ExecInv, EngineInv, JobInv, SupersededSafely
  <2>3. attempt[j][m].status = "failed" /\ attempt[j][m].disposition = "SAFE_TO_RETRY"
    BY <2>1, <2>2 DEF SafelyEnded
  <2>4. slot[j][m].outcome \in FailureCode /\ DispositionFor(slot[j][m].outcome) = "SAFE_TO_RETRY"
    BY <2>3, SlotHere DEF SlotFits
  <2> QED BY <2>4 DEF FailureCode, DispositionFor
<1> QED BY <1>1, <1>2 DEF ExecInv, ExecSound, ReinvokedOnlyAfterDecline

\* For any number of Jobs, Workers, Attempts and retries: the provider is called at
\* most once per Attempt, only after that Attempt's durable start, and again for a
\* Job only after it declined the call before.
THEOREM ExecSoundHolds == ExecSpec => []ExecSound
BY ExecInvariant, InvIsExecSound, PTL

-----------------------------------------------------------------------------
(* The caller of submit.  Its invariant remembers which caller inserted    *)
(* which Job: the one that knows its key and is no longer idle.            *)

CallerState == {"idle", "reconciling", "accepted", "unavailable"}

CallersFit ==
  /\ caller \in [Callers -> [state: CallerState, key: Jobs \cup {NULL}]]
  /\ submitter \in [Jobs -> Callers \cup {NULL}]
  /\ \A c \in Callers : caller[c].state # "idle" => caller[c].key \in Jobs
  /\ \A c \in Callers : caller[c].state = "accepted" => job[caller[c].key].status # "absent"
  /\ \A j \in Jobs : submitter[j] # NULL =>
       caller[submitter[j]].state # "idle" /\ caller[submitter[j]].key = j

CallerInv == EngineInv /\ CallersFit

JobsStay == \A i \in Jobs : job[i].status # "absent" => job'[i].status # "absent"

\* A Job that was submitted has its queue partition.
Placed == \A i \in Jobs : job[i].status # "absent" => job[i].agent \in Agents

\* An accepted Job is never forgotten by the engine, nor moved to another partition.
LEMMA EngineKeepsJobs ==
  ASSUME EngineInv, [Next]_vars PROVE JobsStay /\ (Placed => Placed')
<1> DEFINE Goal == JobsStay /\ (Placed => Placed')
<1> USE DEF EngineInv
<1>1. ASSUME NEW j \in Jobs, NEW row, PutJob(j, row), row.status # "absent",
             row.agent \in Agents \/ (job[j].status # "absent" /\ row.agent = job[j].agent)
      PROVE  Goal
  BY <1>1, PutFacts DEF JobsStay, Placed
<1>2. ASSUME UNCHANGED job PROVE Goal
  BY <1>2 DEF JobsStay, Placed
<1>3. ASSUME NEW j \in Jobs, NEW status
      PROVE  Released(job[j], status).status = status /\ Released(job[j], status).agent = job[j].agent
  BY RowTypes DEF JobRow, Released
<1>4. ASSUME NEW t, NEW j \in Jobs, NEW i \in Instances, Submit(j, i[1], i[2], t) PROVE Goal
  <2>1. i[1] \in Agents
    BY IdAssumption DEF IdAssumption
  <2> QED BY <1>1, <1>4, <2>1 DEF Submit
<1>5. ASSUME NEW t, NEW w, Claim(w, t) PROVE Goal
  <2>1. PICK j \in Jobs : /\ job[j].status # "absent"
                          /\ PutJob(j, [job[j] EXCEPT !.status = "claimed", !.token = job[j].count + 1,
                                       !.lease = t + LeaseDuration, !.count = job[j].count + 1])
    BY <1>5 DEF Claim, NextClaim, Candidates, Heads, Eligible, ClaimableSources
  <2> DEFINE row == [job[j] EXCEPT !.status = "claimed", !.token = job[j].count + 1,
                                   !.lease = t + LeaseDuration, !.count = job[j].count + 1]
  <2>2. row.status = "claimed" /\ row.agent = job[j].agent
    BY RowTypes DEF JobRow
  <2> QED BY <1>1, <2>1, <2>2
<1>6. ASSUME NEW t, NEW j \in Jobs, NEW n, OwnerStep(j, n, t) PROVE Goal
  <2>1. CASE Start(j, n, t)
    <3> DEFINE row == [job[j] EXCEPT !.status = "running"]
    <3>1. row.status = "running" /\ row.agent = job[j].agent
      BY RowTypes DEF JobRow
    <3> QED BY <1>1, <2>1, <3>1 DEF Start, JobHeld
  <2>2. CASE RenewLease(j, n, t)
    <3> DEFINE row == [job[j] EXCEPT !.lease = t + LeaseDuration]
    <3>1. row.status = job[j].status /\ row.agent = job[j].agent
      BY RowTypes DEF JobRow
    <3> QED BY <1>1, <2>2, <3>1 DEF RenewLease, JobHeld
  <2>3. CASE Succeed(j, n, t)
    BY <1>1, <1>3, <2>3 DEF Succeed, JobHeld
  <2>4. ASSUME NEW code, CloseFailed(j, n, t, code) PROVE Goal
    BY <1>1, <1>3, <2>4 DEF CloseFailed, FailureFence, JobHeld
  <2>5. ASSUME NEW code, NEW anchor, ScheduleRetry(j, n, t, anchor, code) PROVE Goal
    <3>1. ASSUME NEW at, NEW row, row = [Released(job[j], "retry_wait") EXCEPT !.available = at]
          PROVE  row.status = "retry_wait" /\ row.agent = job[j].agent
      BY <3>1, RowTypes DEF JobRow, Released
    <3>2. job[j].status # "absent"
      BY <2>5 DEF ScheduleRetry, FailureFence, JobHeld
    <3> QED BY <1>1, <2>5, <3>1, <3>2 DEF ScheduleRetry
  <2> QED BY <1>2, <1>6, <2>1, <2>2, <2>3, <2>4, <2>5
          DEF OwnerStep, RefuseCall, RequestCall, WithdrawCall, StartCall, ConcludeCall
<1>7. ASSUME NEW t, NEW j \in Jobs, NEW n, Reclaim(j, n, t) PROVE Goal
  <2> DEFINE row == [Released(job[j], "queued") EXCEPT !.available = t + ReclaimBackoff]
  <2>1. row.status = "queued" /\ row.agent = job[j].agent
    BY RowTypes DEF JobRow, Released
  <2>2. Released(job[j], "failed").status = "failed" /\ Released(job[j], "failed").agent = job[j].agent
    BY <1>3
  <2>3. job[j].status # "absent" /\ (PutJob(j, row) \/ PutJob(j, Released(job[j], "failed")))
    BY <1>7 DEF Reclaim, ReclaimPreStartRequeue, ReclaimPreStartExhausted, ReclaimPostStartAmbiguous
  <2> QED BY <1>1, <2>1, <2>2, <2>3
<1>8. ASSUME NEW j \in Jobs, Cancel(j) PROVE Goal
  <2> DEFINE row == [Released(job[j], "cancelled") EXCEPT !.cancelRequested = TRUE]
  <2>1. row.status = "cancelled" /\ row.agent = job[j].agent
    BY RowTypes DEF JobRow, Released
  <2>2. job[j].status # "absent"
    BY <1>8 DEF Cancel, Cancellable, JobInv, SettlesTogether
  <2> QED BY <1>1, <1>8, <2>1, <2>2 DEF Cancel
<1> QED BY <1>2, <1>4, <1>5, <1>6, <1>7, <1>8 DEF Next, Tick, vars

\* What the control plane does is an engine step or nothing the engine sees.
LEMMA SubmitImplements ==
  ASSUME [SubmitNext]_submitVars PROVE [Next]_vars
<1>1. ASSUME NEW c, NEW t \in Instants, NEW j \in Jobs, NEW i \in Instances,
             SubmitReturns(c, j, i[1], i[2], t) \/ SubmitIsUncertain(c, j, i[1], i[2], t)
      PROVE  [Next]_vars
  <2>1. Submit(j, i[1], i[2], t) \/ UNCHANGED vars
    BY <1>1 DEF SubmitReturns, SubmitIsUncertain, Insert
  <2> QED BY <2>1 DEF Next
<1>2. ASSUME NEW c, ReconcileSubmission(c) PROVE UNCHANGED vars
  BY <1>2 DEF ReconcileSubmission
<1>3. ASSUME Progress PROVE Next
  BY <1>3 DEF Progress, Next
<1> QED BY <1>1, <1>2, <1>3 DEF SubmitNext, submitVars

\* A caller learns its fate, and a Job it inserted is its own.
LEMMA LearnKeeps ==
  ASSUME CallerInv, JobsStay, NEW c \in Callers, NEW state \in CallerState \ {"idle"}, NEW j \in Jobs,
         Learn(c, state, j),
         \/ UNCHANGED submitter /\ (caller[c].state = "idle" \/ caller[c].key = j)
         \/ submitter' = [submitter EXCEPT ![j] = c] /\ caller[c].state = "idle",
         state = "accepted" => job'[j].status # "absent"
  PROVE  CallersFit'
<1> USE DEF CallerInv
<1> DEFINE known == [state |-> state, key |-> j]
<1>1. known \in [state: CallerState, key: Jobs \cup {NULL}] /\ known.state = state /\ known.key = j
  OBVIOUS
<1>2. caller' = [caller EXCEPT ![c] = known]
  BY DEF Learn
<1> HIDE DEF known
<1>3. caller \in [Callers -> [state: CallerState, key: Jobs \cup {NULL}]] /\ submitter \in [Jobs -> Callers \cup {NULL}]
  BY DEF CallersFit
<1>4. /\ caller' \in [Callers -> [state: CallerState, key: Jobs \cup {NULL}]] /\ caller'[c] = known
      /\ \A d \in Callers \ {c} : caller'[d] = caller[d]
  BY <1>1, <1>2, <1>3
<1>5. submitter' \in [Jobs -> Callers \cup {NULL}]
  BY <1>3
<1>6. \A d \in Callers : caller'[d].state # "idle" => caller'[d].key \in Jobs
  BY <1>1, <1>4 DEF CallersFit
<1>7. \A d \in Callers : caller'[d].state = "accepted" => job'[caller'[d].key].status # "absent"
  BY <1>1, <1>4 DEF CallersFit, JobsStay
<1>8. \A i \in Jobs : submitter'[i] # NULL =>
         caller'[submitter'[i]].state # "idle" /\ caller'[submitter'[i]].key = i
  <2> SUFFICES ASSUME NEW i \in Jobs, submitter'[i] # NULL
               PROVE  caller'[submitter'[i]].state # "idle" /\ caller'[submitter'[i]].key = i
    OBVIOUS
  <2>1. CASE submitter'[i] = c
    <3>1. i = j
      <4>1. CASE UNCHANGED submitter
        BY <2>1, <4>1 DEF CallersFit
      <4>2. CASE submitter' = [submitter EXCEPT ![j] = c] /\ caller[c].state = "idle"
        BY <1>3, <2>1, <4>2 DEF CallersFit
      <4> QED BY <4>1, <4>2
    <3> QED BY <1>1, <1>4, <2>1, <3>1
  <2>2. CASE submitter'[i] # c
    <3>1. submitter'[i] = submitter[i]
      BY <1>3, <2>2
    <3> QED BY <1>3, <1>4, <2>2, <3>1 DEF CallersFit
  <2> QED BY <2>1, <2>2
<1> QED BY <1>4, <1>5, <1>6, <1>7, <1>8 DEF CallersFit

\* Before the first request nobody knows anything.
LEMMA CallerInitInv == SubmitInit => CallerInv
<1> SUFFICES ASSUME SubmitInit PROVE CallerInv
  OBVIOUS
<1>1. EngineInv
  BY EngineInit, IdAssumption, BoundAssumption DEF SubmitInit
<1>2. caller \in [Callers -> [state: CallerState, key: Jobs \cup {NULL}]]
  BY DEF SubmitInit, CallerState
<1>3. submitter \in [Jobs -> Callers \cup {NULL}] /\ \A j \in Jobs : submitter[j] = NULL
  BY DEF SubmitInit
<1>4. \A c \in Callers : caller[c].state = "idle"
  BY DEF SubmitInit
<1> QED BY <1>1, <1>2, <1>3, <1>4 DEF CallerInv, CallersFit

\* Lost responses and exact reads included, every step keeps the callers' invariant.
LEMMA CallerStepInv == CallerInv /\ [SubmitNext]_submitVars => CallerInv'
<1> SUFFICES ASSUME CallerInv, [SubmitNext]_submitVars PROVE CallerInv'
  OBVIOUS
<1>1. [Next]_vars /\ EngineInv
  BY SubmitImplements DEF CallerInv
<1>2. EngineInv' /\ JobsStay
  BY <1>1, EngineStep, EngineKeepsJobs, IdAssumption, BoundAssumption
<1>3. ASSUME NEW c \in Callers, NEW t, NEW j \in Jobs, NEW a, NEW p, SubmitReturns(c, j, a, p, t)
      PROVE  CallersFit'
  <2>1. job'[j].status # "absent"
    BY <1>1, <1>3, PutFacts DEF SubmitReturns, Insert, Submit, EngineInv
  <2> QED BY <1>2, <1>3, <2>1, LearnKeeps DEF SubmitReturns, Insert, CallerState
<1>4. ASSUME NEW c \in Callers, NEW t, NEW j \in Jobs, NEW a, NEW p, SubmitIsUncertain(c, j, a, p, t)
      PROVE  CallersFit'
  BY <1>2, <1>4, LearnKeeps DEF SubmitIsUncertain, Insert, CallerState
<1>5. ASSUME NEW c \in Callers, ReconcileSubmission(c) PROVE CallersFit'
  <2> DEFINE j == caller[c].key
  <2>1. j \in Jobs /\ UNCHANGED <<job, submitter>> /\ caller[c].state = "reconciling"
    BY <1>5 DEF ReconcileSubmission, CallerInv, CallersFit, vars
  <2>2. Reconciled(j) => job[j].status # "absent"
    BY <1>1, <2>1 DEF Reconciled, EngineInv, JobInv, SettlesTogether
  <2>3. Learn(c, IF Reconciled(j) THEN "accepted" ELSE "unavailable", j)
    BY <1>5 DEF ReconcileSubmission
  <2> HIDE DEF j
  <2>4. CASE Reconciled(j)
    BY <1>2, <2>1, <2>2, <2>3, <2>4, LearnKeeps DEF CallerState, j
  <2>5. CASE ~Reconciled(j)
    BY <1>2, <2>1, <2>3, <2>5, LearnKeeps DEF CallerState, j
  <2> QED BY <2>4, <2>5
<1>6. ASSUME UNCHANGED <<caller, submitter>> PROVE CallersFit'
  BY <1>2, <1>6 DEF CallerInv, CallersFit, JobsStay
<1> QED BY <1>2, <1>3, <1>4, <1>5, <1>6 DEF SubmitNext, Progress, submitVars, CallerInv

\* The invariant of the callers and of the engine below them.
THEOREM CallerInvariant == SubmitSpec => []CallerInv
BY CallerInitInv, CallerStepInv, PTL DEF SubmitSpec

\* The control plane, lost responses and reconciliation included, is a client the
\* engine's specification allows.
THEOREM SubmitRefinesEngine == SubmitSpec => Spec
<1>1. SubmitInit => Init
  BY DEF SubmitInit
<1>2. [SubmitNext]_submitVars => [Next]_vars
  BY SubmitImplements
<1> QED BY <1>1, <1>2, PTL DEF SubmitSpec, Spec

\* Whatever responses are lost: an accepted submission is durable with its Job and
\* its Run, and no request is inserted twice.
THEOREM AcceptedIsDurableHolds == SubmitSpec => []AcceptedIsDurable
<1>1. ASSUME CallerInv PROVE AcceptedIsDurable
  <2>1. ASSUME NEW c \in Callers, caller[c].state = "accepted"
        PROVE  job[caller[c].key].status # "absent" /\ run[caller[c].key].status # "absent"
    <3>1. caller[c].key \in Jobs /\ job[caller[c].key].status # "absent"
      BY <1>1, <2>1 DEF CallerInv, CallersFit
    <3> QED BY <1>1, <3>1 DEF CallerInv, EngineInv, JobInv, SettlesTogether
  <2>2. ASSUME NEW i \in Jobs, NEW j \in Jobs, submitter[i] # NULL, submitter[i] = submitter[j]
        PROVE  i = j
    BY <1>1, <2>2 DEF CallerInv, CallersFit
  <2> QED BY <2>1, <2>2 DEF AcceptedIsDurable
<1> QED BY <1>1, CallerInvariant, PTL

-----------------------------------------------------------------------------
(* The order of claims.  Having been passed over once by a partition is    *)
(* remembered in the markers: that partition was served later.             *)

PassedIsRemembered ==
  /\ passed \in [Agents -> [Agents -> 0..1]]
  /\ \A a \in Agents : served[a] =< attemptId
  /\ \A a, b \in Agents : passed[a][b] = 1 => served[a] < served[b]

FairInv == EngineInv /\ Placed /\ PassedIsRemembered

\* What a claim does to the markers: the partition it serves, alone, gets the newest.
LEMMA ClaimServes ==
  ASSUME EngineInv, Placed, PassedIsRemembered, NEW w \in Workers, NEW t, Claim(w, t)
  PROVE  \E a \in Agents :
           /\ Served = a /\ served'[a] = attemptId + 1 /\ attemptId' = attemptId + 1
           /\ \A b \in Agents \ {a} : served'[b] = served[b]
           /\ \A b \in (CandidateAgents(w, t) \cap Agents) \ {a} : served[a] =< served[b]
<1>1. PICK j \in NextClaim(w, t) :
        served' = [served EXCEPT ![job[j].agent] = attemptId + 1] /\ attemptId' = attemptId + 1
  BY DEF Claim
<1> DEFINE a == job[j].agent
<1>2. j \in Jobs /\ a \in Agents
  BY <1>1 DEF NextClaim, Candidates, Heads, Eligible, ClaimableSources, Placed
<1>3. served \in [Agents -> Nat] /\ attemptId \in Nat
  BY DEF EngineInv, TypeOK
<1>4. served'[a] = attemptId + 1 /\ \A b \in Agents \ {a} : served'[b] = served[b]
  BY <1>1, <1>2, <1>3
<1>5. Served = a
  <2>1. served'[a] # served[a]
    BY <1>2, <1>3, <1>4 DEF PassedIsRemembered
  <2>2. \A b \in Agents : served'[b] # served[b] => b = a
    BY <1>4
  <2> QED BY <1>2, <2>1, <2>2 DEF Served
<1>6. ASSUME NEW b \in (CandidateAgents(w, t) \cap Agents) \ {a} PROVE served[a] =< served[b]
  <2>1. PICK i \in Candidates(w, t) : job[i].agent = b
    BY <1>6 DEF CandidateAgents
  <2>2. ServedBefore(j, i)
    BY <1>1, <1>6, <2>1 DEF NextClaim
  <2> QED BY <1>2, <1>3, <2>1, <2>2 DEF ServedBefore
<1> QED BY <1>1, <1>2, <1>4, <1>5, <1>6

\* A claim passes over a partition it could have served only if it has not done so
\* since that partition was last served.
LEMMA FClaimKeeps ==
  ASSUME EngineInv, Placed, PassedIsRemembered, NEW w \in Workers, NEW t, FClaim(w, t)
  PROVE  PassedIsRemembered'
<1>1. PICK s \in Agents :
        /\ Served = s /\ served'[s] = attemptId + 1 /\ attemptId' = attemptId + 1
        /\ \A b \in Agents \ {s} : served'[b] = served[b]
        /\ \A b \in (CandidateAgents(w, t) \cap Agents) \ {s} : served[s] =< served[b]
  BY ClaimServes DEF FClaim
<1>2. served \in [Agents -> Nat] /\ attemptId \in Nat
  BY DEF EngineInv, TypeOK
<1>3. \A a, b \in Agents : passed[a][b] \in 0..1
  BY DEF PassedIsRemembered
<1>4. \A a, b \in Agents : passed'[a][b] =
         (CASE a = s -> 0
            [] a # s /\ b = s /\ a \in CandidateAgents(w, t) -> passed[a][b] + 1
            [] OTHER -> passed[a][b])
  BY <1>1 DEF FClaim
<1>5. ASSUME NEW a \in Agents, NEW b \in Agents
      PROVE  passed'[a][b] \in 0..1 /\ (passed'[a][b] = 1 => served'[a] < served'[b])
  <2>1. CASE a = s
    BY <1>4, <2>1
  <2>2. CASE a # s /\ b = s
    <3>1. served'[a] < served'[b]
      BY <1>1, <1>2, <2>2 DEF PassedIsRemembered
    <3>2. a \in CandidateAgents(w, t) => passed[a][b] = 0
      BY <1>1, <1>2, <1>3, <2>2 DEF PassedIsRemembered
    <3>3. passed'[a][b] \in 0..1
      BY <1>3, <1>4, <2>2, <3>2
    <3> QED BY <3>1, <3>3
  <2>3. CASE a # s /\ b # s
    <3>1. passed'[a][b] = passed[a][b]
      BY <1>4, <2>3
    <3> QED BY <1>1, <1>3, <2>3, <3>1 DEF PassedIsRemembered
  <2> QED BY <2>1, <2>2, <2>3
<1>6. passed' \in [Agents -> [Agents -> 0..1]]
  BY <1>5 DEF FClaim
<1>7. \A a \in Agents : served'[a] =< attemptId'
  BY <1>1, <1>2 DEF PassedIsRemembered
<1> QED BY <1>5, <1>6, <1>7 DEF PassedIsRemembered

\* The claim order's specification only adds a history to the engine's.
LEMMA FairImplements == ASSUME [FNext]_fairVars PROVE [Next]_vars
BY DEF FNext, FClaim, Next, fairVars

\* Every poll and every other step keeps the markers' memory.
LEMMA FairStepInv == FairInv /\ [FNext]_fairVars => FairInv'
<1> SUFFICES ASSUME FairInv, [FNext]_fairVars PROVE FairInv'
  OBVIOUS
<1>1. [Next]_vars /\ EngineInv /\ Placed /\ PassedIsRemembered
  BY FairImplements DEF FairInv
<1>2. EngineInv' /\ Placed'
  BY <1>1, EngineStep, EngineKeepsJobs, IdAssumption, BoundAssumption
<1>3. ASSUME NEW w \in Workers, NEW t \in Instants, FClaim(w, t) PROVE PassedIsRemembered'
  BY <1>1, <1>3, FClaimKeeps
<1>4. ASSUME UNCHANGED <<served, passed>> PROVE PassedIsRemembered'
  <2>1. attemptId \in Nat /\ (attemptId' = attemptId \/ attemptId' = attemptId + 1)
    <3>1. ASSUME NEW j \in Jobs, NEW n \in Numbers, NEW t \in Instants, OwnerStep(j, n, t)
          PROVE  attemptId' = attemptId
      BY <3>1, Zenon DEF OwnerStep, Start, RenewLease, Succeed, CloseFailed, ScheduleRetry, RefuseCall,
         RequestCall, WithdrawCall, StartCall, ConcludeCall
    <3>2. ASSUME NEW j \in Jobs, NEW n \in Numbers, NEW t \in Instants, Reclaim(j, n, t)
          PROVE  attemptId' = attemptId
      BY <3>2, Zenon DEF Reclaim, ReclaimPreStartRequeue, ReclaimPreStartExhausted,
         ReclaimPostStartAmbiguous
    <3>3. ASSUME NEW j \in Jobs, Cancel(j) PROVE attemptId' = attemptId
      BY <3>3, Zenon DEF Cancel
    <3>4. ASSUME NEW w \in Workers, NEW t \in Instants, Claim(w, t)
          PROVE  attemptId' = attemptId + 1
      BY <3>4, Zenon DEF Claim
    <3>5. ASSUME Tick \/ \E t \in Instants, j \in Jobs, i \in Instances : Submit(j, i[1], i[2], t)
          PROVE  attemptId' = attemptId
      BY <3>5, Zenon DEF Tick, Submit
    <3>6. attemptId \in Nat
      BY <1>1 DEF EngineInv, TypeOK
    <3>7. CASE UNCHANGED vars
      BY <3>6, <3>7 DEF vars
    <3> QED BY <1>1, <3>1, <3>2, <3>3, <3>4, <3>5, <3>6, <3>7, Zenon DEF Next
  <2>2. \A a \in Agents : served[a] \in Nat
    BY <1>1 DEF EngineInv, TypeOK
  <2> QED BY <1>1, <1>4, <2>1, <2>2 DEF PassedIsRemembered
<1>5. PassedIsRemembered'
  BY <1>3, <1>4 DEF FNext, fairVars, vars
<1> QED BY <1>2, <1>5 DEF FairInv

\* Bounded bypass for any number of partitions, Workers and capabilities: between
\* two services of a partition no other one is served twice at polls that could
\* have served it.
THEOREM NoSecondBypassHolds == FSpec => []NoSecondBypass
<1>1. FInit => FairInv
  <2> SUFFICES ASSUME FInit PROVE FairInv
    OBVIOUS
  <2>1. EngineInv
    BY EngineInit, IdAssumption, BoundAssumption DEF FInit
  <2>2. Placed
    BY DEF FInit, Init, AbsentJob, Placed
  <2>3. PassedIsRemembered
    BY DEF FInit, Init, PassedIsRemembered, NULL
  <2> QED BY <2>1, <2>2, <2>3 DEF FairInv
<1>2. FairInv => NoSecondBypass
  BY DEF FairInv, PassedIsRemembered, NoSecondBypass
<1> QED BY <1>1, <1>2, FairStepInv, PTL DEF FSpec

-----------------------------------------------------------------------------
(* The ceilings.  Only a claim adds a timely lease, and the leases it      *)
(* counts, live at its reading of the clock, include those live now.       *)

NoTimelyGained ==
  /\ Timely' \subseteq Timely
  /\ \A i \in Timely' : job'[i].agent = job[i].agent /\ job'[i].provider = job[i].provider

\* A step that gains no timely lease keeps the ceilings.
LEMMA CeilingsKept ==
  ASSUME IdAssumption, BoundAssumption, ActiveWithinLimits, NoTimelyGained PROVE ActiveWithinLimits'
<1>1. IsFiniteSet(Jobs)
  BY DEF IdAssumption
<1>2. ASSUME NEW S, NEW T, S \subseteq T, T \subseteq Jobs, NEW k \in Nat, Cardinality(T) =< k
      PROVE  Cardinality(S) =< k
  <2>1. IsFiniteSet(T) /\ Cardinality(T) \in Nat
    BY <1>1, <1>2, FS_Subset, FS_CardinalityType
  <2>2. Cardinality(S) =< Cardinality(T) /\ Cardinality(S) \in Nat
    BY <1>2, <2>1, FS_Subset, FS_CardinalityType
  <2> QED BY <1>2, <2>1, <2>2
<1>3. /\ Timely' \subseteq Timely /\ Timely \subseteq Jobs
      /\ \A i \in Timely' : job'[i].agent = job[i].agent /\ job'[i].provider = job[i].provider
  BY DEF Timely, LiveLeases, NoTimelyGained
<1>4. GlobalActive \in Nat /\ AgentActive \in Nat /\ ProviderActive \in Nat
  BY DEF BoundAssumption
<1>5. Cardinality(Timely') =< GlobalActive
  BY <1>2, <1>3, <1>4 DEF ActiveWithinLimits
<1>6. ASSUME NEW a \in Agents
      PROVE  Cardinality({i \in Timely' : job'[i].agent = a}) =< AgentActive
  <2>1. {i \in Timely' : job'[i].agent = a} \subseteq {i \in Timely : job[i].agent = a}
    BY <1>3
  <2>2. Cardinality({i \in Timely : job[i].agent = a}) =< AgentActive
    BY DEF ActiveWithinLimits
  <2>3. {i \in Timely : job[i].agent = a} \subseteq Jobs
    BY <1>3
  <2> QED BY <1>2, <1>4, <2>1, <2>2, <2>3
<1>7. ASSUME NEW p \in Providers
      PROVE  Cardinality({i \in Timely' : job'[i].provider = p}) =< ProviderActive
  <2>1. {i \in Timely' : job'[i].provider = p} \subseteq {i \in Timely : job[i].provider = p}
    BY <1>3
  <2>2. Cardinality({i \in Timely : job[i].provider = p}) =< ProviderActive
    BY DEF ActiveWithinLimits
  <2>3. {i \in Timely : job[i].provider = p} \subseteq Jobs
    BY <1>3
  <2> QED BY <1>2, <1>4, <2>1, <2>2, <2>3
<1> QED BY <1>5, <1>6, <1>7 DEF ActiveWithinLimits

\* A claim fits below all three ceilings, however old its reading of the clock is.
LEMMA ClaimKeepsCeilings ==
  ASSUME IdAssumption, BoundAssumption, TypeOK, ActiveWithinLimits, NEW w \in Workers,
         NEW t \in Instants, Claim(w, t), Revive
  PROVE  ActiveWithinLimits'
<1>1. PICK j \in NextClaim(w, t) :
        PutJob(j, [job[j] EXCEPT !.status = "claimed", !.token = job[j].count + 1,
                                 !.lease = t + LeaseDuration, !.count = job[j].count + 1])
  BY DEF Claim
<1>2. /\ j \in Jobs /\ ~AgentSaturated(job[j].agent, t) /\ ~ProviderSaturated(job[j].provider, t)
  BY <1>1 DEF NextClaim, Candidates, Heads, Eligible
<1>3. clock' = clock
  BY DEF Claim
<1>4. /\ job'[j].agent = job[j].agent /\ job'[j].provider = job[j].provider
      /\ \A i \in Jobs \ {j} : job'[i] = job[i]
  <2>1. /\ job'[j] = [job[j] EXCEPT !.status = "claimed", !.token = job[j].count + 1,
                                    !.lease = t + LeaseDuration, !.count = job[j].count + 1]
        /\ \A i \in Jobs \ {j} : job'[i] = job[i]
    BY <1>1, <1>2, PutFacts
  <2> QED BY <1>2, <2>1, RowTypes DEF JobRow
<1>5. ASSUME NEW S, NEW T, S \subseteq T \cup {j}, T \subseteq Jobs, NEW k \in Nat, Cardinality(T) < k
      PROVE  Cardinality(S) =< k
  <2>1. IsFiniteSet(T) /\ Cardinality(T) \in Nat
    BY <1>5, FS_Subset, FS_CardinalityType DEF IdAssumption
  <2>2. /\ IsFiniteSet(T \cup {j}) /\ Cardinality(T \cup {j}) \in Nat
        /\ Cardinality(T \cup {j}) = Cardinality(T) \/ Cardinality(T \cup {j}) = Cardinality(T) + 1
    BY <2>1, FS_AddElement, FS_CardinalityType
  <2>3. Cardinality(S) =< Cardinality(T \cup {j}) /\ Cardinality(S) \in Nat
    BY <1>5, <2>2, FS_Subset, FS_CardinalityType
  <2> QED BY <1>5, <2>1, <2>2, <2>3
<1>6. ASSUME NEW S, NEW T, S \subseteq T, T \subseteq Jobs, NEW k \in Nat, Cardinality(T) =< k
      PROVE  Cardinality(S) =< k
  <2>1. IsFiniteSet(T) /\ Cardinality(T) \in Nat
    BY <1>6, FS_Subset, FS_CardinalityType DEF IdAssumption
  <2>2. Cardinality(S) =< Cardinality(T) /\ Cardinality(S) \in Nat
    BY <1>6, <2>1, FS_Subset, FS_CardinalityType
  <2> QED BY <1>6, <2>1, <2>2
<1>7. /\ Timely' \subseteq Timely \cup {j} /\ Timely \subseteq LiveLeases(t)
      /\ LiveLeases(t) \subseteq Jobs /\ Timely \subseteq Jobs
  <2>1. \A i \in Jobs : job[i].lease \in Nat
    BY RowTypes DEF JobRow
  <2>2. t \in Nat /\ clock \in Nat /\ t =< clock
    BY DEF Instants, TypeOK
  <2>3. LiveLeases(clock) \subseteq LiveLeases(t) /\ LiveLeases(t) \subseteq Jobs
    <3>1. ASSUME NEW i \in Jobs, job[i].lease > clock PROVE job[i].lease > t
      BY <2>1, <2>2, <3>1
    <3> QED BY <3>1 DEF LiveLeases
  <2>4. ASSUME NEW i \in Timely', i # j PROVE i \in Timely
    <3>1. /\ i \in Jobs /\ job'[i].status \in ActiveStatus /\ job'[i].lease > clock
          /\ i \notin revived'
      BY <1>3, <2>4 DEF Timely, LiveLeases
    <3>2. job'[i] = job[i] /\ i \notin revived
      BY <1>4, <2>4, <3>1 DEF Revive
    <3> QED BY <3>1, <3>2 DEF Timely, LiveLeases
  <2> QED BY <2>3, <2>4 DEF Timely
<1>8. GlobalActive \in Nat /\ AgentActive \in Nat /\ ProviderActive \in Nat
  BY DEF BoundAssumption
<1>9. Cardinality(Timely') =< GlobalActive
  <2>1. Cardinality(LiveLeases(t)) < GlobalActive
    <3>1. IsFiniteSet(LiveLeases(t))
      BY <1>7, FS_Subset DEF IdAssumption
    <3>2. Cardinality(LiveLeases(t)) \in Nat
      BY <3>1, FS_CardinalityType
    <3>3. Budget[w] \in Nat
      BY DEF IdAssumption
    <3> QED BY <1>8, <3>2, <3>3 DEF Claim, HasCapacity
  <2>2. Timely' \subseteq LiveLeases(t) \cup {j}
    BY <1>7
  <2> QED BY <1>5, <1>7, <1>8, <2>1, <2>2
<1>10. ASSUME NEW a \in Agents
       PROVE  Cardinality({i \in Timely' : job'[i].agent = a}) =< AgentActive
  <2> DEFINE counted == {i \in LiveLeases(t) : job[i].agent = a}
             old == {i \in Timely : job[i].agent = a}
             new == {i \in Timely' : job'[i].agent = a}
  <2>1. /\ old \subseteq counted /\ counted \subseteq Jobs /\ new \subseteq old \cup {j}
        /\ (job[j].agent # a => new \subseteq old)
    BY <1>2, <1>4, <1>7
  <2>2. CASE job[j].agent = a
    <3>1. Cardinality(counted) < AgentActive
      <4>1. Cardinality(counted) \in Nat
        BY <2>1, FS_Subset, FS_CardinalityType DEF IdAssumption
      <4> QED BY <1>2, <1>8, <2>2, <4>1 DEF AgentSaturated
    <3> HIDE DEF counted, old, new
    <3>2. Cardinality(new) =< AgentActive
      BY <1>5, <1>8, <2>1, <3>1
    <3> QED BY <3>2 DEF new
  <2>3. CASE job[j].agent # a
    <3>1. Cardinality(old) =< AgentActive
      BY DEF ActiveWithinLimits
    <3> HIDE DEF counted, old, new
    <3>2. Cardinality(new) =< AgentActive
      BY <1>6, <1>8, <2>1, <2>3, <3>1
    <3> QED BY <3>2 DEF new
  <2> QED BY <2>2, <2>3
<1>11. ASSUME NEW p \in Providers
       PROVE  Cardinality({i \in Timely' : job'[i].provider = p}) =< ProviderActive
  <2> DEFINE counted == {i \in LiveLeases(t) : job[i].provider = p}
             old == {i \in Timely : job[i].provider = p}
             new == {i \in Timely' : job'[i].provider = p}
  <2>1. /\ old \subseteq counted /\ counted \subseteq Jobs /\ new \subseteq old \cup {j}
        /\ (job[j].provider # p => new \subseteq old)
    BY <1>2, <1>4, <1>7
  <2>2. CASE job[j].provider = p
    <3>1. Cardinality(counted) < ProviderActive
      <4>1. Cardinality(counted) \in Nat
        BY <2>1, FS_Subset, FS_CardinalityType DEF IdAssumption
      <4> QED BY <1>2, <1>8, <2>2, <4>1 DEF ProviderSaturated
    <3> HIDE DEF counted, old, new
    <3>2. Cardinality(new) =< ProviderActive
      BY <1>5, <1>8, <2>1, <3>1
    <3> QED BY <3>2 DEF new
  <2>3. CASE job[j].provider # p
    <3>1. Cardinality(old) =< ProviderActive
      BY DEF ActiveWithinLimits
    <3> HIDE DEF counted, old, new
    <3>2. Cardinality(new) =< ProviderActive
      BY <1>6, <1>8, <2>1, <2>3, <3>1
    <3> QED BY <3>2 DEF new
  <2> QED BY <2>2, <2>3
<1> QED BY <1>9, <1>10, <1>11 DEF ActiveWithinLimits

\* Every step but a claim leaves active only Jobs that were active.
ActiveKept ==
  \A i \in Jobs : job'[i].status \in ActiveStatus =>
    /\ job[i].status \in ActiveStatus
    /\ job'[i].agent = job[i].agent /\ job'[i].provider = job[i].provider

\* Of the Jobs that stay active a late renewal alone gives one a live lease, and
\* that one counts as revived from then on.
LEMMA KeptIsTimely ==
  ASSUME TypeOK, ActiveKept, Revive, clock' \in Nat, clock =< clock' PROVE NoTimelyGained
<1>1. ASSUME NEW i \in Timely' PROVE i \in Timely
  <2>1. /\ i \in Jobs /\ job'[i].status \in ActiveStatus /\ job'[i].lease > clock'
        /\ i \notin revived'
    BY <1>1 DEF Timely, LiveLeases
  <2>2. job[i].status \in ActiveStatus /\ i \notin revived /\ ~(job[i].lease =< clock)
    BY <2>1 DEF ActiveKept, Revive, Expired
  <2>3. job[i].lease \in Nat /\ clock \in Nat
    BY <2>1, RowTypes DEF JobRow, TypeOK
  <2> QED BY <2>1, <2>2, <2>3 DEF Timely, LiveLeases
<1> QED BY <1>1 DEF NoTimelyGained, ActiveKept, Timely, LiveLeases

LEMMA OneRowKeepsActive ==
  ASSUME TypeOK, NEW j \in Jobs, NEW row, PutJob(j, row),
         row.status \in ActiveStatus =>
           job[j].status \in ActiveStatus /\ row.agent = job[j].agent /\ row.provider = job[j].provider
  PROVE  ActiveKept
BY PutFacts DEF ActiveKept

LEMMA OthersKeepActive ==
  ASSUME TypeOK, NEW j \in Jobs, NEW n, NEW t
  PROVE  /\ \A a, p : Submit(j, a, p, t) => ActiveKept
         /\ OwnerStep(j, n, t) \/ Reclaim(j, n, t) \/ Cancel(j) => ActiveKept
<1>1. ASSUME NEW status, status \notin ActiveStatus
      PROVE  /\ Released(job[j], status).status \notin ActiveStatus
             /\ \A at : [Released(job[j], status) EXCEPT !.available = at].status \notin ActiveStatus
             /\ [Released(job[j], status) EXCEPT !.cancelRequested = TRUE].status \notin ActiveStatus
  <2>1. Released(job[j], status).status = status
    BY RowTypes DEF JobRow, Released
  <2>2. \A at : [Released(job[j], status) EXCEPT !.available = at].status = status
    BY RowTypes DEF JobRow, Released
  <2>3. [Released(job[j], status) EXCEPT !.cancelRequested = TRUE].status = status
    BY RowTypes DEF JobRow, Released
  <2> QED BY <1>1, <2>1, <2>2, <2>3
<1>2. {"succeeded", "failed", "retry_wait", "queued", "cancelled"} \cap ActiveStatus = {}
  BY DEF ActiveStatus
<1>3. ASSUME UNCHANGED job PROVE ActiveKept
  BY <1>3 DEF ActiveKept
<1>4. ASSUME NEW a, NEW p, Submit(j, a, p, t) PROVE ActiveKept
  BY <1>4, OneRowKeepsActive DEF Submit, ActiveStatus
<1>5. CASE Start(j, n, t)
  <2> DEFINE row == [job[j] EXCEPT !.status = "running"]
  <2>1. row.agent = job[j].agent /\ row.provider = job[j].provider
    BY RowTypes DEF JobRow
  <2>2. job[j].status \in ActiveStatus /\ PutJob(j, row)
    BY <1>5 DEF ActiveStatus, Start, JobHeld
  <2> QED BY <2>1, <2>2, OneRowKeepsActive
<1>6. CASE RenewLease(j, n, t)
  <2> DEFINE row == [job[j] EXCEPT !.lease = t + LeaseDuration]
  <2>1. row.agent = job[j].agent /\ row.provider = job[j].provider
    BY RowTypes DEF JobRow
  <2>2. job[j].status \in ActiveStatus /\ PutJob(j, row)
    BY <1>6 DEF ActiveStatus, RenewLease, JobHeld
  <2> QED BY <2>1, <2>2, OneRowKeepsActive
<1>7. CASE Succeed(j, n, t)
  BY <1>1, <1>2, <1>7, OneRowKeepsActive DEF Succeed
<1>8. ASSUME NEW code, CloseFailed(j, n, t, code) PROVE ActiveKept
  BY <1>1, <1>2, <1>8, OneRowKeepsActive DEF CloseFailed
<1>9. ASSUME NEW code, NEW anchor, ScheduleRetry(j, n, t, anchor, code) PROVE ActiveKept
  <2> DEFINE row == [Released(job[j], "retry_wait") EXCEPT
                       !.available = anchor + RetryDelay(RetryOrdinal(j, n))]
  <2>1. row.status \notin ActiveStatus
    BY <1>1, <1>2
  <2>2. PutJob(j, row)
    BY <1>9 DEF ScheduleRetry
  <2> QED BY <2>1, <2>2, OneRowKeepsActive
<1>10. CASE Reclaim(j, n, t)
  <2> DEFINE row == [Released(job[j], "queued") EXCEPT !.available = t + ReclaimBackoff]
  <2>1. row.status \notin ActiveStatus /\ Released(job[j], "failed").status \notin ActiveStatus
    BY <1>1, <1>2
  <2>2. PutJob(j, row) \/ PutJob(j, Released(job[j], "failed"))
    BY <1>10 DEF Reclaim, ReclaimPreStartRequeue, ReclaimPreStartExhausted, ReclaimPostStartAmbiguous
  <2> QED BY <2>1, <2>2, OneRowKeepsActive
<1>11. CASE Cancel(j)
  <2> DEFINE row == [Released(job[j], "cancelled") EXCEPT !.cancelRequested = TRUE]
  <2>1. row.status \notin ActiveStatus
    BY <1>1, <1>2
  <2>2. PutJob(j, row)
    BY <1>11 DEF Cancel
  <2> QED BY <2>1, <2>2, OneRowKeepsActive
<1> QED BY <1>3, <1>4, <1>5, <1>6, <1>7, <1>8, <1>9, <1>10, <1>11
        DEF OwnerStep, RefuseCall, RequestCall, WithdrawCall, StartCall, ConcludeCall

\* Every step but a claim leaves the clock alone or moves it on.
LEMMA FClockMoves ==
  ASSUME TypeOK, [Next]_vars PROVE clock' \in Nat /\ clock =< clock'
<1>1. clock \in Nat
  BY DEF TypeOK
<1>2. Tick => clock' = clock + 1
  BY DEF Tick
<1>3. \A w \in Workers, t \in Instants : Claim(w, t) => clock' = clock
  BY DEF Claim
<1>4. \A t, j, a, p : Submit(j, a, p, t) => clock' = clock
  BY Zenon DEF Submit
<1>5. ASSUME NEW j \in Jobs, NEW n \in Numbers, NEW t \in Instants, OwnerStep(j, n, t)
      PROVE  clock' = clock
  BY <1>5, Zenon DEF OwnerStep, Start, RenewLease, Succeed, CloseFailed, ScheduleRetry, RefuseCall,
     RequestCall, WithdrawCall, StartCall, ConcludeCall
<1>6. \A j, n, t : Reclaim(j, n, t) => clock' = clock
  BY Zenon DEF Reclaim, ReclaimPreStartRequeue, ReclaimPreStartExhausted, ReclaimPostStartAmbiguous
<1>7. \A j : Cancel(j) => clock' = clock
  BY Zenon DEF Cancel
<1>8. UNCHANGED vars => clock' = clock
  BY DEF vars
<1>9. clock' = clock \/ clock' = clock + 1
  BY <1>2, <1>3, <1>4, <1>5, <1>6, <1>7, <1>8, Zenon DEF Next
<1> QED BY <1>1, <1>9

\* Every step keeps the ceilings over the leases that never ran out.
LEMMA CeilingStep ==
  ASSUME TypeOK, ActiveWithinLimits, [FNext]_fairVars PROVE ActiveWithinLimits'
<1>1. CASE UNCHANGED fairVars
  BY <1>1 DEF fairVars, vars, ActiveWithinLimits, Timely, LiveLeases
<1>2. CASE FNext
  <2>1. Revive /\ [Next]_vars
    BY <1>2, FairImplements DEF FNext
  <2>2. ASSUME NEW w \in Workers, NEW t \in Instants, Claim(w, t) PROVE ActiveWithinLimits'
    BY <2>1, <2>2, ClaimKeepsCeilings, IdAssumption, BoundAssumption
  <2>3. ASSUME ActiveKept PROVE ActiveWithinLimits'
    <3>1. NoTimelyGained
      BY <2>1, <2>3, FClockMoves, KeptIsTimely
    <3> QED BY <3>1, CeilingsKept, IdAssumption, BoundAssumption
  <2>4. CASE Tick
    BY <2>3, <2>4 DEF Tick, ActiveKept
  <2>5. ASSUME NEW j \in Jobs, Cancel(j) PROVE ActiveKept
    BY <2>5, OthersKeepActive
  <2>6. CASE Next
    BY <2>2, <2>3, <2>4, <2>5, <2>6, OthersKeepActive DEF Next
  <2> QED BY <1>2, <2>2, <2>6 DEF FNext, FClaim
<1> QED BY <1>1, <1>2

\* The ceilings of QueuePolicy hold at every moment over the leases that never ran
\* out, for any number of Workers with any budgets and however old the clock reading
\* of a transaction is when it commits.
THEOREM ActiveWithinLimitsHolds == FSpec => []ActiveWithinLimits
<1>1. FInit => TypeOK /\ ActiveWithinLimits
  <2> SUFFICES ASSUME FInit PROVE TypeOK /\ ActiveWithinLimits
    OBVIOUS
  <2>1. TypeOK
    BY EngineInit, IdAssumption, BoundAssumption DEF FInit, EngineInv
  <2>2. \A j \in Jobs : job[j].status = "absent"
    BY DEF FInit, Init, AbsentJob
  <2>3. Timely = {}
    BY <2>2 DEF Timely, LiveLeases, ActiveStatus
  <2>4. Cardinality({}) = 0
    BY FS_EmptySet
  <2>5. /\ \A a \in Agents : {j \in Timely : job[j].agent = a} = {}
        /\ \A p \in Providers : {j \in Timely : job[j].provider = p} = {}
    BY <2>3
  <2>6. GlobalActive \in Nat /\ AgentActive \in Nat /\ ProviderActive \in Nat
    BY BoundAssumption DEF BoundAssumption
  <2> QED BY <2>1, <2>3, <2>4, <2>5, <2>6 DEF ActiveWithinLimits
<1>2. TypeOK /\ ActiveWithinLimits /\ [FNext]_fairVars => (TypeOK /\ ActiveWithinLimits)'
  <2> SUFFICES ASSUME TypeOK, ActiveWithinLimits, [FNext]_fairVars
               PROVE  (TypeOK /\ ActiveWithinLimits)'
    OBVIOUS
  <2>1. TypeOK'
    BY FairImplements, TypeStep, IdAssumption, BoundAssumption
  <2> QED BY <2>1, CeilingStep
<1> QED BY <1>1, <1>2, PTL DEF FSpec

=============================================================================
