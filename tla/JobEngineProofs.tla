-------------------------- MODULE JobEngineProofs --------------------------
(***************************************************************************)
(* Proofs about JobEngine, for every set of Jobs, Workers and Agents and   *)
(* every value of the budgets, leases and bounds: the invariant, what a    *)
(* step may never do, and that the engine implements RunLifecycle.         *)
(***************************************************************************)
EXTENDS JobEngine, FiniteSetTheorems, TLAPS

(* Type correctness.  Every row an operation writes is a legal row, read   *)
(* with the guard that bounds the claim counter (Eligible).                *)

\* The tool.ambiguous events of a reconciliation are a sequence of known events.
LEMMA AmbiguousEventsType ==
  ASSUME BoundAssumption, NEW j \in Jobs, NEW n \in Numbers
  PROVE  AmbiguousEvents(j, n) \in Seq(RunEventType)
<1> DEFINE S == {k \in Slots : calls[j][n][k] = "started"}
<1>1. IsFiniteSet(Slots)
  BY FS_Interval, SMT DEF BoundAssumption, Slots
<1>2. Cardinality(S) \in Nat
  BY <1>1, FS_Subset, FS_CardinalityType, S \subseteq Slots
<1>3. "tool.ambiguous" \in RunEventType
  BY DEF RunEventType
<1> HIDE DEF S
<1>4. [i \in 1..Cardinality(S) |-> "tool.ambiguous"] \in Seq(RunEventType)
  BY <1>2, <1>3
<1> QED BY <1>4 DEF AmbiguousEvents, S

\* An instant a transaction may carry is a positive number, so never NULL.
LEMMA InstantsType ==
  ASSUME TypeOK, BoundAssumption, NEW t \in Instants
  PROVE  t \in Nat \ {0}
BY DEF TypeOK, Instants, BoundAssumption

\* The empty tables are typed.
LEMMA TypeInit == IdAssumption /\ BoundAssumption /\ Init => TypeOK
<1> SUFFICES ASSUME IdAssumption, BoundAssumption, Init PROVE TypeOK
  OBVIOUS
<1>1. AbsentJob \in JobRow
  BY DEF AbsentJob, JobRow, JobStatus, BoundAssumption, NULL
<1>2. AbsentRun \in RunRow
  BY DEF AbsentRun, RunRow, RunStatus, RunError, NULL
<1>3. AbsentAttempt \in AttemptRow
  BY DEF AbsentAttempt, AttemptRow, AttemptStatus, Disposition, NULL
<1>4. "absent" \in CallStatus
  BY DEF CallStatus
<1>5. clock \in 1..MaxTime /\ served \in [Agents -> Nat] /\ attemptId \in Nat
  BY DEF Init, BoundAssumption, NULL
<1>6. timeline \in [Jobs -> Seq(RunEventType)]
  BY DEF Init
<1> QED BY <1>1, <1>2, <1>3, <1>4, <1>5, <1>6 DEF Init, TypeOK

\* Appending known events keeps every timeline a sequence of known events.
LEMMA LogType ==
  ASSUME TypeOK, NEW j \in Jobs, NEW events \in Seq(RunEventType), Log(j, events)
  PROVE  timeline' \in [Jobs -> Seq(RunEventType)]
<1>1. timeline[j] \o events \in Seq(RunEventType)
  BY DEF TypeOK
<1> QED BY <1>1 DEF TypeOK, Log

\* Rewriting one Attempt row with a legal row keeps the table typed.
LEMMA AttemptType ==
  ASSUME TypeOK, NEW j \in Jobs, NEW n \in Numbers, NEW row \in AttemptRow,
         PutAttempt(j, n, row)
  PROVE  attempt' \in [Jobs -> [Numbers -> AttemptRow]]
BY DEF TypeOK, PutAttempt

\* Closing one tool call, or reconciling all of an Attempt, keeps the table typed.
LEMMA CallsType ==
  ASSUME TypeOK, NEW j \in Jobs, NEW n \in Numbers
  PROVE  /\ \A k \in Slots, status \in CallStatus : SetCall(j, n, k, status) =>
               calls' \in [Jobs -> [Numbers -> [Slots -> CallStatus]]]
         /\ ReconcileCalls(j, n) =>
               calls' \in [Jobs -> [Numbers -> [Slots -> CallStatus]]]
<1>1. ASSUME NEW k \in Slots, NEW status \in CallStatus, SetCall(j, n, k, status)
      PROVE  calls' \in [Jobs -> [Numbers -> [Slots -> CallStatus]]]
  BY <1>1 DEF TypeOK, SetCall
<1>2. ASSUME ReconcileCalls(j, n)
      PROVE  calls' \in [Jobs -> [Numbers -> [Slots -> CallStatus]]]
  <2>1. \A s \in CallStatus : ReconcileCall(s) \in CallStatus
    BY DEF ReconcileCall, CallStatus, DispatchedCall
  <2>2. [k \in Slots |-> ReconcileCall(calls[j][n][k])] \in [Slots -> CallStatus]
    BY <2>1 DEF TypeOK
  <2> QED BY <1>2, <2>2 DEF TypeOK, ReconcileCalls
<1> QED BY <1>1, <1>2

\* The rows that the operations write, column by column.
LEMMA JobRowUpdates ==
  ASSUME BoundAssumption, NEW row \in JobRow
  PROVE  /\ \A s \in JobStatus : [row EXCEPT !.status = s] \in JobRow
         /\ \A s \in JobStatus, n \in 0..MaxAttempts, l \in Nat :
              [row EXCEPT !.status = s, !.token = n, !.lease = l, !.count = n] \in JobRow
         /\ \A l \in Nat : [row EXCEPT !.lease = l] \in JobRow
         /\ \A l \in Nat : [row EXCEPT !.available = l] \in JobRow
         /\ [row EXCEPT !.cancelRequested = TRUE] \in JobRow
         /\ \A s \in JobStatus : Released(row, s) \in JobRow
<1>1. NULL \in 0..MaxAttempts /\ NULL \in Nat
  BY DEF NULL, BoundAssumption
<1>2. \A s \in JobStatus : Released(row, s) \in JobRow
  BY <1>1 DEF JobRow, Released
<1>3. \A s \in JobStatus : [row EXCEPT !.status = s] \in JobRow
  BY DEF JobRow
<1>4. ASSUME NEW s \in JobStatus, NEW n \in 0..MaxAttempts, NEW l \in Nat
      PROVE  [row EXCEPT !.status = s, !.token = n, !.lease = l, !.count = n] \in JobRow
  BY DEF JobRow
<1>5. \A l \in Nat : /\ [row EXCEPT !.lease = l] \in JobRow
                     /\ [row EXCEPT !.available = l] \in JobRow
  BY DEF JobRow
<1>6. [row EXCEPT !.cancelRequested = TRUE] \in JobRow
  BY DEF JobRow
<1> QED BY <1>2, <1>3, <1>4, <1>5, <1>6

\* The updates the operations make to a runs row give a legal row.
LEMMA RunRowUpdates ==
  ASSUME NEW row \in RunRow, NEW s \in RunStatus
  PROVE  /\ [row EXCEPT !.status = s] \in RunRow
         /\ \A e \in RunError : [row EXCEPT !.status = s, !.error = e] \in RunRow
         /\ \A t \in Nat : [row EXCEPT !.status = s, !.startedAt = t] \in RunRow
BY DEF RunRow

\* The updates the operations make to a job_attempts row give a legal row.
LEMMA AttemptRowUpdates ==
  ASSUME NEW row \in AttemptRow
  PROVE  /\ \A s \in AttemptStatus : [row EXCEPT !.status = s] \in AttemptRow
         /\ \A s \in AttemptStatus : [row EXCEPT !.status = s, !.started = TRUE] \in AttemptRow
         /\ \A l \in Nat : [row EXCEPT !.lease = l] \in AttemptRow
         /\ \A s \in AttemptStatus, d \in Disposition :
              [row EXCEPT !.status = s, !.disposition = d] \in AttemptRow
BY DEF AttemptRow

\* Reading a row of a typed table, and replacing one.
LEMMA RowTypes ==
  ASSUME TypeOK, NEW j \in Jobs
  PROVE  /\ job[j] \in JobRow /\ run[j] \in RunRow
         /\ \A n \in Numbers : attempt[j][n] \in AttemptRow
         /\ \A row \in JobRow : PutJob(j, row) => job' \in [Jobs -> JobRow]
         /\ \A row \in RunRow : PutRun(j, row) => run' \in [Jobs -> RunRow]
BY DEF TypeOK, PutJob, PutRun

\* Closing an Attempt keeps the table typed.
LEMMA CloseAttemptType ==
  ASSUME TypeOK, NEW j \in Jobs, NEW n \in Numbers, NEW status \in AttemptStatus,
         NEW disposition \in Disposition, CloseAttempt(j, n, status, disposition)
  PROVE  attempt' \in [Jobs -> [Numbers -> AttemptRow]]
<1> DEFINE row == [attempt[j][n] EXCEPT !.status = status, !.disposition = disposition]
<1>1. row \in AttemptRow
  BY RowTypes, AttemptRowUpdates
<1>2. PutAttempt(j, n, row)
  BY DEF CloseAttempt
<1> QED BY <1>1, <1>2, AttemptType

\* The disposition recorded with a failure is a known one.
LEMMA DispositionType ==
  \A code \in FailureCode : DispositionFor(code) \in Disposition
BY DEF FailureCode, DispositionFor, Disposition

\* The delay before a retry is a number.
LEMMA RetryDelayType ==
  ASSUME BoundAssumption, NEW ordinal
  PROVE  RetryDelay(ordinal) \in Nat
BY DEF BoundAssumption, RetryDelay

\* Every step of every actor keeps the tables typed.
LEMMA TypeStep ==
  TypeOK /\ IdAssumption /\ BoundAssumption /\ [Next]_vars => TypeOK'
<1> SUFFICES ASSUME TypeOK, IdAssumption, BoundAssumption, [Next]_vars
             PROVE  TypeOK'
  OBVIOUS
<1> USE BoundAssumption, TypeOK
<1> DEFINE Calls == [Jobs -> [Numbers -> [Slots -> CallStatus]]]
           Attempts == [Jobs -> [Numbers -> AttemptRow]]
           Timelines == [Jobs -> Seq(RunEventType)]
<1>tick. ASSUME Tick PROVE TypeOK'
  BY <1>tick DEF Tick, TypeOK, BoundAssumption
<1>submit. ASSUME NEW t \in Instants, NEW j \in Jobs, NEW i \in Instances,
                  Submit(j, i[1], i[2], t)
           PROVE  TypeOK'
  <2>1. i[1] \in Agents /\ i[2] \in Providers /\ t \in Nat
    BY InstantsType DEF IdAssumption
  <2>2. job' \in [Jobs -> JobRow]
    <3>1. [status |-> "queued", agent |-> i[1], provider |-> i[2], available |-> t,
           count |-> 0, token |-> NULL, lease |-> NULL, cancelRequested |-> FALSE]
            \in JobRow
      BY <2>1 DEF JobRow, JobStatus, NULL, BoundAssumption
    <3> QED BY <1>submit, <3>1, RowTypes DEF Submit
  <2>3. run' \in [Jobs -> RunRow]
    <3>1. [status |-> "created", startedAt |-> NULL, error |-> "none"] \in RunRow
      BY DEF RunRow, RunStatus, RunError, NULL
    <3> QED BY <1>submit, <3>1, RowTypes DEF Submit
  <2>4. <<"run.created", "run.queued">> \in Seq(RunEventType)
    BY DEF RunEventType
  <2>5. timeline' \in Timelines
    BY <1>submit, <2>4, LogType DEF Submit
  <2> QED BY <1>submit, <2>2, <2>3, <2>5 DEF Submit, TypeOK
<1>claim. ASSUME NEW t \in Instants, NEW w \in Workers, Claim(w, t) PROVE TypeOK'
  <2> DEFINE n(j) == job[j].count + 1
             row == [status |-> "claimed", started |-> FALSE,
                     disposition |-> "none", lease |-> t + LeaseDuration]
  <2>0. t \in Nat /\ t + LeaseDuration \in Nat
    BY InstantsType DEF BoundAssumption
  <2>1. PICK j \in NextClaim(w, t) :
          /\ PutJob(j, [job[j] EXCEPT !.status = "claimed", !.token = n(j),
                                      !.lease = t + LeaseDuration, !.count = n(j)])
          /\ PutAttempt(j, n(j), row)
          /\ attemptId' = attemptId + 1
          /\ served' = [served EXCEPT ![job[j].agent] = attemptId + 1]
          /\ Log(j, <<"attempt.claimed">>)
    BY <1>claim DEF Claim
  <2>2. j \in Jobs /\ job[j].count < MaxAttempts
    BY <2>1 DEF NextClaim, Candidates, Heads, Eligible
  <2>3. n(j) \in Numbers /\ n(j) \in 0..MaxAttempts
    BY <2>2 DEF TypeOK, JobRow, Numbers, BoundAssumption
  <2>4. row \in AttemptRow
    BY <2>0 DEF AttemptRow, AttemptStatus, ActiveStatus, Disposition
  <2>5. attempt' \in Attempts
    BY <2>1, <2>2, <2>3, <2>4, AttemptType
  <2>6. job' \in [Jobs -> JobRow]
    <3>1. [job[j] EXCEPT !.status = "claimed", !.token = n(j),
                         !.lease = t + LeaseDuration, !.count = n(j)] \in JobRow
      BY <2>0, <2>2, <2>3, RowTypes, JobRowUpdates DEF JobStatus
    <3> QED BY <2>1, <2>2, <3>1, RowTypes
  <2>7. timeline' \in Timelines
    <3>1. <<"attempt.claimed">> \in Seq(RunEventType)
      BY DEF RunEventType
    <3> QED BY <2>1, <2>2, <3>1, LogType
  <2>8. served' \in [Agents -> Nat] /\ attemptId' \in Nat
    <3>1. attemptId + 1 \in Nat /\ served \in [Agents -> Nat]
      BY DEF TypeOK
    <3>2. \A a, v : v \in Nat => [served EXCEPT ![a] = v] \in [Agents -> Nat]
      BY <3>1
    <3> QED BY <2>1, <3>1, <3>2
  <2> QED BY <1>claim, <2>5, <2>6, <2>7, <2>8 DEF Claim, TypeOK
<1>start. ASSUME NEW t \in Instants, NEW j \in Jobs, NEW n \in Numbers, Start(j, n, t)
          PROVE  TypeOK'
  <2>1. [attempt[j][n] EXCEPT !.status = "running", !.started = TRUE] \in AttemptRow
    BY RowTypes, AttemptRowUpdates DEF AttemptStatus, ActiveStatus
  <2>2. attempt' \in Attempts
    BY <1>start, <2>1, AttemptType DEF Start
  <2>3. job' \in [Jobs -> JobRow]
    BY <1>start, RowTypes, JobRowUpdates DEF Start, JobStatus
  <2>4. run' \in [Jobs -> RunRow]
    <3>1. [run[j] EXCEPT !.status = "running", !.startedAt = t] \in RunRow
      BY InstantsType, RowTypes, RunRowUpdates DEF RunStatus
    <3> QED BY <1>start, <3>1, RowTypes DEF Start, TypeOK
  <2>5. <<"attempt.started">> \in Seq(RunEventType)
    BY DEF RunEventType
  <2>6. timeline' \in Timelines
    BY <1>start, <2>5, LogType DEF Start
  <2> QED BY <1>start, <2>2, <2>3, <2>4, <2>6 DEF Start, TypeOK
<1>renew. ASSUME NEW t \in Instants, NEW j \in Jobs, NEW n \in Numbers,
                 RenewLease(j, n, t)
          PROVE  TypeOK'
  <2>1. t + LeaseDuration \in Nat
    BY InstantsType DEF BoundAssumption
  <2>2. [attempt[j][n] EXCEPT !.lease = t + LeaseDuration] \in AttemptRow
    BY <2>1, RowTypes, AttemptRowUpdates
  <2>3. attempt' \in Attempts
    BY <1>renew, <2>2, AttemptType DEF RenewLease
  <2>4. job' \in [Jobs -> JobRow]
    BY <1>renew, <2>1, RowTypes, JobRowUpdates DEF RenewLease
  <2> QED BY <1>renew, <2>3, <2>4 DEF RenewLease, TypeOK
<1>succeed. ASSUME NEW t \in Instants, NEW j \in Jobs, NEW n \in Numbers,
                   Succeed(j, n, t)
            PROVE  TypeOK'
  <2>1. [attempt[j][n] EXCEPT !.status = "succeeded"] \in AttemptRow
    BY RowTypes, AttemptRowUpdates DEF AttemptStatus, ClosedStatus
  <2>2. attempt' \in Attempts
    BY <1>succeed, <2>1, AttemptType DEF Succeed
  <2>3. Released(job[j], "succeeded") \in JobRow
    BY RowTypes, JobRowUpdates DEF JobStatus, TerminalStatus
  <2>4. job' \in [Jobs -> JobRow]
    BY <1>succeed, <2>3, RowTypes DEF Succeed
  <2>5. run' \in [Jobs -> RunRow]
    BY <1>succeed, RowTypes, RunRowUpdates DEF Succeed, RunStatus, TerminalStatus
  <2>6. <<"run.succeeded">> \in Seq(RunEventType)
    BY DEF RunEventType
  <2>7. timeline' \in Timelines
    BY <1>succeed, <2>6, LogType DEF Succeed
  <2> QED BY <1>succeed, <2>2, <2>4, <2>5, <2>7 DEF Succeed, TypeOK
<1>retry. ASSUME NEW t \in Instants, NEW j \in Jobs, NEW n \in Numbers,
                 NEW code \in FailureCode, NEW anchor \in 1..t,
                 ScheduleRetry(j, n, t, anchor, code)
          PROVE  TypeOK'
  <2>1. attempt' \in Attempts
    BY <1>retry, CloseAttemptType, DispositionType
    DEF ScheduleRetry, AttemptStatus, ClosedStatus
  <2>2. Released(job[j], "retry_wait") \in JobRow
    BY RowTypes, JobRowUpdates DEF JobStatus
  <2>3. anchor + RetryDelay(RetryOrdinal(j, n)) \in Nat
    BY InstantsType, RetryDelayType
  <2>4. job' \in [Jobs -> JobRow]
    BY <1>retry, <2>2, <2>3, RowTypes, JobRowUpdates DEF ScheduleRetry
  <2>5. <<"attempt.failed", "retry.scheduled">> \in Seq(RunEventType)
    BY DEF RunEventType
  <2>6. timeline' \in Timelines
    BY <1>retry, <2>5, LogType DEF ScheduleRetry
  <2> QED BY <1>retry, <2>1, <2>4, <2>6 DEF ScheduleRetry, TypeOK
<1>fail. ASSUME NEW t \in Instants, NEW j \in Jobs, NEW n \in Numbers,
                NEW code \in FailureCode, CloseFailed(j, n, t, code)
         PROVE  TypeOK'
  <2>1. attempt' \in Attempts
    BY <1>fail, CloseAttemptType, DispositionType
    DEF CloseFailed, AttemptStatus, ClosedStatus
  <2>2. Released(job[j], "failed") \in JobRow
    BY RowTypes, JobRowUpdates DEF JobStatus, TerminalStatus
  <2>3. job' \in [Jobs -> JobRow]
    BY <1>fail, <2>2, RowTypes DEF CloseFailed
  <2>4. run' \in [Jobs -> RunRow]
    BY <1>fail, RowTypes, RunRowUpdates
    DEF CloseFailed, RunStatus, TerminalStatus, RunError
  <2>5. <<"attempt.failed", "run.failed">> \in Seq(RunEventType)
    BY DEF RunEventType
  <2>6. timeline' \in Timelines
    BY <1>fail, <2>5, LogType DEF CloseFailed
  <2> QED BY <1>fail, <2>1, <2>3, <2>4, <2>6 DEF CloseFailed, TypeOK
<1>request. ASSUME NEW t \in Instants, NEW j \in Jobs, NEW n \in Numbers,
                   NEW k \in Slots, RequestCall(j, n, k, t)
            PROVE  TypeOK'
  <2>1. calls' \in Calls
    BY <1>request, CallsType DEF RequestCall, CallStatus
  <2>2. <<"tool.requested">> \in Seq(RunEventType)
    BY DEF RunEventType
  <2>3. timeline' \in Timelines
    BY <1>request, <2>2, LogType DEF RequestCall
  <2> QED BY <1>request, <2>1, <2>3 DEF RequestCall, TypeOK
<1>begin. ASSUME NEW t \in Instants, NEW j \in Jobs, NEW n \in Numbers,
                 NEW k \in Slots, NEW allowed \in BOOLEAN, StartCall(j, n, k, t, allowed)
          PROVE  TypeOK'
  <2>1. calls' \in Calls
    BY <1>begin, CallsType DEF StartCall, CallStatus, DispatchedCall
  <2>2. <<IF allowed THEN "tool.started" ELSE "tool.denied">> \in Seq(RunEventType)
    BY DEF RunEventType
  <2>3. timeline' \in Timelines
    BY <1>begin, <2>2, LogType DEF StartCall
  <2> QED BY <1>begin, <2>1, <2>3 DEF StartCall, TypeOK
<1>withdraw. ASSUME NEW t \in Instants, NEW j \in Jobs, NEW n \in Numbers,
                    NEW k \in Slots, WithdrawCall(j, n, k, t)
             PROVE  TypeOK'
  <2>1. calls' \in Calls
    BY <1>withdraw, CallsType DEF WithdrawCall, CallStatus
  <2> QED BY <1>withdraw, <2>1 DEF WithdrawCall, TypeOK
<1>refuse. ASSUME NEW t \in Instants, NEW j \in Jobs, NEW n \in Numbers,
                  RefuseCall(j, n, t)
           PROVE  TypeOK'
  <2>1. <<"tool.denied">> \in Seq(RunEventType)
    BY DEF RunEventType
  <2>2. timeline' \in Timelines
    BY <1>refuse, <2>1, LogType DEF RefuseCall
  <2> QED BY <1>refuse, <2>2 DEF RefuseCall, TypeOK
<1>conclude. ASSUME NEW t \in Instants, NEW j \in Jobs, NEW n \in Numbers,
                    NEW k \in Slots, NEW outcome \in CallOutcome,
                    ConcludeCall(j, n, k, t, outcome)
             PROVE  TypeOK'
  <2>1. calls' \in Calls
    BY <1>conclude, CallsType DEF ConcludeCall, CallStatus, DispatchedCall, CallOutcome
  <2>2. <<ToolEvent(outcome)>> \in Seq(RunEventType)
    BY DEF RunEventType, ToolEvent
  <2>3. timeline' \in Timelines
    BY <1>conclude, <2>2, LogType DEF ConcludeCall
  <2> QED BY <1>conclude, <2>1, <2>3 DEF ConcludeCall, TypeOK
<1>requeue. ASSUME NEW t \in Instants, NEW j \in Jobs, NEW n \in Numbers,
                   ReclaimPreStartRequeue(j, n, t)
            PROVE  TypeOK'
  <2>1. attempt' \in Attempts
    BY <1>requeue, CloseAttemptType
    DEF ReclaimPreStartRequeue, AttemptStatus, ClosedStatus, Disposition
  <2>2. Released(job[j], "queued") \in JobRow
    BY RowTypes, JobRowUpdates DEF JobStatus
  <2>3. t + ReclaimBackoff \in Nat
    BY InstantsType DEF BoundAssumption
  <2>4. job' \in [Jobs -> JobRow]
    BY <1>requeue, <2>2, <2>3, RowTypes, JobRowUpdates DEF ReclaimPreStartRequeue
  <2>5. <<"attempt.expired", "recovery.pre_start">> \in Seq(RunEventType)
    BY DEF RunEventType
  <2>6. timeline' \in Timelines
    BY <1>requeue, <2>5, LogType DEF ReclaimPreStartRequeue
  <2> QED BY <1>requeue, <2>1, <2>4, <2>6 DEF ReclaimPreStartRequeue, TypeOK
<1>exhaust. ASSUME NEW t \in Instants, NEW j \in Jobs, NEW n \in Numbers,
                   ReclaimPreStartExhausted(j, n, t)
            PROVE  TypeOK'
  <2>1. attempt' \in Attempts
    BY <1>exhaust, CloseAttemptType
    DEF ReclaimPreStartExhausted, AttemptStatus, ClosedStatus, Disposition
  <2>2. Released(job[j], "failed") \in JobRow
    BY RowTypes, JobRowUpdates DEF JobStatus, TerminalStatus
  <2>3. job' \in [Jobs -> JobRow]
    BY <1>exhaust, <2>2, RowTypes DEF ReclaimPreStartExhausted
  <2>4. run' \in [Jobs -> RunRow]
    BY <1>exhaust, RowTypes, RunRowUpdates
    DEF ReclaimPreStartExhausted, RunStatus, TerminalStatus, RunError
  <2>5. <<"attempt.expired", "recovery.pre_start", "run.failed">> \in Seq(RunEventType)
    BY DEF RunEventType
  <2>6. timeline' \in Timelines
    BY <1>exhaust, <2>5, LogType DEF ReclaimPreStartExhausted
  <2> QED BY <1>exhaust, <2>1, <2>3, <2>4, <2>6 DEF ReclaimPreStartExhausted, TypeOK
<1>ambiguous. ASSUME NEW t \in Instants, NEW j \in Jobs, NEW n \in Numbers,
                     ReclaimPostStartAmbiguous(j, n, t)
              PROVE  TypeOK'
  <2>1. attempt' \in Attempts
    BY <1>ambiguous, CloseAttemptType
    DEF ReclaimPostStartAmbiguous, AttemptStatus, ClosedStatus, Disposition
  <2>2. Released(job[j], "failed") \in JobRow
    BY RowTypes, JobRowUpdates DEF JobStatus, TerminalStatus
  <2>3. job' \in [Jobs -> JobRow]
    BY <1>ambiguous, <2>2, RowTypes DEF ReclaimPostStartAmbiguous
  <2>4. run' \in [Jobs -> RunRow]
    BY <1>ambiguous, RowTypes, RunRowUpdates
    DEF ReclaimPostStartAmbiguous, RunStatus, TerminalStatus, RunError
  <2>5. <<"attempt.expired", "recovery.ambiguous">> \o AmbiguousEvents(j, n)
          \o <<"run.failed">> \in Seq(RunEventType)
    <3>1. /\ <<"attempt.expired", "recovery.ambiguous">> \in Seq(RunEventType)
          /\ <<"run.failed">> \in Seq(RunEventType)
      BY DEF RunEventType
    <3> QED BY <3>1, AmbiguousEventsType
  <2>6. timeline' \in Timelines
    BY <1>ambiguous, <2>5, LogType DEF ReclaimPostStartAmbiguous
  <2>7. calls' \in Calls
    BY <1>ambiguous, CallsType DEF ReclaimPostStartAmbiguous
  <2> QED BY <1>ambiguous, <2>1, <2>3, <2>4, <2>6, <2>7
          DEF ReclaimPostStartAmbiguous, TypeOK
<1>cancel. ASSUME NEW j \in Jobs, Cancel(j) PROVE TypeOK'
  <2>1. Released(job[j], "cancelled") \in JobRow
    BY RowTypes, JobRowUpdates DEF JobStatus, TerminalStatus
  <2>2. job' \in [Jobs -> JobRow]
    BY <1>cancel, <2>1, RowTypes, JobRowUpdates DEF Cancel
  <2>3. run' \in [Jobs -> RunRow]
    BY <1>cancel, RowTypes, RunRowUpdates DEF Cancel, RunStatus, TerminalStatus
  <2>4. attempt' \in Attempts /\ calls' \in Calls /\ timeline' \in Timelines
    <3>1. /\ <<"cancellation.requested", "run.cancelled">> \in Seq(RunEventType)
          /\ <<"cancellation.requested">> \in Seq(RunEventType)
          /\ <<"run.cancelled">> \in Seq(RunEventType)
      BY DEF RunEventType
    <3>2. CASE UNCHANGED <<attempt, calls>> /\
               Log(j, <<"cancellation.requested", "run.cancelled">>)
      BY <3>1, <3>2, LogType DEF TypeOK
    <3>3. ASSUME NEW n \in ActiveNumbers(j),
                 PutAttempt(j, n, [attempt[j][n] EXCEPT !.status = "cancelled"]),
                 ReconcileCalls(j, n),
                 Log(j, <<"cancellation.requested">>
                          \o AmbiguousEvents(j, n) \o <<"run.cancelled">>)
          PROVE  attempt' \in Attempts /\ calls' \in Calls /\ timeline' \in Timelines
      <4>1. n \in Numbers
        BY DEF ActiveNumbers
      <4>2. [attempt[j][n] EXCEPT !.status = "cancelled"] \in AttemptRow
        BY <4>1, RowTypes, AttemptRowUpdates DEF AttemptStatus, ClosedStatus
      <4>3. attempt' \in Attempts
        BY <3>3, <4>1, <4>2, AttemptType
      <4>4. calls' \in Calls
        BY <3>3, <4>1, CallsType
      <4>5. <<"cancellation.requested">> \o AmbiguousEvents(j, n)
              \o <<"run.cancelled">> \in Seq(RunEventType)
        BY <3>1, <4>1, AmbiguousEventsType
      <4> QED BY <3>3, <4>3, <4>4, <4>5, LogType
    <3> QED BY <1>cancel, <3>2, <3>3 DEF Cancel
  <2> QED BY <1>cancel, <2>2, <2>3, <2>4 DEF Cancel, TypeOK
<1>stutter. CASE UNCHANGED vars
  BY <1>stutter DEF vars, TypeOK
<1> QED
  BY <1>tick, <1>submit, <1>claim, <1>start, <1>renew, <1>succeed, <1>retry, <1>fail,
     <1>request, <1>withdraw, <1>refuse, <1>begin, <1>conclude, <1>requeue,
     <1>exhaust, <1>ambiguous,
     <1>cancel, <1>stutter
  DEF Next, OwnerStep, Reclaim

\* Every row of every table stays a legal row, whatever the Workers, the clock and
\* the owners do (the transactions of SqlAlchemyJobPersistence).
THEOREM TypeCorrect == Spec => []TypeOK
<1>1. Init => TypeOK
  BY TypeInit, IdAssumption, BoundAssumption
<1>2. TypeOK /\ [Next]_vars => TypeOK'
  BY TypeStep, IdAssumption, BoundAssumption
<1> QED BY <1>1, <1>2, PTL DEF Spec

-----------------------------------------------------------------------------
(* The inductive invariant.  Beside the three agreements that the runs     *)
(* check it says where an Attempt stands relative to its execution-start   *)
(* boundary, and that every Attempt a claim could supersede, the latest    *)
(* one of a Job waiting to be claimed included, ended safely.              *)

BoundaryKnown(j) ==
  \A n \in Numbers :
    /\ attempt[j][n].status = "running" => attempt[j][n].started
    /\ attempt[j][n].status \in {"absent", "claimed"} => ~attempt[j][n].started

Superseded(j, n) ==
  \/ n < job[j].count
  \/ n =< job[j].count /\ job[j].status \in {"queued", "retry_wait"}

SupersededSafely(j) ==
  \A n \in Numbers : Superseded(j, n) => SafelyEnded(j, n)

UnclaimedBeforeSubmission(j) == job[j].status = "absent" => job[j].count = 0

JobInv(j) ==
  /\ HeldByLatest(j)
  /\ SettlesTogether(j)
  /\ StartIsKnown(j)
  /\ BoundaryKnown(j)
  /\ SupersededSafely(j)
  /\ UnclaimedBeforeSubmission(j)

EngineInv == TypeOK /\ \A j \in Jobs : JobInv(j)

Kept(i) == UNCHANGED <<job[i], run[i], attempt[i], calls[i]>>

\* What an operation does not touch keeps its invariant.
LEMMA KeptInv ==
  ASSUME NEW i \in Jobs, JobInv(i), Kept(i)
  PROVE  JobInv(i)'
<1>1. HeldByLatest(i)'
  BY DEF JobInv, HeldByLatest, Kept
<1>2. SettlesTogether(i)'
  BY DEF JobInv, SettlesTogether, Kept
<1>3. StartIsKnown(i)'
  BY DEF JobInv, StartIsKnown, Kept
<1>4. BoundaryKnown(i)'
  BY DEF JobInv, BoundaryKnown, Kept
<1>5. SupersededSafely(i)'
  BY DEF JobInv, SupersededSafely, Superseded, SafelyEnded, Dispatched, Kept
<1>6. UnclaimedBeforeSubmission(i)'
  BY DEF JobInv, UnclaimedBeforeSubmission, Kept
<1> QED BY <1>1, <1>2, <1>3, <1>4, <1>5, <1>6 DEF JobInv

\* A row that is written is read back, and no other row of the table changes.
LEMMA PutFacts ==
  ASSUME TypeOK, NEW j \in Jobs
  PROVE  /\ \A row : PutJob(j, row) =>
              job'[j] = row /\ \A i \in Jobs \ {j} : job'[i] = job[i]
         /\ \A row : PutRun(j, row) =>
              run'[j] = row /\ \A i \in Jobs \ {j} : run'[i] = run[i]
         /\ \A n \in Numbers : \A row : PutAttempt(j, n, row) =>
              /\ attempt'[j][n] = row
              /\ \A m \in Numbers \ {n} : attempt'[j][m] = attempt[j][m]
              /\ \A i \in Jobs \ {j} : attempt'[i] = attempt[i]
         /\ \A n \in Numbers, k \in Slots : \A status : SetCall(j, n, k, status) =>
              /\ \A m \in Numbers \ {n} : calls'[j][m] = calls[j][m]
              /\ \A i \in Jobs \ {j} : calls'[i] = calls[i]
         /\ \A n \in Numbers : ReconcileCalls(j, n) =>
              /\ \A m \in Numbers \ {n} : calls'[j][m] = calls[j][m]
              /\ \A i \in Jobs \ {j} : calls'[i] = calls[i]
BY DEF TypeOK, PutJob, PutRun, PutAttempt, SetCall, ReconcileCalls

\* It is enough to look at the Job an operation is about.
LEMMA OnlyOneJob ==
  ASSUME NEW j \in Jobs, \A i \in Jobs : JobInv(i), JobInv(j)',
         \A i \in Jobs \ {j} : Kept(i)
  PROVE  \A i \in Jobs : JobInv(i)'
BY KeptInv

\* The execution-start boundary (_start_once) preserves the invariant of its Job.
LEMMA StartInv ==
  ASSUME EngineInv, BoundAssumption, NEW t \in Instants, NEW j \in Jobs,
         NEW n \in Numbers, Start(j, n, t)
  PROVE  \A i \in Jobs : JobInv(i)'
<1> USE DEF EngineInv
<1>1. /\ job[j].status = "claimed" /\ job[j].token = n /\ ~job[j].cancelRequested
      /\ attempt[j][n].status = "claimed" /\ StartableRun(j)
      /\ UNCHANGED calls
  BY DEF Start, AttemptOpen, JobHeld
<1>2. /\ job'[j].status = "running" /\ job'[j].count = job[j].count
      /\ job'[j].token = n /\ job'[j].lease = job[j].lease /\ ~job'[j].cancelRequested
      /\ \A i \in Jobs \ {j} : job'[i] = job[i]
  <2>1. /\ job'[j] = [job[j] EXCEPT !.status = "running"]
        /\ \A i \in Jobs \ {j} : job'[i] = job[i]
    BY PutFacts DEF Start
  <2> QED BY <1>1, <2>1, RowTypes DEF JobRow
<1>3. /\ attempt'[j][n].status = "running" /\ attempt'[j][n].started
      /\ attempt'[j][n].lease = attempt[j][n].lease
      /\ \A m \in Numbers \ {n} : attempt'[j][m] = attempt[j][m]
      /\ \A i \in Jobs \ {j} : attempt'[i] = attempt[i]
  <2>1. /\ attempt'[j][n] = [attempt[j][n] EXCEPT !.status = "running", !.started = TRUE]
        /\ \A m \in Numbers \ {n} : attempt'[j][m] = attempt[j][m]
        /\ \A i \in Jobs \ {j} : attempt'[i] = attempt[i]
    BY PutFacts DEF Start
  <2> QED BY <2>1, RowTypes DEF AttemptRow
<1>4. /\ run'[j].status = "running"
      /\ run'[j].startedAt # NULL
      /\ \A i \in Jobs \ {j} : run'[i] = run[i]
  <2>1. CASE run[j].status = "created"
    <3>1. /\ run'[j] = [run[j] EXCEPT !.status = "running", !.startedAt = t]
          /\ \A i \in Jobs \ {j} : run'[i] = run[i]
      BY <2>1, PutFacts DEF Start
    <3> QED BY <3>1, RowTypes, InstantsType DEF RunRow, NULL
  <2>2. CASE run[j].status # "created"
    BY <1>1, <2>2 DEF Start, StartableRun
  <2> QED BY <2>1, <2>2
<1>5. JobInv(j)'
  <2>1. HeldByLatest(j)'
    BY <1>1, <1>2, <1>3, RowTypes DEF JobInv, HeldByLatest, JobRow, AttemptRow, ActiveStatus
  <2>2. SettlesTogether(j)'
    BY <1>1, <1>2, <1>3, <1>4, RowTypes
    DEF JobInv, SettlesTogether, JobRow, AttemptRow, TerminalStatus, StartableRun
  <2>3. StartIsKnown(j)'
    BY <1>3, <1>4, RowTypes DEF JobInv, StartIsKnown, AttemptRow
  <2>4. BoundaryKnown(j)'
    BY <1>3, RowTypes DEF JobInv, BoundaryKnown, AttemptRow
  <2>5. SupersededSafely(j)'
    BY <1>1, <1>2, <1>3, RowTypes
    DEF JobInv, SupersededSafely, Superseded, SafelyEnded, Dispatched, HeldByLatest,
        JobRow, AttemptRow, ActiveStatus
  <2>6. UnclaimedBeforeSubmission(j)'
    BY <1>2 DEF UnclaimedBeforeSubmission
  <2> QED BY <2>1, <2>2, <2>3, <2>4, <2>5, <2>6 DEF JobInv
<1> QED BY <1>1, <1>2, <1>3, <1>4, <1>5, OnlyOneJob DEF Kept

\* An operation that gives up the claim: Attempt n is closed on the side of the
\* start boundary where it stood, and the Job leaves the active statuses.
GivesUp(j, n, status) ==
  /\ job[j].status \in ActiveStatus /\ job[j].token = n
  /\ status \notin ActiveStatus \cup {"absent"}
  /\ job'[j].status = status /\ job'[j].count = job[j].count
  /\ job'[j].cancelRequested <=> status = "cancelled"
  /\ attempt'[j][n].status \in ClosedStatus
  /\ attempt'[j][n].started <=> attempt[j][n].started
  /\ \A m \in Numbers \ {n} : attempt'[j][m] = attempt[j][m] /\ calls'[j][m] = calls[j][m]

\* What it must do to the Run: nothing when the Job waits to be claimed again,
\* which needs a safe end, and the same settlement otherwise.
SettlesRun(j, n, status) ==
  \/ /\ status \in {"queued", "retry_wait"} /\ SafelyEnded(j, n)'
     /\ run'[j] = run[j]
     /\ status = "retry_wait" => run[j].status = "running"
  \/ /\ status \in TerminalStatus
     /\ run'[j].status = status /\ run'[j].startedAt = run[j].startedAt
     /\ status = "succeeded" => run[j].status = "running"
     /\ status = "failed" =>
          (run'[j].error = "worker_recovery_exhausted" <=> run[j].startedAt = NULL)

\* A step that closes the holding Attempt and settles the Run preserves the invariant.
LEMMA GivesUpInv ==
  ASSUME TypeOK, NEW j \in Jobs, NEW n \in Numbers, NEW status, JobInv(j),
         GivesUp(j, n, status), SettlesRun(j, n, status)
  PROVE  JobInv(j)'
<1> USE RowTypes DEF JobInv, GivesUp
<1>1. /\ n = job[j].count /\ run[j].status \in {"created", "running"}
      /\ attempt[j][n].status = job[j].status
  <2>1. n = job[j].count /\ attempt[j][n].status = job[j].status
    BY DEF HeldByLatest
  <2>2. run[j].status \notin {"absent"} \cup TerminalStatus
    BY DEF SettlesTogether, ActiveStatus, TerminalStatus
  <2> QED BY <2>1, <2>2 DEF RunRow, RunStatus
<1>2. HeldByLatest(j)'
  BY <1>1 DEF HeldByLatest, ActiveStatus, ClosedStatus
<1>3. SettlesTogether(j)'
  BY <1>1 DEF SettlesTogether, SettlesRun, ActiveStatus, ClosedStatus, TerminalStatus
<1>4. StartIsKnown(j)'
  <2>1. (\E m \in Numbers : attempt'[j][m].started) <=>
        (\E m \in Numbers : attempt[j][m].started)
    OBVIOUS
  <2>2. run'[j].startedAt = run[j].startedAt
    BY DEF SettlesRun
  <2>3. run[j].startedAt # NULL <=> \E m \in Numbers : attempt[j][m].started
    BY DEF StartIsKnown
  <2>4. /\ run'[j].status = "created" => run'[j].startedAt = NULL
        /\ run'[j].status \in {"running", "succeeded"} => run'[j].startedAt # NULL
        /\ run'[j].status = "failed" =>
             (run'[j].error = "worker_recovery_exhausted" <=> run'[j].startedAt = NULL)
    BY <1>1, <2>2 DEF StartIsKnown, SettlesRun, TerminalStatus
  <2> QED BY <2>1, <2>2, <2>3, <2>4 DEF StartIsKnown
<1>5. BoundaryKnown(j)'
  BY DEF BoundaryKnown, ClosedStatus
<1>6. SupersededSafely(j)'
  <2> SUFFICES ASSUME NEW m \in Numbers, Superseded(j, m)' PROVE SafelyEnded(j, m)'
    BY DEF SupersededSafely
  <2>1. CASE m = n
    BY <1>1, <2>1 DEF Superseded, SettlesRun, Numbers, TerminalStatus
  <2>2. CASE m # n
    <3>1. Superseded(j, m)
      BY <1>1, <2>2 DEF Superseded, Numbers, JobRow
    <3>2. SafelyEnded(j, m)
      BY <3>1 DEF SupersededSafely
    <3> QED BY <2>2, <3>2 DEF SafelyEnded, Dispatched
  <2> QED BY <2>1, <2>2
<1>7. UnclaimedBeforeSubmission(j)'
  BY DEF UnclaimedBeforeSubmission
<1> QED BY <1>2, <1>3, <1>4, <1>5, <1>6, <1>7

\* What releasing a claim leaves of the Job row.
LEMMA ReleasedColumns ==
  ASSUME NEW row \in JobRow, NEW status
  PROVE  LET r == Released(row, status) IN
         /\ r.status = status /\ r.count = row.count
         /\ r.cancelRequested <=> row.cancelRequested
         /\ \A l : /\ [r EXCEPT !.available = l].status = status
                   /\ [r EXCEPT !.available = l].count = row.count
                   /\ [r EXCEPT !.available = l].cancelRequested <=> row.cancelRequested
         /\ [r EXCEPT !.cancelRequested = TRUE].status = status
         /\ [r EXCEPT !.cancelRequested = TRUE].count = row.count
         /\ [r EXCEPT !.cancelRequested = TRUE].cancelRequested
BY DEF JobRow, Released

\* Closing an Attempt changes no other Attempt and not whether it started.
LEMMA CloseAttemptFacts ==
  ASSUME TypeOK, NEW j \in Jobs, NEW n \in Numbers, NEW status, NEW disposition,
         CloseAttempt(j, n, status, disposition)
  PROVE  /\ attempt'[j][n].status = status
         /\ attempt'[j][n].disposition = disposition
         /\ attempt'[j][n].started <=> attempt[j][n].started
         /\ \A m \in Numbers \ {n} : attempt'[j][m] = attempt[j][m]
         /\ \A i \in Jobs \ {j} : attempt'[i] = attempt[i]
<1>1. /\ attempt'[j][n] = [attempt[j][n] EXCEPT !.status = status,
                                                !.disposition = disposition]
      /\ \A m \in Numbers \ {n} : attempt'[j][m] = attempt[j][m]
      /\ \A i \in Jobs \ {j} : attempt'[i] = attempt[i]
  BY PutFacts DEF CloseAttempt
<1> QED BY <1>1, RowTypes DEF AttemptRow

\* A Job that gives up its claim leaves the other Jobs alone.
LEMMA GivesUpStep ==
  ASSUME EngineInv, NEW j \in Jobs, NEW n \in Numbers, NEW status,
         GivesUp(j, n, status), SettlesRun(j, n, status),
         \A i \in Jobs \ {j} : Kept(i)
  PROVE  \A i \in Jobs : JobInv(i)'
<1>1. JobInv(j)'
  BY GivesUpInv DEF EngineInv
<1> QED BY <1>1, OnlyOneJob DEF EngineInv

\* succeed closes the holder and settles the Run.
LEMMA SucceedEffect ==
  ASSUME EngineInv, NEW t \in Instants, NEW j \in Jobs, NEW n \in Numbers,
         Succeed(j, n, t)
  PROVE  /\ GivesUp(j, n, "succeeded") /\ SettlesRun(j, n, "succeeded")
         /\ \A i \in Jobs \ {j} : Kept(i)
<1> USE DEF EngineInv
<1>1. /\ job[j].status = "running" /\ job[j].token = n
      /\ run[j].status = "running" /\ UNCHANGED calls
  BY DEF Succeed, JobHeld
<1>2. /\ job'[j] = Released(job[j], "succeeded")
      /\ run'[j] = [run[j] EXCEPT !.status = "succeeded"]
      /\ attempt'[j][n] = [attempt[j][n] EXCEPT !.status = "succeeded"]
      /\ \A m \in Numbers \ {n} : attempt'[j][m] = attempt[j][m]
  BY PutFacts DEF Succeed
<1>3. \A i \in Jobs \ {j} : Kept(i)
  BY <1>1, PutFacts DEF Succeed, Kept
<1>4. attempt'[j][n].status = "succeeded" /\ (attempt'[j][n].started <=> attempt[j][n].started)
  BY <1>2, RowTypes DEF AttemptRow
<1>5. /\ job'[j].status = "succeeded" /\ job'[j].count = job[j].count
      /\ job'[j].cancelRequested <=> job[j].cancelRequested
  BY <1>2, ReleasedColumns, RowTypes
<1>6. ~job[j].cancelRequested
  BY <1>1 DEF JobInv, SettlesTogether
<1>7. GivesUp(j, n, "succeeded")
  BY <1>1, <1>2, <1>4, <1>5, <1>6 DEF GivesUp, ActiveStatus, ClosedStatus
<1>8. run'[j].status = "succeeded" /\ run'[j].startedAt = run[j].startedAt
  BY <1>2, RowTypes DEF RunRow
<1>9. SettlesRun(j, n, "succeeded")
  BY <1>1, <1>8 DEF SettlesRun, TerminalStatus
<1> QED BY <1>3, <1>7, <1>9

\* A scheduled retry closes the holder as safely declined and keeps the Run running.
LEMMA RetryEffect ==
  ASSUME EngineInv, NEW t \in Instants, NEW j \in Jobs, NEW n \in Numbers,
         NEW code \in FailureCode, NEW anchor \in 1..t,
         ScheduleRetry(j, n, t, anchor, code)
  PROVE  /\ GivesUp(j, n, "retry_wait") /\ SettlesRun(j, n, "retry_wait")
         /\ \A i \in Jobs \ {j} : Kept(i)
<1> USE DEF EngineInv
<1>1. /\ job[j].status = "running" /\ job[j].token = n /\ ~job[j].cancelRequested
      /\ run[j].status = "running" /\ UNCHANGED <<run, calls>>
      /\ ~Dispatched(j, n) /\ DispositionFor(code) = "SAFE_TO_RETRY"
  BY DEF ScheduleRetry, FailureFence, JobHeld, Retryable
<1>2. job'[j] = [Released(job[j], "retry_wait") EXCEPT
                   !.available = anchor + RetryDelay(RetryOrdinal(j, n))]
  BY PutFacts DEF ScheduleRetry
<1>3. /\ attempt'[j][n].status = "failed"
      /\ attempt'[j][n].disposition = "SAFE_TO_RETRY"
      /\ attempt'[j][n].started <=> attempt[j][n].started
      /\ \A m \in Numbers \ {n} : attempt'[j][m] = attempt[j][m]
      /\ \A i \in Jobs \ {j} : attempt'[i] = attempt[i]
  BY <1>1, CloseAttemptFacts DEF ScheduleRetry
<1>4. \A i \in Jobs \ {j} : Kept(i)
  BY <1>1, <1>3, PutFacts DEF ScheduleRetry, Kept
<1>5. /\ job'[j].status = "retry_wait" /\ job'[j].count = job[j].count
      /\ ~job'[j].cancelRequested
  BY <1>1, <1>2, ReleasedColumns, RowTypes
<1>6. GivesUp(j, n, "retry_wait")
  BY <1>1, <1>3, <1>5 DEF GivesUp, ActiveStatus, ClosedStatus
<1>7. SafelyEnded(j, n)'
  BY <1>1, <1>3 DEF SafelyEnded, Dispatched
<1>8. SettlesRun(j, n, "retry_wait")
  BY <1>1, <1>7 DEF SettlesRun
<1> QED BY <1>4, <1>6, <1>8

\* A terminal failure closes the holder and settles the Run.
LEMMA CloseFailedEffect ==
  ASSUME EngineInv, NEW t \in Instants, NEW j \in Jobs, NEW n \in Numbers,
         NEW code \in FailureCode, CloseFailed(j, n, t, code)
  PROVE  /\ GivesUp(j, n, "failed") /\ SettlesRun(j, n, "failed")
         /\ \A i \in Jobs \ {j} : Kept(i)
<1> USE DEF EngineInv
<1>1. /\ job[j].status = "running" /\ job[j].token = n /\ ~job[j].cancelRequested
      /\ run[j].status = "running" /\ UNCHANGED calls
  BY DEF CloseFailed, FailureFence, JobHeld
<1>2. /\ job'[j] = Released(job[j], "failed")
      /\ run'[j] = [run[j] EXCEPT !.status = "failed", !.error = code]
  BY PutFacts DEF CloseFailed
<1>3. /\ attempt'[j][n].status = "failed"
      /\ attempt'[j][n].started <=> attempt[j][n].started
      /\ \A m \in Numbers \ {n} : attempt'[j][m] = attempt[j][m]
      /\ \A i \in Jobs \ {j} : attempt'[i] = attempt[i]
  BY CloseAttemptFacts DEF CloseFailed
<1>4. \A i \in Jobs \ {j} : Kept(i)
  BY <1>1, <1>3, PutFacts DEF CloseFailed, Kept
<1>5. /\ job'[j].status = "failed" /\ job'[j].count = job[j].count
      /\ ~job'[j].cancelRequested
  BY <1>1, <1>2, ReleasedColumns, RowTypes
<1>6. GivesUp(j, n, "failed")
  BY <1>1, <1>3, <1>5 DEF GivesUp, ActiveStatus, ClosedStatus
<1>7. /\ run'[j].status = "failed" /\ run'[j].startedAt = run[j].startedAt
      /\ run'[j].error # "worker_recovery_exhausted"
  BY <1>2, RowTypes DEF RunRow, FailureCode
<1>8. run[j].startedAt # NULL
  BY <1>1 DEF JobInv, StartIsKnown
<1>9. SettlesRun(j, n, "failed")
  BY <1>1, <1>7, <1>8 DEF SettlesRun, TerminalStatus
<1> QED BY <1>4, <1>6, <1>9

\* A pre-start requeue closes a holder that never started.
LEMMA RequeueEffect ==
  ASSUME EngineInv, NEW t \in Instants, NEW j \in Jobs, NEW n \in Numbers,
         ReclaimPreStartRequeue(j, n, t)
  PROVE  /\ GivesUp(j, n, "queued") /\ SettlesRun(j, n, "queued")
         /\ \A i \in Jobs \ {j} : Kept(i)
<1> USE DEF EngineInv
<1>1. /\ job[j].status = "claimed" /\ job[j].token = n /\ UNCHANGED <<run, calls>>
  BY DEF ReclaimPreStartRequeue, ReclaimFence
<1>2. job'[j] = [Released(job[j], "queued") EXCEPT !.available = t + ReclaimBackoff]
  BY PutFacts DEF ReclaimPreStartRequeue
<1>3. /\ attempt'[j][n].status = "expired"
      /\ attempt'[j][n].started <=> attempt[j][n].started
      /\ \A m \in Numbers \ {n} : attempt'[j][m] = attempt[j][m]
      /\ \A i \in Jobs \ {j} : attempt'[i] = attempt[i]
  BY CloseAttemptFacts DEF ReclaimPreStartRequeue
<1>4. \A i \in Jobs \ {j} : Kept(i)
  BY <1>1, <1>3, PutFacts DEF ReclaimPreStartRequeue, Kept
<1>5. /\ job'[j].status = "queued" /\ job'[j].count = job[j].count
      /\ ~job'[j].cancelRequested
  <2>1. ~job[j].cancelRequested
    BY <1>1 DEF JobInv, SettlesTogether
  <2> QED BY <2>1, <1>2, ReleasedColumns, RowTypes
<1>6. GivesUp(j, n, "queued")
  BY <1>1, <1>3, <1>5 DEF GivesUp, ActiveStatus, ClosedStatus
<1>7. ~attempt[j][n].started
  BY <1>1 DEF ReclaimPreStartRequeue, ReclaimFence, Reclaimable
<1>8. SettlesRun(j, n, "queued")
  BY <1>1, <1>3, <1>7 DEF SettlesRun, SafelyEnded
<1> QED BY <1>4, <1>6, <1>8

\* A pre-start exhaustion closes a holder of a Run that never started.
LEMMA ExhaustedEffect ==
  ASSUME EngineInv, NEW t \in Instants, NEW j \in Jobs, NEW n \in Numbers,
         ReclaimPreStartExhausted(j, n, t)
  PROVE  /\ GivesUp(j, n, "failed") /\ SettlesRun(j, n, "failed")
         /\ \A i \in Jobs \ {j} : Kept(i)
<1> USE DEF EngineInv
<1>1. /\ job[j].status = "claimed" /\ job[j].token = n /\ UNCHANGED calls
      /\ run[j].startedAt = NULL
  BY DEF ReclaimPreStartExhausted, ReclaimFence
<1>2. /\ job'[j] = Released(job[j], "failed")
      /\ run'[j] = [run[j] EXCEPT !.status = "failed",
                                  !.error = "worker_recovery_exhausted"]
  BY PutFacts DEF ReclaimPreStartExhausted
<1>3. /\ attempt'[j][n].status = "expired"
      /\ attempt'[j][n].started <=> attempt[j][n].started
      /\ \A m \in Numbers \ {n} : attempt'[j][m] = attempt[j][m]
      /\ \A i \in Jobs \ {j} : attempt'[i] = attempt[i]
  BY CloseAttemptFacts DEF ReclaimPreStartExhausted
<1>4. \A i \in Jobs \ {j} : Kept(i)
  BY <1>1, <1>3, PutFacts DEF ReclaimPreStartExhausted, Kept
<1>5. /\ job'[j].status = "failed" /\ job'[j].count = job[j].count
      /\ ~job'[j].cancelRequested
  <2>1. ~job[j].cancelRequested
    BY <1>1 DEF JobInv, SettlesTogether
  <2> QED BY <2>1, <1>2, ReleasedColumns, RowTypes
<1>6. GivesUp(j, n, "failed")
  BY <1>1, <1>3, <1>5 DEF GivesUp, ActiveStatus, ClosedStatus
<1>7. /\ run'[j].status = "failed" /\ run'[j].startedAt = run[j].startedAt
      /\ run'[j].error = "worker_recovery_exhausted"
  BY <1>2, RowTypes DEF RunRow
<1>8. SettlesRun(j, n, "failed")
  BY <1>1, <1>7 DEF SettlesRun, TerminalStatus
<1> QED BY <1>4, <1>6, <1>8

\* A post-start reclamation closes a started holder and settles the Run.
LEMMA AmbiguousEffect ==
  ASSUME EngineInv, NEW t \in Instants, NEW j \in Jobs, NEW n \in Numbers,
         ReclaimPostStartAmbiguous(j, n, t)
  PROVE  /\ GivesUp(j, n, "failed") /\ SettlesRun(j, n, "failed")
         /\ \A i \in Jobs \ {j} : Kept(i)
<1> USE DEF EngineInv
<1>1. /\ job[j].status = "running" /\ job[j].token = n
      /\ run[j].startedAt # NULL /\ ReconcileCalls(j, n)
  BY DEF ReclaimPostStartAmbiguous, ReclaimFence
<1>2. /\ job'[j] = Released(job[j], "failed")
      /\ run'[j] = [run[j] EXCEPT !.status = "failed",
                                  !.error = "execution_outcome_ambiguous"]
  BY PutFacts DEF ReclaimPostStartAmbiguous
<1>3. /\ attempt'[j][n].status = "expired"
      /\ attempt'[j][n].started <=> attempt[j][n].started
      /\ \A m \in Numbers \ {n} : attempt'[j][m] = attempt[j][m]
      /\ \A i \in Jobs \ {j} : attempt'[i] = attempt[i]
  BY CloseAttemptFacts DEF ReclaimPostStartAmbiguous
<1>4. \A i \in Jobs \ {j} : Kept(i)
  BY <1>1, <1>3, PutFacts DEF ReclaimPostStartAmbiguous, Kept
<1>5. /\ job'[j].status = "failed" /\ job'[j].count = job[j].count
      /\ ~job'[j].cancelRequested
  <2>1. ~job[j].cancelRequested
    BY <1>1 DEF JobInv, SettlesTogether
  <2> QED BY <2>1, <1>2, ReleasedColumns, RowTypes
<1>6. \A m \in Numbers \ {n} : calls'[j][m] = calls[j][m]
  BY <1>1, PutFacts
<1>7. GivesUp(j, n, "failed")
  BY <1>1, <1>3, <1>5, <1>6 DEF GivesUp, ActiveStatus, ClosedStatus
<1>8. /\ run'[j].status = "failed" /\ run'[j].startedAt = run[j].startedAt
      /\ run'[j].error # "worker_recovery_exhausted"
  BY <1>2, RowTypes DEF RunRow
<1>9. SettlesRun(j, n, "failed")
  BY <1>1, <1>8 DEF SettlesRun, TerminalStatus
<1> QED BY <1>4, <1>7, <1>9

\* An owner's cancellation closes the open Attempt, if there is one, and
\* otherwise writes the Job and the Run only.
LEMMA CancelEffect ==
  ASSUME EngineInv, NEW j \in Jobs, Cancel(j)
  PROVE  /\ \A i \in Jobs \ {j} : Kept(i)
         /\ JobInv(j)'
         /\ run'[j].status = "cancelled" /\ run[j].status \in {"created", "running"}
         /\ \A n \in Numbers : attempt'[j][n].started <=> attempt[j][n].started
<1> USE DEF EngineInv
<1>1. run[j].status \in {"created", "running"}
  BY DEF Cancel, Cancellable
<1>2. /\ job'[j].status = "cancelled" /\ job'[j].count = job[j].count
      /\ job'[j].cancelRequested
      /\ \A i \in Jobs \ {j} : job'[i] = job[i]
  <2>1. /\ job'[j] = [Released(job[j], "cancelled") EXCEPT !.cancelRequested = TRUE]
        /\ \A i \in Jobs \ {j} : job'[i] = job[i]
    BY PutFacts DEF Cancel
  <2> QED BY <2>1, ReleasedColumns, RowTypes
<1>3. /\ run'[j].status = "cancelled" /\ run'[j].startedAt = run[j].startedAt
      /\ \A i \in Jobs \ {j} : run'[i] = run[i]
  <2>1. /\ run'[j] = [run[j] EXCEPT !.status = "cancelled"]
        /\ \A i \in Jobs \ {j} : run'[i] = run[i]
    BY PutFacts DEF Cancel
  <2> QED BY <2>1, RowTypes DEF RunRow
<1>4. CASE ActiveNumbers(j) = {} /\ UNCHANGED <<attempt, calls>>
  <2>1. \A m \in Numbers : attempt[j][m].status \notin ActiveStatus
    BY <1>4 DEF ActiveNumbers
  <2>2. HeldByLatest(j)'
    BY <1>2, <1>4, <2>1 DEF HeldByLatest, ActiveStatus
  <2>3. SettlesTogether(j)'
    BY <1>2, <1>3, <1>4 DEF JobInv, SettlesTogether
  <2>4. StartIsKnown(j)'
    BY <1>3, <1>4 DEF JobInv, StartIsKnown
  <2>5. BoundaryKnown(j)'
    BY <1>4 DEF JobInv, BoundaryKnown
  <2>6. SupersededSafely(j)'
    BY <1>2, <1>4 DEF JobInv, SupersededSafely, Superseded, SafelyEnded, Dispatched
  <2>7. JobInv(j)'
    BY <1>2, <2>2, <2>3, <2>4, <2>5, <2>6 DEF JobInv, UnclaimedBeforeSubmission
  <2> QED BY <1>1, <1>2, <1>3, <1>4, <2>7 DEF Kept
<1>5. ASSUME NEW n \in ActiveNumbers(j),
             PutAttempt(j, n, [attempt[j][n] EXCEPT !.status = "cancelled"]),
             ReconcileCalls(j, n)
      PROVE  /\ \A i \in Jobs \ {j} : Kept(i)
             /\ JobInv(j)'
             /\ \A m \in Numbers : attempt'[j][m].started <=> attempt[j][m].started
  <2>1. n \in Numbers /\ attempt[j][n].status \in ActiveStatus
    BY DEF ActiveNumbers
  <2>2. /\ attempt'[j][n].status = "cancelled"
        /\ attempt'[j][n].started <=> attempt[j][n].started
        /\ \A m \in Numbers \ {n} : attempt'[j][m] = attempt[j][m]
        /\ \A i \in Jobs \ {j} : attempt'[i] = attempt[i]
    <3>1. /\ attempt'[j][n] = [attempt[j][n] EXCEPT !.status = "cancelled"]
          /\ \A m \in Numbers \ {n} : attempt'[j][m] = attempt[j][m]
          /\ \A i \in Jobs \ {j} : attempt'[i] = attempt[i]
      BY <1>5, <2>1, PutFacts
    <3> QED BY <2>1, <3>1, RowTypes DEF AttemptRow
  <2>3. /\ \A m \in Numbers \ {n} : calls'[j][m] = calls[j][m]
        /\ \A i \in Jobs \ {j} : calls'[i] = calls[i]
    BY <1>5, <2>1, PutFacts
  <2>4. job[j].status \in ActiveStatus /\ job[j].token = n
    BY <2>1 DEF JobInv, HeldByLatest
  <2>5. GivesUp(j, n, "cancelled")
    BY <1>2, <2>2, <2>3, <2>4 DEF GivesUp, ActiveStatus, ClosedStatus
  <2>6. SettlesRun(j, n, "cancelled")
    BY <1>3 DEF SettlesRun, TerminalStatus
  <2>7. \A i \in Jobs \ {j} : Kept(i)
    BY <1>2, <1>3, <2>2, <2>3 DEF Kept
  <2> QED BY <2>1, <2>2, <2>5, <2>6, <2>7, GivesUpInv
<1> QED BY <1>1, <1>3, <1>4, <1>5 DEF Cancel, Cancellable

\* insert_run_and_job_on_connection preserves the invariant of every Job.
LEMMA SubmitInv ==
  ASSUME EngineInv, BoundAssumption, NEW t \in Instants, NEW j \in Jobs, NEW a, NEW p,
         Submit(j, a, p, t)
  PROVE  \A i \in Jobs : JobInv(i)'
<1> USE DEF EngineInv
<1>1. job[j].status = "absent" /\ UNCHANGED <<attempt, calls>>
  BY DEF Submit
<1>2. /\ job'[j].status = "queued" /\ job'[j].count = 0 /\ ~job'[j].cancelRequested
      /\ \A i \in Jobs \ {j} : job'[i] = job[i]
  BY PutFacts DEF Submit
<1>3. /\ run'[j].status = "created" /\ run'[j].startedAt = NULL
      /\ \A i \in Jobs \ {j} : run'[i] = run[i]
  BY PutFacts DEF Submit
<1>4. \A n \in Numbers : attempt[j][n].status = "absent" /\ ~attempt[j][n].started
  <2>1. job[j].count = 0
    BY <1>1 DEF JobInv, UnclaimedBeforeSubmission
  <2>2. \A n \in Numbers : attempt[j][n].status = "absent"
    BY <2>1 DEF JobInv, SettlesTogether, Numbers
  <2> QED BY <2>2 DEF JobInv, BoundaryKnown
<1>5. JobInv(j)'
  <2>1. HeldByLatest(j)'
    BY <1>1, <1>2, <1>4 DEF HeldByLatest, ActiveStatus
  <2>2. SettlesTogether(j)'
    BY <1>1, <1>2, <1>3, <1>4 DEF SettlesTogether, TerminalStatus, Numbers
  <2>3. StartIsKnown(j)'
    BY <1>1, <1>3, <1>4 DEF StartIsKnown
  <2>4. BoundaryKnown(j)'
    BY <1>1, <1>4 DEF BoundaryKnown
  <2>5. SupersededSafely(j)'
    BY <1>2 DEF SupersededSafely, Superseded, Numbers
  <2> QED BY <1>2, <2>1, <2>2, <2>3, <2>4, <2>5 DEF JobInv, UnclaimedBeforeSubmission
<1> QED BY <1>1, <1>2, <1>3, <1>5, OnlyOneJob DEF Kept

\* _claim_once preserves the invariant: the new Attempt follows only safely ended ones.
LEMMA ClaimInv ==
  ASSUME EngineInv, BoundAssumption, NEW t \in Instants, NEW w \in Workers, Claim(w, t)
  PROVE  \A i \in Jobs : JobInv(i)'
<1> USE DEF EngineInv
<1> DEFINE n(j) == job[j].count + 1
           row == [status |-> "claimed", started |-> FALSE,
                   disposition |-> "none", lease |-> t + LeaseDuration]
<1>1. PICK j \in NextClaim(w, t) :
        /\ PutJob(j, [job[j] EXCEPT !.status = "claimed", !.token = n(j),
                                    !.lease = t + LeaseDuration, !.count = n(j)])
        /\ PutAttempt(j, n(j), row)
  BY DEF Claim
<1>2. /\ j \in Jobs /\ job[j].count < MaxAttempts
      /\ \/ job[j].status = "queued" /\ run[j].status = "created"
         \/ job[j].status = "retry_wait" /\ run[j].status = "running"
  BY <1>1 DEF NextClaim, Candidates, Heads, Eligible, ClaimableSources
<1>3. /\ n(j) \in Numbers /\ job[j].count \in 0..MaxAttempts
      /\ ~job[j].cancelRequested
  <2>1. job[j].count \in 0..MaxAttempts
    BY <1>2, RowTypes DEF JobRow
  <2> QED BY <1>2, <2>1 DEF Numbers, BoundAssumption, JobInv, SettlesTogether
<1>4. /\ job'[j].status = "claimed" /\ job'[j].token = n(j) /\ job'[j].count = n(j)
      /\ job'[j].lease = t + LeaseDuration /\ ~job'[j].cancelRequested
      /\ \A i \in Jobs \ {j} : job'[i] = job[i]
  <2>1. /\ job'[j] = [job[j] EXCEPT !.status = "claimed", !.token = n(j),
                                    !.lease = t + LeaseDuration, !.count = n(j)]
        /\ \A i \in Jobs \ {j} : job'[i] = job[i]
    BY <1>1, <1>2, PutFacts
  <2> QED BY <1>2, <1>3, <2>1, RowTypes DEF JobRow
<1>5. /\ attempt'[j][n(j)].status = "claimed" /\ ~attempt'[j][n(j)].started
      /\ attempt'[j][n(j)].lease = t + LeaseDuration
      /\ \A m \in Numbers \ {n(j)} : attempt'[j][m] = attempt[j][m]
      /\ \A i \in Jobs \ {j} : attempt'[i] = attempt[i]
  BY <1>1, <1>2, <1>3, PutFacts
<1>6. UNCHANGED <<run, calls>>
  BY DEF Claim
<1>7. \A m \in Numbers : attempt[j][m].status \notin ActiveStatus
  BY <1>2 DEF JobInv, HeldByLatest, ActiveStatus
<1>8. attempt[j][n(j)].status = "absent" /\ ~attempt[j][n(j)].started
  <2>1. attempt[j][n(j)].status = "absent"
    BY <1>2, <1>3 DEF JobInv, SettlesTogether
  <2> QED BY <1>2, <1>3, <2>1 DEF JobInv, BoundaryKnown
<1>9. JobInv(j)'
  <2>1. HeldByLatest(j)'
    BY <1>3, <1>4, <1>5, <1>7 DEF HeldByLatest, ActiveStatus
  <2>2. SettlesTogether(j)'
    <3>1. \A m \in Numbers : attempt'[j][m].status # "absent" <=> m =< job'[j].count
      <4>1. \A m \in Numbers : attempt[j][m].status # "absent" <=> m =< job[j].count
        BY <1>2 DEF JobInv, SettlesTogether
      <4> QED BY <1>3, <1>4, <1>5, <4>1 DEF Numbers
    <3> QED BY <1>2, <1>4, <1>6, <3>1 DEF SettlesTogether, TerminalStatus
  <2>3. StartIsKnown(j)'
    <3>1. (\E m \in Numbers : attempt'[j][m].started) <=>
          (\E m \in Numbers : attempt[j][m].started)
      BY <1>5, <1>8
    <3> QED BY <1>2, <1>6, <3>1 DEF JobInv, StartIsKnown
  <2>4. BoundaryKnown(j)'
    BY <1>2, <1>5 DEF JobInv, BoundaryKnown
  <2>5. SupersededSafely(j)'
    <3> SUFFICES ASSUME NEW m \in Numbers, Superseded(j, m)' PROVE SafelyEnded(j, m)'
      BY DEF SupersededSafely
    <3>1. m =< job[j].count /\ m # n(j)
      BY <1>3, <1>4 DEF Superseded, Numbers
    <3>2. SafelyEnded(j, m)
      BY <1>2, <3>1 DEF JobInv, SupersededSafely, Superseded
    <3> QED BY <1>5, <1>6, <3>1, <3>2 DEF SafelyEnded, Dispatched
  <2> QED BY <1>4, <2>1, <2>2, <2>3, <2>4, <2>5 DEF JobInv, UnclaimedBeforeSubmission
<1> QED BY <1>2, <1>4, <1>5, <1>6, <1>9, OnlyOneJob DEF Kept

\* renew_lease moves the lease of the Job and of its holder together.
LEMMA RenewInv ==
  ASSUME EngineInv, NEW t \in Instants, NEW j \in Jobs, NEW n \in Numbers,
         RenewLease(j, n, t)
  PROVE  \A i \in Jobs : JobInv(i)'
<1> USE DEF EngineInv
<1>1. /\ job[j].status = "running" /\ job[j].token = n /\ UNCHANGED <<run, calls>>
      /\ job[j].count = n
  BY DEF RenewLease, JobHeld, JobInv, HeldByLatest, ActiveStatus
<1>2. /\ job'[j].status = "running" /\ job'[j].token = n /\ job'[j].count = n
      /\ job'[j].lease = t + LeaseDuration
      /\ job'[j].cancelRequested <=> job[j].cancelRequested
      /\ \A i \in Jobs \ {j} : job'[i] = job[i]
  <2>1. /\ job'[j] = [job[j] EXCEPT !.lease = t + LeaseDuration]
        /\ \A i \in Jobs \ {j} : job'[i] = job[i]
    BY PutFacts DEF RenewLease
  <2> QED BY <1>1, <2>1, RowTypes DEF JobRow
<1>3. /\ attempt'[j][n].lease = t + LeaseDuration
      /\ \A m \in Numbers : /\ attempt'[j][m].status = attempt[j][m].status
                            /\ attempt'[j][m].started <=> attempt[j][m].started
                            /\ attempt'[j][m].disposition = attempt[j][m].disposition
      /\ \A i \in Jobs \ {j} : attempt'[i] = attempt[i]
  <2>1. /\ attempt'[j][n] = [attempt[j][n] EXCEPT !.lease = t + LeaseDuration]
        /\ \A m \in Numbers \ {n} : attempt'[j][m] = attempt[j][m]
        /\ \A i \in Jobs \ {j} : attempt'[i] = attempt[i]
    BY PutFacts DEF RenewLease
  <2>2. /\ attempt'[j][n].status = attempt[j][n].status
        /\ attempt'[j][n].started <=> attempt[j][n].started
        /\ attempt'[j][n].disposition = attempt[j][n].disposition
        /\ attempt'[j][n].lease = t + LeaseDuration
    BY <2>1, RowTypes DEF AttemptRow
  <2> QED BY <2>1, <2>2
<1>4. JobInv(j)'
  <2>1. HeldByLatest(j)'
    BY <1>1, <1>2, <1>3 DEF JobInv, HeldByLatest
  <2>2. SettlesTogether(j)'
    BY <1>1, <1>2, <1>3 DEF JobInv, SettlesTogether
  <2>3. StartIsKnown(j)'
    BY <1>1, <1>3 DEF JobInv, StartIsKnown
  <2>4. BoundaryKnown(j)'
    BY <1>3 DEF JobInv, BoundaryKnown
  <2>5. SupersededSafely(j)'
    BY <1>1, <1>2, <1>3
    DEF JobInv, SupersededSafely, Superseded, SafelyEnded, Dispatched
  <2> QED BY <1>2, <2>1, <2>2, <2>3, <2>4, <2>5 DEF JobInv, UnclaimedBeforeSubmission
<1> QED BY <1>1, <1>2, <1>3, <1>4, OnlyOneJob DEF Kept

\* A tool call is written only under the running Attempt that holds the Job, and
\* such an Attempt is not superseded.
LEMMA CallInv ==
  ASSUME EngineInv, NEW j \in Jobs, NEW n \in Numbers,
         attempt[j][n].status = "running", UNCHANGED <<job, run, attempt>>,
         \A m \in Numbers \ {n} : calls'[j][m] = calls[j][m],
         \A i \in Jobs \ {j} : calls'[i] = calls[i]
  PROVE  \A i \in Jobs : JobInv(i)'
<1> USE DEF EngineInv
<1>1. ~Superseded(j, n)
  BY DEF JobInv, SupersededSafely, SafelyEnded
<1>2. SupersededSafely(j)'
  BY <1>1 DEF JobInv, SupersededSafely, Superseded, SafelyEnded, Dispatched
<1>3. JobInv(j)'
  BY <1>2 DEF JobInv, HeldByLatest, SettlesTogether, StartIsKnown, BoundaryKnown,
              UnclaimedBeforeSubmission
<1> QED BY <1>3, OnlyOneJob DEF Kept

\* The empty tables satisfy the inductive invariant.
LEMMA EngineInit == IdAssumption /\ BoundAssumption /\ Init => EngineInv
<1> SUFFICES ASSUME IdAssumption, BoundAssumption, Init PROVE EngineInv
  OBVIOUS
<1>1. TypeOK
  BY TypeInit
<1>2. ASSUME NEW j \in Jobs PROVE JobInv(j)
  <2>1. /\ job[j].status = "absent" /\ job[j].count = 0 /\ ~job[j].cancelRequested
        /\ run[j].status = "absent" /\ run[j].startedAt = NULL
        /\ \A n \in Numbers : attempt[j][n].status = "absent" /\ ~attempt[j][n].started
    BY DEF Init, AbsentJob, AbsentRun, AbsentAttempt
  <2>2. HeldByLatest(j)
    BY <2>1 DEF HeldByLatest, ActiveStatus
  <2>3. SettlesTogether(j)
    BY <2>1 DEF SettlesTogether, TerminalStatus, Numbers
  <2>4. StartIsKnown(j) /\ BoundaryKnown(j) /\ UnclaimedBeforeSubmission(j)
    BY <2>1 DEF StartIsKnown, BoundaryKnown, UnclaimedBeforeSubmission
  <2>5. SupersededSafely(j)
    BY <2>1 DEF SupersededSafely, Superseded, Numbers
  <2> QED BY <2>2, <2>3, <2>4, <2>5 DEF JobInv
<1> QED BY <1>1, <1>2 DEF EngineInv

\* Every step of every actor preserves the inductive invariant.
LEMMA EngineStep ==
  EngineInv /\ IdAssumption /\ BoundAssumption /\ [Next]_vars => EngineInv'
<1> SUFFICES ASSUME EngineInv, IdAssumption, BoundAssumption, [Next]_vars
             PROVE  EngineInv'
  OBVIOUS
<1> DEFINE Preserved == \A i \in Jobs : JobInv(i)'
<1>1. TypeOK'
  BY TypeStep DEF EngineInv
<1>2. ASSUME Tick \/ UNCHANGED vars PROVE Preserved
  <2>1. \A i \in Jobs : Kept(i)
    BY <1>2 DEF Tick, vars, Kept
  <2> QED BY <2>1, KeptInv DEF EngineInv
<1>3. ASSUME NEW t \in Instants, NEW j \in Jobs, NEW i \in Instances,
             Submit(j, i[1], i[2], t)
      PROVE  Preserved
  BY <1>3, SubmitInv
<1>4. ASSUME NEW t \in Instants, NEW w \in Workers, Claim(w, t) PROVE Preserved
  BY <1>4, ClaimInv
<1>5. ASSUME NEW t \in Instants, NEW j \in Jobs, NEW n \in Numbers, OwnerStep(j, n, t)
      PROVE  Preserved
  <2>1. CASE Start(j, n, t)
    BY <2>1, StartInv
  <2>2. CASE RenewLease(j, n, t)
    BY <2>2, RenewInv
  <2>3. CASE Succeed(j, n, t)
    BY <2>3, SucceedEffect, GivesUpStep
  <2>4. ASSUME NEW code \in FailureCode, CloseFailed(j, n, t, code) PROVE Preserved
    BY <2>4, CloseFailedEffect, GivesUpStep
  <2>5. ASSUME NEW code \in FailureCode, NEW anchor \in 1..t,
               ScheduleRetry(j, n, t, anchor, code)
        PROVE  Preserved
    BY <2>5, RetryEffect, GivesUpStep
  <2>6. ASSUME NEW k \in Slots, NEW status, SetCall(j, n, k, status),
               CallAuthority(j, n, t), UNCHANGED <<job, run, attempt>>
        PROVE  Preserved
    <3>1. attempt[j][n].status = "running"
      BY <2>6 DEF CallAuthority, AttemptOpen
    <3>2. /\ \A m \in Numbers \ {n} : calls'[j][m] = calls[j][m]
          /\ \A i \in Jobs \ {j} : calls'[i] = calls[i]
      BY <2>6, PutFacts DEF EngineInv
    <3> QED BY <2>6, <3>1, <3>2, CallInv
  <2>7. ASSUME NEW k \in Slots, RequestCall(j, n, k, t) PROVE Preserved
    BY <2>6, <2>7 DEF RequestCall
  <2>8. ASSUME NEW k \in Slots, NEW allowed \in BOOLEAN, StartCall(j, n, k, t, allowed)
        PROVE  Preserved
    BY <2>6, <2>8 DEF StartCall
  <2>9. ASSUME NEW k \in Slots, NEW outcome \in CallOutcome,
               ConcludeCall(j, n, k, t, outcome)
        PROVE  Preserved
    BY <2>6, <2>9 DEF ConcludeCall
  <2>10. ASSUME NEW k \in Slots, WithdrawCall(j, n, k, t) PROVE Preserved
    BY <2>6, <2>10 DEF WithdrawCall
  <2>11. ASSUME RefuseCall(j, n, t) PROVE Preserved
    <3>1. \A i \in Jobs : Kept(i)
      BY <2>11 DEF RefuseCall, Kept
    <3> QED BY <3>1, KeptInv DEF EngineInv
  <2> QED BY <1>5, <2>1, <2>2, <2>3, <2>4, <2>5, <2>7, <2>8, <2>9, <2>10, <2>11
          DEF OwnerStep
<1>6. ASSUME NEW t \in Instants, NEW j \in Jobs, NEW n \in Numbers, Reclaim(j, n, t)
      PROVE  Preserved
  BY <1>6, RequeueEffect, ExhaustedEffect, AmbiguousEffect, GivesUpStep DEF Reclaim
<1>7. ASSUME NEW j \in Jobs, Cancel(j) PROVE Preserved
  BY <1>7, CancelEffect, OnlyOneJob DEF EngineInv
<1>8. Preserved
  BY <1>2, <1>3, <1>4, <1>5, <1>6, <1>7 DEF Next
<1> QED BY <1>1, <1>8 DEF EngineInv

\* The invariant holds in every reachable state of the engine.
THEOREM EngineInvariant == Spec => []EngineInv
<1>1. Init => EngineInv
  BY EngineInit, IdAssumption, BoundAssumption
<1>2. EngineInv /\ [Next]_vars => EngineInv'
  BY EngineStep, IdAssumption, BoundAssumption
<1> QED BY <1>1, <1>2, PTL DEF Spec

-----------------------------------------------------------------------------
(* What follows from it.                                                   *)

\* One authority per Job: the token, status and lease of a claimed Job agree with
\* those of its one open Attempt (claim_next and the writes fenced on the claim).
THEOREM ClaimAgreementHolds == Spec => []ClaimAgreement
<1>1. EngineInv => ClaimAgreement
  BY DEF EngineInv, JobInv, ClaimAgreement
<1> QED BY <1>1, EngineInvariant, PTL

\* No blind replay, for any number of Jobs, Workers, Attempts and tool calls: an
\* Attempt is superseded only if it ended before its start boundary, or was
\* declined as safe to retry without having dispatched a tool call.
THEOREM ReplayOnlyWhenSafeHolds == Spec => []ReplayOnlyWhenSafe
<1>1. ASSUME EngineInv PROVE ReplayOnlyWhenSafe
  <2> SUFFICES ASSUME NEW j \in Jobs, NEW m \in Numbers, NEW n \in Numbers, m < n,
                      attempt[j][n].status # "absent"
               PROVE  SafelyEnded(j, m)
    BY DEF ReplayOnlyWhenSafe
  <2>1. n =< job[j].count /\ job[j].count \in 0..MaxAttempts
    BY <1>1, RowTypes DEF EngineInv, JobInv, SettlesTogether, JobRow
  <2>2. Superseded(j, m)
    BY <2>1 DEF Superseded, Numbers
  <2> QED BY <1>1, <2>2 DEF EngineInv, JobInv, SupersededSafely
<1> QED BY <1>1, EngineInvariant, PTL

\* Job and Run settle together (every terminal write of the engine moves both).
THEOREM SettlementAgreementHolds == Spec => []SettlementAgreement
<1>1. EngineInv => SettlementAgreement
  BY DEF EngineInv, JobInv, SettlementAgreement
<1> QED BY <1>1, EngineInvariant, PTL

\* Run.started_at and worker_recovery_exhausted tell whether execution began.
THEOREM StartTruthfulHolds == Spec => []StartTruthful
<1>1. EngineInv => StartTruthful
  BY DEF EngineInv, JobInv, StartTruthful
<1> QED BY <1>1, EngineInvariant, PTL

-----------------------------------------------------------------------------
(* The scope of a step.  Every operation is about one Job whose Run is not *)
(* settled, rewrites no closed Attempt of it, and never moves started_at.  *)

Untouched(i) == Kept(i) /\ timeline'[i] = timeline[i]

Touches(j) ==
  /\ run[j].status \notin TerminalStatus
  /\ \A i \in Jobs \ {j} : Untouched(i)
  /\ \A n \in Numbers : attempt[j][n].status \in ClosedStatus =>
       attempt'[j][n] = attempt[j][n] /\ calls'[j][n] = calls[j][n]
  /\ run[j].startedAt # NULL => run'[j].startedAt = run[j].startedAt

\* An event is appended to one timeline only.
LEMMA LogFacts ==
  ASSUME TypeOK, NEW j \in Jobs, NEW events, Log(j, events)
  PROVE  \A i \in Jobs \ {j} : timeline'[i] = timeline[i]
BY DEF Log, TypeOK

\* The Run of a claimed Job is not settled, and Attempt n, which holds it, is open.
LEMMA HolderIsOpen ==
  ASSUME EngineInv, NEW j \in Jobs, NEW n \in Numbers,
         job[j].status \in ActiveStatus, job[j].token = n
  PROVE  run[j].status \notin TerminalStatus /\ attempt[j][n].status \notin ClosedStatus
<1>1. attempt[j][n].status = job[j].status
  BY DEF EngineInv, JobInv, HeldByLatest
<1>2. run[j].status \notin TerminalStatus
  BY DEF EngineInv, JobInv, SettlesTogether, TerminalStatus, ActiveStatus
<1> QED BY <1>1, <1>2 DEF ActiveStatus, ClosedStatus

\* An owner write or a reclamation touches one unsettled Job and its open Attempt only.
LEMMA OwnerScope ==
  ASSUME EngineInv, NEW t \in Instants, NEW j \in Jobs, NEW n \in Numbers,
         OwnerStep(j, n, t) \/ Reclaim(j, n, t)
  PROVE  Touches(j)
<1> USE DEF EngineInv
<1>1. job[j].status \in ActiveStatus /\ job[j].token = n
  BY DEF OwnerStep, Reclaim, Start, RenewLease, Succeed, CloseFailed, ScheduleRetry,
         RequestCall, WithdrawCall, RefuseCall, StartCall, ConcludeCall,
         ReclaimPreStartRequeue,
         ReclaimPreStartExhausted, ReclaimPostStartAmbiguous, ReclaimFence,
         CallAuthority, FailureFence, JobHeld, ActiveStatus
<1>2. run[j].status \notin TerminalStatus /\ attempt[j][n].status \notin ClosedStatus
  BY <1>1, HolderIsOpen
<1>3. /\ \A i \in Jobs \ {j} : job'[i] = job[i]
      /\ \A i \in Jobs \ {j} : run'[i] = run[i]
  <2>1. UNCHANGED job \/ \E row : PutJob(j, row)
    BY DEF OwnerStep, Reclaim, Start, RenewLease, Succeed, CloseFailed, ScheduleRetry,
           RequestCall, WithdrawCall, RefuseCall, StartCall, ConcludeCall,
         ReclaimPreStartRequeue,
           ReclaimPreStartExhausted, ReclaimPostStartAmbiguous
  <2>2. UNCHANGED run \/ \E row : PutRun(j, row)
    BY DEF OwnerStep, Reclaim, Start, RenewLease, Succeed, CloseFailed, ScheduleRetry,
           RequestCall, WithdrawCall, RefuseCall, StartCall, ConcludeCall,
         ReclaimPreStartRequeue,
           ReclaimPreStartExhausted, ReclaimPostStartAmbiguous
  <2> QED BY <2>1, <2>2, PutFacts
<1>4. /\ \A m \in Numbers \ {n} : attempt'[j][m] = attempt[j][m]
      /\ \A i \in Jobs \ {j} : attempt'[i] = attempt[i]
  <2>1. UNCHANGED attempt \/ \E row : PutAttempt(j, n, row)
    BY DEF OwnerStep, Reclaim, Start, RenewLease, Succeed, CloseFailed, ScheduleRetry,
           RequestCall, WithdrawCall, RefuseCall, StartCall, ConcludeCall,
         ReclaimPreStartRequeue,
           ReclaimPreStartExhausted, ReclaimPostStartAmbiguous, CloseAttempt
  <2> QED BY <2>1, PutFacts
<1>5. /\ \A m \in Numbers \ {n} : calls'[j][m] = calls[j][m]
      /\ \A i \in Jobs \ {j} : calls'[i] = calls[i]
  <2>1. \/ UNCHANGED calls \/ ReconcileCalls(j, n)
        \/ \E k \in Slots : \E status : SetCall(j, n, k, status)
    BY DEF OwnerStep, Reclaim, Start, RenewLease, Succeed, CloseFailed, ScheduleRetry,
           RequestCall, WithdrawCall, RefuseCall, StartCall, ConcludeCall,
         ReclaimPreStartRequeue,
           ReclaimPreStartExhausted, ReclaimPostStartAmbiguous
  <2> QED BY <2>1, PutFacts
<1>6. \A i \in Jobs \ {j} : timeline'[i] = timeline[i]
  <2>1. UNCHANGED timeline \/ \E events : Log(j, events)
    BY DEF OwnerStep, Reclaim, Start, RenewLease, Succeed, CloseFailed, ScheduleRetry,
           RequestCall, WithdrawCall, RefuseCall, StartCall, ConcludeCall,
         ReclaimPreStartRequeue,
           ReclaimPreStartExhausted, ReclaimPostStartAmbiguous
  <2> QED BY <2>1, LogFacts
<1>7. run[j].startedAt # NULL => run'[j].startedAt = run[j].startedAt
  <2>1. CASE Start(j, n, t)
    <3>1. run[j].startedAt # NULL => UNCHANGED run
      BY <2>1 DEF Start, JobInv, StartIsKnown
    <3> QED BY <3>1
  <2>2. CASE ~Start(j, n, t)
    <3>1. \/ UNCHANGED run
          \/ \E s : PutRun(j, [run[j] EXCEPT !.status = s])
          \/ \E s, e : PutRun(j, [run[j] EXCEPT !.status = s, !.error = e])
      BY <2>2 DEF OwnerStep, Reclaim, RenewLease, Succeed, CloseFailed, ScheduleRetry,
             RequestCall, WithdrawCall, RefuseCall, StartCall, ConcludeCall,
         ReclaimPreStartRequeue,
             ReclaimPreStartExhausted, ReclaimPostStartAmbiguous
    <3>2. ASSUME NEW s, PutRun(j, [run[j] EXCEPT !.status = s])
          PROVE  run'[j].startedAt = run[j].startedAt
      <4>1. run'[j] = [run[j] EXCEPT !.status = s]
        BY <3>2, PutFacts
      <4> QED BY <4>1, RowTypes DEF RunRow
    <3>3. ASSUME NEW s, NEW e, PutRun(j, [run[j] EXCEPT !.status = s, !.error = e])
          PROVE  run'[j].startedAt = run[j].startedAt
      <4>1. run'[j] = [run[j] EXCEPT !.status = s, !.error = e]
        BY <3>3, PutFacts
      <4> QED BY <4>1, RowTypes DEF RunRow
    <3> QED BY <3>1, <3>2, <3>3
  <2> QED BY <2>1, <2>2
<1> QED BY <1>2, <1>3, <1>4, <1>5, <1>6, <1>7 DEF Touches, Untouched, Kept

\* A submission touches one absent Job only.
LEMMA SubmitScope ==
  ASSUME EngineInv, NEW t, NEW j \in Jobs, NEW a, NEW p, Submit(j, a, p, t)
  PROVE  Touches(j)
<1> USE DEF EngineInv
<1>1. run[j].status = "absent"
  BY DEF Submit, JobInv, SettlesTogether
<1>2. run[j].startedAt = NULL
  <2>1. job[j].count = 0
    BY DEF Submit, JobInv, UnclaimedBeforeSubmission
  <2>2. \A n \in Numbers : attempt[j][n].status = "absent"
    BY <2>1 DEF JobInv, SettlesTogether, Numbers
  <2> QED BY <2>2 DEF JobInv, BoundaryKnown, StartIsKnown
<1>3. \A i \in Jobs \ {j} : Untouched(i)
  BY PutFacts, LogFacts DEF Submit, Untouched, Kept
<1> QED BY <1>1, <1>2, <1>3 DEF Touches, Submit, TerminalStatus

\* A claim touches one unsettled Job and an absent Attempt of it only.
LEMMA ClaimScope ==
  ASSUME EngineInv, NEW t \in Instants, NEW w \in Workers, Claim(w, t)
  PROVE  \E j \in Jobs : Touches(j)
<1> USE DEF EngineInv
<1>1. PICK j \in NextClaim(w, t) :
        /\ \E row : PutJob(j, row)
        /\ \E row : PutAttempt(j, job[j].count + 1, row)
        /\ \E events : Log(j, events)
  BY DEF Claim
<1>2. /\ j \in Jobs /\ job[j].count < MaxAttempts
      /\ run[j].status \in {"created", "running"} /\ job[j].status \in {"queued", "retry_wait"}
  BY <1>1 DEF NextClaim, Candidates, Heads, Eligible, ClaimableSources
<1>3. job[j].count + 1 \in Numbers
  BY <1>2, RowTypes, BoundAssumption DEF JobRow, Numbers, BoundAssumption
<1>4. attempt[j][job[j].count + 1].status = "absent"
  <2>1. job[j].count \in 0..MaxAttempts
    BY <1>2, RowTypes DEF JobRow
  <2> QED BY <1>2, <1>3, <2>1, BoundAssumption DEF JobInv, SettlesTogether, BoundAssumption
<1>5. /\ \A i \in Jobs \ {j} : job'[i] = job[i] /\ attempt'[i] = attempt[i]
      /\ \A m \in Numbers \ {job[j].count + 1} : attempt'[j][m] = attempt[j][m]
      /\ \A i \in Jobs \ {j} : timeline'[i] = timeline[i]
  BY <1>1, <1>2, <1>3, PutFacts, LogFacts
<1>6. UNCHANGED <<run, calls>>
  BY DEF Claim
<1>7. Touches(j)
  BY <1>2, <1>4, <1>5, <1>6 DEF Touches, Untouched, Kept, ClosedStatus, TerminalStatus
<1> QED BY <1>2, <1>7

\* A cancellation touches one unsettled Job and its open Attempt only.
LEMMA CancelScope ==
  ASSUME EngineInv, NEW j \in Jobs, Cancel(j)
  PROVE  Touches(j)
<1> USE DEF EngineInv
<1>1. /\ \A i \in Jobs \ {j} : job'[i] = job[i] /\ run'[i] = run[i]
      /\ run'[j].startedAt = run[j].startedAt
  <2>1. /\ run'[j] = [run[j] EXCEPT !.status = "cancelled"]
        /\ \A i \in Jobs \ {j} : job'[i] = job[i] /\ run'[i] = run[i]
    BY PutFacts DEF Cancel
  <2> QED BY <2>1, RowTypes DEF RunRow
<1>2. \A i \in Jobs \ {j} : timeline'[i] = timeline[i]
  <2>1. \E events : Log(j, events)
    BY DEF Cancel, Cancellable
  <2> QED BY <2>1, LogFacts
<1>3. /\ \A i \in Jobs \ {j} : attempt'[i] = attempt[i] /\ calls'[i] = calls[i]
      /\ \A n \in Numbers : attempt[j][n].status \in ClosedStatus =>
           attempt'[j][n] = attempt[j][n] /\ calls'[j][n] = calls[j][n]
  <2>1. CASE UNCHANGED <<attempt, calls>>
    BY <2>1
  <2>2. ASSUME NEW n \in ActiveNumbers(j), NEW row, PutAttempt(j, n, row),
               ReconcileCalls(j, n)
        PROVE  /\ \A i \in Jobs \ {j} : attempt'[i] = attempt[i] /\ calls'[i] = calls[i]
               /\ \A m \in Numbers : attempt[j][m].status \in ClosedStatus =>
                    attempt'[j][m] = attempt[j][m] /\ calls'[j][m] = calls[j][m]
    <3>1. n \in Numbers /\ attempt[j][n].status \notin ClosedStatus
      BY DEF ActiveNumbers, ActiveStatus, ClosedStatus
    <3> QED BY <2>2, <3>1, PutFacts
  <2> QED BY <2>1, <2>2 DEF Cancel
<1>4. run[j].status \notin TerminalStatus
  BY DEF Cancel, Cancellable, TerminalStatus
<1> QED BY <1>1, <1>2, <1>3, <1>4 DEF Touches, Untouched, Kept

\* Every step leaves all Jobs alone or touches exactly one, unsettled, Job.
LEMMA StepScope ==
  ASSUME EngineInv, [Next]_vars
  PROVE  (\A i \in Jobs : Untouched(i)) \/ (\E j \in Jobs : Touches(j))
<1>1. CASE Tick \/ UNCHANGED vars
  BY <1>1 DEF Tick, vars, Untouched, Kept
<1>2. ASSUME NEW t \in Instants, NEW j \in Jobs, NEW i \in Instances,
             Submit(j, i[1], i[2], t)
      PROVE  Touches(j)
  BY <1>2, SubmitScope
<1>3. ASSUME NEW t \in Instants, NEW w \in Workers, Claim(w, t)
      PROVE  \E j \in Jobs : Touches(j)
  BY <1>3, ClaimScope
<1>4. ASSUME NEW t \in Instants, NEW j \in Jobs, NEW n \in Numbers,
             OwnerStep(j, n, t) \/ Reclaim(j, n, t)
      PROVE  Touches(j)
  BY <1>4, OwnerScope
<1>5. ASSUME NEW j \in Jobs, Cancel(j) PROVE Touches(j)
  BY <1>5, CancelScope
<1> QED BY <1>1, <1>2, <1>3, <1>4, <1>5 DEF Next

\* A settled Run is final: no late start, result, heartbeat, tool call,
\* reclamation or cancellation changes a row or an event of it.
THEOREM SettledIsFrozenHolds == Spec => SettledIsFrozen
<1> DEFINE Frozen == \A j \in Jobs : run[j].status \in TerminalStatus =>
                       UNCHANGED <<run[j], job[j], attempt[j], calls[j], timeline[j]>>
<1>1. EngineInv /\ [Next]_vars => Frozen
  BY StepScope DEF Touches, Untouched, Kept
<1>2. EngineInv /\ [Next]_vars => [Frozen]_vars
  BY <1>1
<1> QED BY <1>2, EngineInvariant, PTL DEF Spec, SettledIsFrozen

\* A closed Attempt and its tool calls are immutable: a Worker that lost its
\* claim cannot write to the Attempt it used to own.
THEOREM ClosedAttemptIsFrozenHolds == Spec => ClosedAttemptIsFrozen
<1> DEFINE Frozen == \A j \in Jobs, n \in Numbers :
                       attempt[j][n].status \in ClosedStatus =>
                         UNCHANGED <<attempt[j][n], calls[j][n]>>
<1>1. EngineInv /\ [Next]_vars => Frozen
  BY StepScope DEF Touches, Untouched, Kept
<1>2. EngineInv /\ [Next]_vars => [Frozen]_vars
  BY <1>1
<1> QED BY <1>2, EngineInvariant, PTL DEF Spec, ClosedAttemptIsFrozen

\* Run.started_at is written once, by the first start.
THEOREM StartedAtIsWriteOnceHolds == Spec => StartedAtIsWriteOnce
<1> DEFINE Once == \A j \in Jobs : run[j].startedAt # NULL => UNCHANGED run[j].startedAt
<1>1. EngineInv /\ [Next]_vars => Once
  BY StepScope DEF Touches, Untouched, Kept
<1>2. EngineInv /\ [Next]_vars => [Once]_vars
  BY <1>1
<1> QED BY <1>2, EngineInvariant, PTL DEF Spec, StartedAtIsWriteOnce

\* Settled Runs, closed Attempts and the first start of a Run never change, in
\* any interleaving of Workers, reclamation and cancellation.
THEOREM HistoryIsFrozenHolds == Spec => HistoryIsFrozen
BY SettledIsFrozenHolds, ClosedAttemptIsFrozenHolds, StartedAtIsWriteOnceHolds
   DEF HistoryIsFrozen

-----------------------------------------------------------------------------
(* Refinement.  phaseBar and begunBar are the mapping of JobEngine's       *)
(* instance of RunLifecycle.                                               *)

phaseBar == [j \in Jobs |-> PhaseOf(j)]
Begun(j) == {n \in Numbers : attempt[j][n].started}
begunBar == [j \in Jobs |-> Begun(j)]

\* An operation about Job j moves the phase of j only; the executions that began
\* change only when the started column of one of its Attempts does.
LEMMA BarMove ==
  ASSUME NEW j \in Jobs, \A i \in Jobs \ {j} : Kept(i)
  PROVE  /\ phaseBar' = [phaseBar EXCEPT ![j] = PhaseOf(j)']
         /\ begunBar' = [begunBar EXCEPT ![j] = Begun(j)']
<1>1. \A i \in Jobs \ {j} : PhaseOf(i)' = PhaseOf(i) /\ Begun(i)' = Begun(i)
  BY DEF Kept, PhaseOf, Begun
<1> QED BY <1>1 DEF phaseBar, begunBar

\* A step that keeps phase and executions of its Job is a stutter of the promise.
LEMMA BarStay ==
  ASSUME NEW j \in Jobs, \A i \in Jobs \ {j} : Kept(i),
         PhaseOf(j)' = PhaseOf(j), Begun(j)' = Begun(j)
  PROVE  UNCHANGED <<phaseBar, begunBar>>
BY BarMove DEF phaseBar, begunBar

\* The steps of the promise, in terms of the engine's rows.
LEMMA AcceptBar ==
  ASSUME NEW j \in Jobs, \A i \in Jobs \ {j} : Kept(i), Begun(j)' = Begun(j),
         PhaseOf(j) = "absent", PhaseOf(j)' = "accepted"
  PROVE  Lifecycle!Next
<1>1. Lifecycle!Accept(j)
  BY BarMove, ZenonT(30) DEF Lifecycle!Accept, phaseBar, begunBar, Begun
<1> QED BY <1>1 DEF Lifecycle!Next

\* A Job that starts executing maps to Begin.
LEMMA BeginBar ==
  ASSUME NEW j \in Jobs, NEW n \in Numbers, \A i \in Jobs \ {j} : Kept(i),
         PhaseOf(j) \in {"accepted", "declined"}, PhaseOf(j)' = "executing",
         n \notin Begun(j), Begun(j)' = Begun(j) \cup {n}
  PROVE  Lifecycle!Next
<1>1. Lifecycle!Begin(j, n)
  BY BarMove DEF Lifecycle!Begin, phaseBar, begunBar, Begun
<1> QED BY <1>1 DEF Lifecycle!Next

\* A Job that leaves execution unsettled maps to Decline.
LEMMA DeclineBar ==
  ASSUME NEW j \in Jobs, \A i \in Jobs \ {j} : Kept(i), Begun(j)' = Begun(j),
         PhaseOf(j) = "executing", PhaseOf(j)' = "declined"
  PROVE  Lifecycle!Next
<1>1. Lifecycle!Decline(j)
  BY BarMove, ZenonT(30) DEF Lifecycle!Decline, phaseBar, begunBar, Begun
<1> QED BY <1>1 DEF Lifecycle!Next

\* A Job that settles maps to Settle.
LEMMA SettleBar ==
  ASSUME NEW j \in Jobs, \A i \in Jobs \ {j} : Kept(i), Begun(j)' = Begun(j),
         NEW outcome \in TerminalStatus, PhaseOf(j)' = outcome,
         PhaseOf(j) \in {"accepted", "executing", "declined"},
         outcome = "succeeded" => PhaseOf(j) = "executing",
         outcome = "failed" => PhaseOf(j) = "executing" \/ Begun(j) = {}
  PROVE  Lifecycle!Next
<1>1. Lifecycle!Settle(j, outcome)
  BY BarMove, ZenonT(30) DEF Lifecycle!Settle, Lifecycle!Pending, phaseBar, begunBar, Begun
<1> QED BY <1>1 DEF Lifecycle!Next, Lifecycle!Settled, TerminalStatus

\* Closing an Attempt begins no execution.
LEMMA GivesUpBar ==
  ASSUME NEW j \in Jobs, NEW n \in Numbers, NEW status, GivesUp(j, n, status)
  PROVE  Begun(j)' = Begun(j)
BY DEF GivesUp, Begun

\* A settled Run has the phase of its outcome.
LEMMA RunSettlesBar ==
  ASSUME NEW j \in Jobs, NEW n \in Numbers, NEW status \in TerminalStatus,
         SettlesRun(j, n, status)
  PROVE  PhaseOf(j)' = status
BY DEF SettlesRun, TerminalStatus, PhaseOf

\* A claimed Job has not begun; a running one executes.
LEMMA HeldPhase ==
  ASSUME EngineInv, NEW j \in Jobs, job[j].status \in ActiveStatus
  PROVE  /\ run[j].status \in {"created", "running"}
         /\ job[j].status = "running" => PhaseOf(j) = "executing"
         /\ job[j].status = "claimed" /\ run[j].status = "created" => PhaseOf(j) = "accepted"
         /\ job[j].status = "claimed" /\ run[j].status = "running" => PhaseOf(j) = "declined"
<1>1. run[j].status \in {"created", "running"}
  <2>1. run[j].status \notin {"absent"} \cup TerminalStatus
    BY DEF EngineInv, JobInv, SettlesTogether, ActiveStatus, TerminalStatus
  <2> QED BY <2>1, RowTypes DEF EngineInv, RunRow, RunStatus
<1>2. job[j].status = "running" => run[j].status = "running"
  BY DEF EngineInv, JobInv, SettlesTogether
<1> QED BY <1>1, <1>2 DEF PhaseOf

\* The execution-start boundary maps to Begin, of an execution that never began.
LEMMA StartBar ==
  ASSUME EngineInv, NEW t \in Instants, NEW j \in Jobs, NEW n \in Numbers, Start(j, n, t)
  PROVE  Lifecycle!Next
<1> USE DEF EngineInv
<1>1. job[j].status = "claimed" /\ attempt[j][n].status = "claimed"
  BY DEF Start, JobHeld, AttemptOpen
<1>2. PhaseOf(j) \in {"accepted", "declined"}
  BY <1>1, HeldPhase DEF ActiveStatus
<1>3. \A i \in Jobs \ {j} : Kept(i)
  BY OwnerScope DEF OwnerStep, Touches, Untouched
<1>4. job'[j].status = "running"
  <2>1. job'[j] = [job[j] EXCEPT !.status = "running"]
    BY PutFacts DEF Start
  <2> QED BY <2>1, RowTypes DEF JobRow
<1>5. run'[j].status = "running"
  <2>1. CASE run[j].status = "created"
    <3>1. run'[j] = [run[j] EXCEPT !.status = "running", !.startedAt = t]
      BY <2>1, PutFacts DEF Start
    <3> QED BY <3>1, RowTypes DEF RunRow
  <2>2. CASE run[j].status # "created"
    BY <2>2 DEF Start, StartableRun
  <2> QED BY <2>1, <2>2
<1>6. n \notin Begun(j)
  BY <1>1 DEF Begun, JobInv, BoundaryKnown
<1>7. Begun(j)' = Begun(j) \cup {n}
  <2>1. /\ attempt'[j][n] = [attempt[j][n] EXCEPT !.status = "running", !.started = TRUE]
        /\ \A m \in Numbers \ {n} : attempt'[j][m] = attempt[j][m]
    BY PutFacts DEF Start
  <2>2. attempt'[j][n].started
    BY <2>1, RowTypes DEF AttemptRow
  <2> QED BY <2>1, <2>2 DEF Begun
<1>8. PhaseOf(j)' = "executing"
  BY <1>4, <1>5 DEF PhaseOf
<1> QED BY <1>2, <1>3, <1>6, <1>7, <1>8, BeginBar

\* Every owner write maps to a step of the promise or a stutter.
LEMMA OwnerBar ==
  ASSUME EngineInv, NEW t \in Instants, NEW j \in Jobs, NEW n \in Numbers,
         OwnerStep(j, n, t)
  PROVE  Lifecycle!Next \/ UNCHANGED <<phaseBar, begunBar>>
<1> USE DEF EngineInv
<1>1. \A i \in Jobs \ {j} : Kept(i)
  BY OwnerScope DEF Touches, Untouched
<1>2. CASE Start(j, n, t)
  BY <1>2, StartBar
<1>3. CASE RenewLease(j, n, t)
  <2>1. /\ job'[j] = [job[j] EXCEPT !.lease = t + LeaseDuration]
        /\ attempt'[j][n] = [attempt[j][n] EXCEPT !.lease = t + LeaseDuration]
        /\ \A m \in Numbers \ {n} : attempt'[j][m] = attempt[j][m]
        /\ run' = run
    BY <1>3, PutFacts DEF RenewLease
  <2>2. /\ job'[j].status = job[j].status
        /\ attempt'[j][n].started <=> attempt[j][n].started
    BY <2>1, RowTypes DEF JobRow, AttemptRow
  <2>3. PhaseOf(j)' = PhaseOf(j) /\ Begun(j)' = Begun(j)
    BY <2>1, <2>2 DEF PhaseOf, Begun
  <2> QED BY <1>1, <2>3, BarStay
<1>4. CASE Succeed(j, n, t)
  <2>1. PhaseOf(j) = "executing"
    BY <1>4, HeldPhase DEF Succeed, JobHeld, ActiveStatus
  <2> QED BY <1>1, <1>4, <2>1, SucceedEffect, GivesUpBar, RunSettlesBar, SettleBar
          DEF TerminalStatus
<1>5. ASSUME NEW code \in FailureCode, CloseFailed(j, n, t, code) PROVE Lifecycle!Next
  <2>1. PhaseOf(j) = "executing"
    BY <1>5, HeldPhase DEF CloseFailed, FailureFence, JobHeld, ActiveStatus
  <2> QED BY <1>1, <1>5, <2>1, CloseFailedEffect, GivesUpBar, RunSettlesBar, SettleBar
          DEF TerminalStatus
<1>6. ASSUME NEW code \in FailureCode, NEW anchor \in 1..t,
             ScheduleRetry(j, n, t, anchor, code)
      PROVE  Lifecycle!Next
  <2>1. PhaseOf(j) = "executing"
    BY <1>6, HeldPhase DEF ScheduleRetry, FailureFence, JobHeld, ActiveStatus
  <2>2. GivesUp(j, n, "retry_wait") /\ SettlesRun(j, n, "retry_wait")
    BY <1>6, RetryEffect
  <2>3. PhaseOf(j)' = "declined"
    BY <2>2 DEF PhaseOf, GivesUp, SettlesRun, TerminalStatus
  <2> QED BY <1>1, <2>1, <2>2, <2>3, GivesUpBar, DeclineBar
<1>7. ASSUME UNCHANGED <<job, run, attempt>> PROVE UNCHANGED <<phaseBar, begunBar>>
  BY <1>7 DEF phaseBar, begunBar, PhaseOf, Begun
<1> QED BY <1>2, <1>3, <1>4, <1>5, <1>6, <1>7
        DEF OwnerStep, RequestCall, WithdrawCall, RefuseCall, StartCall, ConcludeCall

\* Every reclamation maps to a step of the promise or a stutter.
LEMMA ReclaimBar ==
  ASSUME EngineInv, NEW t \in Instants, NEW j \in Jobs, NEW n \in Numbers,
         Reclaim(j, n, t)
  PROVE  Lifecycle!Next \/ UNCHANGED <<phaseBar, begunBar>>
<1> USE DEF EngineInv
<1>1. \A i \in Jobs \ {j} : Kept(i)
  BY OwnerScope DEF Touches, Untouched
<1>2. CASE ReclaimPreStartRequeue(j, n, t)
  <2>1. GivesUp(j, n, "queued") /\ SettlesRun(j, n, "queued")
    BY <1>2, RequeueEffect
  <2>2. job[j].status = "claimed"
    BY <1>2 DEF ReclaimPreStartRequeue
  <2>3. run[j].status \in {"created", "running"}
    BY <2>2, HeldPhase DEF ActiveStatus
  <2>4. PhaseOf(j)' = PhaseOf(j)
    BY <2>1, <2>2, <2>3 DEF PhaseOf, GivesUp, SettlesRun, TerminalStatus
  <2> QED BY <1>1, <2>1, <2>4, GivesUpBar, BarStay
<1>3. CASE ReclaimPreStartExhausted(j, n, t)
  <2>1. job[j].status = "claimed" /\ run[j].status = "created" /\ run[j].startedAt = NULL
    BY <1>3 DEF ReclaimPreStartExhausted
  <2>2. PhaseOf(j) = "accepted"
    BY <2>1 DEF PhaseOf
  <2>3. Begun(j) = {}
    BY <2>1 DEF Begun, JobInv, StartIsKnown
  <2> QED BY <1>1, <1>3, <2>2, <2>3, ExhaustedEffect, GivesUpBar, RunSettlesBar, SettleBar
          DEF TerminalStatus
<1>4. CASE ReclaimPostStartAmbiguous(j, n, t)
  <2>1. PhaseOf(j) = "executing"
    BY <1>4, HeldPhase DEF ReclaimPostStartAmbiguous, ActiveStatus
  <2> QED BY <1>1, <1>4, <2>1, AmbiguousEffect, GivesUpBar, RunSettlesBar, SettleBar
          DEF TerminalStatus
<1> QED BY <1>2, <1>3, <1>4 DEF Reclaim

\* A claim is a stutter of the promise.
LEMMA ClaimBar ==
  ASSUME EngineInv, NEW t \in Instants, NEW w \in Workers, Claim(w, t)
  PROVE  UNCHANGED <<phaseBar, begunBar>>
<1> USE DEF EngineInv
<1> DEFINE n(j) == job[j].count + 1
           row == [status |-> "claimed", started |-> FALSE,
                   disposition |-> "none", lease |-> t + LeaseDuration]
<1>1. PICK j \in NextClaim(w, t) :
        /\ PutJob(j, [job[j] EXCEPT !.status = "claimed", !.token = n(j),
                                    !.lease = t + LeaseDuration, !.count = n(j)])
        /\ PutAttempt(j, n(j), row)
  BY DEF Claim
<1>2. /\ j \in Jobs /\ job[j].count < MaxAttempts
      /\ \/ job[j].status = "queued" /\ run[j].status = "created"
         \/ job[j].status = "retry_wait" /\ run[j].status = "running"
  BY <1>1 DEF NextClaim, Candidates, Heads, Eligible, ClaimableSources
<1>3. job[j].count \in 0..MaxAttempts /\ n(j) \in Numbers
  <2>1. job[j].count \in 0..MaxAttempts
    BY <1>2, RowTypes DEF JobRow
  <2> QED BY <1>2, <2>1, BoundAssumption DEF Numbers, BoundAssumption
<1>4. /\ \A i \in Jobs \ {j} : job'[i] = job[i] /\ attempt'[i] = attempt[i]
      /\ \A m \in Numbers \ {n(j)} : attempt'[j][m] = attempt[j][m]
      /\ attempt'[j][n(j)] = row
      /\ job'[j] = [job[j] EXCEPT !.status = "claimed", !.token = n(j),
                                  !.lease = t + LeaseDuration, !.count = n(j)]
  BY <1>1, <1>2, <1>3, PutFacts
<1>5. UNCHANGED <<run, calls>>
  BY DEF Claim
<1>6. job'[j].status = "claimed" /\ ~attempt'[j][n(j)].started
  BY <1>2, <1>4, RowTypes DEF JobRow
<1>7. PhaseOf(j)' = PhaseOf(j)
  BY <1>2, <1>5, <1>6 DEF PhaseOf
<1>8. Begun(j)' = Begun(j)
  <2>1. attempt[j][n(j)].status = "absent"
    BY <1>2, <1>3 DEF JobInv, SettlesTogether
  <2>2. ~attempt[j][n(j)].started
    BY <1>2, <1>3, <2>1 DEF JobInv, BoundaryKnown
  <2> QED BY <1>4, <1>6, <2>2 DEF Begun
<1> QED BY <1>2, <1>4, <1>5, <1>7, <1>8, BarStay DEF Kept

\* Every step of the engine maps to a step of the promise or a stutter.
LEMMA LifecycleStep ==
  EngineInv /\ [Next]_vars => [Lifecycle!Next]_(Lifecycle!lifecycleVars)
<1> SUFFICES ASSUME EngineInv, [Next]_vars
             PROVE  Lifecycle!Next \/ UNCHANGED <<phaseBar, begunBar>>
  BY DEF Lifecycle!lifecycleVars, phaseBar, begunBar, Begun
<1>1. CASE Tick \/ UNCHANGED vars
  BY <1>1 DEF Tick, vars, phaseBar, begunBar, PhaseOf, Begun
<1>2. ASSUME NEW t \in Instants, NEW j \in Jobs, NEW i \in Instances,
             Submit(j, i[1], i[2], t)
      PROVE  Lifecycle!Next
  <2>1. \A k \in Jobs \ {j} : Kept(k)
    BY <1>2, SubmitScope DEF Touches, Untouched
  <2>2. PhaseOf(j) = "absent"
    <3>1. run[j].status = "absent"
      BY <1>2 DEF Submit, EngineInv, JobInv, SettlesTogether
    <3> QED BY <3>1 DEF PhaseOf
  <2>3. PhaseOf(j)' = "accepted" /\ Begun(j)' = Begun(j)
    <3>1. run'[j].status = "created" /\ UNCHANGED attempt
      BY <1>2, PutFacts DEF Submit, EngineInv
    <3> QED BY <3>1 DEF PhaseOf, Begun
  <2> QED BY <2>1, <2>2, <2>3, AcceptBar
<1>3. ASSUME NEW j \in Jobs, Cancel(j) PROVE Lifecycle!Next
  <2>1. /\ \A i \in Jobs \ {j} : Kept(i)
        /\ run'[j].status = "cancelled" /\ run[j].status \in {"created", "running"}
        /\ Begun(j)' = Begun(j)
    BY <1>3, CancelEffect DEF Begun
  <2>2. PhaseOf(j)' = "cancelled" /\ PhaseOf(j) \in {"accepted", "executing", "declined"}
    BY <2>1 DEF PhaseOf
  <2> QED BY <2>1, <2>2, SettleBar DEF TerminalStatus
<1> QED BY <1>1, <1>2, <1>3, OwnerBar, ReclaimBar, ClaimBar DEF Next

\* The engine implements the promise of RunLifecycle for every Run: no execution
\* begins twice, beside another one, or after an outcome that is not a decline,
\* and a settled Run stays as it is.
THEOREM ImplementsLifecycleHolds == Spec => ImplementsLifecycle
<1>1. Init => Lifecycle!Init
  BY DEF Init, Lifecycle!Init, PhaseOf, AbsentRun, AbsentAttempt
<1>2. EngineInv /\ [Next]_vars => [Lifecycle!Next]_(Lifecycle!lifecycleVars)
  BY LifecycleStep
<1> QED BY <1>1, <1>2, EngineInvariant, PTL DEF Spec, ImplementsLifecycle, Lifecycle!Spec

-----------------------------------------------------------------------------
(* The timeline.  Each operation appends the events of exactly what it     *)
(* wrote, so the number of events of a kind keeps pace with the rows.      *)

\* How often event e occurs in a sequence of events.
Occurrences(s, e) == Cardinality({i \in DOMAIN s : s[i] = e})

\* Occurrences are counted by a natural number, and in both parts of a sequence.
LEMMA OccurrencesConcat ==
  ASSUME NEW R, NEW s \in Seq(R), NEW u \in Seq(R), NEW e
  PROVE  /\ Occurrences(s, e) \in Nat
         /\ Occurrences(s \o u, e) = Occurrences(s, e) + Occurrences(u, e)
<1> DEFINE S == {i \in DOMAIN s : s[i] = e}
           U == {i \in DOMAIN u : u[i] = e}
           V == {i \in DOMAIN (s \o u) : (s \o u)[i] = e}
           W == V \ S
<1>1. IsFiniteSet(1..Len(s)) /\ IsFiniteSet(1..Len(u)) /\ IsFiniteSet(1..Len(s \o u))
  <2>1. Len(s) \in Int /\ Len(u) \in Int /\ Len(s \o u) \in Int
    OBVIOUS
  <2> QED BY <2>1, FS_Interval
<1>2. S \subseteq 1..Len(s) /\ U \subseteq 1..Len(u) /\ V \subseteq 1..Len(s \o u)
  OBVIOUS
<1>3. IsFiniteSet(S) /\ IsFiniteSet(U) /\ IsFiniteSet(V)
  BY <1>1, <1>2, FS_Subset
<1>4. S \subseteq V
  OBVIOUS
<1>5. W = {i \in (Len(s) + 1)..(Len(s) + Len(u)) : u[i - Len(s)] = e}
  OBVIOUS
<1>6. Cardinality(W) = Cardinality(U)
  <2> DEFINE f == [i \in U |-> i + Len(s)]
  <2>1. \A i \in U : i + Len(s) \in W
    BY <1>5
  <2>2. \A i \in W : i - Len(s) \in U /\ i = (i - Len(s)) + Len(s)
    BY <1>5
  <2>3. \A i, k \in U : i + Len(s) = k + Len(s) => i = k
    OBVIOUS
  <2> HIDE DEF U, W
  <2>4. f \in [U -> W] /\ \A i, k \in U : f[i] = f[k] => i = k
    BY <2>1, <2>3
  <2>5. \A w \in W : \E i \in U : f[i] = w
    BY <2>2
  <2>6. f \in Bijection(U, W)
    BY <2>4, <2>5 DEF Bijection, Injection, Surjection, IsInjective
  <2> QED BY <2>6, <1>3, FS_Bijection DEF ExistsBijection
<1> HIDE DEF S, U, V
<1>7. Cardinality(W) = Cardinality(V) - Cardinality(V \cap S)
  BY <1>3, FS_Difference
<1>8. Cardinality(V \cap S) = Cardinality(S)
  <2>1. V \cap S = S
    BY <1>4
  <2> QED BY <2>1, Zenon
<1> HIDE DEF W
<1>9. Cardinality(S) \in Nat /\ Cardinality(U) \in Nat /\ Cardinality(V) \in Nat
  BY <1>3, FS_CardinalityType
<1>10. Cardinality(V) = Cardinality(S) + Cardinality(U)
  BY <1>6, <1>7, <1>8, <1>9
<1> QED BY <1>9, <1>10 DEF Occurrences, S, U, V

\* No event occurs in the empty sequence, and each event once in its own.
LEMMA OccurrencesOne ==
  ASSUME NEW x, NEW e
  PROVE  /\ Occurrences(<< >>, e) = 0
         /\ Occurrences(<<x>>, e) = IF x = e THEN 1 ELSE 0
<1>1. {i \in DOMAIN << >> : << >>[i] = e} = {}
  OBVIOUS
<1>2. {i \in DOMAIN <<x>> : <<x>>[i] = e} = IF x = e THEN {1} ELSE {}
  OBVIOUS
<1>3. Cardinality({}) = 0 /\ Cardinality({1}) = 1
  BY FS_EmptySet, FS_Singleton
<1> QED BY <1>1, <1>2, <1>3 DEF Occurrences

\* The occurrences in the short sequences that the operations append.
LEMMA OccurrencesShort ==
  ASSUME NEW x \in RunEventType, NEW y \in RunEventType, NEW z \in RunEventType, NEW e
  PROVE  /\ Occurrences(<<x, y>>, e) = Occurrences(<<x>>, e) + Occurrences(<<y>>, e)
         /\ Occurrences(<<x, y, z>>, e) =
              Occurrences(<<x>>, e) + Occurrences(<<y>>, e) + Occurrences(<<z>>, e)
<1>1. <<x>> \in Seq(RunEventType) /\ <<y>> \in Seq(RunEventType) /\ <<z>> \in Seq(RunEventType) /\ <<x, y>> \in Seq(RunEventType)
  OBVIOUS
<1> DEFINE p == <<x>> \o <<y>>
           q == <<x, y>> \o <<z>>
<1>2. p = <<x, y>>
  <2>1. p \in Seq(RunEventType) /\ Len(p) = 2 /\ p[1] = x /\ p[2] = y
    BY <1>1
  <2> HIDE DEF p
  <2> QED BY <2>1
<1>3. q = <<x, y, z>>
  <2>1. q \in Seq(RunEventType) /\ Len(q) = 3 /\ q[1] = x /\ q[2] = y /\ q[3] = z
    BY <1>1
  <2> HIDE DEF q
  <2> QED BY <2>1
<1>4. /\ Occurrences(p, e) = Occurrences(<<x>>, e) + Occurrences(<<y>>, e)
      /\ Occurrences(q, e) = Occurrences(<<x, y>>, e) + Occurrences(<<z>>, e)
  BY <1>1, OccurrencesConcat
<1> QED BY <1>2, <1>3, <1>4

\* The events of a reconciliation are tool.ambiguous, one per started call.
LEMMA OccurrencesAmbiguous ==
  ASSUME BoundAssumption, NEW j \in Jobs, NEW n \in Numbers, NEW e
  PROVE  Occurrences(AmbiguousEvents(j, n), e) =
           IF e = "tool.ambiguous"
           THEN Cardinality({k \in Slots : calls[j][n][k] = "started"}) ELSE 0
<1> DEFINE S == {k \in Slots : calls[j][n][k] = "started"}
<1>1. IsFiniteSet(Slots)
  BY FS_Interval, SMT DEF BoundAssumption, Slots
<1>2. Cardinality(S) \in Nat
  BY <1>1, FS_Subset, FS_CardinalityType, S \subseteq Slots
<1> HIDE DEF S
<1>3. AmbiguousEvents(j, n) = [i \in 1..Cardinality(S) |-> "tool.ambiguous"]
  BY DEF AmbiguousEvents, S
<1> DEFINE s == [i \in 1..Cardinality(S) |-> "tool.ambiguous"]
<1>4. {i \in DOMAIN s : s[i] = e} = IF e = "tool.ambiguous" THEN 1..Cardinality(S) ELSE {}
  OBVIOUS
<1>5. Cardinality(1..Cardinality(S)) = Cardinality(S) /\ Cardinality({}) = 0
  BY <1>2, FS_Interval, FS_EmptySet
<1>6. Occurrences(s, e) = IF e = "tool.ambiguous" THEN Cardinality(S) ELSE 0
  BY <1>4, <1>5 DEF Occurrences
<1> QED BY <1>3, <1>6 DEF S


\* The counts of the timeline are those of the rows.
Counts(j) ==
  /\ Occurrences(timeline[j], "attempt.claimed") = job[j].count
  /\ Occurrences(timeline[j], "attempt.started") = Cardinality(Begun(j))
  /\ Occurrences(timeline[j], "tool.requested") =
       Cardinality(CallRows(j, CallStatus \ {"absent"}))
  /\ Occurrences(timeline[j], "tool.started") = Cardinality(CallRows(j, DispatchedCall))
  /\ Occurrences(timeline[j], "tool.ambiguous") = Cardinality(CallRows(j, {"ambiguous"}))

ClosingEvent(status) ==
  CASE status = "succeeded" -> "run.succeeded"
    [] status = "failed" -> "run.failed"
    [] OTHER -> "run.cancelled"

NoClosing(s) == \A i \in DOMAIN s : s[i] \notin TerminalEvent

EndsWith(s, e) ==
  /\ Len(s) >= 1 /\ s[Len(s)] = e
  /\ \A i \in DOMAIN s : i # Len(s) => s[i] \notin TerminalEvent

\* The closing event is the last one of a settled Run, and there is none before.
Closing(j) ==
  /\ run[j].status \notin TerminalStatus => NoClosing(timeline[j])
  /\ run[j].status \in TerminalStatus =>
       EndsWith(timeline[j], ClosingEvent(run[j].status))

Told(j) == Counts(j) /\ Closing(j)

EngineStory == EngineInv /\ \A j \in Jobs : Told(j)

\* Events that tell what a step did to the rows of Job j ...
Recounts(j, events) ==
  /\ events \in Seq(RunEventType) /\ timeline'[j] = timeline[j] \o events
  /\ job'[j].count = job[j].count + Occurrences(events, "attempt.claimed")
  /\ Cardinality(Begun(j)') =
       Cardinality(Begun(j)) + Occurrences(events, "attempt.started")
  /\ Cardinality(CallRows(j, CallStatus \ {"absent"})') =
       Cardinality(CallRows(j, CallStatus \ {"absent"})) + Occurrences(events, "tool.requested")
  /\ Cardinality(CallRows(j, DispatchedCall)') =
       Cardinality(CallRows(j, DispatchedCall)) + Occurrences(events, "tool.started")
  /\ Cardinality(CallRows(j, {"ambiguous"})') =
       Cardinality(CallRows(j, {"ambiguous"})) + Occurrences(events, "tool.ambiguous")

\* ... and close the story exactly when the step settles the Run.
Concludes(j, events) ==
  \/ run'[j].status \notin TerminalStatus /\ NoClosing(events)
  \/ /\ run'[j].status \in TerminalStatus
     /\ EndsWith(events, ClosingEvent(run'[j].status))

\* A closing event is the last of a story that had none before.
LEMMA ClosingConcat ==
  ASSUME NEW R, NEW s \in Seq(R), NEW u \in Seq(R), NEW e, NoClosing(s), EndsWith(u, e)
  PROVE  EndsWith(s \o u, e)
<1>1. /\ Len(s \o u) = Len(s) + Len(u) /\ DOMAIN (s \o u) = 1..(Len(s) + Len(u))
      /\ \A i \in 1..(Len(s) + Len(u)) :
           (s \o u)[i] = IF i <= Len(s) THEN s[i] ELSE u[i - Len(s)]
      /\ Len(s) \in Nat /\ Len(u) \in Nat /\ DOMAIN s = 1..Len(s) /\ DOMAIN u = 1..Len(u)
  OBVIOUS
<1>2. Len(u) >= 1 /\ u[Len(u)] = e
  BY DEF EndsWith
<1>3. Len(s \o u) >= 1 /\ (s \o u)[Len(s \o u)] = e
  BY <1>1, <1>2
<1>4. \A i \in DOMAIN (s \o u) : i # Len(s \o u) => (s \o u)[i] \notin TerminalEvent
  <2> SUFFICES ASSUME NEW i \in 1..(Len(s) + Len(u)), i # Len(s) + Len(u)
               PROVE  (s \o u)[i] \notin TerminalEvent
    BY <1>1
  <2>1. CASE i <= Len(s)
    BY <1>1, <2>1 DEF NoClosing
  <2>2. CASE i > Len(s)
    <3>1. i - Len(s) \in DOMAIN u /\ i - Len(s) # Len(u) /\ (s \o u)[i] = u[i - Len(s)]
      BY <1>1, <2>2
    <3> QED BY <3>1 DEF EndsWith
  <2> QED BY <1>1, <2>1, <2>2
<1> QED BY <1>3, <1>4 DEF EndsWith

\* What an operation does not touch keeps its story.
LEMMA UntouchedStory ==
  ASSUME NEW i \in Jobs, Told(i), Untouched(i) PROVE Told(i)'
<1>1. Begun(i)' = Begun(i)
  BY DEF Untouched, Kept, Begun
<1>2. \A S : CallRows(i, S)' = CallRows(i, S)
  BY DEF Untouched, Kept, CallRows
<1>3. timeline'[i] = timeline[i] /\ job'[i] = job[i] /\ run'[i] = run[i]
  BY DEF Untouched, Kept
<1>4. Counts(i)'
  <2>1. /\ CallRows(i, CallStatus \ {"absent"})' = CallRows(i, CallStatus \ {"absent"})
        /\ CallRows(i, DispatchedCall)' = CallRows(i, DispatchedCall)
        /\ CallRows(i, {"ambiguous"})' = CallRows(i, {"ambiguous"})
    BY DEF Untouched, Kept, CallRows
  <2> QED BY <1>1, <1>3, <2>1, Zenon DEF Told, Counts
<1>5. Closing(i)'
  BY <1>3, Zenon DEF Told, Closing
<1> QED BY <1>4, <1>5 DEF Told

\* A step about a Job of an open Run whose events tell what it did keeps its story.
LEMMA RecountedStory ==
  ASSUME TypeOK, NEW j \in Jobs, Told(j), NEW events, Recounts(j, events),
         Concludes(j, events), run[j].status \notin TerminalStatus
  PROVE  Told(j)'
<1>1. timeline[j] \in Seq(RunEventType) /\ events \in Seq(RunEventType)
  BY DEF TypeOK, Recounts
<1>2. \A e : Occurrences(timeline'[j], e) = Occurrences(timeline[j], e) + Occurrences(events, e)
  BY <1>1, OccurrencesConcat DEF Recounts
<1>3. Counts(j)'
  <2>1. /\ Occurrences(timeline'[j], "attempt.claimed") = job'[j].count
        /\ Occurrences(timeline'[j], "attempt.started") = Cardinality(Begun(j)')
    BY <1>2, Zenon DEF Recounts, Told, Counts
  <2>2. /\ Occurrences(timeline'[j], "tool.requested") =
             Cardinality(CallRows(j, CallStatus \ {"absent"})')
        /\ Occurrences(timeline'[j], "tool.started") = Cardinality(CallRows(j, DispatchedCall)')
        /\ Occurrences(timeline'[j], "tool.ambiguous") =
             Cardinality(CallRows(j, {"ambiguous"})')
    BY <1>2, Zenon DEF Recounts, Told, Counts
  <2> QED BY <2>1, <2>2, Zenon DEF Counts
<1>4. Closing(j)'
  <2>1. NoClosing(timeline[j]) /\ timeline'[j] = timeline[j] \o events
    BY DEF Told, Closing, Recounts
  <2>2. CASE run'[j].status \notin TerminalStatus /\ NoClosing(events)
    <3>1. NoClosing(timeline[j] \o events)
      BY <1>1, <2>1, <2>2 DEF NoClosing
    <3> QED BY <2>1, <2>2, <3>1 DEF Closing
  <2>3. CASE /\ run'[j].status \in TerminalStatus
             /\ EndsWith(events, ClosingEvent(run'[j].status))
    <3> DEFINE e == ClosingEvent(run'[j].status)
    <3>1. EndsWith(events, e)
      BY <2>3
    <3> HIDE DEF e
    <3>2. EndsWith(timeline[j] \o events, e)
      BY <1>1, <2>1, <3>1, ClosingConcat
    <3> QED BY <2>1, <2>3, <3>2 DEF Closing, e
  <2> QED BY <2>2, <2>3 DEF Concludes
<1> QED BY <1>3, <1>4 DEF Told

\* The rows that are counted are finitely many.
LEMMA RowsFinite ==
  ASSUME BoundAssumption, NEW j \in Jobs
  PROVE  /\ IsFiniteSet(Begun(j)) /\ Cardinality(Begun(j)) \in Nat
         /\ \A S : IsFiniteSet(CallRows(j, S)) /\ Cardinality(CallRows(j, S)) \in Nat
<1>1. IsFiniteSet(Numbers) /\ IsFiniteSet(Slots)
  <2>1. 1 \in Int /\ MaxAttempts \in Int /\ MaxCalls \in Int
    BY DEF BoundAssumption
  <2> QED BY <2>1, FS_Interval DEF Slots, Numbers
<1>2. IsFiniteSet(Numbers \X Slots)
  BY <1>1, FS_Product
<1>3. IsFiniteSet(Begun(j))
  BY <1>1, FS_Subset, Begun(j) \subseteq Numbers DEF Begun
<1>4. ASSUME NEW S PROVE IsFiniteSet(CallRows(j, S)) /\ Cardinality(CallRows(j, S)) \in Nat
  <2>1. CallRows(j, S) \subseteq Numbers \X Slots
    BY DEF CallRows
  <2>2. IsFiniteSet(CallRows(j, S))
    BY <1>2, <2>1, FS_Subset
  <2> QED BY <2>2, FS_CardinalityType
<1> QED BY <1>3, <1>4, FS_CardinalityType

\* One tool call that changes its status enters or leaves the counted rows.
LEMMA CallMoves ==
  ASSUME TypeOK, BoundAssumption, NEW j \in Jobs, NEW n \in Numbers, NEW k \in Slots,
         NEW status, SetCall(j, n, k, status), NEW S
  PROVE  /\ status \in S /\ calls[j][n][k] \notin S =>
              Cardinality(CallRows(j, S)') = Cardinality(CallRows(j, S)) + 1
         /\ (status \in S <=> calls[j][n][k] \in S) =>
              Cardinality(CallRows(j, S)') = Cardinality(CallRows(j, S))
<1>1. /\ calls'[j][n][k] = status
      /\ \A c \in Numbers \X Slots : c # <<n, k>> => calls'[j][c[1]][c[2]] = calls[j][c[1]][c[2]]
  BY DEF TypeOK, SetCall
<1>2. ASSUME status \in S, calls[j][n][k] \notin S
      PROVE  Cardinality(CallRows(j, S)') = Cardinality(CallRows(j, S)) + 1
  <2>1. CallRows(j, S)' = CallRows(j, S) \cup {<<n, k>>} /\ <<n, k>> \notin CallRows(j, S)
    BY <1>1, <1>2 DEF CallRows
  <2>2. Cardinality(CallRows(j, S) \cup {<<n, k>>}) = Cardinality(CallRows(j, S)) + 1
    BY <2>1, RowsFinite, FS_AddElement
  <2>3. CallRows(j, S)' = CallRows(j, S) \cup {<<n, k>>}
    BY <2>1
  <2> QED BY <2>2, <2>3, Zenon
<1>3. ASSUME status \in S <=> calls[j][n][k] \in S
      PROVE  Cardinality(CallRows(j, S)') = Cardinality(CallRows(j, S))
  <2>1. CallRows(j, S)' = CallRows(j, S)
    BY <1>1, <1>3 DEF CallRows
  <2> QED BY <2>1, Zenon
<1> QED BY <1>2, <1>3

\* Reconciling an Attempt's calls dispatches none and requests none, and makes
\* exactly its started calls ambiguous.
LEMMA ReconcileMoves ==
  ASSUME TypeOK, BoundAssumption, NEW j \in Jobs, NEW n \in Numbers, ReconcileCalls(j, n)
  PROVE  /\ Cardinality(CallRows(j, CallStatus \ {"absent"})') =
              Cardinality(CallRows(j, CallStatus \ {"absent"}))
         /\ Cardinality(CallRows(j, DispatchedCall)') = Cardinality(CallRows(j, DispatchedCall))
         /\ Cardinality(CallRows(j, {"ambiguous"})') =
              Cardinality(CallRows(j, {"ambiguous"}))
                + Cardinality({k \in Slots : calls[j][n][k] = "started"})
<1> DEFINE K == {k \in Slots : calls[j][n][k] = "started"}
           A == CallRows(j, {"ambiguous"})
           N == {n} \X K
<1>1. /\ \A k \in Slots : calls'[j][n][k] = ReconcileCall(calls[j][n][k])
      /\ \A m \in Numbers \ {n} : calls'[j][m] = calls[j][m]
      /\ \A m \in Numbers, k \in Slots : calls[j][m][k] \in CallStatus
  BY DEF TypeOK, ReconcileCalls
<1>2. \A s \in CallStatus :
        /\ ReconcileCall(s) \in CallStatus \ {"absent"} <=> s \in CallStatus \ {"absent"}
        /\ ReconcileCall(s) \in DispatchedCall <=> s \in DispatchedCall
        /\ ReconcileCall(s) = "ambiguous" <=> s \in {"ambiguous", "started"}
  BY DEF ReconcileCall, CallStatus, DispatchedCall
<1>3. CallRows(j, CallStatus \ {"absent"})' = CallRows(j, CallStatus \ {"absent"})
  BY <1>1, <1>2 DEF CallRows
<1>4. CallRows(j, DispatchedCall)' = CallRows(j, DispatchedCall)
  BY <1>1, <1>2 DEF CallRows
<1>5. A' = A \cup N
  <2>1. \A c \in Numbers \X Slots :
          calls'[j][c[1]][c[2]] = "ambiguous" <=>
            calls[j][c[1]][c[2]] = "ambiguous" \/ (c[1] = n /\ c[2] \in K)
    BY <1>1, <1>2
  <2>2. N \subseteq Numbers \X Slots /\ \A c \in Numbers \X Slots : c \in N <=> c[1] = n /\ c[2] \in K
    OBVIOUS
  <2> HIDE DEF N, K
  <2> QED BY <2>1, <2>2 DEF CallRows
<1>6. A \cap N = {}
  BY DEF CallRows
<1>7. IsFiniteSet(K) /\ Cardinality(K) \in Nat
  <2>1. IsFiniteSet(Slots)
    BY FS_Interval, SMT DEF BoundAssumption, Slots
  <2> QED BY <2>1, FS_Subset, FS_CardinalityType, K \subseteq Slots
<1> HIDE DEF K
<1>8. IsFiniteSet(N) /\ Cardinality(N) = Cardinality(K)
  <2>1. IsFiniteSet({n}) /\ Cardinality({n}) = 1
    BY FS_Singleton
  <2>2. IsFiniteSet(N) /\ Cardinality(N) = Cardinality({n}) * Cardinality(K)
    BY <1>7, <2>1, FS_Product
  <2> HIDE DEF N
  <2> QED BY <1>7, <2>1, <2>2
<1>9. IsFiniteSet(A) /\ Cardinality(A) \in Nat
  BY RowsFinite
<1> HIDE DEF N
<1>10. Cardinality(A \cup N) = Cardinality(A) + Cardinality(K)
  <2>1. Cardinality(A \cup N) = Cardinality(A) + Cardinality(N) - Cardinality(A \cap N)
    BY <1>8, <1>9, FS_Union
  <2>2. Cardinality(A \cap N) = 0
    BY <1>6, FS_EmptySet, Zenon
  <2> HIDE DEF A
  <2> QED BY <1>7, <1>8, <1>9, <2>1, <2>2
<1>11. Cardinality(A') = Cardinality(A) + Cardinality(K)
  BY <1>5, <1>10, Zenon
<1>12. Cardinality(CallRows(j, CallStatus \ {"absent"})') =
         Cardinality(CallRows(j, CallStatus \ {"absent"}))
  BY <1>3, Zenon
<1>13. Cardinality(CallRows(j, DispatchedCall)') = Cardinality(CallRows(j, DispatchedCall))
  BY <1>4, Zenon
<1> QED BY <1>11, <1>12, <1>13 DEF K


Counted == {"attempt.claimed", "attempt.started", "tool.requested", "tool.started",
            "tool.ambiguous"}

\* Events of which only e is counted, and that once (none when e is not counted).
CountsOnly(events, e) ==
  /\ events \in Seq(RunEventType)
  /\ \A x \in Counted : Occurrences(events, x) = IF x = e THEN 1 ELSE 0

\* The short sequences that the operations append.
LEMMA ShortStories ==
  /\ CountsOnly(<< >>, "none")
  /\ \A x \in RunEventType : CountsOnly(<<x>>, x)
  /\ \A x, y \in RunEventType \ Counted : CountsOnly(<<x, y>>, "none")
  /\ \A x, y, z \in RunEventType \ Counted : CountsOnly(<<x, y, z>>, "none")
<1>1. CountsOnly(<< >>, "none")
  <2>1. << >> \in Seq(RunEventType) /\ "none" \notin Counted
    BY DEF Counted
  <2> QED BY <2>1, OccurrencesOne DEF CountsOnly
<1>2. ASSUME NEW x \in RunEventType PROVE CountsOnly(<<x>>, x)
  <2>1. <<x>> \in Seq(RunEventType)
    OBVIOUS
  <2> QED BY <2>1, OccurrencesOne DEF CountsOnly
<1>3. ASSUME NEW x \in RunEventType \ Counted, NEW y \in RunEventType \ Counted
      PROVE  CountsOnly(<<x, y>>, "none")
  <2>1. <<x, y>> \in Seq(RunEventType)
    OBVIOUS
  <2>2. \A e \in Counted : Occurrences(<<x, y>>, e) = 0
    <3> SUFFICES ASSUME NEW e \in Counted PROVE Occurrences(<<x, y>>, e) = 0
      OBVIOUS
    <3>1. Occurrences(<<x>>, e) = 0 /\ Occurrences(<<y>>, e) = 0
      BY OccurrencesOne
    <3> x \in RunEventType /\ y \in RunEventType
      OBVIOUS
    <3>2. Occurrences(<<x, y>>, e) = Occurrences(<<x>>, e) + Occurrences(<<y>>, e)
      BY OccurrencesShort, ZenonT(30)
    <3> QED BY <3>1, <3>2
  <2>3. "none" \notin Counted
    BY DEF Counted
  <2> QED BY <2>1, <2>2, <2>3 DEF CountsOnly
<1>4. ASSUME NEW x \in RunEventType \ Counted, NEW y \in RunEventType \ Counted,
             NEW z \in RunEventType \ Counted
      PROVE  CountsOnly(<<x, y, z>>, "none")
  <2>1. <<x, y, z>> \in Seq(RunEventType)
    OBVIOUS
  <2>2. \A e \in Counted : Occurrences(<<x, y, z>>, e) = 0
    <3> SUFFICES ASSUME NEW e \in Counted PROVE Occurrences(<<x, y, z>>, e) = 0
      OBVIOUS
    <3>1. Occurrences(<<x>>, e) = 0 /\ Occurrences(<<y>>, e) = 0 /\ Occurrences(<<z>>, e) = 0
      BY OccurrencesOne
    <3> x \in RunEventType /\ y \in RunEventType /\ z \in RunEventType
      OBVIOUS
    <3>2. /\ Occurrences(<<x, y>>, e) = Occurrences(<<x>>, e) + Occurrences(<<y>>, e)
          /\ Occurrences(<<x, y, z>>, e) =
               Occurrences(<<x>>, e) + Occurrences(<<y>>, e) + Occurrences(<<z>>, e)
      BY OccurrencesShort
    <3> QED BY <3>1, <3>2
  <2>3. "none" \notin Counted
    BY DEF Counted
  <2> QED BY <2>1, <2>2, <2>3 DEF CountsOnly
<1> QED BY <1>1, <1>2, <1>3, <1>4

\* An event that an operation logs is the end of the timeline of its Job.
LEMMA Logged ==
  ASSUME TypeOK, NEW j \in Jobs, NEW events, Log(j, events)
  PROVE  timeline'[j] = timeline[j] \o events
BY DEF TypeOK, Log

\* The rows that an operation leaves as they were.
SameClaims(j) == job'[j].count = job[j].count
SameStarts(j) == \A m \in Numbers : attempt'[j][m].started <=> attempt[j][m].started

LEMMA SameRows ==
  ASSUME NEW j \in Jobs
  PROVE  /\ SameStarts(j) => Cardinality(Begun(j)') = Cardinality(Begun(j))
         /\ calls' = calls =>
              /\ Cardinality(CallRows(j, CallStatus \ {"absent"})') =
                   Cardinality(CallRows(j, CallStatus \ {"absent"}))
              /\ Cardinality(CallRows(j, DispatchedCall)') =
                   Cardinality(CallRows(j, DispatchedCall))
              /\ Cardinality(CallRows(j, {"ambiguous"})') =
                   Cardinality(CallRows(j, {"ambiguous"}))
<1>1. ASSUME SameStarts(j) PROVE Cardinality(Begun(j)') = Cardinality(Begun(j))
  <2>1. Begun(j)' = Begun(j)
    BY <1>1 DEF SameStarts, Begun
  <2> QED BY <2>1, Zenon
<1>2. ASSUME calls' = calls, NEW S PROVE Cardinality(CallRows(j, S)') = Cardinality(CallRows(j, S))
  <2>1. CallRows(j, S)' = CallRows(j, S)
    BY <1>2 DEF CallRows
  <2> QED BY <2>1, Zenon
<1>3. ASSUME calls' = calls
      PROVE  /\ CallRows(j, CallStatus \ {"absent"})' = CallRows(j, CallStatus \ {"absent"})
             /\ CallRows(j, DispatchedCall)' = CallRows(j, DispatchedCall)
             /\ CallRows(j, {"ambiguous"})' = CallRows(j, {"ambiguous"})
  BY <1>3 DEF CallRows
<1>4. ASSUME calls' = calls
      PROVE  /\ Cardinality(CallRows(j, CallStatus \ {"absent"})') =
                  Cardinality(CallRows(j, CallStatus \ {"absent"}))
             /\ Cardinality(CallRows(j, DispatchedCall)') =
                  Cardinality(CallRows(j, DispatchedCall))
             /\ Cardinality(CallRows(j, {"ambiguous"})') =
                  Cardinality(CallRows(j, {"ambiguous"}))
  BY <1>3, <1>4, Zenon
<1> QED BY <1>1, <1>4

\* An operation that claims, starts and calls nothing logs no counted event.
LEMMA PlainStory ==
  ASSUME TypeOK, IdAssumption, BoundAssumption, NEW j \in Jobs, NEW events, CountsOnly(events, "none"),
         timeline'[j] = timeline[j] \o events,
         SameClaims(j), SameStarts(j), calls' = calls
  PROVE  Recounts(j, events)
<1>1. /\ events \in Seq(RunEventType)
      /\ \A x \in Counted : Occurrences(events, x) = 0
  BY DEF CountsOnly, Counted
<1>2. job[j].count \in Nat
  BY RowTypes, BoundAssumption DEF JobRow, BoundAssumption
<1>3. /\ Cardinality(Begun(j)') = Cardinality(Begun(j)) /\ Cardinality(Begun(j)) \in Nat
  BY SameRows, RowsFinite
<1>4. /\ Cardinality(CallRows(j, CallStatus \ {"absent"})') =
           Cardinality(CallRows(j, CallStatus \ {"absent"}))
      /\ Cardinality(CallRows(j, DispatchedCall)') = Cardinality(CallRows(j, DispatchedCall))
      /\ Cardinality(CallRows(j, {"ambiguous"})') = Cardinality(CallRows(j, {"ambiguous"}))
      /\ Cardinality(CallRows(j, CallStatus \ {"absent"})) \in Nat
      /\ Cardinality(CallRows(j, DispatchedCall)) \in Nat
      /\ Cardinality(CallRows(j, {"ambiguous"})) \in Nat
  BY SameRows, RowsFinite, Zenon
<1>5. /\ Occurrences(events, "attempt.claimed") = 0 /\ Occurrences(events, "attempt.started") = 0
      /\ Occurrences(events, "tool.requested") = 0 /\ Occurrences(events, "tool.started") = 0
      /\ Occurrences(events, "tool.ambiguous") = 0
  BY <1>1 DEF Counted
<1>6. /\ job'[j].count = job[j].count + 0
      /\ Cardinality(Begun(j)') = Cardinality(Begun(j)) + 0
  BY <1>2, <1>3 DEF SameClaims
<1>7. \A a, b \in Nat : b = a => b = a + 0
  OBVIOUS
<1>8. /\ Cardinality(CallRows(j, CallStatus \ {"absent"})') =
           Cardinality(CallRows(j, CallStatus \ {"absent"})) + 0
      /\ Cardinality(CallRows(j, DispatchedCall)') = Cardinality(CallRows(j, DispatchedCall)) + 0
      /\ Cardinality(CallRows(j, {"ambiguous"})') = Cardinality(CallRows(j, {"ambiguous"})) + 0
  BY <1>4, <1>7, Zenon
<1> QED BY <1>1, <1>5, <1>6, <1>8, Zenon DEF Recounts

\* The closing sequences end with the event of the Run's settlement.
LEMMA ClosingStories ==
  /\ EndsWith(<<"run.succeeded">>, ClosingEvent("succeeded"))
  /\ EndsWith(<<"attempt.failed", "run.failed">>, ClosingEvent("failed"))
  /\ EndsWith(<<"attempt.expired", "recovery.pre_start", "run.failed">>, ClosingEvent("failed"))
  /\ EndsWith(<<"cancellation.requested", "run.cancelled">>, ClosingEvent("cancelled"))
BY DEF EndsWith, ClosingEvent, TerminalEvent

LEMMA OpenStories ==
  /\ NoClosing(<< >>)
  /\ \A x \in RunEventType \ TerminalEvent : NoClosing(<<x>>)
  /\ \A x, y \in RunEventType \ TerminalEvent : NoClosing(<<x, y>>)
BY DEF NoClosing

\* What giving up a claim leaves of the counted rows.
LEMMA GivesUpStory ==
  ASSUME EngineInv, IdAssumption, BoundAssumption, NEW j \in Jobs, NEW n \in Numbers, NEW status,
         GivesUp(j, n, status), SettlesRun(j, n, status), calls' = calls,
         NEW events, CountsOnly(events, "none"), Log(j, events),
         \/ status \in {"queued", "retry_wait"} /\ NoClosing(events)
         \/ status \in TerminalStatus /\ EndsWith(events, ClosingEvent(status))
  PROVE  Recounts(j, events) /\ Concludes(j, events)
<1>1. SameClaims(j) /\ SameStarts(j)
  BY DEF GivesUp, SameClaims, SameStarts
<1>2. timeline'[j] = timeline[j] \o events
  BY Logged DEF EngineInv
<1>3. Recounts(j, events)
  BY <1>1, <1>2, PlainStory DEF EngineInv
<1>4. run[j].status \notin TerminalStatus
  BY HolderIsOpen DEF GivesUp
<1>5. Concludes(j, events)
  <2>1. CASE status \in {"queued", "retry_wait"} /\ NoClosing(events)
    <3>1. run'[j] = run[j]
      BY <2>1 DEF SettlesRun, TerminalStatus
    <3> QED BY <1>4, <2>1, <3>1 DEF Concludes
  <2>2. CASE status \in TerminalStatus /\ EndsWith(events, ClosingEvent(status))
    <3>1. run'[j].status = status
      BY <2>2 DEF SettlesRun, TerminalStatus
    <3> QED BY <2>2, <3>1, Zenon DEF Concludes
  <2> QED BY <2>1, <2>2
<1> QED BY <1>3, <1>5


\* Whether a call enters the rows S when its status changes from old to status.
Enters(old, status, S, enters) ==
  IF enters THEN status \in S /\ old \notin S ELSE status \in S <=> old \in S

\* An operation on one tool call tells which counted rows the call enters.
LEMMA CallStory ==
  ASSUME TypeOK, BoundAssumption, IdAssumption, NEW j \in Jobs, NEW n \in Numbers, NEW k \in Slots,
         NEW old, old = calls[j][n][k], NEW status, SetCall(j, n, k, status),
         NEW events, NEW e, CountsOnly(events, e), timeline'[j] = timeline[j] \o events,
         e \notin {"attempt.claimed", "attempt.started"},
         Enters(old, status, CallStatus \ {"absent"}, e = "tool.requested"),
         Enters(old, status, DispatchedCall, e = "tool.started"),
         Enters(old, status, {"ambiguous"}, e = "tool.ambiguous"),
         SameClaims(j), SameStarts(j)
  PROVE  Recounts(j, events)
<1>1. /\ events \in Seq(RunEventType)
      /\ \A x \in Counted : Occurrences(events, x) = IF x = e THEN 1 ELSE 0
  BY DEF CountsOnly
<1>2. /\ Occurrences(events, "attempt.claimed") = 0 /\ Occurrences(events, "attempt.started") = 0
      /\ Occurrences(events, "tool.requested") = IF e = "tool.requested" THEN 1 ELSE 0
      /\ Occurrences(events, "tool.started") = IF e = "tool.started" THEN 1 ELSE 0
      /\ Occurrences(events, "tool.ambiguous") = IF e = "tool.ambiguous" THEN 1 ELSE 0
  BY <1>1 DEF Counted
<1>3. /\ Cardinality(Begun(j)') = Cardinality(Begun(j)) /\ Cardinality(Begun(j)) \in Nat
  BY SameRows, RowsFinite
<1>4. job[j].count \in Nat
  BY RowTypes, BoundAssumption DEF JobRow, BoundAssumption
<1>5. job'[j].count = job[j].count + 0 /\ Cardinality(Begun(j)') = Cardinality(Begun(j)) + 0
  BY <1>3, <1>4 DEF SameClaims
<1>6. ASSUME NEW S, NEW enters \in BOOLEAN, Enters(old, status, S, enters)
      PROVE  Cardinality(CallRows(j, S)') = Cardinality(CallRows(j, S)) + (IF enters THEN 1 ELSE 0)
  <2>1. Cardinality(CallRows(j, S)) \in Nat
    BY RowsFinite
  <2>2. /\ status \in S /\ calls[j][n][k] \notin S =>
             Cardinality(CallRows(j, S)') = Cardinality(CallRows(j, S)) + 1
        /\ (status \in S <=> calls[j][n][k] \in S) =>
             Cardinality(CallRows(j, S)') = Cardinality(CallRows(j, S))
    BY CallMoves
  <2> QED BY <1>6, <2>1, <2>2 DEF Enters
<1> DEFINE N == CallStatus \ {"absent"}
<1>7. Cardinality(CallRows(j, CallStatus \ {"absent"})') =
        Cardinality(CallRows(j, CallStatus \ {"absent"})) + (IF e = "tool.requested" THEN 1 ELSE 0)
  <2>1. (e = "tool.requested") \in BOOLEAN
    OBVIOUS
  <2>2. ASSUME NEW S, S = CallStatus \ {"absent"}
        PROVE  Cardinality(CallRows(j, S)') = Cardinality(CallRows(j, S)) + (IF e = "tool.requested" THEN 1 ELSE 0)
    <3>1. Enters(old, status, S, e = "tool.requested")
      BY <2>2, Zenon
    <3> QED BY <1>6, <2>1, <3>1, Zenon
  <2> QED BY <2>2, Zenon
<1>8. Cardinality(CallRows(j, DispatchedCall)') =
        Cardinality(CallRows(j, DispatchedCall)) + (IF e = "tool.started" THEN 1 ELSE 0)
  <2>1. (e = "tool.started") \in BOOLEAN
    OBVIOUS
  <2> QED BY <1>6, <2>1, Zenon
<1>9. Cardinality(CallRows(j, {"ambiguous"})') =
        Cardinality(CallRows(j, {"ambiguous"})) + (IF e = "tool.ambiguous" THEN 1 ELSE 0)
  <2>1. (e = "tool.ambiguous") \in BOOLEAN
    OBVIOUS
  <2> QED BY <1>6, <2>1, Zenon
<1> QED BY <1>1, <1>2, <1>5, <1>7, <1>8, <1>9, Zenon DEF Recounts


Tells(j) == \E events : Recounts(j, events) /\ Concludes(j, events)

\* A tool call of a running Attempt (the callers of record_invocation_event).
LEMMA ToolCallStory ==
  ASSUME EngineInv, IdAssumption, BoundAssumption, NEW t \in Instants, NEW j \in Jobs, NEW n \in Numbers,
         NEW k \in Slots,
         \/ RequestCall(j, n, k, t) \/ WithdrawCall(j, n, k, t)
         \/ \E allowed \in BOOLEAN : StartCall(j, n, k, t, allowed)
         \/ \E outcome \in CallOutcome : ConcludeCall(j, n, k, t, outcome)
  PROVE  Tells(j)
<1> DEFINE old == calls[j][n][k]
<1> USE DEF EngineInv
<1>1. /\ job[j].status = "running" /\ job[j].token = n
      /\ UNCHANGED <<job, run, attempt>>
  BY DEF RequestCall, WithdrawCall, StartCall, ConcludeCall, CallAuthority, JobHeld
<1>2. run[j].status \notin TerminalStatus /\ run'[j] = run[j] /\ SameClaims(j) /\ SameStarts(j)
  BY <1>1, HolderIsOpen DEF ActiveStatus, SameClaims, SameStarts
<1>3. ASSUME NEW status, NEW events, NEW e,
             SetCall(j, n, k, status), CountsOnly(events, e), timeline'[j] = timeline[j] \o events,
             e \notin {"attempt.claimed", "attempt.started"}, NoClosing(events),
             Enters(old, status, CallStatus \ {"absent"}, e = "tool.requested"),
             Enters(old, status, DispatchedCall, e = "tool.started"),
             Enters(old, status, {"ambiguous"}, e = "tool.ambiguous")
      PROVE  Tells(j)
  <2>1. Recounts(j, events)
    BY <1>2, <1>3, CallStory
  <2>2. Concludes(j, events)
    BY <1>2, <1>3 DEF Concludes
  <2> QED BY <2>1, <2>2 DEF Tells
<1>4. ASSUME NEW status, NEW e \in RunEventType \ TerminalEvent,
             SetCall(j, n, k, status), Log(j, <<e>>),
             e \notin {"attempt.claimed", "attempt.started"},
             Enters(old, status, CallStatus \ {"absent"}, e = "tool.requested"),
             Enters(old, status, DispatchedCall, e = "tool.started"),
             Enters(old, status, {"ambiguous"}, e = "tool.ambiguous")
      PROVE  Tells(j)
  <2>1. CountsOnly(<<e>>, e) /\ NoClosing(<<e>>) /\ timeline'[j] = timeline[j] \o <<e>>
    BY <1>4, ShortStories, OpenStories, Logged
  <2> HIDE DEF old
  <2> QED BY <1>3, <1>4, <2>1
<1>5. CASE RequestCall(j, n, k, t)
  <2>1. /\ old = "absent" /\ SetCall(j, n, k, "requested") /\ Log(j, <<"tool.requested">>)
    BY <1>5 DEF RequestCall
  <2>2. /\ Enters("absent", "requested", CallStatus \ {"absent"}, "tool.requested" = "tool.requested")
        /\ Enters("absent", "requested", DispatchedCall, "tool.requested" = "tool.started")
        /\ Enters("absent", "requested", {"ambiguous"}, "tool.requested" = "tool.ambiguous")
    BY DEF Enters, CallStatus, DispatchedCall
  <2>3. "tool.requested" \in RunEventType \ TerminalEvent
    BY DEF RunEventType, TerminalEvent
  <2> HIDE DEF old
  <2> QED BY <1>4, <2>1, <2>2, <2>3
<1>6. CASE WithdrawCall(j, n, k, t)
  <2>1. /\ old = "requested" /\ SetCall(j, n, k, "cancelled") /\ UNCHANGED timeline
    BY <1>6 DEF WithdrawCall
  <2>2. /\ Enters("requested", "cancelled", CallStatus \ {"absent"}, "none" = "tool.requested")
        /\ Enters("requested", "cancelled", DispatchedCall, "none" = "tool.started")
        /\ Enters("requested", "cancelled", {"ambiguous"}, "none" = "tool.ambiguous")
    BY DEF Enters, CallStatus, DispatchedCall
  <2>3. timeline'[j] = timeline[j] \o << >>
    BY <2>1 DEF TypeOK
  <2>4. CountsOnly(<< >>, "none") /\ NoClosing(<< >>)
    BY ShortStories, OpenStories
  <2> HIDE DEF old
  <2> QED BY <1>3, <2>1, <2>2, <2>3, <2>4
<1>7. ASSUME NEW allowed \in BOOLEAN, StartCall(j, n, k, t, allowed) PROVE Tells(j)
  <2>1. CASE allowed
    <3>1. /\ old = "requested" /\ SetCall(j, n, k, "started") /\ Log(j, <<"tool.started">>)
      BY <1>7, <2>1 DEF StartCall
    <3>2. /\ Enters("requested", "started", CallStatus \ {"absent"}, "tool.started" = "tool.requested")
          /\ Enters("requested", "started", DispatchedCall, "tool.started" = "tool.started")
          /\ Enters("requested", "started", {"ambiguous"}, "tool.started" = "tool.ambiguous")
      BY DEF Enters, CallStatus, DispatchedCall
    <3>3. "tool.started" \in RunEventType \ TerminalEvent
      BY DEF RunEventType, TerminalEvent
    <3> HIDE DEF old
    <3> QED BY <1>4, <3>1, <3>2, <3>3
  <2>2. CASE ~allowed
    <3>1. /\ old = "requested" /\ SetCall(j, n, k, "denied") /\ Log(j, <<"tool.denied">>)
      BY <1>7, <2>2 DEF StartCall
    <3>2. /\ Enters("requested", "denied", CallStatus \ {"absent"}, "tool.denied" = "tool.requested")
          /\ Enters("requested", "denied", DispatchedCall, "tool.denied" = "tool.started")
          /\ Enters("requested", "denied", {"ambiguous"}, "tool.denied" = "tool.ambiguous")
      BY DEF Enters, CallStatus, DispatchedCall
    <3>3. "tool.denied" \in RunEventType \ TerminalEvent
      BY DEF RunEventType, TerminalEvent
    <3> HIDE DEF old
    <3> QED BY <1>4, <3>1, <3>2, <3>3
  <2> QED BY <2>1, <2>2
<1>8. ASSUME NEW outcome \in CallOutcome, ConcludeCall(j, n, k, t, outcome) PROVE Tells(j)
  <2>1. /\ old = "started" /\ SetCall(j, n, k, outcome) /\ Log(j, <<ToolEvent(outcome)>>)
    BY <1>8 DEF ConcludeCall
  <2>2. /\ Enters("started", outcome, CallStatus \ {"absent"}, ToolEvent(outcome) = "tool.requested")
        /\ Enters("started", outcome, DispatchedCall, ToolEvent(outcome) = "tool.started")
        /\ Enters("started", outcome, {"ambiguous"}, ToolEvent(outcome) = "tool.ambiguous")
    BY DEF Enters, CallStatus, DispatchedCall, ToolEvent, CallOutcome
  <2>3. /\ ToolEvent(outcome) \in RunEventType \ TerminalEvent
        /\ ToolEvent(outcome) \notin {"attempt.claimed", "attempt.started"}
    BY DEF RunEventType, TerminalEvent, ToolEvent
  <2> HIDE DEF old
  <2> QED BY <1>4, <2>1, <2>2, <2>3
<1> QED BY <1>5, <1>6, <1>7, <1>8

\* The other writes of the Attempt that holds the claim, and its reclamation.
LEMMA HolderStory ==
  ASSUME EngineInv, IdAssumption, BoundAssumption, NEW t \in Instants, NEW j \in Jobs, NEW n \in Numbers
  PROVE  /\ RenewLease(j, n, t) => Tells(j)
         /\ RefuseCall(j, n, t) => Tells(j)
         /\ Succeed(j, n, t) => Tells(j)
         /\ \A code \in FailureCode : CloseFailed(j, n, t, code) => Tells(j)
         /\ \A code \in FailureCode : \A anchor \in 1..t :
              ScheduleRetry(j, n, t, anchor, code) => Tells(j)
         /\ ReclaimPreStartRequeue(j, n, t) => Tells(j)
         /\ ReclaimPreStartExhausted(j, n, t) => Tells(j)
<1> USE DEF EngineInv
<1>1. /\ {"tool.denied", "attempt.failed", "retry.scheduled", "attempt.expired",
          "recovery.pre_start"} \subseteq (RunEventType \ Counted) \ TerminalEvent
      /\ {"run.succeeded", "run.failed"} \subseteq RunEventType \ Counted
  BY DEF RunEventType, Counted, TerminalEvent
<1>2. /\ CountsOnly(<< >>, "none") /\ CountsOnly(<<"tool.denied">>, "tool.denied")
      /\ CountsOnly(<<"run.succeeded">>, "run.succeeded")
      /\ CountsOnly(<<"attempt.failed", "run.failed">>, "none")
      /\ CountsOnly(<<"attempt.failed", "retry.scheduled">>, "none")
      /\ CountsOnly(<<"attempt.expired", "recovery.pre_start">>, "none")
      /\ CountsOnly(<<"attempt.expired", "recovery.pre_start", "run.failed">>, "none")
  BY <1>1, ShortStories
<1>3. CountsOnly(<<"tool.denied">>, "none") /\ CountsOnly(<<"run.succeeded">>, "none")
  BY <1>2 DEF CountsOnly, Counted
<1>4. ASSUME RenewLease(j, n, t) PROVE Tells(j)
  <2>1. /\ job[j].status = "running" /\ job[j].token = n /\ UNCHANGED <<run, calls, timeline>>
        /\ job'[j] = [job[j] EXCEPT !.lease = t + LeaseDuration]
        /\ attempt'[j][n] = [attempt[j][n] EXCEPT !.lease = t + LeaseDuration]
        /\ \A m \in Numbers \ {n} : attempt'[j][m] = attempt[j][m]
    BY <1>4, PutFacts DEF RenewLease, JobHeld
  <2>2. SameClaims(j) /\ SameStarts(j)
    BY <2>1, RowTypes DEF SameClaims, SameStarts, JobRow, AttemptRow
  <2>3. timeline'[j] = timeline[j] \o << >>
    BY <2>1 DEF TypeOK
  <2>4. Recounts(j, << >>)
    BY <1>2, <2>1, <2>2, <2>3, PlainStory
  <2>5. Concludes(j, << >>)
    BY <2>1, HolderIsOpen, OpenStories DEF Concludes, ActiveStatus
  <2> QED BY <2>4, <2>5 DEF Tells
<1>5. ASSUME RefuseCall(j, n, t) PROVE Tells(j)
  <2>1. /\ job[j].status = "running" /\ job[j].token = n
        /\ UNCHANGED <<job, run, attempt, calls>> /\ Log(j, <<"tool.denied">>)
    BY <1>5 DEF RefuseCall, CallAuthority, JobHeld
  <2>2. SameClaims(j) /\ SameStarts(j)
    BY <2>1 DEF SameClaims, SameStarts
  <2>3. timeline'[j] = timeline[j] \o <<"tool.denied">>
    BY <2>1, Logged
  <2>4. Recounts(j, <<"tool.denied">>)
    BY <1>3, <2>1, <2>2, <2>3, PlainStory
  <2>5. NoClosing(<<"tool.denied">>)
    BY <1>1, OpenStories
  <2>6. Concludes(j, <<"tool.denied">>)
    BY <2>1, <2>5, HolderIsOpen DEF Concludes, ActiveStatus
  <2> QED BY <2>4, <2>6 DEF Tells
<1>6. ASSUME Succeed(j, n, t) PROVE Tells(j)
  <2>1. /\ GivesUp(j, n, "succeeded") /\ SettlesRun(j, n, "succeeded")
        /\ calls' = calls /\ Log(j, <<"run.succeeded">>) /\ "succeeded" \in TerminalStatus
    BY <1>6, SucceedEffect DEF Succeed, TerminalStatus
  <2> QED BY <2>1, <1>3, ClosingStories, GivesUpStory DEF Tells
<1>7. ASSUME NEW code \in FailureCode, CloseFailed(j, n, t, code) PROVE Tells(j)
  <2>1. /\ GivesUp(j, n, "failed") /\ SettlesRun(j, n, "failed")
        /\ calls' = calls /\ Log(j, <<"attempt.failed", "run.failed">>) /\ "failed" \in TerminalStatus
    BY <1>7, CloseFailedEffect DEF CloseFailed, TerminalStatus
  <2> QED BY <2>1, <1>2, ClosingStories, GivesUpStory DEF Tells
<1>8. ASSUME NEW code \in FailureCode, NEW anchor \in 1..t,
             ScheduleRetry(j, n, t, anchor, code)
      PROVE  Tells(j)
  <2>1. /\ GivesUp(j, n, "retry_wait") /\ SettlesRun(j, n, "retry_wait")
        /\ calls' = calls /\ Log(j, <<"attempt.failed", "retry.scheduled">>)
    BY <1>8, RetryEffect DEF ScheduleRetry
  <2>2. NoClosing(<<"attempt.failed", "retry.scheduled">>)
    BY <1>1, OpenStories
  <2> QED BY <2>1, <2>2, <1>2, GivesUpStory DEF Tells
<1>9. ASSUME ReclaimPreStartRequeue(j, n, t) PROVE Tells(j)
  <2>1. /\ GivesUp(j, n, "queued") /\ SettlesRun(j, n, "queued")
        /\ calls' = calls /\ Log(j, <<"attempt.expired", "recovery.pre_start">>)
    BY <1>9, RequeueEffect DEF ReclaimPreStartRequeue
  <2>2. NoClosing(<<"attempt.expired", "recovery.pre_start">>)
    BY <1>1, OpenStories
  <2> QED BY <2>1, <2>2, <1>2, GivesUpStory DEF Tells
<1>10. ASSUME ReclaimPreStartExhausted(j, n, t) PROVE Tells(j)
  <2>1. /\ GivesUp(j, n, "failed") /\ SettlesRun(j, n, "failed") /\ "failed" \in TerminalStatus
        /\ calls' = calls /\ Log(j, <<"attempt.expired", "recovery.pre_start", "run.failed">>)
    BY <1>10, ExhaustedEffect DEF ReclaimPreStartExhausted, TerminalStatus
  <2> QED BY <2>1, <1>2, ClosingStories, GivesUpStory DEF Tells
<1> QED BY <1>4, <1>5, <1>6, <1>7, <1>8, <1>9, <1>10


\* The start boundary logs the one Attempt that crosses it.
LEMMA StartStory ==
  ASSUME EngineInv, IdAssumption, BoundAssumption, NEW t \in Instants, NEW j \in Jobs, NEW n \in Numbers,
         Start(j, n, t)
  PROVE  Tells(j)
<1> USE DEF EngineInv
<1>1. /\ job'[j] = [job[j] EXCEPT !.status = "running"]
      /\ attempt'[j][n] = [attempt[j][n] EXCEPT !.status = "running", !.started = TRUE]
      /\ \A m \in Numbers \ {n} : attempt'[j][m] = attempt[j][m]
      /\ calls' = calls /\ Log(j, <<"attempt.started">>)
      /\ attempt[j][n].status = "claimed"
  BY PutFacts DEF Start, AttemptOpen
<1>2. ~attempt[j][n].started
  BY <1>1 DEF JobInv, BoundaryKnown
<1>3. Begun(j)' = Begun(j) \cup {n} /\ n \notin Begun(j)
  <2>1. attempt'[j][n].started
    BY <1>1, RowTypes DEF AttemptRow
  <2> QED BY <1>1, <1>2, <2>1, ZenonT(30) DEF Begun
<1>4. Cardinality(Begun(j)') = Cardinality(Begun(j)) + 1
  <2>1. Cardinality(Begun(j) \cup {n}) = Cardinality(Begun(j)) + 1
    <3>1. IsFiniteSet(Begun(j))
      BY RowsFinite
    <3>2. n \notin Begun(j)
      BY <1>3
    <3>3. Cardinality(Begun(j) \cup {n}) =
            IF n \in Begun(j) THEN Cardinality(Begun(j)) ELSE Cardinality(Begun(j)) + 1
      BY <3>1, FS_AddElement
    <3> QED BY <3>2, <3>3
  <2> QED BY <1>3, <2>1, Zenon
<1> DEFINE events == <<"attempt.started">>
<1>5. /\ CountsOnly(events, "attempt.started") /\ NoClosing(events)
      /\ timeline'[j] = timeline[j] \o events
  <2>1. "attempt.started" \in RunEventType \ TerminalEvent
    BY DEF RunEventType, TerminalEvent
  <2> QED BY <1>1, <2>1, ShortStories, OpenStories, Logged
<1> HIDE DEF events
<1>6. /\ Occurrences(events, "attempt.claimed") = 0 /\ Occurrences(events, "attempt.started") = 1
      /\ Occurrences(events, "tool.requested") = 0 /\ Occurrences(events, "tool.started") = 0
      /\ Occurrences(events, "tool.ambiguous") = 0 /\ events \in Seq(RunEventType)
  BY <1>5 DEF CountsOnly, Counted
<1>7. job'[j].count = job[j].count /\ job[j].count \in Nat
  BY <1>1, RowTypes, BoundAssumption DEF JobRow, BoundAssumption
<1>8. \A a, b \in Nat : b = a => b = a + 0
  OBVIOUS
<1>9. /\ job'[j].count = job[j].count + 0
      /\ Cardinality(CallRows(j, CallStatus \ {"absent"})') =
           Cardinality(CallRows(j, CallStatus \ {"absent"})) + 0
      /\ Cardinality(CallRows(j, DispatchedCall)') = Cardinality(CallRows(j, DispatchedCall)) + 0
      /\ Cardinality(CallRows(j, {"ambiguous"})') = Cardinality(CallRows(j, {"ambiguous"})) + 0
  BY <1>1, <1>7, <1>8, SameRows, RowsFinite, Zenon
<1>10. Recounts(j, events)
  BY <1>4, <1>5, <1>6, <1>9, Zenon DEF Recounts
<1>11. run'[j].status = "running"
  <2>1. CASE run[j].status = "created"
    <3>1. run'[j] = [run[j] EXCEPT !.status = "running", !.startedAt = t]
      BY <2>1, PutFacts DEF Start
    <3> QED BY <3>1, RowTypes DEF RunRow
  <2>2. CASE run[j].status # "created"
    BY <2>2 DEF Start, StartableRun
  <2> QED BY <2>1, <2>2
<1>12. Concludes(j, events)
  BY <1>5, <1>11 DEF Concludes, TerminalStatus
<1> QED BY <1>10, <1>12 DEF Tells

\* A claim logs itself; the Attempt it opens has not started.
LEMMA ClaimStory ==
  ASSUME EngineInv, IdAssumption, BoundAssumption, NEW t \in Instants, NEW w \in Workers, Claim(w, t)
  PROVE  \E j \in Jobs : Tells(j) /\ Touches(j)
<1> USE DEF EngineInv
<1>1. PICK j \in NextClaim(w, t) :
        /\ PutJob(j, [job[j] EXCEPT !.status = "claimed", !.token = job[j].count + 1,
                                    !.lease = t + LeaseDuration, !.count = job[j].count + 1])
        /\ PutAttempt(j, job[j].count + 1,
                      [status |-> "claimed", started |-> FALSE,
                       disposition |-> "none", lease |-> t + LeaseDuration])
        /\ Log(j, <<"attempt.claimed">>)
  BY DEF Claim
<1>2. /\ j \in Jobs /\ job[j].count < MaxAttempts
      /\ run[j].status \in {"created", "running"}
  BY <1>1 DEF NextClaim, Candidates, Heads, Eligible, ClaimableSources
<1>3. job[j].count + 1 \in Numbers /\ job[j].count \in Nat
  BY <1>2, RowTypes, BoundAssumption DEF JobRow, Numbers, BoundAssumption
<1> DEFINE n == job[j].count + 1
<1>4. attempt[j][n].status = "absent"
  <2>1. ~(n =< job[j].count)
    BY <1>3
  <2>2. attempt[j][n].status # "absent" <=> n =< job[j].count
    BY <1>2, <1>3 DEF JobInv, SettlesTogether
  <2> QED BY <2>1, <2>2
<1>5. ~attempt[j][n].started
  BY <1>2, <1>3, <1>4 DEF JobInv, BoundaryKnown
<1>6. /\ job'[j].count = job[j].count + 1
      /\ ~attempt'[j][n].started
      /\ \A m \in Numbers \ {n} : attempt'[j][m] = attempt[j][m]
      /\ \A i \in Jobs \ {j} : job'[i] = job[i] /\ attempt'[i] = attempt[i] /\ timeline'[i] = timeline[i]
  <2>1. job[j] \in JobRow
    BY <1>2, RowTypes
  <2>2. job'[j].count = job[j].count + 1
    <3>1. job'[j] = [job[j] EXCEPT !.status = "claimed", !.token = job[j].count + 1,
                                   !.lease = t + LeaseDuration, !.count = job[j].count + 1]
      BY <1>1, <1>2, PutFacts
    <3> QED BY <2>1, <3>1 DEF JobRow
  <2>3. attempt'[j][n] = [status |-> "claimed", started |-> FALSE,
                          disposition |-> "none", lease |-> t + LeaseDuration]
    BY <1>1, <1>2, <1>3, PutFacts
  <2>4. ~attempt'[j][n].started
    BY <2>3
  <2>5. /\ \A m \in Numbers \ {n} : attempt'[j][m] = attempt[j][m]
        /\ \A i \in Jobs \ {j} : job'[i] = job[i] /\ attempt'[i] = attempt[i] /\ timeline'[i] = timeline[i]
    BY <1>1, <1>2, <1>3, PutFacts, LogFacts
  <2> QED BY <2>2, <2>4, <2>5
<1>7. SameStarts(j)
  BY <1>3, <1>5, <1>6 DEF SameStarts
<1>8. run' = run /\ calls' = calls
  BY DEF Claim
<1> DEFINE events == <<"attempt.claimed">>
<1>9. /\ CountsOnly(events, "attempt.claimed") /\ NoClosing(events)
      /\ timeline'[j] = timeline[j] \o events
  <2>1. "attempt.claimed" \in RunEventType \ TerminalEvent
    BY DEF RunEventType, TerminalEvent
  <2> QED BY <1>1, <1>2, <2>1, ShortStories, OpenStories, Logged
<1> HIDE DEF events
<1>10. /\ Occurrences(events, "attempt.claimed") = 1 /\ Occurrences(events, "attempt.started") = 0
       /\ Occurrences(events, "tool.requested") = 0 /\ Occurrences(events, "tool.started") = 0
       /\ Occurrences(events, "tool.ambiguous") = 0 /\ events \in Seq(RunEventType)
  BY <1>9 DEF CountsOnly, Counted
<1>11. \A a, b \in Nat : b = a => b = a + 0
  OBVIOUS
<1>12. /\ Cardinality(Begun(j)') = Cardinality(Begun(j)) + 0
       /\ Cardinality(CallRows(j, CallStatus \ {"absent"})') =
            Cardinality(CallRows(j, CallStatus \ {"absent"})) + 0
       /\ Cardinality(CallRows(j, DispatchedCall)') = Cardinality(CallRows(j, DispatchedCall)) + 0
       /\ Cardinality(CallRows(j, {"ambiguous"})') = Cardinality(CallRows(j, {"ambiguous"})) + 0
  BY <1>2, <1>7, <1>8, <1>11, SameRows, RowsFinite, Zenon
<1>13. Recounts(j, events)
  BY <1>6, <1>9, <1>10, <1>12, Zenon DEF Recounts
<1>14. Concludes(j, events)
  BY <1>2, <1>8, <1>9 DEF Concludes, TerminalStatus
<1>15. Touches(j)
  BY <1>2, <1>4, <1>6, <1>8, <1>3 DEF Touches, Untouched, Kept, ClosedStatus, TerminalStatus
<1> QED BY <1>2, <1>13, <1>14, <1>15 DEF Tells

\* A submission opens the story of a Job that had none.
LEMMA SubmitStory ==
  ASSUME EngineInv, IdAssumption, BoundAssumption, NEW t, NEW j \in Jobs, NEW a, NEW p,
         Submit(j, a, p, t)
  PROVE  Tells(j)
<1> USE DEF EngineInv
<1> DEFINE events == <<"run.created", "run.queued">>
<1>1. /\ job[j].count = 0 /\ job'[j].count = 0 /\ run'[j].status = "created"
      /\ attempt' = attempt /\ calls' = calls /\ Log(j, events)
  BY PutFacts DEF Submit, JobInv, UnclaimedBeforeSubmission
<1>2. SameClaims(j) /\ SameStarts(j)
  BY <1>1 DEF SameClaims, SameStarts
<1>3. CountsOnly(events, "none") /\ NoClosing(events)
  <2>1. {"run.created", "run.queued"} \subseteq (RunEventType \ Counted) \ TerminalEvent
    BY DEF RunEventType, Counted, TerminalEvent
  <2> QED BY <2>1, ShortStories, OpenStories
<1>4. timeline'[j] = timeline[j] \o events
  BY <1>1, Logged
<1> HIDE DEF events
<1>5. Recounts(j, events)
  BY <1>1, <1>2, <1>3, <1>4, PlainStory
<1>6. Concludes(j, events)
  BY <1>1, <1>3 DEF Concludes, TerminalStatus
<1> QED BY <1>5, <1>6 DEF Tells


\* Reconciliation logs one tool.ambiguous per started call of the closed Attempt,
\* between the events before and the closing one.
LEMMA ReconciledStory ==
  ASSUME EngineInv, IdAssumption, BoundAssumption, NEW j \in Jobs, NEW n \in Numbers,
         ReconcileCalls(j, n), SameClaims(j), SameStarts(j),
         NEW before, CountsOnly(before, "none"), NoClosing(before),
         NEW closing \in RunEventType \ Counted,
         run'[j].status \in TerminalStatus, closing = ClosingEvent(run'[j].status),
         timeline'[j] = timeline[j] \o (before \o AmbiguousEvents(j, n) \o <<closing>>)
  PROVE  Tells(j)
<1> USE DEF EngineInv
<1> DEFINE lost == AmbiguousEvents(j, n)
           events == before \o lost \o <<closing>>
           K == {k \in Slots : calls[j][n][k] = "started"}
<1>1. lost \in Seq(RunEventType) /\ before \in Seq(RunEventType) /\ <<closing>> \in Seq(RunEventType)
  <2>1. <<closing>> \in Seq(RunEventType)
    OBVIOUS
  <2> QED BY <2>1, AmbiguousEventsType DEF CountsOnly
<1>2. before \o lost \in Seq(RunEventType) /\ events \in Seq(RunEventType)
  <2> HIDE DEF lost
  <2>1. before \o lost \in Seq(RunEventType)
    BY <1>1
  <2> QED BY <1>1, <2>1
<1>3. Cardinality(K) \in Nat
  <2>1. 1 \in Int /\ MaxCalls \in Int
    BY DEF BoundAssumption
  <2>2. IsFiniteSet(Slots)
    BY <2>1, FS_Interval DEF Slots
  <2> QED BY <2>2, FS_Subset, FS_CardinalityType, K \subseteq Slots
<1>4. ASSUME NEW e \in Counted
      PROVE  Occurrences(events, e) = IF e = "tool.ambiguous" THEN Cardinality(K) ELSE 0
  <2>1. Occurrences(lost, e) = IF e = "tool.ambiguous" THEN Cardinality(K) ELSE 0
    BY OccurrencesAmbiguous
  <2>2. Occurrences(before, e) = 0 /\ Occurrences(<<closing>>, e) = 0
    BY OccurrencesOne DEF CountsOnly, Counted
  <2> HIDE DEF lost, K
  <2>3. Occurrences(before \o lost, e) = Occurrences(before, e) + Occurrences(lost, e)
    BY <1>1, OccurrencesConcat
  <2>4. Occurrences(events, e) = Occurrences(before \o lost, e) + Occurrences(<<closing>>, e)
    <3>1. \A s, u \in Seq(RunEventType) :
            Occurrences(s \o u, e) = Occurrences(s, e) + Occurrences(u, e)
      BY OccurrencesConcat
    <3> QED BY <1>1, <1>2, <3>1, Zenon
  <2> HIDE DEF events
  <2> QED BY <1>3, <2>1, <2>2, <2>3, <2>4
<1>5. EndsWith(events, closing)
  <2>1. NoClosing(lost)
    BY DEF NoClosing, AmbiguousEvents, TerminalEvent
  <2> HIDE DEF lost
  <2>2. NoClosing(before \o lost)
    BY <1>1, <2>1 DEF NoClosing
  <2>3. EndsWith(<<closing>>, closing)
    BY DEF EndsWith
  <2> QED BY <1>1, <1>2, <2>2, <2>3, ClosingConcat
<1> HIDE DEF events, K
<1>6. /\ Occurrences(events, "attempt.claimed") = 0 /\ Occurrences(events, "attempt.started") = 0
      /\ Occurrences(events, "tool.requested") = 0 /\ Occurrences(events, "tool.started") = 0
      /\ Occurrences(events, "tool.ambiguous") = Cardinality(K)
  BY <1>4 DEF Counted
<1>7. job[j].count \in Nat
  <2>1. job[j] \in JobRow /\ MaxAttempts \in Nat
    BY RowTypes, BoundAssumption DEF BoundAssumption
  <2> QED BY <2>1 DEF JobRow
<1>8. \A a, b \in Nat : b = a => b = a + 0
  OBVIOUS
<1>9. /\ job'[j].count = job[j].count + 0
      /\ Cardinality(Begun(j)') = Cardinality(Begun(j)) + 0
  BY <1>7, <1>8, SameRows, RowsFinite, Zenon DEF SameClaims
<1>10. /\ Cardinality(CallRows(j, CallStatus \ {"absent"})') =
            Cardinality(CallRows(j, CallStatus \ {"absent"}))
       /\ Cardinality(CallRows(j, DispatchedCall)') = Cardinality(CallRows(j, DispatchedCall))
       /\ Cardinality(CallRows(j, {"ambiguous"})') =
            Cardinality(CallRows(j, {"ambiguous"})) + Cardinality(K)
  BY ReconcileMoves DEF K
<1>11. /\ Cardinality(CallRows(j, CallStatus \ {"absent"})') =
            Cardinality(CallRows(j, CallStatus \ {"absent"})) + 0
       /\ Cardinality(CallRows(j, DispatchedCall)') = Cardinality(CallRows(j, DispatchedCall)) + 0
  BY <1>8, <1>10, RowsFinite, Zenon
<1>12. timeline'[j] = timeline[j] \o events
  BY DEF events
<1>13. Recounts(j, events)
  BY <1>2, <1>6, <1>9, <1>10, <1>11, <1>12, Zenon DEF Recounts
<1>14. Concludes(j, events)
  BY <1>5, Zenon DEF Concludes
<1> QED BY <1>13, <1>14, Zenon DEF Tells

\* A post-start reclamation.
LEMMA AmbiguousStory ==
  ASSUME EngineInv, IdAssumption, BoundAssumption, NEW t \in Instants, NEW j \in Jobs, NEW n \in Numbers,
         ReclaimPostStartAmbiguous(j, n, t)
  PROVE  Tells(j)
<1> USE DEF EngineInv
<1> DEFINE before == <<"attempt.expired", "recovery.ambiguous">>
<1>1. /\ GivesUp(j, n, "failed") /\ SettlesRun(j, n, "failed") /\ ReconcileCalls(j, n)
      /\ Log(j, before \o AmbiguousEvents(j, n) \o <<"run.failed">>)
  BY AmbiguousEffect DEF ReclaimPostStartAmbiguous
<1>2. CountsOnly(before, "none") /\ NoClosing(before)
  <2>1. {"attempt.expired", "recovery.ambiguous"} \subseteq (RunEventType \ Counted) \ TerminalEvent
    BY DEF RunEventType, Counted, TerminalEvent
  <2> QED BY <2>1, ShortStories, OpenStories
<1> HIDE DEF before
<1>3. timeline'[j] = timeline[j] \o (before \o AmbiguousEvents(j, n) \o <<"run.failed">>)
  BY <1>1, Logged
<1>4. SameClaims(j) /\ SameStarts(j) /\ run'[j].status = "failed"
  BY <1>1 DEF GivesUp, SettlesRun, SameClaims, SameStarts, TerminalStatus
<1>5. /\ "run.failed" \in RunEventType \ Counted /\ run'[j].status \in TerminalStatus
      /\ "run.failed" = ClosingEvent(run'[j].status)
  BY <1>4 DEF RunEventType, Counted, TerminalStatus, ClosingEvent
<1> QED BY <1>1, <1>2, <1>3, <1>4, <1>5, ReconciledStory

\* An owner's cancellation, of a waiting Job or of a claimed one.
LEMMA CancelStory ==
  ASSUME EngineInv, IdAssumption, BoundAssumption, NEW j \in Jobs, Cancel(j)
  PROVE  Tells(j)
<1> USE DEF EngineInv
<1>1. /\ run'[j].status = "cancelled" /\ SameStarts(j)
  BY CancelEffect DEF SameStarts
<1>2. SameClaims(j)
  <2>1. job'[j] = [Released(job[j], "cancelled") EXCEPT !.cancelRequested = TRUE]
    BY PutFacts DEF Cancel
  <2> QED BY <2>1, ReleasedColumns, RowTypes DEF SameClaims
<1>3. /\ {"cancellation.requested"} \subseteq (RunEventType \ Counted) \ TerminalEvent
      /\ "run.cancelled" \in RunEventType \ Counted /\ run'[j].status \in TerminalStatus
      /\ "run.cancelled" = ClosingEvent(run'[j].status) /\ "cancellation.requested" \notin Counted
  BY <1>1 DEF RunEventType, Counted, TerminalEvent, TerminalStatus, ClosingEvent
<1>4. ASSUME UNCHANGED <<attempt, calls>>, Log(j, <<"cancellation.requested", "run.cancelled">>)
      PROVE  Tells(j)
  <2> DEFINE events == <<"cancellation.requested", "run.cancelled">>
  <2>1. CountsOnly(events, "none") /\ EndsWith(events, ClosingEvent("cancelled"))
    BY <1>3, ShortStories, ClosingStories
  <2>2. timeline'[j] = timeline[j] \o events
    BY <1>4, Logged
  <2> HIDE DEF events
  <2>3. Recounts(j, events)
    BY <1>1, <1>2, <1>4, <2>1, <2>2, PlainStory
  <2>4. Concludes(j, events)
    BY <1>1, <1>3, <2>1, Zenon DEF Concludes
  <2> QED BY <2>3, <2>4, Zenon DEF Tells
<1>5. ASSUME NEW n \in ActiveNumbers(j), ReconcileCalls(j, n),
             Log(j, <<"cancellation.requested">> \o AmbiguousEvents(j, n) \o <<"run.cancelled">>)
      PROVE  Tells(j)
  <2> DEFINE before == <<"cancellation.requested">>
  <2>1. n \in Numbers
    BY DEF ActiveNumbers
  <2>2. CountsOnly(before, "none") /\ NoClosing(before)
    <3>1. CountsOnly(before, "cancellation.requested") /\ NoClosing(before)
      BY <1>3, ShortStories, OpenStories
    <3> QED BY <1>3, <3>1 DEF CountsOnly, Counted
  <2> HIDE DEF before
  <2>3. timeline'[j] = timeline[j] \o (before \o AmbiguousEvents(j, n) \o <<"run.cancelled">>)
    BY <1>5, Logged DEF before
  <2> QED BY <1>1, <1>2, <1>3, <1>5, <2>1, <2>2, <2>3, ReconciledStory
<1> QED BY <1>4, <1>5 DEF Cancel

\* Every step leaves all timelines alone, or tells in one what it did to its rows.
LEMMA StepTells ==
  ASSUME EngineInv, IdAssumption, BoundAssumption, [Next]_vars
  PROVE  (\A i \in Jobs : Untouched(i)) \/ (\E j \in Jobs : Touches(j) /\ Tells(j))
<1>1. CASE Tick \/ UNCHANGED vars
  BY <1>1 DEF Tick, vars, Untouched, Kept
<1>2. ASSUME NEW t \in Instants, NEW j \in Jobs, NEW i \in Instances,
             Submit(j, i[1], i[2], t)
      PROVE  Touches(j) /\ Tells(j)
  BY <1>2, SubmitScope, SubmitStory
<1>3. ASSUME NEW t \in Instants, NEW w \in Workers, Claim(w, t)
      PROVE  \E j \in Jobs : Touches(j) /\ Tells(j)
  BY <1>3, ClaimStory
<1>4. ASSUME NEW t \in Instants, NEW j \in Jobs, NEW n \in Numbers,
             OwnerStep(j, n, t) \/ Reclaim(j, n, t)
      PROVE  Touches(j) /\ Tells(j)
  <2>1. Touches(j)
    BY <1>4, OwnerScope
  <2>2. OwnerStep(j, n, t) => Tells(j)
    BY StartStory, HolderStory, ToolCallStory DEF OwnerStep
  <2>3. Reclaim(j, n, t) => Tells(j)
    BY HolderStory, AmbiguousStory DEF Reclaim
  <2> QED BY <1>4, <2>1, <2>2, <2>3
<1>5. ASSUME NEW j \in Jobs, Cancel(j) PROVE Touches(j) /\ Tells(j)
  BY <1>5, CancelScope, CancelStory
<1> QED BY <1>1, <1>2, <1>3, <1>4, <1>5 DEF Next

\* The story is kept by every step.
LEMMA StoryStep ==
  ASSUME EngineStory, IdAssumption, BoundAssumption, [Next]_vars
  PROVE  EngineStory'
<1>1. EngineInv'
  BY EngineStep DEF EngineStory
<1>2. ASSUME \A i \in Jobs : Untouched(i) PROVE \A i \in Jobs : Told(i)'
  BY <1>2, UntouchedStory DEF EngineStory
<1>3. ASSUME NEW j \in Jobs, Touches(j), Tells(j) PROVE \A i \in Jobs : Told(i)'
  <2>1. Told(j)'
    BY <1>3, RecountedStory DEF EngineStory, EngineInv, Touches, Tells
  <2>2. \A i \in Jobs \ {j} : Told(i)'
    BY <1>3, UntouchedStory DEF EngineStory, Touches
  <2> QED BY <2>1, <2>2
<1>4. \A i \in Jobs : Told(i)'
  BY <1>2, <1>3, StepTells DEF EngineStory
<1> QED BY <1>1, <1>4 DEF EngineStory

\* The empty tables have nothing to tell.
LEMMA StoryInit == IdAssumption /\ BoundAssumption /\ Init => EngineStory
<1> SUFFICES ASSUME IdAssumption, BoundAssumption, Init PROVE EngineStory
  OBVIOUS
<1>1. EngineInv
  BY EngineInit
<1>2. ASSUME NEW j \in Jobs PROVE Told(j)
  <2>1. /\ timeline[j] = << >> /\ job[j].count = 0 /\ run[j].status = "absent"
        /\ \A n \in Numbers : ~attempt[j][n].started
        /\ \A n \in Numbers, k \in Slots : calls[j][n][k] = "absent"
    BY DEF Init, AbsentJob, AbsentRun, AbsentAttempt
  <2>2. Begun(j) = {} /\ CallRows(j, CallStatus \ {"absent"}) = {}
    BY <2>1 DEF Begun, CallRows
  <2>3. CallRows(j, DispatchedCall) = {} /\ CallRows(j, {"ambiguous"}) = {}
    BY <2>1 DEF CallRows, DispatchedCall
  <2>4. /\ Cardinality(Begun(j)) = 0 /\ Cardinality(CallRows(j, CallStatus \ {"absent"})) = 0
        /\ Cardinality(CallRows(j, DispatchedCall)) = 0
        /\ Cardinality(CallRows(j, {"ambiguous"})) = 0
    BY <2>2, <2>3, FS_EmptySet, Zenon
  <2>5. \A e : Occurrences(timeline[j], e) = 0
    BY <2>1, OccurrencesOne, Zenon
  <2>6. Counts(j)
    BY <2>1, <2>4, <2>5, Zenon DEF Counts
  <2>7. Closing(j)
    BY <2>1, OpenStories DEF Closing, TerminalStatus
  <2> QED BY <2>6, <2>7 DEF Told
<1> QED BY <1>1, <1>2 DEF EngineStory

\* What the counts and the closing event say of the timeline of one Job.
LEMMA ToldIsTrue ==
  ASSUME TypeOK, NEW j \in Jobs, Told(j)
  PROVE  LET log == timeline[j] IN
    /\ EventCount(j, "attempt.claimed") = job[j].count
    /\ EventCount(j, "attempt.started") =
         Cardinality({n \in Numbers : attempt[j][n].started})
    /\ EventCount(j, "tool.requested") =
         Cardinality(CallRows(j, CallStatus \ {"absent"}))
    /\ EventCount(j, "tool.started") = Cardinality(CallRows(j, DispatchedCall))
    /\ EventCount(j, "tool.ambiguous") = Cardinality(CallRows(j, {"ambiguous"}))
    /\ \A i \in DOMAIN log : log[i] \in TerminalEvent => i = Len(log)
    /\ run[j].status \in TerminalStatus <=>
         log # << >> /\ log[Len(log)] \in TerminalEvent
    /\ run[j].status = "cancelled" <=> EventCount(j, "run.cancelled") = 1
    /\ run[j].status = "succeeded" <=> EventCount(j, "run.succeeded") = 1
<1> DEFINE log == timeline[j]
           status == run[j].status
<1>1. \A e : EventCount(j, e) = Occurrences(log, e)
  BY DEF EventCount, Occurrences
<1>2. log \in Seq(RunEventType)
  BY DEF TypeOK
<1>3. /\ EventCount(j, "attempt.claimed") = job[j].count
      /\ EventCount(j, "attempt.started") = Cardinality({n \in Numbers : attempt[j][n].started})
      /\ EventCount(j, "tool.requested") = Cardinality(CallRows(j, CallStatus \ {"absent"}))
      /\ EventCount(j, "tool.started") = Cardinality(CallRows(j, DispatchedCall))
      /\ EventCount(j, "tool.ambiguous") = Cardinality(CallRows(j, {"ambiguous"}))
  BY <1>1, Zenon DEF Told, Counts, Begun
<1>4. ASSUME NEW s \in Seq(RunEventType), NoClosing(s), NEW e \in TerminalEvent
      PROVE  Occurrences(s, e) = 0
  <2>1. {i \in DOMAIN s : s[i] = e} = {}
    BY <1>4 DEF NoClosing
  <2> QED BY <2>1, FS_EmptySet, Zenon DEF Occurrences
<1>5. ASSUME NEW s \in Seq(RunEventType), NEW c \in TerminalEvent, EndsWith(s, c),
             NEW e \in TerminalEvent
      PROVE  Occurrences(s, e) = IF e = c THEN 1 ELSE 0
  <2>1. {i \in DOMAIN s : s[i] = e} = IF e = c THEN {Len(s)} ELSE {}
    BY <1>5 DEF EndsWith
  <2>2. Cardinality({Len(s)}) = 1 /\ Cardinality({}) = 0
    BY FS_EmptySet, FS_Singleton
  <2> QED BY <2>1, <2>2 DEF Occurrences
<1>6. CASE status \notin TerminalStatus
  <2>1. NoClosing(log)
    BY <1>6 DEF Told, Closing
  <2>2. "run.cancelled" \in TerminalEvent /\ "run.succeeded" \in TerminalEvent
    BY DEF TerminalEvent
  <2>3. EventCount(j, "run.cancelled") = 0 /\ EventCount(j, "run.succeeded") = 0
    BY <1>1, <1>2, <1>4, <2>1, <2>2, Zenon
  <2>4. \A i \in DOMAIN log : log[i] \notin TerminalEvent
    BY <2>1 DEF NoClosing
  <2>5. log # << >> => log[Len(log)] \notin TerminalEvent
    BY <1>2, <2>4
  <2> QED BY <1>3, <1>6, <2>3, <2>4, <2>5 DEF TerminalStatus
<1>7. CASE status \in TerminalStatus
  <2> DEFINE c == ClosingEvent(status)
  <2>1. EndsWith(log, c) /\ c \in TerminalEvent
    BY <1>7 DEF Told, Closing, ClosingEvent, TerminalEvent
  <2>2. /\ c = "run.cancelled" <=> status = "cancelled"
        /\ c = "run.succeeded" <=> status = "succeeded"
    BY <1>7 DEF ClosingEvent, TerminalStatus
  <2>3. "run.cancelled" \in TerminalEvent /\ "run.succeeded" \in TerminalEvent
    BY DEF TerminalEvent
  <2> HIDE DEF c, status, log
  <2>4. /\ Occurrences(log, "run.cancelled") = IF "run.cancelled" = c THEN 1 ELSE 0
        /\ Occurrences(log, "run.succeeded") = IF "run.succeeded" = c THEN 1 ELSE 0
    BY <1>2, <1>5, <2>1, <2>3
  <2>5. /\ EventCount(j, "run.cancelled") = 1 <=> status = "cancelled"
        /\ EventCount(j, "run.succeeded") = 1 <=> status = "succeeded"
    BY <1>1, <2>2, <2>4
  <2>6. /\ \A i \in DOMAIN log : log[i] \in TerminalEvent => i = Len(log)
        /\ Len(log) >= 1 /\ log[Len(log)] \in TerminalEvent
    BY <2>1 DEF EndsWith
  <2>7. log # << >>
    BY <2>6
  <2> QED BY <1>3, <1>7, <2>5, <2>6, <2>7 DEF status, log
<1> QED BY <1>6, <1>7

\* The timeline tells the Run's story: one event per claim, per started Attempt,
\* per requested, dispatched and ambiguous tool call, and one closing event, the
\* last, exactly when the Run is settled (append_event_on_connection).
THEOREM TimelineTruthfulHolds == Spec => []TimelineTruthful
<1>1. Init => EngineStory
  BY StoryInit, IdAssumption, BoundAssumption
<1>2. EngineStory /\ [Next]_vars => EngineStory'
  BY StoryStep, IdAssumption, BoundAssumption
<1>3. EngineStory => TimelineTruthful
  BY ToldIsTrue, Zenon DEF EngineStory, EngineInv, TimelineTruthful
<1> QED BY <1>1, <1>2, <1>3, PTL DEF Spec
=============================================================================
