--------------------------- MODULE WorkerService ----------------------------
(***************************************************************************)
(* One Worker process: run_worker and Worker.run with their slots, the     *)
(* registry row of this incarnation and its heartbeat, and the drain that  *)
(* ends it.  What a slot executes is JobExecution's; the reclaim sweep and *)
(* the memory pass, which only share the stop event, are JobEngine's and   *)
(* Memory's.                                                               *)
(*                                                                         *)
(* The wall clock may move either way.  A call handed to a thread goes on  *)
(* when the task that awaits it is cancelled: a claim or a heartbeat that  *)
(* was in flight still commits.                                            *)
(***************************************************************************)
EXTENDS Naturals

CONSTANTS
    Slots,           \* worker_concurrency slots
    Stubborn,        \* slots whose provider coroutine suppresses cancellation
    ClockValues,     \* what the wall clock may show
    MaxBegun         \* bound: Jobs one slot begins

ASSUME WorkerAssumption == Stubborn \subseteq Slots /\ ClockValues \subseteq Nat /\ MaxBegun \in Nat

VARIABLES
    process,         \* where run_worker is
    stopSet,         \* the stop event
    slot,            \* slot -> state of its task, Jobs it began, those begun after stop
    workerRow,       \* the workers row of this incarnation
    beating,         \* the registry heartbeat task
    wall             \* the wall clock

workerVars == <<process, stopSet, slot, workerRow, beating, wall>>

NoSlot == [state |-> "absent", begun |-> 0, late |-> 0]
AliveSlot == {"idle", "claiming", "executing"}
EndedSlot == {"ended", "stranded"}       \* stranded: its claim committed, nobody executes it

WorkerInit ==
    /\ process = "starting" /\ stopSet = FALSE /\ beating = "off"
    /\ slot = [s \in Slots |-> NoSlot]
    /\ workerRow = [state |-> "absent", beat |-> 0, stopped |-> 0]
    /\ wall \in ClockValues

SetSlot(s, state) == slot' = [slot EXCEPT ![s].state = state]
Lost == workerRow.state # "live"
\* Mutant: the beat is written whatever it was.
LaterAlways == ~Lost
LaterBeat == ~Lost /\ workerRow.beat < wall
\* heartbeat_worker.
Beat == workerRow' = IF LaterBeat THEN [workerRow EXCEPT !.beat = wall] ELSE workerRow

-----------------------------------------------------------------------------
\* run_worker and Worker.run up to the slots.

Register ==
    /\ process = "starting" /\ process' = "confirming"
    /\ workerRow' = [state |-> "live", beat |-> wall, stopped |-> 0]
    /\ UNCHANGED <<stopSet, slot, beating, wall>>
\* The startup pass and the first heartbeat come before any slot.
Confirm ==
    /\ process = "confirming" /\ Beat
    /\ \/ /\ Lost /\ process' = "exited" /\ stopSet' = TRUE /\ UNCHANGED <<slot, beating>>
       \/ /\ ~Lost /\ process' = "running" /\ beating' = "waiting" /\ UNCHANGED stopSet
          /\ slot' = [s \in Slots |-> [NoSlot EXCEPT !.state = "idle"]]
    /\ UNCHANGED wall

-----------------------------------------------------------------------------
\* A slot: claim, execute, until stop.

\* Mutant: stop is looked at only when a slot starts.
MayClaimAlways == TRUE
MayClaim == ~stopSet
BeginClaim(s) ==
    /\ slot[s].state = "idle" /\ MayClaim /\ slot[s].begun < MaxBegun /\ SetSlot(s, "claiming")
    /\ UNCHANGED <<process, stopSet, workerRow, beating, wall>>
\* claim_next answers; a claim that was asked for before stop is executed after it.
Claimed(s) ==
    /\ slot[s].state = "claiming"
    /\ slot' = [slot EXCEPT ![s] = [state |-> "executing", begun |-> @.begun + 1, late |-> @.late + IF stopSet THEN 1 ELSE 0]]
    /\ UNCHANGED <<process, stopSet, workerRow, beating, wall>>
NothingToClaim(s) ==
    /\ slot[s].state = "claiming" /\ SetSlot(s, "idle")
    /\ UNCHANGED <<process, stopSet, workerRow, beating, wall>>
Executed(s) ==
    /\ slot[s].state = "executing" /\ SetSlot(s, "idle")
    /\ UNCHANGED <<process, stopSet, workerRow, beating, wall>>
SlotStops(s) ==
    /\ slot[s].state = "idle" /\ stopSet /\ SetSlot(s, "ended")
    /\ UNCHANGED <<process, stopSet, workerRow, beating, wall>>
\* Something no handler catches ends one slot: stop is not set by it.
SlotDies(s) ==
    /\ slot[s].state = "executing" /\ SetSlot(s, "ended")
    /\ UNCHANGED <<process, stopSet, workerRow, beating, wall>>

\* _registry_heartbeat: a write may be in flight when the task is cancelled.
BeginBeat ==
    /\ beating = "waiting" /\ beating' = IF stopSet THEN "off" ELSE "writing"
    /\ UNCHANGED <<process, stopSet, slot, workerRow, wall>>
EndBeat ==
    /\ beating \in {"writing", "orphaned"} /\ Beat
    /\ beating' = IF beating = "orphaned" \/ Lost THEN "off" ELSE "waiting"
    /\ stopSet' = (stopSet \/ (beating = "writing" /\ Lost))
    /\ UNCHANGED <<process, slot, wall>>
BeatFails ==
    /\ beating = "writing" /\ beating' = "waiting"
    /\ UNCHANGED <<process, stopSet, slot, workerRow, wall>>

-----------------------------------------------------------------------------
\* Stopping: FIRST_COMPLETED, the drain in two bounded waits, the registry.

Signal ==
    /\ process \in {"starting", "confirming", "running"} /\ ~stopSet /\ stopSet' = TRUE
    /\ UNCHANGED <<process, slot, workerRow, beating, wall>>
FirstCompleted ==
    /\ process = "running" /\ (stopSet \/ \E s \in Slots : slot[s].state \in EndedSlot)
    /\ process' = "draining"
    /\ UNCHANGED <<stopSet, slot, workerRow, beating, wall>>
AllEnded == \A s \in Slots : slot[s].state \in EndedSlot
\* The grace is over: what is still pending is cancelled.  A slot cancelled in
\* claim_next leaves a claim that may yet commit.
GraceEnds ==
    /\ process = "draining" /\ ~AllEnded /\ process' = "cancelling"
    /\ slot' = [s \in Slots |-> IF slot[s].state \in AliveSlot
                                THEN [slot[s] EXCEPT !.state = IF @ = "claiming" THEN "stranded"
                                                               ELSE IF @ = "executing" THEN "cancelled" ELSE "ended"] ELSE slot[s]]
    /\ UNCHANGED <<stopSet, workerRow, beating, wall>>
\* A cancelled slot writes no terminal state.
SlotUnwinds(s) ==
    /\ slot[s].state = "cancelled" /\ s \notin Stubborn /\ SetSlot(s, "ended")
    /\ UNCHANGED <<process, stopSet, workerRow, beating, wall>>
\* One that suppressed the cancellation goes round its loop again.
SlotSurvives(s) ==
    /\ slot[s].state = "cancelled" /\ s \in Stubborn /\ SetSlot(s, "idle")
    /\ UNCHANGED <<process, stopSet, workerRow, beating, wall>>
\* Mutant: the second wait has no bound.
WaitForAll == AllEnded
SecondWaitOver == TRUE
DrainEnds ==
    /\ \/ process = "draining" /\ AllEnded
       \/ process = "cancelling" /\ SecondWaitOver
    /\ process' = "closing"
    /\ slot' = [s \in Slots |-> IF slot[s].state \in EndedSlot THEN slot[s] ELSE [slot[s] EXCEPT !.state = "abandoned"]]
    /\ UNCHANGED <<stopSet, workerRow, beating, wall>>
\* The auxiliary tasks are cancelled and awaited; a write in a thread goes on.
CancelAuxiliary ==
    /\ process = "closing" /\ process' = "recording"
    /\ beating' = IF beating = "writing" THEN "orphaned" ELSE "off"
    /\ UNCHANGED <<stopSet, slot, workerRow, wall>>
\* stop_worker: a last beat, and stopped_at mirrors it.
LastBeat == IF workerRow.beat < wall THEN wall ELSE workerRow.beat
\* Mutant: the stop is recorded before the drain.
RecordStopEarly ==
    /\ process = "running" /\ stopSet /\ process' = "draining"
    /\ workerRow' = IF Lost THEN workerRow ELSE [state |-> "stopped", beat |-> LastBeat, stopped |-> LastBeat]
    /\ UNCHANGED <<stopSet, slot, beating, wall>>
RecordStop ==
    /\ process = "recording" /\ process' = "exited"
    /\ workerRow' = IF Lost THEN workerRow ELSE [state |-> "stopped", beat |-> LastBeat, stopped |-> LastBeat]
    /\ UNCHANGED <<stopSet, slot, beating, wall>>

\* The process dies: its row goes on looking live.
CrashWorkerProcess ==
    /\ process \notin {"exited", "crashed"} /\ process' = "crashed" /\ beating' = "off"
    /\ slot' = [s \in Slots |-> [slot[s] EXCEPT !.state = "absent"]]
    /\ UNCHANGED <<stopSet, workerRow, wall>>
\* The row is removed by hand.
LoseRow ==
    /\ workerRow.state = "live" /\ workerRow' = [workerRow EXCEPT !.state = "absent"]
    /\ UNCHANGED <<process, stopSet, slot, beating, wall>>
SetClock == \E t \in ClockValues : t # wall /\ wall' = t /\ UNCHANGED <<process, stopSet, slot, workerRow, beating>>

Stopping == FirstCompleted \/ GraceEnds \/ DrainEnds \/ CancelAuxiliary \/ RecordStop
SlotStep(s) ==
    \/ BeginClaim(s) \/ Claimed(s) \/ NothingToClaim(s) \/ Executed(s)
    \/ SlotStops(s) \/ SlotDies(s) \/ SlotUnwinds(s) \/ SlotSurvives(s)
WorkerNext ==
    \/ Register \/ Confirm \/ (\E s \in Slots : SlotStep(s)) \/ BeginBeat \/ EndBeat \/ BeatFails
    \/ Signal \/ Stopping \/ CrashWorkerProcess \/ LoseRow \/ SetClock
WorkerSpec == WorkerInit /\ [][WorkerNext]_workerVars /\ WF_workerVars(Stopping)

-----------------------------------------------------------------------------
\* Properties.

WorkerTypeOK ==
    /\ process \in {"starting", "confirming", "running", "draining", "cancelling", "closing", "recording", "exited", "crashed"}
    /\ beating \in {"off", "waiting", "writing", "orphaned"} /\ stopSet \in BOOLEAN /\ wall \in ClockValues
    /\ slot \in [Slots -> [state : {"absent", "cancelled", "abandoned"} \union AliveSlot \union EndedSlot,
                           begun : 0..MaxBegun, late : 0..MaxBegun]]

\* Once the stop event is set, by a signal or by a heartbeat that found its row
\* gone, a slot begins at most the one Job it had already asked for.
LateWorkBounded == \A s \in Slots : slot[s].late <= 1

\* A row that says stopped is true of the process: no slot is at work but one
\* that outlived both waits of the drain, and stopped_at is the last beat.
StoppedIsTrue ==
    workerRow.state = "stopped" =>
        /\ \A s \in Slots : slot[s].state \in EndedSlot \union {"abandoned", "absent"}
        /\ workerRow.stopped = workerRow.beat

\* The parts together.
WorkerSound == WorkerTypeOK /\ LateWorkBounded /\ StoppedIsTrue

\* last_heartbeat_at never moves back, whatever the wall clock does, and a
\* stopped row is not written again, not even by a heartbeat still in flight.
BeatMonotone == [][
    /\ workerRow.state = "live" /\ workerRow'.state # "absent" => workerRow'.beat >= workerRow.beat
    /\ workerRow.state = "stopped" => workerRow' = workerRow
  ]_workerVars

\* A Worker that begins to stop exits, although a slot ignores its cancellation,
\* keeps claiming because stop was never set, or never ends.
NotStopping == process \notin {"draining", "cancelling", "closing", "recording"}
WorkerExits == []<>NotStopping
=============================================================================
