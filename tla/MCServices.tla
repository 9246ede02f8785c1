----------------------------- MODULE MCServices -----------------------------
(***************************************************************************)
(* The services around the job engine on bounded instances.  They share no *)
(* row with one another, so one is looked at at a time: view says which,   *)
(* and through which of its operations, and everything else stands still.  *)
(*   talk       a Turn, its Runs and the conversation's status             *)
(*   dispute    two Turns, retries, late and lost projections              *)
(*   history    a longer conversation, its compaction and one memory       *)
(*   learning   what a Turn's Runs propose and the maintenance pass        *)
(*   review     what other Runs propose and the owner's decisions          *)
(*   editing    the owner's clients on the memory items                    *)
(***************************************************************************)
EXTENDS Memory

VARIABLE view

MCCost == [m \in ClientMessage |-> IF m = 3 THEN 2 ELSE 1]
\* A message with a blank line, one no compaction can hold, one that looks like a heading.
MCBlocks ==
    LET Cut(cost, reads) == [cost |-> cost, reads |-> reads] IN
    [m \in ClientMessage |->
        CASE m = 1 -> <<Cut(1, 0), Cut(1, 0)>>
          [] m = 2 -> <<Cut(3, 0)>>
          [] m = 3 -> <<Cut(1, 0), Cut(1, 9)>>
          [] OTHER -> <<Cut(1, 0)>>]
mcVars == <<memoryVars, view>>

InView(v) == view = v /\ UNCHANGED view
InOrder == \A i \in DOMAIN turns' : turns'[i].message = i

Talking == TalkSubmit \/ (\E r \in DOMAIN runs : SucceedProposing(r, {})) \/ TalkOn
Talk == Talking /\ Len(turns') <= 1 /\ Len(runs') <= 2
Dispute ==
    /\ \/ TalkSubmit
       \/ \E r \in DOMAIN runs : SucceedProposing(r, {})
       \/ /\ \/ \E r \in DOMAIN runs : SettleAttempt(r, "failed")
             \/ \E r \in DOMAIN runs : SettleLate(r, "succeeded")
             \/ \E r \in DOMAIN runs : ScheduleAnotherAttempt(r)
             \/ \E r \in DOMAIN runs : EndUnprojected(r, "cancelled")
             \/ \E p \in owed : Project(p)
             \/ \E r \in DOMAIN runs : Reconcile(r)
          /\ UNCHANGED memoryOnly
    /\ Len(turns') <= 2 /\ Len(runs') <= 3 /\ Cardinality(owed') <= 2

History ==
    \/ owed = {} /\ TalkSubmit
    \/ items = <<>> /\ CreateMemory("user", 1)
    \/ \E r \in DOMAIN runs : SucceedProposing(r, {})
    \/ /\ \/ \E r \in DOMAIN runs : SettleAttempt(r, "failed")
          \/ \E p \in owed : Project(p)
          \/ RefreshCompaction
          \/ LoseRefresh
       /\ UNCHANGED memoryOnly

WorkToDo == \E r \in DOMAIN runs : Waiting(r) \/ integrations[r].state = "extraction_queued"

Succeeds == \E r \in DOMAIN runs : \E ps \in SUBSET [scope : {"agent"}, fact : {1}] :
               SucceedProposing(r, ps)
Passing == MemoryPass /\ (pass.phase = "idle" => WorkToDo)

Learning ==
    /\ \/ Len(runs) < 2 /\ TalkSubmit
       \/ Succeeds
       \/ /\ \/ \E r \in DOMAIN runs : ScheduleAnotherAttempt(r) \/ SettleAttempt(r, "failed")
             \/ \E p \in owed : Project(p)
             \/ runs # <<>> /\ Delete
          /\ UNCHANGED memoryOnly
       \/ Passing
       \/ pass.phase = "materializing" /\ AbandonPass
       \/ WorkToDo /\ pass.phase = "idle" /\ instanceEnabled /\ ToggleInstance
       \/ \E mode \in {"automatic_private", "manual"} : SetPolicy(mode, TRUE)
    /\ Len(turns') <= 1

Review ==
    \/ Len(runs) < 2 /\ SubmitRun(1)
    \/ Succeeds
    \/ Passing
    \/ \E mode \in Mode : SetPolicy(mode, FALSE)
    \/ \E k \in DOMAIN suggestions : \E a \in BOOLEAN : DecideSuggestion(k, a)
    \/ \E i \in DOMAIN items : DeleteMemory(i)
    \/ \E r \in DOMAIN runs : PromoteRun(r, "agent", 1)

Editing ==
    \/ \E sc \in MemScope : CreateMemory(sc, 1)
    \/ \E e \in Editors : \E i \in DOMAIN items : ReadMemory(e, i)
    \/ \E e \in Editors : EditMemory(e, 1)
    \/ \E i \in DOMAIN items : DeleteMemory(i)

MCInit == MemoryInit /\ view \in {"talk", "dispute", "history", "learning", "review", "editing"}
MCNext ==
    \/ Talk /\ InView("talk") /\ InOrder
    \/ Dispute /\ InView("dispute") /\ InOrder
    \/ History /\ InView("history") /\ InOrder
    \/ Learning /\ InView("learning") /\ InOrder
    \/ Review /\ InView("review")
    \/ Editing /\ InView("editing")

MCSpec ==
    /\ MCInit /\ [][MCNext]_mcVars
    /\ WF_mcVars(Passing /\ UNCHANGED view /\ view \in {"learning", "review"})
    /\ SF_mcVars(MaterializePending /\ InView("learning"))
=============================================================================
