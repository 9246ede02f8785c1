---------------------------- MODULE MCScheduler ----------------------------
(***************************************************************************)
(* The two ticks of the Scheduler process on bounded instances, one at a   *)
(* time (they share no row), chosen at the start by view:                  *)
(*   triggers     due triggers of two agents, one of them without room;    *)
(*   one          one workflow with everything that can happen to it;      *)
(*   several      workflows that compete for the scan and the queue, while *)
(*                nobody but the Worker, the tick and one edit of an agent *)
(*                instance touches them.                                   *)
(***************************************************************************)
EXTENDS Triggers, Workflows

CONSTANTS a1, a2,
    First       \* the workflow of the view "one"

VARIABLE view

TargetTwo == [t \in TriggerId |-> IF t = 1 THEN a1 ELSE a2]
TickSchedules == {[kind |-> "one_time", arg |-> 1]}
MCBudgets == {[steps |-> 2, reservation |-> 3], [steps |-> 3, reservation |-> 2]}
mcVars == <<vars, wfVars, view>>

InView(v) == view = v /\ UNCHANGED view
OnlyTriggers == InView("triggers") /\ UNCHANGED wfVars
OnlyWorkflows == view # "triggers" /\ UNCHANGED <<view, vars>>

One ==
    /\ InView("one")
    /\ \A w \in Workflow \ {First} : wf'[w] = Absent /\ wfAgent'[w] = wfAgent[w]

Competing ==
    \/ \E w \in Workflow : CreateWorkflow(w, [steps |-> 2, reservation |-> 3])
    \/ \E w \in Workflow : StartStepRun(w)
    \/ \E w \in Workflow : LoseStepRun(w, "failed")
    \/ \E w \in Workflow : \E dir \in Directives :
          dir.kind \in {"next", "complete"} /\ CommitStep(w, dir)
    \/ WorkflowTick
    \/ \E w \in Workflow : \E a \in AgentEdits(wfAgent[w]) : EditAgent(w, a)

MCInit == Init /\ WorkflowInit /\ view \in {"triggers", "one", "several"}
MCNext ==
    \/ Next /\ OnlyTriggers
    \/ WorkflowNext /\ One /\ UNCHANGED vars
    \/ Competing /\ InView("several") /\ UNCHANGED vars

\* The fairness of Triggers and of Workflows, each in its own views.  Start,
\* ReadPage and Evaluate are enabled at different places of the loop, so one
\* condition stands for the three.
MCSpec ==
    /\ MCInit /\ [][MCNext]_mcVars
    /\ \A s \in Scheduler :
         /\ WF_mcVars((Start(s) \/ ReadPage(s) \/ Evaluate(s)) /\ OnlyTriggers)
         /\ \A t \in TriggerId : SF_mcVars(Applies(s, t) /\ OnlyTriggers)
    /\ <>[][\A s \in Scheduler : sch[s].pc # "down" => sch'[s].pc # "down"]_sch
    /\ <>[][\A a \in Agent : agent'[a].definition = agent[a].definition]_agent
    /\ WF_mcVars(WorkflowTick /\ OnlyWorkflows)
    /\ \A w \in Workflow : WF_mcVars(StepRunProgress(w) /\ OnlyWorkflows)
=============================================================================
