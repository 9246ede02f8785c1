-------------------------- MODULE MCClaimFairness --------------------------
(* Three Agent Instances on three providers, one of them on two, so that   *)
(* each of the three ceilings is the one that binds in some state; one     *)
(* Worker that runs only the first provider, and one whose own budget is   *)
(* above the global ceiling.                                               *)
EXTENDS ClaimFairness

MixedInstances == {<<1, 1>>, <<2, 1>>, <<2, 2>>, <<3, 3>>}
SplitCapability == [w \in Workers |-> IF w = "w1" THEN {1} ELSE {1, 2, 3}]
SplitBudget == [w \in Workers |-> IF w = "w1" THEN 1 ELSE 3]

\* View: what a later step or the two invariants can tell apart when a Job has one
\* Attempt and no tool calls.  The rows of closed Attempts, the timeline, the error
\* code and the exact start are written and never read again.
Relevant ==
  << clock, served, passed, revived,
     [j \in Jobs |-> IF job[j].status = "queued" THEN job[j]
                                                 ELSE [job[j] EXCEPT !.available = NULL]],
     [j \in Jobs |-> run[j].status],
     [j \in Jobs |-> {attempt[j][n] : n \in ActiveNumbers(j)}] >>
=============================================================================
