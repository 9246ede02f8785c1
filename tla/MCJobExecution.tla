--------------------------- MODULE MCJobExecution ---------------------------
(***************************************************************************)
(* One conversational Run of one Agent Instance, served by one Worker.     *)
(* The view, chosen at the start, bounds what happens together:            *)
(*   attempts   two Attempts, no tool call                                 *)
(*   calls      one Attempt with a tool call or a refused one              *)
(***************************************************************************)
EXTENDS JobExecution

VARIABLE view

OneInstance == {<<1, 1>>}
AllCapable == [w \in Workers |-> Providers]
AmpleBudget == [w \in Workers |-> 2]

NoTool == \A j \in Jobs : /\ \A n \in Numbers, k \in Slots : calls[j][n][k] = "absent"
                          /\ EventCount(j, "tool.denied") = 0
MCInit == ExecInit /\ view \in {"attempts", "calls"}
MCNext ==
    /\ ExecNext /\ UNCHANGED view
    /\ view = "attempts" => NoTool'
    /\ view = "calls" => \A j \in Jobs : job'[j].count <= 1
MCSpec == MCInit /\ [][MCNext]_<<execVars, view>>
=============================================================================
