---------------------------- MODULE MCSubmission ----------------------------
(* Two callers that submit to one Agent Instance, served by one Worker.     *)
EXTENDS Submission

OneInstance == {<<1, 1>>}
AllCapable == [w \in Workers |-> Providers]
AmpleBudget == [w \in Workers |-> 2]

\* Every Worker polls and sweeps as long as it lives, and time passes.
SubmitFairSpec ==
  /\ SubmitSpec
  /\ WF_vars(Tick)
  /\ \A w \in Workers : WF_vars(\E t \in Instants : Claim(w, t))
  /\ WF_vars(\E t \in Instants, j \in Jobs, n \in Numbers : Reclaim(j, n, t))
=============================================================================
