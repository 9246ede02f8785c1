---------------------------- MODULE MCJobEngine ----------------------------
(* One Agent Instance on one provider, served by one Worker whose budget   *)
(* never binds: the runs that vary crashes, retries and interleavings.     *)
EXTENDS JobEngine

OneInstance == {<<1, 1>>}
AllCapable == [w \in Workers |-> Providers]
AmpleBudget == [w \in Workers |-> 2]
=============================================================================
