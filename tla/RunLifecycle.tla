---------------------------- MODULE RunLifecycle ----------------------------
(***************************************************************************)
(* What the durable engine promises about one accepted Run, with no queue, *)
(* Worker, lease or clock: it is executed at most once at a time, every    *)
(* execution has an identity that begins at most once, a further execution *)
(* begins only after the previous one was positively declined, a Run that  *)
(* succeeds was being executed, and a settled Run never changes.           *)
(***************************************************************************)
CONSTANTS
  Runs,          \* accepted Runs
  Executions     \* identities of the executions of one Run

VARIABLES
  phase,         \* phase[r]: where the promise about Run r stands
  begun          \* begun[r]: the executions of r that ever began

lifecycleVars == <<phase, begun>>

Settled == {"succeeded", "failed", "cancelled"}
Pending == {"accepted", "executing", "declined"}

Init ==
  /\ phase = [r \in Runs |-> "absent"]
  /\ begun = [r \in Runs |-> {}]

Accept(r) ==
  /\ phase[r] = "absent"
  /\ phase' = [phase EXCEPT ![r] = "accepted"]
  /\ UNCHANGED begun

\* A Run is executed when it was accepted, or again after a positive decline.
Begin(r, e) ==
  /\ phase[r] \in {"accepted", "declined"}
  /\ e \notin begun[r]
  /\ phase' = [phase EXCEPT ![r] = "executing"]
  /\ begun' = [begun EXCEPT ![r] = @ \cup {e}]

Decline(r) ==
  /\ phase[r] = "executing"
  /\ phase' = [phase EXCEPT ![r] = "declined"]
  /\ UNCHANGED begun

\* Success and failure are reports on an execution; a Run that was never
\* executed may be closed as failed, and any pending Run may be cancelled.
Settle(r, outcome) ==
  /\ phase[r] \in Pending
  /\ outcome = "succeeded" => phase[r] = "executing"
  /\ outcome = "failed" => phase[r] = "executing" \/ begun[r] = {}
  /\ phase' = [phase EXCEPT ![r] = outcome]
  /\ UNCHANGED begun

Next ==
  \E r \in Runs :
    \/ Accept(r)
    \/ \E e \in Executions : Begin(r, e)
    \/ Decline(r)
    \/ \E outcome \in Settled : Settle(r, outcome)

Spec == Init /\ [][Next]_lifecycleVars
=============================================================================
