----------------------------- MODULE Submission -----------------------------
(***************************************************************************)
(* The caller of submit against the engine: the control plane learns the   *)
(* fate of its submission from the response or, when the response of the   *)
(* transaction is lost, from one exact read (_reconcile_submission).       *)
(***************************************************************************)
EXTENDS JobEngine

CONSTANT Callers      \* requests of the control plane that call submit

ASSUME CallerAssumption == Callers \subseteq Nat \ {0}

VARIABLES
  caller,       \* what each caller knows: its state and the key it was given
  submitter     \* history: the caller whose transaction inserted each Job

submitVars == <<vars, caller, submitter>>

SubmitInit ==
  /\ Init
  /\ caller = [c \in Callers |-> [state |-> "idle", key |-> NULL]]
  /\ submitter = [j \in Jobs |-> NULL]

Learn(c, state, j) == caller' = [caller EXCEPT ![c] = [state |-> state, key |-> j]]

Insert(c, j, a, p, t) ==
  /\ Submit(j, a, p, t)
  /\ submitter' = [submitter EXCEPT ![j] = c]

SubmitReturns(c, j, a, p, t) ==
  /\ caller[c].state = "idle"
  /\ Insert(c, j, a, p, t)
  /\ Learn(c, "accepted", j)

NextKey(j) ==
  job[j].status = "absent" /\ \A i \in Jobs : i < j => job[i].status # "absent"

\* The INSERT had handed out the next key when the transaction failed: its COMMIT
\* either took effect or was rolled back, and a rollback gives the key back.
SubmitIsUncertain(c, j, a, p, t) ==
  /\ caller[c].state = "idle"
  /\ NextKey(j) /\ Admits(a, p)
  /\ Insert(c, j, a, p, t) \/ UNCHANGED <<vars, submitter>>
  /\ Learn(c, "reconciling", j)

\* Mutation: the key alone is taken for a committed Run.
ReconciledByKey(j) == TRUE

\* The Run exists and its events are exactly the two opening ones.
Reconciled(j) ==
  run[j].status # "absent" /\ timeline[j] = <<"run.created", "run.queued">>

\* A missing Run re-raises the error; a Run with other events raises
\* PersistenceUnavailable.  The caller sees the same answer.
ReconcileSubmission(c) ==
  /\ caller[c].state = "reconciling"
  /\ Learn(c, IF Reconciled(caller[c].key) THEN "accepted" ELSE "unavailable",
           caller[c].key)
  /\ UNCHANGED <<vars, submitter>>

\* The other actors of the engine.
Progress ==
  /\ \/ Tick
     \/ \E t \in Instants :
          \/ \E w \in Workers : Claim(w, t)
          \/ \E j \in Jobs, n \in Numbers : OwnerStep(j, n, t) \/ Reclaim(j, n, t)
     \/ \E j \in Jobs : Cancel(j)
  /\ UNCHANGED <<caller, submitter>>

SubmitNext ==
  \/ \E c \in Callers, t \in Instants, j \in Jobs, i \in Instances :
       SubmitReturns(c, j, i[1], i[2], t) \/ SubmitIsUncertain(c, j, i[1], i[2], t)
  \/ \E c \in Callers : ReconcileSubmission(c)
  \/ Progress

SubmitSpec == SubmitInit /\ [][SubmitNext]_submitVars

\* A submission reported as accepted is durable with both of its rows, and no
\* submission is inserted twice, whatever responses are lost (submit,
\* _reconcile_submission).
AcceptedIsDurable ==
  /\ \A c \in Callers : caller[c].state = "accepted" =>
       job[caller[c].key].status # "absent" /\ run[caller[c].key].status # "absent"
  /\ \A i, j \in Jobs : submitter[i] # NULL /\ submitter[i] = submitter[j] => i = j
=============================================================================
