--------------------------- MODULE ClaimFairness ---------------------------
(***************************************************************************)
(* The job engine with two histories: the polls that passed a partition    *)
(* by, to state what the durable least-recently-served order of claim_next *)
(* guarantees to an Agent Instance with work a poll could have taken; and  *)
(* the claims whose lease came back after it had run out, to state what    *)
(* the concurrency ceilings guarantee when a transaction reads its clock   *)
(* before it waits for the write lock.                                     *)
(***************************************************************************)
EXTENDS JobEngine

VARIABLES
  passed,   \* passed[a][b]: claims of b at polls that had a candidate of a,
            \* since a was last served
  revived   \* Jobs whose present claim was renewed after its lease had run out

fairVars == <<vars, passed, revived>>

CandidateAgents(w, t) == {job[j].agent : j \in Candidates(w, t)}

\* The partition a claim served: the one whose marker it advanced.
Served == CHOOSE a \in Agents : served'[a] # served[a]

\* A renewal that read its clock while its lease was live, and waited for the
\* write lock until the lease had run out, revives it; the claim's end forgets that.
Revive ==
  revived' = {j \in Jobs : /\ job'[j].status \in ActiveStatus
                           /\ j \in revived \/ (Expired(j) /\ job'[j].lease > clock')}

FInit == Init /\ passed = [a \in Agents |-> [b \in Agents |-> 0]] /\ revived = {}

FClaim(w, t) ==
  /\ Claim(w, t)
  /\ passed' = [a \in Agents |-> [b \in Agents |->
       CASE a = Served -> 0
         [] a # Served /\ b = Served /\ a \in CandidateAgents(w, t) -> passed[a][b] + 1
         [] OTHER -> passed[a][b]]]

FNext ==
  /\ \/ \E w \in Workers, t \in Instants : FClaim(w, t)
     \/ Next /\ UNCHANGED <<served, passed>>
  /\ Revive

FSpec == FInit /\ [][FNext]_fairVars

\* Bounded bypass (README: "a continuously eligible Agent is not bypassed by a
\* backlog that merely happens to be older").  Between two services of a partition
\* no other partition is served twice at polls that could have served it, for
\* Workers of different capabilities and whatever became of the Jobs in between.
NoSecondBypass ==
  \A a, b \in Agents : passed[a][b] =< 1

\* The live leases that never ran out.
Timely == LiveLeases(clock) \ revived

\* The concurrency ceilings of QueuePolicy, over every moment and every Worker's own
\* budget, with transactions whose clock is older than their commit: claims alone
\* never exceed one.  A lease that was counted as expired by a claim and then revived
\* by a late renewal comes on top, so the Jobs in flight exceed a ceiling by no more
\* than the revived ones (claim_next counts by its `now`; renew_lease).
ActiveWithinLimits ==
  /\ Cardinality(Timely) =< GlobalActive
  /\ \A a \in Agents :
       Cardinality({j \in Timely : job[j].agent = a}) =< AgentActive
  /\ \A p \in Providers :
       Cardinality({j \in Timely : job[j].provider = p}) =< ProviderActive
=============================================================================
