------------------------------ MODULE MCTriggers ------------------------------
(* Instances of Triggers.  Definition d1 is the one an Agent starts with.      *)
EXTENDS Triggers, TLC

CONSTANTS a1, a2

Symmetric == Permutations(Scheduler) \cup Permutations(Definition)

TargetOne == [t \in TriggerId |-> a1]
TargetTwo == [t \in TriggerId |-> IF t = 1 THEN a1 ELSE a2]

AllSchedules == {[kind |-> "one_time", arg |-> 8], [kind |-> "one_time", arg |-> 9],
                 [kind |-> "interval", arg |-> 1], [kind |-> "interval", arg |-> 2],
                 [kind |-> "cron", arg |-> 0]}
TickSchedules == {[kind |-> "one_time", arg |-> 1]}
CronSchedules == {[kind |-> "cron", arg |-> 0]}
=============================================================================
