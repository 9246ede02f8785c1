------------------------------ MODULE ToolLoop ------------------------------
(***************************************************************************)
(* The loop of one Attempt: a model turn, the calls it asks for one after  *)
(* the other, and the next turn over everything observed so far, within    *)
(* the Run's frozen limits.  The model may answer anything: a final text,  *)
(* any calls, ids used before, a shape that contradicts itself, a rate     *)
(* limit or an error; a call may be unknown, malformed, denied, failed or  *)
(* answered, or it may end the Attempt.                                    *)
(***************************************************************************)
EXTENDS Naturals, Sequences, FiniteSets, SequencesExt

CONSTANTS
    CallIds,          \* ids the model gives its calls
    MaxModelCalls,    \* limits.max_model_calls
    MaxToolCalls,     \* limits.max_tool_calls
    MaxFailures,      \* limits.max_consecutive_tool_failures
    MaxRetries,       \* MAX_IN_ATTEMPT_MODEL_RETRIES
    Batch             \* bound: calls in one response

ASSUME LoopAssumption == MaxModelCalls \in Nat \ {0} /\ MaxToolCalls \in Nat \ {0} /\ MaxFailures \in Nat \ {0}

VARIABLES
    loop,        \* phase, model_calls, tool_calls, tool_sequence, failures, retries, end
    queue,       \* the calls of the response not dispatched yet
    transcript,  \* the turns sent with the next request: asked and answered call ids
    seenIds,     \* seen_call_ids
    spent        \* usage: what the provider reported, and what the Attempt's row holds

loopVars == <<loop, queue, transcript, seenIds, spent>>

LoopInit ==
    /\ loop = [phase |-> "turn", modelCalls |-> 0, toolCalls |-> 0, sequence |-> 0,
               failures |-> 0, retries |-> 0, end |-> "none"]
    /\ queue = <<>> /\ transcript = <<>> /\ seenIds = {}
    /\ spent = [reported |-> 0, total |-> 0, stored |-> 0]

End(how) == loop' = [loop EXCEPT !.phase = "over", !.end = how]

\* _model_turn: the budget is asked before every request, retries included.
\* Mutant: only the first request of a turn asks for the budget.
BudgetSpentOnce == loop.modelCalls >= MaxModelCalls /\ loop.retries = 0
BudgetSpent == loop.modelCalls >= MaxModelCalls
OutOfBudget ==
    /\ loop.phase = "turn" /\ BudgetSpent
    /\ End(IF loop.retries = 0 THEN "tool_loop_limit" ELSE "rate_limited")
    /\ UNCHANGED <<queue, transcript, seenIds, spent>>
AskModel ==
    /\ loop.phase = "turn" /\ ~BudgetSpent
    /\ loop' = [loop EXCEPT !.phase = "asked", !.modelCalls = @ + 1]
    /\ UNCHANGED <<queue, transcript, seenIds, spent>>

\* A rate limit is retried with a longer delay each time; what it reported is not added up.
\* Mutant: a rate-limited request is neither charged nor counted.
RateLimitedFree ==
    /\ loop.phase = "asked" /\ loop' = [loop EXCEPT !.phase = "turn", !.modelCalls = @ - 1]
    /\ UNCHANGED <<queue, transcript, seenIds, spent>>
RateLimited ==
    /\ loop.phase = "asked"
    /\ spent' = [spent EXCEPT !.reported = @ + 1]
    /\ \/ loop.retries >= MaxRetries /\ End("rate_limited")
       \/ loop.retries < MaxRetries /\ loop' = [loop EXCEPT !.phase = "turn", !.retries = @ + 1]
    /\ UNCHANGED <<queue, transcript, seenIds>>
ModelFails ==
    /\ loop.phase = "asked" /\ End("model_error")
    /\ UNCHANGED <<queue, transcript, seenIds, spent>>

\* Mutant: ids are compared with those of the same response only.
FreshInBatch(calls) == IsInjective(calls)
FreshIds(calls) == IsInjective(calls) /\ Range(calls) \cap seenIds = {}

WithinToolBudget(calls) == loop.toolCalls + Len(calls) <= MaxToolCalls

\* Mutant: usage that could not be stored is only logged.
UsageLogged(stored) == TRUE
UsageStored(stored) == stored

\* A response: its shape and ids are checked, then usage is added and stored, then it is used.
Respond(calls, shapely, stored) ==
    /\ loop.phase = "asked"
    /\ \/ /\ ~(shapely /\ FreshIds(calls)) /\ End("response_invalid")
          /\ UNCHANGED <<queue, transcript, seenIds, spent>>
       \/ /\ shapely /\ FreshIds(calls) /\ seenIds' = seenIds \cup Range(calls)
          /\ spent' = [reported |-> spent.reported + 1, total |-> spent.total + 1,
                       stored |-> IF stored THEN spent.total + 1 ELSE spent.stored]
          /\ \/ ~UsageStored(stored) /\ End("internal") /\ UNCHANGED <<queue, transcript>>
             \/ UsageStored(stored) /\ calls = <<>> /\ End("answered") /\ UNCHANGED <<queue, transcript>>
             \/ /\ UsageStored(stored) /\ calls # <<>> /\ ~WithinToolBudget(calls)
                /\ End("tool_loop_limit") /\ UNCHANGED <<queue, transcript>>
             \/ /\ UsageStored(stored) /\ calls # <<>> /\ WithinToolBudget(calls)
                /\ loop' = [loop EXCEPT !.phase = "dispatching", !.retries = 0]
                /\ queue' = calls
                /\ transcript' = transcript \o [i \in DOMAIN calls |-> [kind |-> "call", id |-> calls[i]]]

-----------------------------------------------------------------------------
\* _dispatch of the first call that waits.

\* Mutant: the turn after the last call is forgotten.
TurnForgotten == IF Len(queue) = 1 THEN "none" ELSE "dispatching"
Turn == IF Len(queue) = 1 THEN "turn" ELSE "dispatching"
Result == Append(transcript, [kind |-> "result", id |-> Head(queue)])

Observe ==
    /\ loop' = [loop EXCEPT !.phase = Turn, !.toolCalls = @ + 1, !.sequence = @ + 1, !.failures = 0]
    /\ queue' = Tail(queue) /\ transcript' = Result
    /\ UNCHANGED <<seenIds, spent>>

ObserveFailure(mediated) ==
    LET counted == [loop EXCEPT !.toolCalls = @ + 1, !.failures = @ + 1,
                                !.sequence = IF mediated THEN @ + 1 ELSE @]
    IN  /\ \/ /\ counted.failures >= MaxFailures
              /\ loop' = [counted EXCEPT !.phase = "over", !.end = "tool_loop_limit"]
              /\ UNCHANGED <<queue, transcript>>
           \/ /\ counted.failures < MaxFailures
              /\ loop' = [counted EXCEPT !.phase = Turn]
              /\ queue' = Tail(queue) /\ transcript' = Result
        /\ UNCHANGED <<seenIds, spent>>

\* Unknown to the catalogue or unparsable: refused without an invocation.  Else the mediator denies
\* it, fails it or answers it.
Refuse == loop.phase = "dispatching" /\ ObserveFailure(FALSE)
FailCall == loop.phase = "dispatching" /\ ObserveFailure(TRUE)
AnswerCall == loop.phase = "dispatching" /\ Observe
\* Fenced, cancelled or its outcome unknown: the Attempt ends.
AbortCall ==
    /\ loop.phase = "dispatching"
    /\ loop' = [loop EXCEPT !.phase = "over", !.end = "aborted", !.toolCalls = @ + 1]
    /\ UNCHANGED <<queue, transcript, seenIds, spent>>

Responses == UNION {[1..n -> CallIds] : n \in 0..Batch}
LoopNext ==
    \/ OutOfBudget \/ AskModel \/ RateLimited \/ ModelFails
    \/ \E calls \in Responses, shapely \in BOOLEAN, stored \in BOOLEAN : Respond(calls, shapely, stored)
    \/ Refuse \/ FailCall \/ AnswerCall \/ AbortCall

\* Every await of the loop has a timeout of its own.
LoopSpec == LoopInit /\ [][LoopNext]_loopVars /\ WF_loopVars(LoopNext)

-----------------------------------------------------------------------------
LoopTypeOK ==
    /\ loop.phase \in {"turn", "asked", "dispatching", "over"} /\ loop.sequence <= loop.toolCalls
    /\ queue \in Seq(CallIds) /\ seenIds \subseteq CallIds

\* The Run's limits bound the whole Attempt, retried requests and batches of calls included.
LimitsHeld ==
    /\ loop.modelCalls <= MaxModelCalls /\ loop.toolCalls <= MaxToolCalls
    /\ loop.phase # "over" => loop.failures < MaxFailures

\* Whenever the model is asked, every call it made so far has exactly one result in what it is sent,
\* and no id stands for two calls: providers reject a transcript that is not so.
TranscriptPaired ==
    loop.phase = "asked" =>
       \A id \in CallIds :
          LET calls == {i \in DOMAIN transcript : transcript[i] = [kind |-> "call", id |-> id]}
              results == {i \in DOMAIN transcript : transcript[i] = [kind |-> "result", id |-> id]}
          IN  /\ Cardinality(calls) <= 1 /\ Cardinality(results) = Cardinality(calls)
              /\ \A i \in calls, j \in results : i < j

\* A tool call is never acted on before the usage of the response that asked for it is durable.
UsageBeforeAction ==
    loop.phase = "dispatching" => spent.stored = spent.total /\ spent.total > 0

\* The parts together.
LoopSound == LoopTypeOK /\ LimitsHeld /\ TranscriptPaired /\ UsageBeforeAction

\* The loop ends, however the model and its tools behave.
LoopOver == loop.phase = "over"
LoopEnds == []<>LoopOver
=============================================================================
