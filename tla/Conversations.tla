---------------------------- MODULE Conversations ----------------------------
(***************************************************************************)
(* One conversation: infrastructure/database/conversations.py and          *)
(* application/context_builder.py.  A Turn is one user message and the     *)
(* Runs that try to answer it; the Worker settles a Run in one transaction *)
(* and projects the result on the Turn in a later one, then refreshes the  *)
(* compaction of old Turns in a third.  A crash loses the later two.  The  *)
(* Worker projects its result also when the settlement was refused because *)
(* the Run had been cancelled or its lease was lost; nobody else projects  *)
(* a Run that recovery or a cancellation ends, but the reconciliation.     *)
(*                                                                         *)
(* Data kept: a text is the client message id it came with and costs       *)
(* Cost[m] of the context's budget, the answer included.  A compaction     *)
(* keeps no Turns but one text, cut again at its blank lines on every use: *)
(* a pair with a blank line in it is several blocks, which may be dropped  *)
(* apart.  Blocks are numbered in their order, so a list of them is the    *)
(* list of their numbers.  Turn ids and sequence numbers are positions in  *)
(* turns, Run ids positions in runs.                                       *)
(***************************************************************************)
EXTENDS Integers, Sequences, FiniteSets, SequencesExt

CONSTANTS
    ClientMessage,  \* client_message_ids
    Cost,           \* budget a message and its answer take: [ClientMessage -> Nat]
    Blocks,         \* the blocks they are cut into: what each costs, and the number
                    \* its first line reads as when it looks like a Turn's heading, or 0
    BlockBound,     \* bound: blocks of one message and its answer
    ContextBudget,  \* input_max_bytes / input_max_code_points
    RecentPairs,    \* newest succeeded Turns kept verbatim
    CompactionBatch,\* Turns one refresh folds in
    CompactionLimit,\* cost a compaction is trimmed to
    CompactionRoom, \* cost its row can hold
    MaxAttempts,    \* attempts of one Run's Job
    MaxRuns         \* bound: Runs created

ASSUME ConversationConstants ==
    /\ Cost \in [ClientMessage -> Nat \ {0}]
    /\ \A m \in ClientMessage : Cost[m] <= ContextBudget
    /\ {ContextBudget, RecentPairs, CompactionBatch, CompactionLimit, CompactionRoom,
        MaxAttempts, MaxRuns, BlockBound} \subseteq Nat \ {0}
    /\ \A m \in ClientMessage :
          Blocks[m] \in Seq([cost : Nat, reads : Nat]) /\ Len(Blocks[m]) \in 1..BlockBound

VARIABLES
    conversation,   \* conversations.status
    turns,          \* conversation_turns: message, state, authoritative Run
    replies,        \* assistant messages: records [turn, run]
    runs,           \* Runs linked to Turns, with their context snapshots
    owed,           \* projections a Worker still holds after settling: [run, verdict]
    refreshes,      \* compaction refreshes still owed; bound: one at a time
    compaction      \* the current conversation_compactions row

talkVars == <<conversation, turns, replies, runs, owed, refreshes, compaction>>

ActiveTurn == {"pending", "running"}
TurnState == ActiveTurn \cup {"succeeded", "failed", "cancelled", "ambiguous"}
RunEnded == {"succeeded", "failed", "cancelled", "ambiguous"}
\* What became of the Worker that holds the Run: its result was recorded, or
\* came too late and was refused.
WorkerState == {"working", "settled", "late_answer", "late_failure"}

NoCompaction == [version |-> 0, start |-> 1, end |-> 0, blocks |-> <<>>]

ConversationInit ==
    /\ conversation = "active"
    /\ turns = <<>> /\ replies = {} /\ runs = <<>>
    /\ owed = {} /\ refreshes = 0
    /\ compaction = NoCompaction

-----------------------------------------------------------------------------
(* The context of a Run, assembled once and stored with it.                *)

Succeeded(i) == turns[i].state = "succeeded"

\* The answered Turns from lo to hi.
AnsweredIn(lo, hi) == {i \in DOMAIN turns : Succeeded(i) /\ lo <= i /\ i <= hi}

\* A set of numbers as a sequence, smallest first: the k-th has k up to itself.
Ascending(S) == [k \in 1..Cardinality(S) |-> CHOOSE i \in S : Cardinality({j \in S : j <= i}) = k]

\* The answered Turns before Turn n, oldest first.
CandidateTurns(n) == Ascending(AnsweredIn(1, n - 1))

SumOf(costs) ==
    LET sum[k \in 0..Len(costs)] == IF k = 0 THEN 0 ELSE sum[k - 1] + costs[k]
    IN sum[Len(costs)]

PairCost(i) == Cost[turns[i].message]
PairCosts(seq) == [k \in 1..Len(seq) |-> PairCost(seq[k])]

\* Block k of Turn i.
Block(i, k) == BlockBound * i + k - 1
TurnOf(b) == b \div BlockBound
PartOf(b) == (b % BlockBound) + 1
BlockRow(b) == Blocks[turns[TurnOf(b)].message][PartOf(b)]
BlockCosts(seq) == [k \in 1..Len(seq) |-> BlockRow(seq[k]).cost]

\* The blocks of the Turns S, oldest first.
BlocksOf(S) == Ascending(UNION {{Block(i, k) : k \in DOMAIN Blocks[turns[i].message]} : i \in S})

Newest(seq, k) == SubSeq(seq, Len(seq) - k + 1, Len(seq))

\* The longest run of newest elements whose costs fit the budget.
Fitting(seq, costs, budget) ==
    LET k == CHOOSE k \in 0..Len(seq) :
                /\ SumOf(Newest(costs, k)) <= budget
                /\ \A j \in (k + 1)..Len(seq) : SumOf(Newest(costs, j)) > budget
    IN Newest(seq, k)

\* Mutant: the compaction is added whatever it ends with.
JoinsAnything(older) == compaction.version # 0 /\ Len(older) > 0

\* The compaction is used only if it ends exactly where the verbatim part begins.
CompactionJoins(older) ==
    /\ compaction.version # 0 /\ Len(older) > 0
    /\ compaction.end = older[Len(older)]

\* Mutant: the memories are not charged to the budget.
HistoryBudgetGross(m, memories) == ContextBudget - Cost[m]

\* What the memories, injected before the history, leave for it; each costs 1.
HistoryBudget(m, memories) == ContextBudget - Cost[m] - Cardinality(memories)

Assemble(n, m, memories) ==
    LET candidates == CandidateTurns(n)
        recent == IF Len(candidates) > RecentPairs
                    THEN Newest(candidates, RecentPairs) ELSE candidates
        left == HistoryBudget(m, memories)
        history == Fitting(recent, PairCosts(recent), left)
        older == SubSeq(candidates, 1, Len(candidates) - Len(history))
    IN [history |-> history,
        blocks |-> IF CompactionJoins(older)
                     THEN Fitting(compaction.blocks, BlockCosts(compaction.blocks),
                                  left - SumOf(PairCosts(history)))
                     ELSE <<>>,
        memories |-> memories]

NewRun(n, m, memories) ==
    [turn |-> n, status |-> "live", attempts |-> 1, worker |-> "working", context |-> Assemble(n, m, memories)]

-----------------------------------------------------------------------------
(* The owner.  Repeating a client_message_id, retrying a running Turn, and *)
(* archiving or deleting twice return what is there and change nothing.    *)

SendMessage(m, memories) ==
    /\ conversation = "active"
    /\ \A i \in DOMAIN turns : turns[i].message # m /\ turns[i].state \notin ActiveTurn
    /\ Len(runs) < MaxRuns
    /\ turns' = Append(turns, [message |-> m, state |-> "running", authority |-> 0])
    /\ runs' = Append(runs, NewRun(Len(turns) + 1, m, memories))
    /\ UNCHANGED <<conversation, replies, owed, refreshes, compaction>>

\* Mutant: any failed Turn may be tried again, the newest or not.
Retries(i) == turns[i].state \in {"failed", "cancelled"}

\* Mutant: a Turn whose outcome is unknown may be tried again.
RetriesUnknown(i) == turns[i].state \in {"failed", "cancelled", "ambiguous"} /\ i = Len(turns)

\* Only the newest Turn may be tried again.
Retryable(i) ==
    /\ turns[i].state \in {"failed", "cancelled"}
    /\ i = Len(turns)
    /\ \A j \in DOMAIN turns \ {i} : turns[j].state \notin ActiveTurn

RetryTurn(i, memories) ==
    /\ conversation = "active"
    /\ i \in DOMAIN turns /\ Retryable(i)
    /\ Len(runs) < MaxRuns
    /\ turns' = [turns EXCEPT ![i].state = "running"]
    /\ runs' = Append(runs, NewRun(i, turns[i].message, memories))
    /\ UNCHANGED <<conversation, replies, owed, refreshes, compaction>>

Archive ==
    /\ conversation = "active"
    /\ conversation' = "archived"
    /\ UNCHANGED <<turns, replies, runs, owed, refreshes, compaction>>

Unarchive ==
    /\ conversation = "archived"
    /\ conversation' = "active"
    /\ UNCHANGED <<turns, replies, runs, owed, refreshes, compaction>>

Delete ==
    /\ conversation # "deleted"
    /\ conversation' = "deleted"
    /\ UNCHANGED <<turns, replies, runs, owed, refreshes, compaction>>

-----------------------------------------------------------------------------
(* The Runs.                                                               *)

\* A Run outside any conversation has no Turn to project on.
Owing(r, verdict) == IF runs[r].turn = 0 THEN {} ELSE {[run |-> r, verdict |-> verdict]}

\* A Worker settles the Attempt: the Run ends, or another attempt is
\* scheduled; either way the Worker then projects what it settled.
Holds(r) == r \in DOMAIN runs /\ runs[r].status = "live" /\ runs[r].worker = "working"
SettleAttempt(r, verdict) ==
    /\ Holds(r)
    /\ runs' = [runs EXCEPT ![r].status = verdict, ![r].worker = "settled"]
    /\ owed' = owed \cup Owing(r, verdict)
    /\ UNCHANGED <<conversation, turns, replies, refreshes, compaction>>

\* The settlement is refused: the lease was lost, or the Run is cancelled or
\* recovered.  The Run stays as it is, and the Worker projects its result all the
\* same.
SettleLate(r, verdict) ==
    /\ r \in DOMAIN runs /\ runs[r].worker = "working"
    /\ runs' = [runs EXCEPT ![r].worker = IF verdict = "succeeded" THEN "late_answer" ELSE "late_failure"]
    /\ owed' = owed \cup Owing(r, verdict)
    /\ UNCHANGED <<conversation, turns, replies, refreshes, compaction>>

\* Mutant: the last attempt is retried too.
ScheduleForever(r) ==
    /\ Holds(r)
    /\ runs[r].attempts <= MaxAttempts
    /\ runs' = [runs EXCEPT ![r].attempts = @ + 1]
    /\ owed' = owed \cup Owing(r, "failed")
    /\ UNCHANGED <<conversation, turns, replies, refreshes, compaction>>

ScheduleAnotherAttempt(r) ==
    /\ Holds(r)
    /\ runs[r].attempts < MaxAttempts
    /\ runs' = [runs EXCEPT ![r].attempts = @ + 1]
    /\ owed' = owed \cup Owing(r, "failed")
    /\ UNCHANGED <<conversation, turns, replies, refreshes, compaction>>

\* Cancellation and recovery end a Run without projecting it; "failed" is the
\* last claim expired before its start, after which no Worker has a result.
EndUnprojected(r, verdict) ==
    /\ r \in DOMAIN runs /\ runs[r].status = "live"
    /\ verdict = "failed" => runs[r].worker = "working"
    /\ runs' = [runs EXCEPT ![r].status = verdict, ![r].worker = IF verdict = "failed" THEN "settled" ELSE @]
    /\ UNCHANGED <<conversation, turns, replies, owed, refreshes, compaction>>

-----------------------------------------------------------------------------
(* Projection.                                                             *)

\* Mutant: an answer is written whatever the Turn's state.
AcceptsAnyAnswer(t, verdict) == verdict = "succeeded" \/ turns[t].state \in ActiveTurn

\* The compare-and-set: an active Turn, and for an answer one without authority.
AcceptsVerdict(t, verdict) ==
    turns[t].state \in ActiveTurn /\ (verdict = "succeeded" => turns[t].authority = 0)

Projected(t, r, verdict) ==
    [turns EXCEPT ![t] = [message |-> turns[t].message, state |-> verdict,
        authority |-> IF verdict = "succeeded" THEN r ELSE turns[t].authority]]

\* Writes the verdict of Run r on its Turn; TRUE iff an answer stands for r.
ProjectRun(r, verdict) ==
    LET t == runs[r].turn IN
    /\ turns' = IF AcceptsVerdict(t, verdict) THEN Projected(t, r, verdict) ELSE turns
    /\ replies' = IF AcceptsVerdict(t, verdict) /\ verdict = "succeeded"
                    THEN replies \cup {[turn |-> t, run |-> r]} ELSE replies
    /\ refreshes' = IF verdict = "succeeded" /\ turns'[t].authority = r /\ refreshes = 0
                      THEN 1 ELSE refreshes

Project(p) ==
    /\ p \in owed
    /\ ProjectRun(p.run, p.verdict)
    /\ owed' = owed \ {p}
    /\ UNCHANGED <<conversation, runs, compaction>>

\* The Worker stops between two transactions.
LoseProjection(p) ==
    /\ p \in owed
    /\ owed' = owed \ {p}
    /\ UNCHANGED <<conversation, turns, replies, runs, refreshes, compaction>>

LoseRefresh ==
    /\ refreshes > 0
    /\ refreshes' = refreshes - 1
    /\ UNCHANGED <<conversation, turns, replies, runs, owed, compaction>>

\* reconcile_unprojected_terminal_runs: an active Turn takes the verdict of
\* its newest ended Run (later ones of the same pass find it settled).
Reconcile(r) ==
    /\ r \in DOMAIN runs /\ runs[r].turn # 0 /\ runs[r].status \in RunEnded
    /\ turns[runs[r].turn].state \in ActiveTurn
    /\ \A s \in DOMAIN runs :
          runs[s].turn = runs[r].turn /\ runs[s].status \in RunEnded => s <= r
    /\ turns' = Projected(runs[r].turn, r, runs[r].status)
    /\ replies' = IF runs[r].status = "succeeded"
                    THEN replies \cup {[turn |-> runs[r].turn, run |-> r]} ELSE replies
    /\ UNCHANGED <<conversation, runs, owed, refreshes, compaction>>

-----------------------------------------------------------------------------
(* Compaction: all answered Turns but the newest RecentPairs are added, a  *)
(* batch at a time, and the oldest text is dropped over the limit: what    *)
(* the row held before a block at a time, the batch a Turn at a time.      *)

\* How many newest blocks may be left of the row's old blocks and the batch's.
Cuts(old, whole) ==
    {k \in 1..Len(whole) :
        k + Len(old) >= Len(whole) \/ PartOf(whole[Len(whole) - k + 1]) = 1}

TrimmedTo(old, whole) ==
    LET fits == {k \in Cuts(old, whole) : SumOf(Newest(BlockCosts(whole), k)) <= CompactionLimit}
    IN IF fits = {} THEN Min(Cuts(old, whole)) ELSE Max(fits)

\* The number in a block's first line: every Turn begins with its heading.
Reads(b) == IF PartOf(b) = 1 THEN TurnOf(b) ELSE BlockRow(b).reads

\* Each block trimming brings to the front renames the start if it reads as a heading.
StartAfter(old, whole, k, start) ==
    LET AtFront(j) == Reads(whole[Len(whole) - j + 1])
        headings == {j \in Cuts(old, whole) : k <= j /\ j < Len(whole) /\ AtFront(j) # 0}
    IN IF headings = {} THEN start ELSE AtFront(Min(headings))

\* Mutant: the covered range reaches the cutoff even if the batch does not.
CoveredToCutoff(batch, cutoff) == cutoff
CoveredTo(batch, cutoff) == batch[Len(batch)]

\* A row that claims an impossible range, or is too long, is refused.
RefreshCompaction ==
    LET answered == Ascending(AnsweredIn(1, Len(turns)))
        cutoff == answered[Len(answered) - RecentPairs]
        fresh == Ascending(AnsweredIn(compaction.end + 1, cutoff))
        batch == IF Len(fresh) > CompactionBatch THEN SubSeq(fresh, 1, CompactionBatch) ELSE fresh
        old == compaction.blocks
        whole == old \o BlocksOf(ToSet(batch))
        k == TrimmedTo(old, whole)
        start == StartAfter(old, whole, k, IF compaction.version = 0 THEN batch[1] ELSE compaction.start)
        end == CoveredTo(batch, cutoff)
    IN /\ refreshes > 0
       /\ refreshes' = refreshes - 1
       /\ compaction' =
            IF \/ Len(answered) <= RecentPairs \/ fresh = <<>>
               \/ start \notin 1..end \/ SumOf(Newest(BlockCosts(whole), k)) > CompactionRoom
            THEN compaction
            ELSE [version |-> compaction.version + 1, start |-> start, end |-> end,
                  blocks |-> Newest(whole, k)]
       /\ UNCHANGED <<conversation, turns, replies, runs, owed>>

-----------------------------------------------------------------------------
TalkStep ==
    \/ \E r \in DOMAIN runs : \E v \in {"succeeded", "failed", "ambiguous"} : SettleAttempt(r, v) \/ SettleLate(r, v)
    \/ \E r \in DOMAIN runs : ScheduleAnotherAttempt(r)
    \/ \E r \in DOMAIN runs : \E v \in {"failed", "ambiguous", "cancelled"} : EndUnprojected(r, v)
    \/ \E p \in owed : Project(p)
    \/ \E p \in owed : LoseProjection(p)
    \/ \E r \in DOMAIN runs : Reconcile(r)
    \/ RefreshCompaction
    \/ LoseRefresh
    \/ Archive
    \/ Unarchive
    \/ Delete

ConversationNext ==
    \/ \E m \in ClientMessage : SendMessage(m, {})
    \/ \E i \in DOMAIN turns : RetryTurn(i, {})
    \/ TalkStep

ConversationSpec == ConversationInit /\ [][ConversationNext]_talkVars

-----------------------------------------------------------------------------
(* The stored rows are well formed.                                        *)
ConversationTypeOK ==
    /\ conversation \in {"active", "archived", "deleted"}
    /\ \A i \in DOMAIN turns :
          turns[i].message \in ClientMessage /\ turns[i].state \in TurnState
          /\ turns[i].authority \in 0..Len(runs)
    /\ replies \subseteq [turn : DOMAIN turns, run : DOMAIN runs]
    /\ \A r \in DOMAIN runs :
          runs[r].turn \in 0..Len(turns) /\ runs[r].attempts \in 1..MaxAttempts /\ runs[r].worker \in WorkerState
    /\ owed \subseteq [run : DOMAIN runs, verdict : RunEnded]
    /\ refreshes \in {0, 1}

(* Only the newest Turn can be active: sends and retries by any caller, in *)
(* any order with late projections, never leave two Turns being answered   *)
(* or an older one behind a newer (send_message, retry_turn).              *)
OnlyNewestActive ==
    \A i \in DOMAIN turns : turns[i].state \in ActiveTurn => i = Len(turns)

\* The Run gave an answer: recorded as its result, or too late for that.
Spoke(run) == run.status = "succeeded" \/ (run.worker = "late_answer" /\ run.status # "failed")

(* An answered Turn has exactly one assistant message, written by its      *)
(* authoritative Run, which is one of its own Runs and succeeded, or whose *)
(* Worker had the answer when it was too late to record it; no other Turn  *)
(* has one, and a Run that failed gives none.  Projections may be late,    *)
(* repeated or of an older Run (_project_terminal_run_on_connection).      *)
OneAnswer ==
    \A i \in DOMAIN turns :
        LET mine == {p \in replies : p.turn = i} IN
        IF turns[i].state = "succeeded"
        THEN /\ mine = {[turn |-> i, run |-> turns[i].authority]}
             /\ runs[turns[i].authority].turn = i
             /\ Spoke(runs[turns[i].authority])
        ELSE mine = {} /\ turns[i].authority = 0

(* What a Run is shown of the conversation is the end of what was answered *)
(* before its own Turn, down to the block and each block once: verbatim    *)
(* history and compaction meet without gap or overlap, however far the     *)
(* compaction has fallen behind, or been cut inside a Turn                 *)
(* (ContextBuilder.assemble, refresh_compaction).                          *)
ContextUnbroken ==
    \A r \in DOMAIN runs :
        LET n == runs[r].turn  c == runs[r].context IN
        n # 0 =>
            /\ IsSuffix(c.history, CandidateTurns(n))
            /\ IsSuffix(c.blocks \o BlocksOf(ToSet(c.history)), BlocksOf(AnsweredIn(1, n - 1)))

(* Memories, compaction, history and the message together never cost more *)
(* than the Run's input limits (ContextBuilder.assemble).                  *)
ContextWithinBudget ==
    \A r \in DOMAIN runs :
        runs[r].turn # 0 =>
            LET c == runs[r].context IN
            Cost[turns[runs[r].turn].message] + Cardinality(c.memories)
                + SumOf(BlockCosts(c.blocks)) + SumOf(PairCosts(c.history)) <= ContextBudget

\* No block but a Turn's first looks like a heading.
PlainUpTo(hi) == \A i \in AnsweredIn(1, hi) : \A k \in DOMAIN Blocks[turns[i].message] \ {1} :
                    Blocks[turns[i].message][k].reads = 0

(* The compaction is the end of what was answered up to the Turn it says   *)
(* it reaches, and begins in the Turn it says it begins with, unless a     *)
(* message looks like a Turn's heading (refresh_compaction).               *)
CompactionExact ==
    compaction.version # 0 =>
        /\ compaction.blocks # <<>>
        /\ IsSuffix(compaction.blocks, BlocksOf(AnsweredIn(1, compaction.end)))
        /\ compaction.start \in 1..compaction.end
        /\ PlainUpTo(compaction.end) => compaction.start = TurnOf(compaction.blocks[1])

(* The Turns of a conversation together.                                   *)
ConversationSound == ConversationTypeOK /\ OnlyNewestActive /\ OneAnswer

(* What a Run is shown is the conversation it belongs to: without gap,     *)
(* within its limits, and summarised for the range it says.                *)
ContextFaithful == ContextUnbroken /\ ContextWithinBudget /\ CompactionExact

(* An answer, once given, stays: an answered or ambiguous Turn is never    *)
(* reopened, re-answered or failed by a late Run or a retry.               *)
AnswerStays ==
    [][\A i \in DOMAIN turns :
          turns[i].state \in {"succeeded", "ambiguous"} => turns'[i] = turns[i]]_talkVars
=============================================================================
