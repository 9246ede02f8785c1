------------------------------ MODULE Triggers ------------------------------
(***************************************************************************)
(* Schedule triggers: the owner's management requests, the Scheduler       *)
(* processes that turn due schedules into Runs, and the occurrences they   *)
(* leave.                                                                  *)
(*                                                                         *)
(* No lock joins a Scheduler's read of a page, its evaluation of a         *)
(* candidate and the transaction that applies the decision; a management   *)
(* request reads the row and the clock before its transaction too.  Each   *)
(* transaction (BEGIN IMMEDIATE) is one step here, everything before it is *)
(* a step of its own.                                                      *)
(***************************************************************************)
EXTENDS Scheduling, FiniteSetsExt

CONSTANTS
  TriggerId,          \* rowids; AUTOINCREMENT never reuses one
  Agent, Target,      \* Agent Instances, and the one a trigger starts
  Definition,         \* Agent Definitions (package versions)
  Scheduler, Client,  \* Scheduler processes; management requests in flight
  Schedule, Input,    \* what an owner may ask for
  Batch,              \* SCHEDULER_DUE_BATCH
  AgentCapacity, Capacity,      \* admission limits
  StartTime, MaxTime, MaxRevision   \* bounds of the model

ASSUME TriggersAssumption ==
  /\ TriggerId \subseteq Nat \ {0}
  /\ Target \in [TriggerId -> Agent]
  /\ Schedule \subseteq [kind : ScheduleKind, arg : Nat]
  /\ \A schedule \in Schedule :
       IF schedule.kind = "cron" THEN schedule.arg < CronPeriod ELSE schedule.arg > 0
  /\ {Batch, AgentCapacity, Capacity, StartTime, MaxRevision} \subseteq Nat \ {0}
  /\ MaxTime \in Nat
  \* The clock is far from the first instant: the match of a cron expression before
  \* it is an instant too, whatever the zone's offsets.
  /\ StartTime >= CronPeriod + OffsetBefore - OffsetAfter
  /\ StartTime >= CronPeriod + OffsetAfter - OffsetBefore

VARIABLES
  clock,      \* the host's clock; every process reads the same one
  zoneKnown,  \* whether the host's tz database still has the zone
  agent,      \* Agent Instance rows
  pending,    \* occupying Jobs per Agent
  row,        \* trigger_definitions
  occurrence, \* trigger_occurrences
  request,    \* a management call between its reads and its transaction
  sch         \* the memory of each Scheduler process

vars == <<clock, zoneKnown, agent, pending, row, occurrence, request, sch>>

-----------------------------------------------------------------------------
TriggerStatus == {"absent", "live", "deleted"}
SkipReason == {"none", "agent_disabled", "schedule_timezone_invalid", "schedule_invalid"}

NoCursor == <<0, 0>>
NoRequest == [op |-> "none"]
NoCommand == [id |-> 0]

\* DueScheduleCandidate: the row as the scan saw it, with its Agent's definition.
Candidate(t) == [id |-> t, schedule |-> row[t].schedule, revision |-> row[t].revision,
                 next |-> row[t].next, definition |-> agent[Target[t]].definition]

Occurrences(t) == {o \in occurrence : o.id = t}
HasOccurrence(t) == Occurrences(t) # {}

\* Mutation: completion read off the absent next fire time.
CompletedByNextFire(t) == row[t].schedule.kind = "one_time" /\ row[t].enabled /\ row[t].next = NULL

\* A one-time trigger is complete when its occurrence exists, whatever enabled says.
Completed(t) == row[t].schedule.kind = "one_time" /\ HasOccurrence(t)

IsDue(t, now) ==
  row[t].status = "live" /\ row[t].enabled /\ row[t].next # NULL /\ row[t].next =< now

-----------------------------------------------------------------------------
(* Management: TriggerManagementService reads, then the persistence        *)
(* transaction writes.                                                     *)

BeginCreate(c, t, schedule, input, enabled) ==
  LET next == IF enabled THEN InitialNextFire(schedule, clock, zoneKnown) ELSE NULL
  IN  /\ request[c] = NoRequest /\ row[t].status = "absent"
      /\ enabled => next # NULL
      /\ schedule.kind = "cron" => zoneKnown
      /\ request' = [request EXCEPT ![c] =
           [op |-> "create", id |-> t, schedule |-> schedule, input |-> input,
            enabled |-> enabled, next |-> next]]
      /\ UNCHANGED <<clock, zoneKnown, agent, pending, row, occurrence, sch>>

\* The caller's expected revision is the one it reads here: an older one is
\* refused by every later transaction.
BeginUpdate(c, t, restated, schedule, input) ==
  LET next == IF restated /\ row[t].enabled
              THEN InitialNextFire(schedule, clock, zoneKnown) ELSE NULL
  IN  /\ request[c] = NoRequest /\ row[t].status = "live"
      /\ schedule.kind = row[t].schedule.kind
      /\ ~restated => schedule = row[t].schedule
      /\ restated /\ schedule.kind = "cron" => zoneKnown
      /\ restated /\ row[t].enabled => next # NULL
      /\ request' = [request EXCEPT ![c] =
           [op |-> "update", id |-> t, schedule |-> schedule, input |-> input,
            restated |-> restated, next |-> next, expected |-> row[t].revision]]
      /\ UNCHANGED <<clock, zoneKnown, agent, pending, row, occurrence, sch>>

BeginEnable(c, t) ==
  LET next == InitialNextFire(row[t].schedule, clock, zoneKnown)
  IN  /\ request[c] = NoRequest /\ row[t].status = "live" /\ next # NULL
      /\ request' = [request EXCEPT ![c] =
           [op |-> "enable", id |-> t, next |-> next]]
      /\ UNCHANGED <<clock, zoneKnown, agent, pending, row, occurrence, sch>>

Create(r) ==
  /\ row[r.id].status = "absent"
  /\ row' = [row EXCEPT ![r.id] =
       [status |-> "live", schedule |-> r.schedule, input |-> r.input,
        enabled |-> r.enabled, revision |-> 1, next |-> r.next]]

\* Mutation: the edited row is not validated against the stored enablement.
UpdateUnaligned(r) ==
  /\ row[r.id].status = "live" /\ row[r.id].revision = r.expected /\ ~Completed(r.id)
  /\ ~(r.restated /\ r.next = NULL /\ row[r.id].enabled)

UpdateAllowed(r) ==
  LET old == row[r.id]
      next == IF r.next # NULL THEN r.next ELSE old.next
  IN  /\ old.status = "live"
      /\ old.revision = r.expected
      /\ ~Completed(r.id)
      /\ ~(r.restated /\ r.next = NULL /\ old.enabled)
      /\ old.enabled <=> next # NULL           \* _require_next_fire_alignment

\* Mutation: only a changed input is defining.
UpdateKeepsRevision(r) ==
  LET old == row[r.id]
      schedule == IF r.restated THEN r.schedule ELSE old.schedule
  IN  /\ UpdateAllowed(r)
      /\ row' = [row EXCEPT ![r.id] =
           [old EXCEPT !.schedule = schedule, !.input = r.input,
                       !.revision = IF r.input # old.input THEN old.revision + 1 ELSE old.revision,
                       !.next = IF r.next # NULL THEN r.next ELSE old.next]]

\* An edit that does not restate the schedule keeps the stored one.
Update(r) ==
  LET old == row[r.id]
      schedule == IF r.restated THEN r.schedule ELSE old.schedule
      defining == schedule # old.schedule \/ r.input # old.input
  IN  /\ UpdateAllowed(r)
      /\ defining => old.revision < MaxRevision
      /\ row' = [row EXCEPT ![r.id] =
           [old EXCEPT !.schedule = schedule, !.input = r.input,
                       !.revision = IF defining THEN old.revision + 1 ELSE old.revision,
                       !.next = IF r.next # NULL THEN r.next ELSE old.next]]

Enable(r) ==
  /\ row[r.id].status = "live" /\ ~Completed(r.id)
  /\ row' = [row EXCEPT ![r.id] = [row[r.id] EXCEPT !.enabled = TRUE, !.next = r.next]]

Commit(c) ==
  /\ request' = [request EXCEPT ![c] = NoRequest]
  /\ \/ request[c].op = "create" /\ Create(request[c])
     \/ request[c].op = "update" /\ Update(request[c])
     \/ request[c].op = "enable" /\ Enable(request[c])
  /\ UNCHANGED <<clock, zoneKnown, agent, pending, occurrence, sch>>

\* Refused by a precondition, or the transaction's retry budget is spent.
RequestFails(c) ==
  /\ request[c] # NoRequest
  /\ request' = [request EXCEPT ![c] = NoRequest]
  /\ UNCHANGED <<clock, zoneKnown, agent, pending, row, occurrence, sch>>

Disable(t) ==
  /\ row[t].status = "live"
  /\ row' = [row EXCEPT ![t] = [row[t] EXCEPT !.enabled = FALSE, !.next = NULL]]
  /\ UNCHANGED <<clock, zoneKnown, agent, pending, occurrence, request, sch>>

Delete(t) ==
  /\ row[t].status = "live" /\ ~HasOccurrence(t)
  /\ row' = [row EXCEPT ![t] = [row[t] EXCEPT !.status = "deleted"]]
  /\ UNCHANGED <<clock, zoneKnown, agent, pending, occurrence, request, sch>>

-----------------------------------------------------------------------------
(* The Agent Instance a trigger starts, its package, and its queue.        *)

\* insert_run_and_job_on_connection counts every occupying Job in the same
\* transaction.  The provider's limit has the shape of the Agent's.
QueueFull(a) ==
  \/ MapThenSumSet(LAMBDA b : pending[b], Agent) >= Capacity
  \/ pending[a] >= AgentCapacity

SetAgentEnabled(a, enabled) ==
  /\ agent[a].enabled # enabled
  /\ agent' = [agent EXCEPT ![a] = [agent[a] EXCEPT !.enabled = enabled]]
  /\ UNCHANGED <<clock, zoneKnown, pending, row, occurrence, request, sch>>

Rebind(a, d) ==
  /\ d # agent[a].definition
  /\ agent' = [agent EXCEPT ![a] = [agent[a] EXCEPT !.definition = d]]
  /\ UNCHANGED <<clock, zoneKnown, pending, row, occurrence, request, sch>>

\* A manual submission (module Submission) takes a place in the same queue.
ManualSubmission(a) ==
  /\ agent[a].enabled /\ ~QueueFull(a)
  /\ pending' = [pending EXCEPT ![a] = @ + 1]
  /\ UNCHANGED <<clock, zoneKnown, agent, row, occurrence, request, sch>>

\* A Job leaves the occupying states (module JobEngine).
JobSettles(a) ==
  /\ pending[a] > 0
  /\ pending' = [pending EXCEPT ![a] = @ - 1]
  /\ UNCHANGED <<clock, zoneKnown, agent, row, occurrence, request, sch>>

-----------------------------------------------------------------------------
(* The Scheduler: one tick reads a page and resolves it candidate by       *)
(* candidate.                                                              *)

\* The order of the scan: (next_fire_at, id).
Precedes(p, q) == p[1] < q[1] \/ (p[1] = q[1] /\ p[2] < q[2])
Key(c) == <<c.next, c.id>>

\* due_schedule_candidates: the first Batch due rows after the cursor.
DuePage(now, cursor) ==
  LET due == {t \in TriggerId : IsDue(t, now)
                /\ (cursor # NoCursor => Precedes(cursor, <<row[t].next, t>>))}
      ahead(t) == {u \in due : Precedes(<<row[u].next, u>>, <<row[t].next, t>>)}
  IN  {Candidate(t) : t \in {u \in due : Cardinality(ahead(u)) < Batch}}

IsFirst(c, page) == c \in page /\ \A d \in page \ {c} : Precedes(Key(c), Key(d))
Last(page) == CHOOSE c \in page : \A d \in page \ {c} : Precedes(Key(d), Key(c))

\* _advance_cursor at the end of a page that was examined whole: a full page
\* resumes after its last candidate, a short one wraps.
Resume(page) == IF Cardinality(page) = Batch THEN Key(Last(page)) ELSE NoCursor

Memory(pc, cursor) == [pc |-> pc, now |-> 0, page |-> {}, resume |-> NoCursor,
                       cursor |-> cursor, command |-> NoCommand]
Idle(cursor) == Memory("idle", cursor)
Down == Memory("down", NoCursor)

\* Mutation: the scan never wraps.
ReadPageOnward(s) ==
  LET page == DuePage(clock, sch[s].cursor)
  IN  /\ sch[s].pc = "idle" /\ page # {}
      /\ sch' = [sch EXCEPT ![s] =
           [pc |-> "tick", now |-> clock, page |-> page, resume |-> Resume(page),
            cursor |-> sch[s].cursor, command |-> NoCommand]]
      /\ UNCHANGED <<clock, zoneKnown, agent, pending, row, occurrence, request>>

ReadPage(s) ==
  LET page == DuePage(clock, sch[s].cursor)
  IN  /\ sch[s].pc = "idle"
      /\ sch' = [sch EXCEPT ![s] =
           IF page = {} THEN Idle(NoCursor)
           ELSE [pc |-> "tick", now |-> clock, page |-> page, resume |-> Resume(page),
                 cursor |-> sch[s].cursor, command |-> NoCommand]]
      /\ UNCHANGED <<clock, zoneKnown, agent, pending, row, occurrence, request>>

\* _record_terminal_skip
SkipFor(failure) ==
  CASE failure = "none" -> "none"
    [] failure = "timezone" -> "schedule_timezone_invalid"
    [] failure = "invalid" -> "schedule_invalid"

\* _resolve: the ScheduleMaterializationCommand for a candidate.
CommandFor(c, now) ==
  LET d == DecideDue(c.schedule, c.next, now, zoneKnown)
  IN  [id |-> c.id, revision |-> c.revision, expected |-> c.next,
       definition |-> c.definition, skip |-> SkipFor(d.failure), after |-> d.next,
       nominal |-> IF d.failure = "none" THEN d.nominal ELSE c.next]

\* Only a package version no Agent Instance is bound to can have been removed.
\* An unknown definition is not caught: the exception ends the process.
DefinitionMayBeGone(d) == \A a \in Agent : agent[a].definition # d

Evaluate(s) ==
  \E c \in sch[s].page :
    /\ sch[s].pc = "tick" /\ IsFirst(c, sch[s].page)
    /\ \/ sch' = [sch EXCEPT ![s] =
                    [sch[s] EXCEPT !.pc = "apply", !.page = sch[s].page \ {c},
                                   !.command = CommandFor(c, sch[s].now)]]
       \/ DefinitionMayBeGone(c.definition) /\ sch' = [sch EXCEPT ![s] = Down]
    /\ UNCHANGED <<clock, zoneKnown, agent, pending, row, occurrence, request>>

\* Mutation: the unique index alone is trusted to separate two Schedulers.
StaleByRevision(m, now) ==
  LET r == row[m.id]
  IN  \/ r.status # "live" \/ r.revision # m.revision \/ ~r.enabled
      \/ agent[Target[m.id]].definition # m.definition

\* _schedule_stale_reason
Stale(m, now) ==
  LET r == row[m.id]
  IN  \/ r.status # "live"
      \/ r.revision # m.revision
      \/ ~r.enabled
      \/ r.next # m.expected
      \/ r.next > now
      \/ agent[Target[m.id]].definition # m.definition

Existing(m) == \E o \in Occurrences(m.id) : o.nominal = m.nominal

\* _apply_schedule_transition
Advanced(r, m) ==
  IF m.after = NULL THEN [r EXCEPT !.enabled = FALSE, !.next = NULL]
  ELSE [r EXCEPT !.next = m.after]

OccurrenceOf(m, now, skip) ==
  [id |-> m.id, nominal |-> m.nominal, at |-> now, skip |-> skip,
   revision |-> row[m.id].revision, schedule |-> row[m.id].schedule,
   input |-> row[m.id].input]

\* The candidate is done with; the last one of a page ends the tick.
Proceed(s) ==
  sch' = [sch EXCEPT ![s] =
            IF sch[s].page = {} THEN Idle(sch[s].resume)
            ELSE [sch[s] EXCEPT !.pc = "tick", !.command = NoCommand]]

\* TriggerNotFound, an existing identity, a decision that no longer applies and
\* admission backpressure all leave the database as it is.  Identity is looked
\* up before the decision is verified.
WritesNothing(m, now) ==
  \/ row[m.id].status # "live" \/ Existing(m) \/ Stale(m, now)
  \/ m.skip = "none" /\ agent[Target[m.id]].enabled /\ QueueFull(Target[m.id])

DiscardDecision(s) ==
  /\ sch[s].pc = "apply" /\ WritesNothing(sch[s].command, sch[s].now)
  /\ Proceed(s)
  /\ UNCHANGED <<clock, zoneKnown, agent, pending, row, occurrence, request>>

\* The occurrence, the Run it explains and the schedule's next state, or none.
Record(s, skip) ==
  LET m == sch[s].command
  IN  /\ occurrence' = occurrence \cup {OccurrenceOf(m, sch[s].now, skip)}
      /\ row' = [row EXCEPT ![m.id] = Advanced(row[m.id], m)]
      /\ Proceed(s)
      /\ UNCHANGED <<clock, zoneKnown, agent, request>>

MaterializeSkip(s) ==
  LET m == sch[s].command
  IN  /\ sch[s].pc = "apply" /\ ~WritesNothing(m, sch[s].now)
      /\ m.skip # "none" \/ ~agent[Target[m.id]].enabled
      /\ Record(s, IF m.skip # "none" THEN m.skip ELSE "agent_disabled")
      /\ UNCHANGED pending

MaterializeRun(s) ==
  LET m == sch[s].command
  IN  /\ sch[s].pc = "apply" /\ ~WritesNothing(m, sch[s].now)
      /\ m.skip = "none" /\ agent[Target[m.id]].enabled
      /\ Record(s, "none")
      /\ pending' = [pending EXCEPT ![Target[m.id]] = @ + 1]

\* The retry budget is spent: the tick ends and its page will be read again, unless
\* the candidate was the page's last, which counts as examined.
Contention(s) ==
  /\ sch[s].pc = "apply"
  /\ sch' = [sch EXCEPT ![s] =
               Idle(IF sch[s].page = {} THEN sch[s].resume ELSE sch[s].cursor)]
  /\ UNCHANGED <<clock, zoneKnown, agent, pending, row, occurrence, request>>

Crash(s) ==
  /\ sch[s].pc # "down"
  /\ sch' = [sch EXCEPT ![s] = Down]
  /\ UNCHANGED <<clock, zoneKnown, agent, pending, row, occurrence, request>>

Start(s) ==
  /\ sch[s].pc = "down"
  /\ sch' = [sch EXCEPT ![s] = Idle(NoCursor)]
  /\ UNCHANGED <<clock, zoneKnown, agent, pending, row, occurrence, request>>

-----------------------------------------------------------------------------
TimePasses ==
  /\ clock < MaxTime
  /\ clock' = clock + 1
  /\ UNCHANGED <<zoneKnown, agent, pending, row, occurrence, request, sch>>

\* The host's tz database is not part of the trigger.
ZoneVanishes ==
  /\ zoneKnown
  /\ zoneKnown' = FALSE
  /\ UNCHANGED <<clock, agent, pending, row, occurrence, request, sch>>

NoRow == [status |-> "absent", schedule |-> [kind |-> "one_time", arg |-> 0],
          input |-> 0, enabled |-> FALSE, revision |-> 0, next |-> NULL]

Init ==
  /\ clock = StartTime /\ zoneKnown = TRUE
  /\ agent \in [Agent -> [enabled : {TRUE}, definition : Definition]]
  /\ pending = [a \in Agent |-> 0]
  /\ row = [t \in TriggerId |-> NoRow]
  /\ occurrence = {}
  /\ request = [c \in Client |-> NoRequest]
  /\ sch = [s \in Scheduler |-> Down]

Management(c) ==
  \/ \E t \in TriggerId, schedule \in Schedule, input \in Input, b \in BOOLEAN :
       BeginCreate(c, t, schedule, input, b) \/ BeginUpdate(c, t, b, schedule, input)
  \/ \E t \in TriggerId : BeginEnable(c, t)
  \/ Commit(c) \/ RequestFails(c)

Tick(s) ==
  \/ ReadPage(s) \/ Evaluate(s) \/ DiscardDecision(s) \/ MaterializeSkip(s)
  \/ MaterializeRun(s)

Next ==
  \/ TimePasses \/ ZoneVanishes
  \/ \E c \in Client : Management(c)
  \/ \E t \in TriggerId : Disable(t) \/ Delete(t)
  \/ \E a \in Agent : ManualSubmission(a) \/ JobSettles(a) \/ \E b \in BOOLEAN : SetAgentEnabled(a, b)
  \/ \E a \in Agent, d \in Definition : Rebind(a, d)
  \/ \E s \in Scheduler : Tick(s) \/ Contention(s) \/ Crash(s) \/ Start(s)

Spec == Init /\ [][Next]_vars

-----------------------------------------------------------------------------
(* Fairness: the poll loop never stops asking, contention may recur but     *)
(* does not meet the same trigger every time, a stopped process is started  *)
(* again, and neither processes stopping nor Agents being rebound goes on   *)
(* for ever.                                                                *)
Applies(s, t) ==
  /\ sch[s].command.id = t
  /\ DiscardDecision(s) \/ MaterializeSkip(s) \/ MaterializeRun(s)

Fairness ==
  /\ \A s \in Scheduler :
       /\ WF_vars(Start(s)) /\ WF_vars(ReadPage(s)) /\ WF_vars(Evaluate(s))
       /\ \A t \in TriggerId : SF_vars(Applies(s, t))
  /\ <>[][\A s \in Scheduler : sch[s].pc # "down" => sch'[s].pc # "down"]_sch
  /\ <>[][\A a \in Agent : agent'[a].definition = agent[a].definition]_agent

FairSpec == Spec /\ Fairness

-----------------------------------------------------------------------------
(* Properties.                                                             *)

\* Type correctness, with the alignment the database checks: a trigger has a
\* next fire time exactly when it is enabled, whatever edit, disable and tick
\* crossed each other.
TypeOK ==
  /\ clock \in Nat /\ zoneKnown \in BOOLEAN
  /\ agent \in [Agent -> [enabled : BOOLEAN, definition : Definition]]
  /\ pending \in [Agent -> 0..AgentCapacity]
  /\ \A t \in TriggerId :
       /\ row[t].status \in TriggerStatus /\ row[t].revision \in 0..MaxRevision
       /\ row[t].status # "absent" => row[t].schedule \in Schedule
       /\ row[t].next \in Nat /\ (row[t].enabled <=> row[t].next # NULL)
  /\ \A o \in occurrence : o.id \in TriggerId /\ o.nominal \in Nat /\ o.skip \in SkipReason
  /\ \A s \in Scheduler :
       /\ sch[s].pc \in {"down", "idle", "tick", "apply"}
       /\ sch[s].pc = "tick" => sch[s].page # {}
       /\ sch[s].pc = "apply" <=> sch[s].command # NoCommand

\* A one-time trigger has at most one occurrence ever, over edits of its
\* instant, disabling, enabling, two Schedulers and restarts (ADR 0018).
OneTimeFiresOnce ==
  \A o, p \in occurrence :
    o.id = p.id /\ o.schedule.kind = "one_time" => o = p

\* trigger_revision names one configuration: two occurrences of a trigger with
\* the same revision were decided for the same schedule and input.
RevisionNamesConfiguration ==
  \A o, p \in occurrence :
    o.id = p.id /\ o.revision = p.revision => o.schedule = p.schedule /\ o.input = p.input

Recorded == occurrence' \ occurrence

\* What a Scheduler applies is what decide_due answers for the row as it is
\* inside the transaction, although it was decided from an earlier read: no
\* edit, disable, enable or other Scheduler between the two is overwritten.
AppliedToCurrentRow ==
  [][\A o \in Recorded :
       LET r == row[o.id]
           d == DecideDue(r.schedule, r.next, o.at, TRUE)
       IN  /\ r.status = "live" /\ r.enabled
           /\ o.skip \in {"none", "agent_disabled"} =>
                o.nominal = d.nominal /\ row'[o.id].next = d.next]_vars

\* Misfires coalesce: the occurrence is for the last instant of the schedule
\* that is not after the tick, the next fire time is the first one after it,
\* and nothing between them was owed (spring-forward gaps included).
CoalescesToLatest ==
  [][\A o \in Recorded : o.skip \in {"none", "agent_disabled"} =>
       LET next == row'[o.id].next
           kind == o.schedule.kind
       IN  /\ kind = "cron" => IsCoalesced(o.schedule.arg, o.at, o.nominal, next)
           /\ kind = "interval" => /\ row[o.id].next =< o.nominal /\ o.nominal =< o.at
                                   /\ o.at < next /\ next - o.nominal = o.schedule.arg
           /\ kind = "one_time" => o.nominal = o.schedule.arg /\ next = NULL]_vars

\* A trigger is not left due for ever while its Agent has room, although the
\* pages before it stay blocked by triggers whose Agent has none.
DueIsHonoured ==
  \A t \in TriggerId :
    []<>(IsDue(t, clock) =>
           QueueFull(Target[t]) \/ \E o \in Occurrences(t) : o.nominal >= row[t].next)

\* A missed cron schedule produces one catch-up occurrence (header of
\* domain/scheduling.py): with a usable zone and expression it is never
\* recorded as an invalid schedule and disabled.
MissedCronIsHonoured ==
  \A o \in occurrence : o.skip # "schedule_invalid"
=============================================================================
