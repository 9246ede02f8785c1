-------------------------- MODULE SchedulerProofs ---------------------------
(***************************************************************************)
(* Proofs about what the Scheduler process drives: schedule triggers       *)
(* (Triggers) and workflows (Workflows), for every value of their          *)
(* constants.                                                              *)
(***************************************************************************)
EXTENDS Triggers, Workflows, FiniteSetTheorems, SequenceTheorems, WellFoundedInduction, TLAPS

-----------------------------------------------------------------------------
(***************************************************************************)
(* Proofs about Triggers: a one-time trigger fires at most once, and a     *)
(* revision names one configuration, for any number of Schedulers,         *)
(* management requests, triggers and schedules.                            *)
(*                                                                         *)
(* Neither statement is inductive.  A second occurrence of a one-time      *)
(* trigger is impossible because a trigger that has one is disabled and    *)
(* stays so; that a tick disables it follows from the command having no    *)
(* next fire time, and that from the kind the page remembered, which no    *)
(* edit changes.  So the invariant speaks of the Schedulers' memory and    *)
(* of the requests in flight too.                                          *)
(***************************************************************************)

\* The rows and the memories are records over their fields.  The values of the
\* fire times are left open until the arithmetic of schedules gives their types.
IsRow(r) ==
  r \in [status : {r.status}, schedule : {r.schedule}, input : {r.input},
         enabled : {r.enabled}, revision : {r.revision}, next : {r.next}]
IsMemory(m) ==
  m \in [pc : {m.pc}, now : {m.now}, page : {m.page}, resume : {m.resume},
         cursor : {m.cursor}, command : {m.command}]

Shapes ==
  /\ row = [t \in TriggerId |-> row[t]]
  /\ \A t \in TriggerId : IsRow(row[t]) /\ row[t].revision \in Nat
  /\ sch = [s \in Scheduler |-> sch[s]]
  /\ \A s \in Scheduler : IsMemory(sch[s])
  /\ request = [c \in Client |-> request[c]]

\* t was inserted, and is of this kind.
OfKind(t, kind) ==
  t \in TriggerId /\ row[t].status # "absent" /\ row[t].schedule.kind = kind

\* What a Scheduler or a request remembers of a trigger's kind still holds.
PagesRemember ==
  \A s \in Scheduler : \A c \in sch[s].page : OfKind(c.id, c.schedule.kind)

CommandsRemember ==
  \A s \in Scheduler : sch[s].pc = "apply" =>
    LET m == sch[s].command
    IN  /\ m.id \in TriggerId /\ row[m.id].status # "absent"
        /\ row[m.id].schedule.kind = "one_time" => m.after = NULL

RequestsRemember ==
  \A c \in Client :
    /\ request[c].op # "none" => request[c].id \in TriggerId
    /\ request[c].op = "update" => OfKind(request[c].id, request[c].schedule.kind)

\* An occurrence belongs to a live trigger of its kind, carries no later revision
\* than the row, and the row's configuration when it carries the row's revision.
HistoryAgrees ==
  \A o \in occurrence :
    /\ OfKind(o.id, o.schedule.kind) /\ row[o.id].status = "live"
    /\ o.revision \in Nat /\ o.revision =< row[o.id].revision
    /\ o.revision = row[o.id].revision =>
         o.schedule = row[o.id].schedule /\ o.input = row[o.id].input

CompletedIsDisabled ==
  \A t \in TriggerId : Completed(t) => ~row[t].enabled

TInv ==
  /\ Shapes
  /\ PagesRemember /\ CommandsRemember /\ RequestsRemember
  /\ HistoryAgrees /\ CompletedIsDisabled
  /\ OneTimeFiresOnce /\ RevisionNamesConfiguration

-----------------------------------------------------------------------------
\* A decision for a one-time schedule, or a failed one, completes the schedule:
\* the command carries no next fire time, and the candidate's identity.
LEMMA CommandOfOneTime ==
  ASSUME NEW c, NEW now
  PROVE  /\ CommandFor(c, now).id = c.id
         /\ c.schedule.kind = "one_time" => CommandFor(c, now).after = NULL
<1>1. CommandFor(c, now).id = c.id
  BY DEF CommandFor
<1>2. c.schedule.kind = "one_time" =>
        DecideDue(c.schedule, c.next, now, zoneKnown).next = NULL
  BY DEF DecideDue, CalculateOneTime, Decided
<1>3. CommandFor(c, now).after = DecideDue(c.schedule, c.next, now, zoneKnown).next
  BY DEF CommandFor
<1> QED BY <1>1, <1>2, <1>3

\* The invariant holds before anything was created.
LEMMA TInvInit == Init => TInv
<1> SUFFICES ASSUME Init PROVE TInv OBVIOUS
<1>1. \A t \in TriggerId : row[t] = NoRow
  BY DEF Init
<1>2. \A s \in Scheduler : sch[s] = Down
  BY DEF Init
<1>3. \A c \in Client : request[c] = NoRequest
  BY DEF Init
<1>4. Shapes
  BY <1>1, <1>2 DEF Init, Shapes, IsRow, IsMemory, NoRow, Down, Memory
<1>5. PagesRemember /\ CommandsRemember
  BY <1>2 DEF PagesRemember, CommandsRemember, Down, Memory
<1>6. RequestsRemember
  BY <1>3 DEF RequestsRemember, NoRequest
<1>7. HistoryAgrees /\ OneTimeFiresOnce /\ RevisionNamesConfiguration
  BY DEF Init, HistoryAgrees, OneTimeFiresOnce, RevisionNamesConfiguration
<1>8. CompletedIsDisabled
  BY DEF Init, CompletedIsDisabled, Completed, HasOccurrence, Occurrences
<1> QED BY <1>4, <1>5, <1>6, <1>7, <1>8 DEF TInv

-----------------------------------------------------------------------------
\* Steps of the clock, the host, the Agents and their queue leave the triggers,
\* the history and every memory as they are.
LEMMA FramePreserves ==
  ASSUME TInv, UNCHANGED <<row, occurrence, request, sch>>
  PROVE  TInv'
  BY DEF TInv, Shapes, IsRow, IsMemory, PagesRemember, CommandsRemember,
         RequestsRemember, OfKind, HistoryAgrees, CompletedIsDisabled, Completed,
         HasOccurrence, Occurrences, OneTimeFiresOnce, RevisionNamesConfiguration

\* A request that begins remembers the kind of the row it read; one that ends
\* remembers nothing.
LEMMA RequestPreserves ==
  ASSUME TInv, NEW c \in Client, NEW r, UNCHANGED <<row, occurrence, sch>>,
         request' = [request EXCEPT ![c] = r],
         r.op # "none" => r.id \in TriggerId,
         r.op = "update" => OfKind(r.id, r.schedule.kind)
  PROVE  TInv'
<1>1. \A d \in Client : request'[d] = IF d = c THEN r ELSE request[d]
  BY DEF TInv, Shapes
<1>2. Shapes'
  BY DEF TInv, Shapes, IsRow, IsMemory
<1>3. RequestsRemember'
  BY <1>1 DEF TInv, RequestsRemember, OfKind
<1>4. (PagesRemember /\ CommandsRemember)'
  BY DEF TInv, PagesRemember, CommandsRemember, OfKind
<1>5. (HistoryAgrees /\ CompletedIsDisabled)'
  BY DEF TInv, HistoryAgrees, OfKind, CompletedIsDisabled, Completed, HasOccurrence,
         Occurrences
<1>6. (OneTimeFiresOnce /\ RevisionNamesConfiguration)'
  BY DEF TInv, OneTimeFiresOnce, RevisionNamesConfiguration
<1> QED BY <1>2, <1>3, <1>4, <1>5, <1>6 DEF TInv

\* A Scheduler's step on its own memory: what the new memory holds must be true
\* of the rows, which did not change.
LEMMA MemoryPreserves ==
  ASSUME TInv, NEW s \in Scheduler, NEW m, UNCHANGED <<row, occurrence, request>>,
         sch' = [sch EXCEPT ![s] = m], IsMemory(m),
         \A c \in m.page : OfKind(c.id, c.schedule.kind),
         m.pc = "apply" =>
           /\ m.command.id \in TriggerId /\ row[m.command.id].status # "absent"
           /\ row[m.command.id].schedule.kind = "one_time" => m.command.after = NULL
  PROVE  TInv'
<1>1. \A u \in Scheduler : sch'[u] = IF u = s THEN m ELSE sch[u]
  BY DEF TInv, Shapes
<1>2. Shapes'
  BY <1>1 DEF TInv, Shapes, IsRow, IsMemory
<1>3. PagesRemember'
  BY <1>1 DEF TInv, PagesRemember, OfKind
<1>4. CommandsRemember'
  BY <1>1 DEF TInv, CommandsRemember
<1>5. RequestsRemember'
  BY DEF TInv, RequestsRemember, OfKind
<1>6. (HistoryAgrees /\ CompletedIsDisabled)'
  BY DEF TInv, HistoryAgrees, OfKind, CompletedIsDisabled, Completed, HasOccurrence,
         Occurrences
<1>7. (OneTimeFiresOnce /\ RevisionNamesConfiguration)'
  BY DEF TInv, OneTimeFiresOnce, RevisionNamesConfiguration
<1> QED BY <1>2, <1>3, <1>4, <1>5, <1>6, <1>7 DEF TInv

\* A management transaction: the row is new, or keeps its kind, does not lose its
\* revision, changes it with the configuration, and stays disabled once complete.
LEMMA RowPreserves ==
  ASSUME TInv, NEW t \in TriggerId, NEW r, UNCHANGED <<occurrence, sch>>,
         row' = [row EXCEPT ![t] = r], IsRow(r), r.revision \in Nat,
         request' = [c \in Client |-> request'[c]],
         \A c \in Client : request'[c] \in {request[c], NoRequest},
         \/ row[t].status = "absent"
         \/ /\ r.status # "absent" /\ r.schedule.kind = row[t].schedule.kind
            /\ HasOccurrence(t) => r.status = "live"
            /\ r.revision >= row[t].revision
            /\ r.revision = row[t].revision =>
                 r.schedule = row[t].schedule /\ r.input = row[t].input
            /\ Completed(t) => ~r.enabled
  PROVE  TInv'
<1>1. \A u \in TriggerId : row'[u] = IF u = t THEN r ELSE row[u]
  BY DEF TInv, Shapes
<1>2. row[t].status = "absent" => ~HasOccurrence(t)
  BY DEF TInv, HistoryAgrees, OfKind, HasOccurrence, Occurrences
<1>3. ASSUME NEW u, NEW k, OfKind(u, k) PROVE OfKind(u, k)'
  BY <1>1, <1>3 DEF OfKind
<1>4. Shapes'
  BY <1>1 DEF TInv, Shapes, IsRow, IsMemory
<1>5. PagesRemember'
  BY <1>3 DEF TInv, PagesRemember
<1>6. CommandsRemember'
  BY <1>1 DEF TInv, CommandsRemember
<1>7. RequestsRemember'
  BY <1>3 DEF TInv, RequestsRemember, NoRequest
<1>8. HistoryAgrees'
  <2> SUFFICES ASSUME NEW o \in occurrence
               PROVE  /\ OfKind(o.id, o.schedule.kind)' /\ row'[o.id].status = "live"
                      /\ o.revision \in Nat /\ o.revision =< row'[o.id].revision
                      /\ o.revision = row'[o.id].revision =>
                           o.schedule = row'[o.id].schedule /\ o.input = row'[o.id].input
    BY DEF HistoryAgrees
  <2>1. /\ OfKind(o.id, o.schedule.kind) /\ row[o.id].status = "live"
        /\ o.revision \in Nat /\ o.revision =< row[o.id].revision
        /\ o.revision = row[o.id].revision =>
             o.schedule = row[o.id].schedule /\ o.input = row[o.id].input
    BY DEF TInv, HistoryAgrees
  <2>2. OfKind(o.id, o.schedule.kind)'
    BY <1>3, <2>1
  <2>3. CASE o.id # t
    BY <1>1, <2>1, <2>2, <2>3 DEF OfKind
  <2>4. CASE o.id = t
    <3>1. HasOccurrence(t) /\ row[t].status # "absent"
      BY <1>2, <2>4 DEF HasOccurrence, Occurrences
    <3>2. row[t].revision \in Nat
      BY DEF TInv, Shapes
    <3> QED BY <1>1, <2>1, <2>2, <2>4, <3>1, <3>2
  <2> QED BY <2>3, <2>4
<1>9. CompletedIsDisabled'
  <2> SUFFICES ASSUME NEW u \in TriggerId, Completed(u)' PROVE ~row'[u].enabled
    BY DEF CompletedIsDisabled
  <2>1. HasOccurrence(u) /\ row'[u].schedule.kind = "one_time"
    BY DEF Completed, HasOccurrence, Occurrences
  <2>2. CASE u # t
    BY <1>1, <2>1, <2>2 DEF TInv, CompletedIsDisabled, Completed
  <2>3. CASE u = t
    BY <1>1, <1>2, <2>1, <2>3 DEF Completed
  <2> QED BY <2>2, <2>3
<1>10. (OneTimeFiresOnce /\ RevisionNamesConfiguration)'
  BY DEF TInv, OneTimeFiresOnce, RevisionNamesConfiguration
<1> QED BY <1>4, <1>5, <1>6, <1>7, <1>8, <1>9, <1>10 DEF TInv

\* Each management transaction is such a change.
LEMMA CommitPreserves ==
  ASSUME TInv, NEW c \in Client, Commit(c)
  PROVE  TInv'
<1> DEFINE r == request[c]
           old == row[r.id]
<1>1. /\ r.op # "none" /\ r.id \in TriggerId
      /\ r.op = "update" => OfKind(r.id, r.schedule.kind)
  BY DEF TInv, RequestsRemember, Commit
<1>2. /\ request' = [d \in Client |-> request'[d]]
      /\ \A d \in Client : request'[d] \in {request[d], NoRequest}
  BY DEF TInv, Shapes, Commit
<1>3. UNCHANGED <<occurrence, sch>>
  BY DEF Commit
<1>4. IsRow(old) /\ old.revision \in Nat
  BY <1>1 DEF TInv, Shapes
<1>5. CASE r.op = "create" /\ Create(r)
  <2> DEFINE new == [status |-> "live", schedule |-> r.schedule, input |-> r.input,
                     enabled |-> r.enabled, revision |-> 1, next |-> r.next]
  <2>1. row' = [row EXCEPT ![r.id] = new] /\ old.status = "absent"
    BY <1>5 DEF Create
  <2>2. IsRow(new) /\ new.revision \in Nat
    BY DEF IsRow
  <2> HIDE DEF new, r
  <2> QED BY <1>1, <1>2, <1>3, <2>1, <2>2, RowPreserves
<1>6. CASE r.op = "update" /\ Update(r)
  <2> DEFINE schedule == IF r.restated THEN r.schedule ELSE old.schedule
             defining == schedule # old.schedule \/ r.input # old.input
             new == [old EXCEPT !.schedule = schedule, !.input = r.input,
                       !.revision = IF defining THEN old.revision + 1 ELSE old.revision,
                       !.next = IF r.next # NULL THEN r.next ELSE old.next]
  <2>1. row' = [row EXCEPT ![r.id] = new] /\ UpdateAllowed(r)
    BY <1>6 DEF Update
  <2>2. old.status = "live" /\ ~Completed(r.id)
    BY <2>1 DEF UpdateAllowed
  <2>3. schedule.kind = old.schedule.kind
    BY <1>1, <1>6 DEF OfKind
  <2>4. /\ IsRow(new) /\ new.status = "live" /\ new.schedule = schedule
        /\ new.input = r.input
        /\ new.revision = IF defining THEN old.revision + 1 ELSE old.revision
    BY <1>4, <2>2 DEF IsRow
  <2>5. /\ new.revision \in Nat /\ new.revision >= old.revision
        /\ new.revision = old.revision => schedule = old.schedule /\ new.input = old.input
    BY <1>4, <2>4, SMTT(30)
  <2> HIDE DEF new, schedule, r
  <2> QED BY <1>1, <1>2, <1>3, <2>1, <2>2, <2>3, <2>4, <2>5, RowPreserves
<1>7. CASE r.op = "enable" /\ Enable(r)
  <2> DEFINE new == [old EXCEPT !.enabled = TRUE, !.next = r.next]
  <2>1. row' = [row EXCEPT ![r.id] = new] /\ old.status = "live" /\ ~Completed(r.id)
    BY <1>7 DEF Enable
  <2>2. /\ IsRow(new) /\ new.status = "live" /\ new.schedule = old.schedule
        /\ new.input = old.input /\ new.revision = old.revision
    BY <1>4, <2>1 DEF IsRow
  <2>3. new.revision \in Nat /\ new.revision >= old.revision
    BY <1>4, <2>2
  <2> HIDE DEF new, r
  <2> QED BY <1>1, <1>2, <1>3, <2>1, <2>2, <2>3, RowPreserves
<1> QED BY <1>5, <1>6, <1>7 DEF Commit

\* Disabling keeps everything but the enablement; deleting needs an empty history.
LEMMA DisableDeletePreserves ==
  ASSUME TInv, NEW t \in TriggerId, Disable(t) \/ Delete(t)
  PROVE  TInv'
<1>1. IsRow(row[t]) /\ row[t].revision \in Nat /\ row[t].status = "live"
  BY DEF TInv, Shapes, Disable, Delete
<1>2. /\ request' = [d \in Client |-> request'[d]]
      /\ \A d \in Client : request'[d] \in {request[d], NoRequest}
  BY DEF TInv, Shapes, Disable, Delete
<1>3. UNCHANGED <<occurrence, sch>>
  BY DEF Disable, Delete
<1>4. CASE Disable(t)
  <2> DEFINE new == [row[t] EXCEPT !.enabled = FALSE, !.next = NULL]
  <2>1. row' = [row EXCEPT ![t] = new]
    BY <1>4 DEF Disable
  <2>2. /\ IsRow(new) /\ new.status = "live" /\ new.schedule = row[t].schedule
        /\ new.input = row[t].input /\ new.revision = row[t].revision
        /\ new.enabled = FALSE
    BY <1>1 DEF IsRow
  <2>3. new.revision \in Nat /\ new.revision >= row[t].revision
    BY <1>1, <2>2
  <2> HIDE DEF new
  <2> QED BY <1>2, <1>3, <2>1, <2>2, <2>3, RowPreserves
<1>5. CASE Delete(t)
  <2> DEFINE new == [row[t] EXCEPT !.status = "deleted"]
  <2>1. row' = [row EXCEPT ![t] = new] /\ ~HasOccurrence(t)
    BY <1>5 DEF Delete
  <2>2. /\ IsRow(new) /\ new.status = "deleted" /\ new.schedule = row[t].schedule
        /\ new.input = row[t].input /\ new.revision = row[t].revision
    BY <1>1 DEF IsRow
  <2>3. new.revision \in Nat /\ new.revision >= row[t].revision
    BY <1>1, <2>2
  <2>4. ~Completed(t)
    BY <2>1 DEF Completed
  <2> HIDE DEF new
  <2> QED BY <1>2, <1>3, <2>1, <2>2, <2>3, <2>4, RowPreserves
<1> QED BY <1>4, <1>5

-----------------------------------------------------------------------------
\* A Scheduler that is done with a candidate keeps the rest of its page.
LEMMA ProceedRemembers ==
  ASSUME TInv, NEW s \in Scheduler, Proceed(s)
  PROVE  \E m : /\ sch' = [sch EXCEPT ![s] = m] /\ IsMemory(m)
                /\ m.page \subseteq sch[s].page /\ m.pc # "apply"
<1> DEFINE m == IF sch[s].page = {} THEN Idle(sch[s].resume)
                ELSE [sch[s] EXCEPT !.pc = "tick", !.command = NoCommand]
<1>1. sch' = [sch EXCEPT ![s] = m]
  BY DEF Proceed
<1>2. IsMemory(sch[s])
  BY DEF TInv, Shapes
<1>3. IsMemory(m) /\ m.page \subseteq sch[s].page /\ m.pc # "apply"
  <2>1. CASE sch[s].page = {}
    BY <2>1 DEF IsMemory, Idle, Memory
  <2>2. CASE sch[s].page # {}
    <3>1. m = [sch[s] EXCEPT !.pc = "tick", !.command = NoCommand]
      BY <2>2
    <3> QED BY <1>2, <3>1 DEF IsMemory
  <2> QED BY <2>1, <2>2
<1> HIDE DEF m
<1> QED BY <1>1, <1>3

\* Steps that touch no row: reading a page, evaluating a candidate, discarding a
\* decision, contention, a crash, a start.
LEMMA SchedulerMemoryPreserves ==
  ASSUME TInv, NEW s \in Scheduler,
         \/ ReadPage(s) \/ Evaluate(s) \/ DiscardDecision(s)
         \/ Contention(s) \/ Crash(s) \/ Start(s)
  PROVE  TInv'
<1>1. UNCHANGED <<row, occurrence, request>>
  BY DEF ReadPage, Evaluate, DiscardDecision, Contention, Crash, Start
<1>2. \A c \in sch[s].page : OfKind(c.id, c.schedule.kind)
  BY DEF TInv, PagesRemember
<1>3. IsMemory(sch[s])
  BY DEF TInv, Shapes
<1>4. /\ IsMemory(Down) /\ Down.page = {} /\ Down.pc = "down"
      /\ \A k : IsMemory(Idle(k)) /\ Idle(k).page = {} /\ Idle(k).pc = "idle"
  BY DEF IsMemory, Memory, Down, Idle
<1>5. CASE ReadPage(s)
  <2> DEFINE page == DuePage(clock, sch[s].cursor)
             m == IF page = {} THEN Idle(NoCursor)
                  ELSE [pc |-> "tick", now |-> clock, page |-> page,
                        resume |-> Resume(page), cursor |-> sch[s].cursor,
                        command |-> NoCommand]
  <2>1. sch' = [sch EXCEPT ![s] = m]
    BY <1>5 DEF ReadPage
  <2>2. \A c \in page : OfKind(c.id, c.schedule.kind)
    <3> SUFFICES ASSUME NEW c \in page PROVE OfKind(c.id, c.schedule.kind)
      OBVIOUS
    <3>1. PICK t \in TriggerId : IsDue(t, clock) /\ c = Candidate(t)
      BY Zenon DEF DuePage
    <3>2. c.id = t /\ c.schedule = row[t].schedule
      BY <3>1 DEF Candidate
    <3> QED BY <3>1, <3>2 DEF IsDue, OfKind
  <2> HIDE DEF page
  <2>3. IsMemory(m) /\ m.page \subseteq page /\ m.pc # "apply"
    <3>1. CASE page = {}
      BY <1>4, <3>1
    <3>2. CASE page # {}
      BY <3>2 DEF IsMemory
    <3> QED BY <3>1, <3>2
  <2> HIDE DEF m
  <2> QED BY <1>1, <2>1, <2>2, <2>3, MemoryPreserves
<1>6. CASE Evaluate(s)
  <2>1. PICK c \in sch[s].page :
          \/ sch' = [sch EXCEPT ![s] =
                       [sch[s] EXCEPT !.pc = "apply", !.page = sch[s].page \ {c},
                                      !.command = CommandFor(c, sch[s].now)]]
          \/ sch' = [sch EXCEPT ![s] = Down]
    BY <1>6 DEF Evaluate
  <2>2. OfKind(c.id, c.schedule.kind)
    BY <1>2
  <2>3. CASE sch' = [sch EXCEPT ![s] = Down]
    BY <1>1, <1>4, <2>3, MemoryPreserves
  <2>4. CASE sch' = [sch EXCEPT ![s] =
                       [sch[s] EXCEPT !.pc = "apply", !.page = sch[s].page \ {c},
                                      !.command = CommandFor(c, sch[s].now)]]
    <3> DEFINE k == CommandFor(c, sch[s].now)
               m == [sch[s] EXCEPT !.pc = "apply", !.page = sch[s].page \ {c},
                                   !.command = k]
    <3>1. k.id = c.id /\ (c.schedule.kind = "one_time" => k.after = NULL)
      BY CommandOfOneTime
    <3> HIDE DEF k
    <3>2. /\ IsMemory(m) /\ m.page \subseteq sch[s].page /\ m.command = k
      BY <1>3 DEF IsMemory
    <3>3. sch' = [sch EXCEPT ![s] = m]
      BY <2>4 DEF k
    <3> HIDE DEF m
    <3> QED BY <1>1, <1>2, <2>2, <3>1, <3>2, <3>3, MemoryPreserves DEF OfKind
  <2> QED BY <2>1, <2>3, <2>4
<1>7. CASE DiscardDecision(s)
  <2>1. PICK m : /\ sch' = [sch EXCEPT ![s] = m] /\ IsMemory(m)
                 /\ m.page \subseteq sch[s].page /\ m.pc # "apply"
    BY <1>7, ProceedRemembers DEF DiscardDecision
  <2> QED BY <1>1, <1>2, <2>1, MemoryPreserves
<1>8. CASE Contention(s)
  <2>1. PICK k : sch' = [sch EXCEPT ![s] = Idle(k)]
    BY <1>8 DEF Contention
  <2> QED BY <1>1, <1>4, <2>1, MemoryPreserves
<1>9. CASE Crash(s) \/ Start(s)
  BY <1>1, <1>4, <1>9, MemoryPreserves DEF Crash, Start
<1> QED BY <1>5, <1>6, <1>7, <1>8, <1>9

\* The transaction that records an occurrence.  The trigger is live, enabled and
\* of the command's revision, so it had no occurrence if it is one-time; the new
\* occurrence copies the row, and a one-time row ends disabled.
LEMMA RecordPreserves ==
  ASSUME TInv, NEW s \in Scheduler, NEW skip, sch[s].pc = "apply",
         ~WritesNothing(sch[s].command, sch[s].now), Record(s, skip)
  PROVE  TInv'
<1> DEFINE k == sch[s].command
           t == k.id
           old == row[t]
           new == Advanced(old, k)
<1>0. PICK o : o = OccurrenceOf(k, sch[s].now, skip)
  OBVIOUS
<1>1. /\ t \in TriggerId /\ old.status = "live" /\ old.enabled
      /\ old.schedule.kind = "one_time" => k.after = NULL
  BY DEF TInv, CommandsRemember, WritesNothing, Stale
<1>2. IsRow(old) /\ old.revision \in Nat
  BY <1>1 DEF TInv, Shapes
<1>3. /\ occurrence' = occurrence \cup {o} /\ row' = [row EXCEPT ![t] = new]
      /\ Proceed(s) /\ UNCHANGED request
  BY <1>0 DEF Record
<1>4. /\ IsRow(new) /\ new.status = "live" /\ new.schedule = old.schedule
      /\ new.input = old.input /\ new.revision = old.revision
      /\ k.after = NULL => new.enabled = FALSE
  <2>1. CASE k.after = NULL
    <3>1. new = [old EXCEPT !.enabled = FALSE, !.next = NULL]
      BY <2>1 DEF Advanced
    <3> QED BY <1>1, <1>2, <3>1 DEF IsRow
  <2>2. CASE k.after # NULL
    <3>1. new = [old EXCEPT !.next = k.after]
      BY <2>2 DEF Advanced
    <3> QED BY <1>1, <1>2, <2>2, <3>1 DEF IsRow
  <2> QED BY <2>1, <2>2
<1>5. /\ o.id = t /\ o.revision = old.revision /\ o.schedule = old.schedule
      /\ o.input = old.input
  BY <1>0 DEF OccurrenceOf
<1>6. PICK m : /\ sch' = [sch EXCEPT ![s] = m] /\ IsMemory(m)
               /\ m.page \subseteq sch[s].page /\ m.pc # "apply"
  BY <1>3, ProceedRemembers
<1>7. old.schedule.kind = "one_time" => \A p \in occurrence : p.id # t
  BY <1>1 DEF TInv, CompletedIsDisabled, Completed, HasOccurrence, Occurrences
<1> HIDE DEF new, old, t, k
<1>8. \A u \in TriggerId : row'[u] = IF u = t THEN new ELSE row[u]
  BY <1>1, <1>3 DEF TInv, Shapes
<1>9. \A u \in Scheduler : sch'[u] = IF u = s THEN m ELSE sch[u]
  BY <1>6 DEF TInv, Shapes
<1>10. ASSUME NEW u, NEW kind, OfKind(u, kind) PROVE OfKind(u, kind)'
  BY <1>4, <1>8, <1>10 DEF OfKind, old
<1>11. Shapes'
  BY <1>2, <1>3, <1>4, <1>6, <1>8, <1>9 DEF TInv, Shapes, IsRow, IsMemory
<1>12. PagesRemember'
  BY <1>6, <1>9, <1>10 DEF TInv, PagesRemember
<1>13. CommandsRemember'
  <2> SUFFICES ASSUME NEW u \in Scheduler, sch'[u].pc = "apply"
               PROVE  LET j == sch'[u].command
                      IN  /\ j.id \in TriggerId /\ row'[j.id].status # "absent"
                          /\ row'[j.id].schedule.kind = "one_time" => j.after = NULL
    BY DEF CommandsRemember
  <2>1. u # s /\ sch'[u] = sch[u]
    BY <1>6, <1>9
  <2> QED BY <1>4, <1>8, <2>1 DEF TInv, CommandsRemember, old
<1>14. RequestsRemember'
  BY <1>3, <1>10 DEF TInv, RequestsRemember
<1>15. HistoryAgrees'
  <2>1. /\ OfKind(o.id, o.schedule.kind)' /\ row'[o.id].status = "live"
        /\ o.revision \in Nat /\ o.revision =< row'[o.id].revision
        /\ o.schedule = row'[o.id].schedule /\ o.input = row'[o.id].input
    BY <1>1, <1>2, <1>4, <1>5, <1>8 DEF OfKind
  <2>2. ASSUME NEW p \in occurrence
        PROVE  /\ OfKind(p.id, p.schedule.kind)' /\ row'[p.id].status = "live"
               /\ p.revision \in Nat /\ p.revision =< row'[p.id].revision
               /\ p.revision = row'[p.id].revision =>
                    p.schedule = row'[p.id].schedule /\ p.input = row'[p.id].input
    <3>1. /\ OfKind(p.id, p.schedule.kind) /\ row[p.id].status = "live"
          /\ p.revision \in Nat /\ p.revision =< row[p.id].revision
          /\ p.revision = row[p.id].revision =>
               p.schedule = row[p.id].schedule /\ p.input = row[p.id].input
      BY DEF TInv, HistoryAgrees
    <3>2. OfKind(p.id, p.schedule.kind)'
      BY <1>10, <3>1
    <3>3. /\ row'[p.id].status = row[p.id].status
          /\ row'[p.id].revision = row[p.id].revision
          /\ row'[p.id].schedule = row[p.id].schedule
          /\ row'[p.id].input = row[p.id].input
      BY <1>1, <1>4, <1>8, <3>1 DEF OfKind, old
    <3> QED BY <3>1, <3>2, <3>3
  <2> QED BY <1>3, <2>1, <2>2 DEF HistoryAgrees
<1>16. CompletedIsDisabled'
  <2> SUFFICES ASSUME NEW u \in TriggerId, Completed(u)' PROVE ~row'[u].enabled
    BY DEF CompletedIsDisabled
  <2>1. CASE u = t
    BY <1>1, <1>4, <1>8, <2>1 DEF Completed
  <2>2. CASE u # t
    <3>1. Completed(u) /\ row'[u] = row[u]
      BY <1>3, <1>5, <1>8, <2>2 DEF Completed, HasOccurrence, Occurrences
    <3> QED BY <3>1 DEF TInv, CompletedIsDisabled
  <2> QED BY <2>1, <2>2
<1>17. OneTimeFiresOnce'
  <2>1. \A p \in occurrence : p.id = t => p.schedule.kind = old.schedule.kind
    BY DEF TInv, HistoryAgrees, OfKind, old
  <2> QED BY <1>3, <1>5, <1>7, <2>1 DEF TInv, OneTimeFiresOnce
<1>18. RevisionNamesConfiguration'
  <2>1. \A p \in occurrence : p.id = t /\ p.revision = old.revision =>
          p.schedule = old.schedule /\ p.input = old.input
    BY DEF TInv, HistoryAgrees, old
  <2> QED BY <1>3, <1>5, <2>1 DEF TInv, RevisionNamesConfiguration
<1> QED BY <1>11, <1>12, <1>13, <1>14, <1>15, <1>16, <1>17, <1>18 DEF TInv

-----------------------------------------------------------------------------
\* A management call reads a live row (or an unused id) and remembers its kind.
LEMMA BeginPreserves ==
  ASSUME TInv, NEW c \in Client, NEW t \in TriggerId, NEW schedule, NEW input, NEW b,
         \/ BeginCreate(c, t, schedule, input, b)
         \/ BeginUpdate(c, t, b, schedule, input)
         \/ BeginEnable(c, t)
  PROVE  TInv'
<1>1. UNCHANGED <<row, occurrence, sch>>
  BY DEF BeginCreate, BeginUpdate, BeginEnable
<1>2. CASE BeginCreate(c, t, schedule, input, b)
  <2> DEFINE next == IF b THEN InitialNextFire(schedule, clock, zoneKnown) ELSE NULL
             r == [op |-> "create", id |-> t, schedule |-> schedule, input |-> input,
                   enabled |-> b, next |-> next]
  <2>1. request' = [request EXCEPT ![c] = r]
    BY <1>2, Zenon DEF BeginCreate
  <2>2. r.op = "create" /\ r.id = t
    OBVIOUS
  <2> HIDE DEF r
  <2> QED BY <1>1, <2>1, <2>2, RequestPreserves
<1>3. CASE BeginUpdate(c, t, b, schedule, input)
  <2> DEFINE next == IF b /\ row[t].enabled
                     THEN InitialNextFire(schedule, clock, zoneKnown) ELSE NULL
             r == [op |-> "update", id |-> t, schedule |-> schedule, input |-> input,
                   restated |-> b, next |-> next, expected |-> row[t].revision]
  <2>1. request' = [request EXCEPT ![c] = r]
    BY <1>3, Zenon DEF BeginUpdate
  <2>2. r.op = "update" /\ r.id = t /\ r.schedule = schedule
    OBVIOUS
  <2>3. OfKind(t, schedule.kind)
    BY <1>3, Zenon DEF BeginUpdate, OfKind
  <2> HIDE DEF r
  <2> QED BY <1>1, <2>1, <2>2, <2>3, RequestPreserves
<1>4. CASE BeginEnable(c, t)
  <2> DEFINE next == InitialNextFire(row[t].schedule, clock, zoneKnown)
             r == [op |-> "enable", id |-> t, next |-> next]
  <2>1. request' = [request EXCEPT ![c] = r]
    BY <1>4, Zenon DEF BeginEnable
  <2>2. r.op = "enable" /\ r.id = t
    OBVIOUS
  <2> HIDE DEF r
  <2> QED BY <1>1, <2>1, <2>2, RequestPreserves
<1> QED BY <1>2, <1>3, <1>4

\* Every step keeps the invariant.
LEMMA TInvStep == TInv /\ [Next]_vars => TInv'
<1> SUFFICES ASSUME TInv, [Next]_vars PROVE TInv'
  OBVIOUS
<1>1. CASE TimePasses \/ ZoneVanishes
  BY <1>1, FramePreserves DEF TimePasses, ZoneVanishes
<1>2. ASSUME NEW c \in Client, Management(c) PROVE TInv'
  <2>1. CASE Commit(c)
    BY <2>1, CommitPreserves
  <2>2. CASE RequestFails(c)
    <3>1. request' = [request EXCEPT ![c] = NoRequest] /\ NoRequest.op = "none"
      BY <2>2 DEF RequestFails, NoRequest
    <3>2. UNCHANGED <<row, occurrence, sch>>
      BY <2>2 DEF RequestFails
    <3> QED BY <3>1, <3>2, RequestPreserves
  <2>3. ASSUME NEW t \in TriggerId, BeginEnable(c, t) PROVE TInv'
    BY <2>3, BeginPreserves
  <2>4. ASSUME NEW t \in TriggerId, NEW schedule \in Schedule, NEW input \in Input,
               NEW b \in BOOLEAN,
               BeginCreate(c, t, schedule, input, b) \/ BeginUpdate(c, t, b, schedule, input)
        PROVE  TInv'
    BY <2>4, BeginPreserves
  <2> QED BY <1>2, <2>1, <2>2, <2>3, <2>4 DEF Management
<1>3. ASSUME NEW t \in TriggerId, Disable(t) \/ Delete(t) PROVE TInv'
  BY <1>3, DisableDeletePreserves
<1>4. ASSUME NEW a \in Agent, ManualSubmission(a) \/ JobSettles(a)
      PROVE  TInv'
  BY <1>4, FramePreserves DEF ManualSubmission, JobSettles
<1>5. ASSUME NEW a \in Agent, NEW b \in BOOLEAN, SetAgentEnabled(a, b) PROVE TInv'
  BY <1>5, FramePreserves DEF SetAgentEnabled
<1>6. ASSUME NEW a \in Agent, NEW d \in Definition, Rebind(a, d) PROVE TInv'
  BY <1>6, FramePreserves DEF Rebind
<1>7. ASSUME NEW s \in Scheduler, Tick(s) \/ Contention(s) \/ Crash(s) \/ Start(s)
      PROVE  TInv'
  <2>1. CASE MaterializeSkip(s)
    <3>1. PICK skip : Record(s, skip)
      BY <2>1 DEF MaterializeSkip
    <3> QED BY <2>1, <3>1, RecordPreserves DEF MaterializeSkip
  <2>2. CASE MaterializeRun(s)
    BY <2>2, RecordPreserves DEF MaterializeRun
  <2> QED BY <1>7, <2>1, <2>2, SchedulerMemoryPreserves DEF Tick
<1>8. CASE UNCHANGED vars
  BY <1>8, FramePreserves DEF vars
<1> QED BY <1>1, <1>2, <1>3, <1>4, <1>5, <1>6, <1>7, <1>8 DEF Next

\* The strengthened invariant holds in every reachable state.
THEOREM TriggerInvariant == Spec => []TInv
BY TInvInit, TInvStep, PTL DEF Spec

\* A one-time trigger fires at most once: over edits of its instant, disabling
\* and enabling, any number of Schedulers, their crashes and their contention,
\* _materialize_schedule_once never writes a second occurrence for it.
THEOREM OneTimeOnce == Spec => []OneTimeFiresOnce
<1>1. TInv => OneTimeFiresOnce
  BY DEF TInv
<1> QED BY <1>1, TriggerInvariant, PTL

\* trigger_revision identifies the configuration an occurrence was decided for:
\* whatever edits interleave with the ticks, update_trigger bumps it with every
\* change of schedule or input, and no tick records an older one.
THEOREM RevisionIdentifies == Spec => []RevisionNamesConfiguration
<1>1. TInv => RevisionNamesConfiguration
  BY DEF TInv
<1> QED BY <1>1, TriggerInvariant, PTL

-----------------------------------------------------------------------------
(* What a Scheduler decided is applied to the row it was decided for.      *)

\* What a Scheduler read still holds of the row while the row carries the same
\* revision, and so does what it decided from it.
CandidateAgrees(c, rows) ==
  /\ c.revision \in Nat /\ c.revision =< rows[c.id].revision
  /\ c.revision = rows[c.id].revision => c.schedule = rows[c.id].schedule

SkipOfCommand == {"none", "schedule_timezone_invalid", "schedule_invalid"}

CommandAgrees(m, now, rows) ==
  /\ m.skip \in SkipOfCommand
  /\ m.revision \in Nat /\ m.revision =< rows[m.id].revision
  /\ m.revision = rows[m.id].revision /\ m.skip = "none" =>
       LET d == DecideDue(rows[m.id].schedule, m.expected, now, TRUE)
       IN  d.failure = "none" /\ m.nominal = d.nominal /\ m.after = d.next

MemoryAgrees(memory, rows) ==
  /\ \A c \in memory.page : CandidateAgrees(c, rows)
  /\ memory.pc = "apply" => CommandAgrees(memory.command, memory.now, rows)

DecisionsAgree == \A s \in Scheduler : MemoryAgrees(sch[s], row)

\* A row that was inserted keeps its schedule as long as it keeps its revision.
RowGoesOn(old, new) ==
  old.status # "absent" =>
    /\ new.revision \in Nat /\ old.revision =< new.revision
    /\ new.revision = old.revision => new.schedule = old.schedule

RowsGoOn(rows, later) == \A t \in TriggerId : RowGoesOn(rows[t], later[t])

LEMMA SameRowsGoOn ==
  ASSUME TInv PROVE RowsGoOn(row, row)
BY DEF TInv, Shapes, RowsGoOn, RowGoesOn

LEMMA OneRowGoesOn ==
  ASSUME TInv, NEW t \in TriggerId, NEW r, row' = [row EXCEPT ![t] = r], RowGoesOn(row[t], r)
  PROVE  RowsGoOn(row, row')
<1>1. \A u \in TriggerId : row'[u] = IF u = t THEN r ELSE row[u]
  BY DEF TInv, Shapes
<1> QED BY <1>1 DEF TInv, Shapes, RowsGoOn, RowGoesOn

\* No transaction changes a schedule and keeps the revision.
LEMMA RowsMoveOn ==
  ASSUME TInv, [Next]_vars
  PROVE  RowsGoOn(row, row')
<1>1. CASE UNCHANGED row
  BY <1>1, SameRowsGoOn
<1>2. ASSUME NEW c \in Client, Commit(c) PROVE RowsGoOn(row, row')
  <2> DEFINE r == request[c]
             old == row[r.id]
  <2>1. r.op # "none" /\ r.id \in TriggerId
    BY <1>2 DEF TInv, RequestsRemember, Commit
  <2>2. IsRow(old) /\ old.revision \in Nat
    BY <2>1 DEF TInv, Shapes
  <2>3. CASE Create(r)
    <3>1. PICK new : row' = [row EXCEPT ![r.id] = new] /\ old.status = "absent"
      BY <2>3 DEF Create
    <3>2. RowGoesOn(old, new)
      BY <3>1 DEF RowGoesOn
    <3> HIDE DEF r
    <3> QED BY <2>1, <3>1, <3>2, OneRowGoesOn
  <2>4. CASE Update(r)
    <3> DEFINE schedule == IF r.restated THEN r.schedule ELSE old.schedule
               defining == schedule # old.schedule \/ r.input # old.input
               new == [old EXCEPT !.schedule = schedule, !.input = r.input,
                         !.revision = IF defining THEN old.revision + 1 ELSE old.revision,
                         !.next = IF r.next # NULL THEN r.next ELSE old.next]
    <3>1. row' = [row EXCEPT ![r.id] = new]
      BY <2>4 DEF Update
    <3>2. /\ new.schedule = schedule
          /\ new.revision = IF defining THEN old.revision + 1 ELSE old.revision
      BY <2>2 DEF IsRow
    <3>3. RowGoesOn(old, new)
      BY <2>2, <3>2 DEF RowGoesOn
    <3> HIDE DEF new, r
    <3> QED BY <2>1, <3>1, <3>3, OneRowGoesOn
  <2>5. CASE Enable(r)
    <3> DEFINE new == [old EXCEPT !.enabled = TRUE, !.next = r.next]
    <3>1. row' = [row EXCEPT ![r.id] = new]
      BY <2>5 DEF Enable
    <3>2. new.schedule = old.schedule /\ new.revision = old.revision
      BY <2>2 DEF IsRow
    <3>3. RowGoesOn(old, new)
      BY <2>2, <3>2 DEF RowGoesOn
    <3> HIDE DEF new, r
    <3> QED BY <2>1, <3>1, <3>3, OneRowGoesOn
  <2> QED BY <1>2, <2>3, <2>4, <2>5 DEF Commit
<1>3. ASSUME NEW t \in TriggerId, Disable(t) \/ Delete(t) PROVE RowsGoOn(row, row')
  <2>1. IsRow(row[t]) /\ row[t].revision \in Nat
    BY DEF TInv, Shapes
  <2>2. PICK new : /\ row' = [row EXCEPT ![t] = new]
                   /\ \/ new = [row[t] EXCEPT !.enabled = FALSE, !.next = NULL]
                      \/ new = [row[t] EXCEPT !.status = "deleted"]
    BY <1>3 DEF Disable, Delete
  <2>3. new.schedule = row[t].schedule /\ new.revision = row[t].revision
    BY <2>1, <2>2 DEF IsRow
  <2>4. RowGoesOn(row[t], new)
    BY <2>1, <2>3 DEF RowGoesOn
  <2> QED BY <2>2, <2>4, OneRowGoesOn
<1>4. ASSUME NEW s \in Scheduler, MaterializeSkip(s) \/ MaterializeRun(s) PROVE RowsGoOn(row, row')
  <2>1. PICK k : k = sch[s].command
    OBVIOUS
  <2>2. k.id \in TriggerId
    BY <1>4, <2>1 DEF TInv, CommandsRemember, MaterializeSkip, MaterializeRun
  <2>3. IsRow(row[k.id]) /\ row[k.id].revision \in Nat
    BY <2>2 DEF TInv, Shapes
  <2>4. PICK new : new = Advanced(row[k.id], k)
    OBVIOUS
  <2>5. row' = [row EXCEPT ![k.id] = new]
    BY <1>4, <2>1, <2>4 DEF MaterializeSkip, MaterializeRun, Record
  <2>6. new.schedule = row[k.id].schedule /\ new.revision = row[k.id].revision
    BY <2>3, <2>4 DEF Advanced, IsRow
  <2>7. RowGoesOn(row[k.id], new)
    BY <2>3, <2>6 DEF RowGoesOn
  <2> QED BY <2>2, <2>5, <2>7, OneRowGoesOn
<1>5. CASE TimePasses \/ ZoneVanishes \/ UNCHANGED vars
  BY <1>1, <1>5 DEF TimePasses, ZoneVanishes, vars
<1>6. ASSUME NEW c \in Client, Management(c) PROVE RowsGoOn(row, row')
  <2>1. Commit(c) \/ UNCHANGED row
    BY <1>6 DEF Management, BeginCreate, BeginUpdate, BeginEnable, RequestFails
  <2> QED BY <1>1, <1>2, <2>1
<1>7. CASE \E a \in Agent : ManualSubmission(a) \/ JobSettles(a) \/ \E b \in BOOLEAN : SetAgentEnabled(a, b)
  BY <1>1, <1>7 DEF ManualSubmission, JobSettles, SetAgentEnabled
<1>8. CASE \E a \in Agent, d \in Definition : Rebind(a, d)
  BY <1>1, <1>8 DEF Rebind
<1>9. ASSUME NEW s \in Scheduler, Tick(s) \/ Contention(s) \/ Crash(s) \/ Start(s) PROVE RowsGoOn(row, row')
  <2>1. MaterializeSkip(s) \/ MaterializeRun(s) \/ UNCHANGED row
    BY <1>9 DEF Tick, ReadPage, Evaluate, DiscardDecision, Contention, Crash, Start
  <2> QED BY <1>1, <1>4, <2>1
<1> QED
  BY <1>3, <1>5, <1>6, <1>7, <1>8, <1>9 DEF Next

\* What a Scheduler remembers survives a change of the rows.
LEMMA AgreementStays ==
  ASSUME NEW memory, NEW rows, NEW later, RowsGoOn(rows, later), MemoryAgrees(memory, rows),
         \A t \in TriggerId : rows[t].revision \in Nat,
         \A c \in memory.page : c.id \in TriggerId /\ rows[c.id].status # "absent",
         memory.pc = "apply" => memory.command.id \in TriggerId /\ rows[memory.command.id].status # "absent"
  PROVE  MemoryAgrees(memory, later)
<1>1. ASSUME NEW c \in memory.page PROVE CandidateAgrees(c, later)
  <2>1. CandidateAgrees(c, rows) /\ RowGoesOn(rows[c.id], later[c.id]) /\ rows[c.id].revision \in Nat /\ rows[c.id].status # "absent"
    BY DEF MemoryAgrees, RowsGoOn
  <2> QED BY <2>1 DEF CandidateAgrees, RowGoesOn
<1>2. ASSUME memory.pc = "apply" PROVE CommandAgrees(memory.command, memory.now, later)
  <2>1. PICK m : m = memory.command
    OBVIOUS
  <2>2. CommandAgrees(m, memory.now, rows) /\ RowGoesOn(rows[m.id], later[m.id]) /\ rows[m.id].revision \in Nat /\ rows[m.id].status # "absent"
    BY <1>2, <2>1 DEF MemoryAgrees, RowsGoOn
  <2>3. later[m.id].revision = m.revision => later[m.id].schedule = rows[m.id].schedule /\ rows[m.id].revision = m.revision
    BY <2>2 DEF CommandAgrees, RowGoesOn
  <2>4. m.revision \in Nat /\ m.revision =< later[m.id].revision /\ m.skip \in SkipOfCommand
    BY <2>2 DEF CommandAgrees, RowGoesOn
  <2> QED BY <2>1, <2>2, <2>3, <2>4 DEF CommandAgrees
<1> QED BY <1>1, <1>2 DEF MemoryAgrees

\* What is decided does not depend on the zone once it is decided.
LEMMA DecisionWithZone ==
  ASSUME NEW schedule, NEW next, NEW now, NEW known \in BOOLEAN,
         DecideDue(schedule, next, now, known).failure = "none"
  PROVE  DecideDue(schedule, next, now, known) = DecideDue(schedule, next, now, TRUE)
BY DEF DecideDue, Undecided
LEMMA FailureKinds ==
  ASSUME NEW schedule, NEW next, NEW now, NEW known \in BOOLEAN
  PROVE  DecideDue(schedule, next, now, known).failure \in {"none", "timezone", "invalid"}
<1>1. \A a, b : Decided(a, b).failure = "none"
  BY DEF Decided
<1>2. Undecided("invalid").failure = "invalid" /\ Undecided("timezone").failure = "timezone"
  BY DEF Undecided
<1>3. CalculateOneTime(next).failure = "none"
  BY <1>1 DEF CalculateOneTime
<1>4. \A arg : CalculateInterval(next, arg, now).failure \in {"none", "invalid"}
  BY <1>1, <1>2 DEF CalculateInterval
<1>5. \A arg : CalculateCron(next, arg, now).failure \in {"none", "invalid"}
  BY <1>1, <1>2 DEF CalculateCron
<1> QED BY <1>2, <1>3, <1>4, <1>5 DEF DecideDue

LEMMA CommandAgreement ==
  ASSUME NEW c, NEW now, NEW rows, CandidateAgrees(c, rows), rows[c.id].revision \in Nat, zoneKnown \in BOOLEAN
  PROVE  CommandAgrees(CommandFor(c, now), now, rows)
<1> DEFINE d == DecideDue(c.schedule, c.next, now, zoneKnown)
           m == CommandFor(c, now)
<1>1. /\ m.id = c.id /\ m.revision = c.revision /\ m.expected = c.next /\ m.skip = SkipFor(d.failure)
      /\ m.after = d.next /\ m.nominal = IF d.failure = "none" THEN d.nominal ELSE c.next
  BY DEF CommandFor
<1>2. d.failure \in {"none", "timezone", "invalid"}
  BY FailureKinds
<1>3. m.skip \in SkipOfCommand /\ (m.skip = "none" => d.failure = "none")
  BY <1>1, <1>2 DEF SkipFor, SkipOfCommand
<1>4. d.failure = "none" => d = DecideDue(c.schedule, c.next, now, TRUE)
  BY DecisionWithZone
<1> HIDE DEF d, m
<1>5. CommandAgrees(m, now, rows)
  BY <1>1, <1>3, <1>4 DEF CommandAgrees, CandidateAgrees
<1> QED BY <1>5 DEF m

ZoneIsKnownOrNot == zoneKnown \in BOOLEAN
AgreementInv == TInv /\ ZoneIsKnownOrNot /\ DecisionsAgree

LEMMA AgreementInitial == Init => AgreementInv
<1> SUFFICES ASSUME Init PROVE AgreementInv
  OBVIOUS
<1>1. \A s \in Scheduler : sch[s] = Down
  BY DEF Init
<1>2. Down.page = {} /\ Down.pc = "down"
  BY DEF Down, Memory
<1>3. DecisionsAgree
  BY <1>1, <1>2 DEF DecisionsAgree, MemoryAgrees
<1> QED BY <1>3, TInvInit DEF AgreementInv, ZoneIsKnownOrNot, Init

\* A Scheduler's step on its memory: what it holds afterwards it read from the rows
\* or decided from what it had read.
LEMMA MemoryLearns ==
  ASSUME AgreementInv, NEW s \in Scheduler,
         Tick(s) \/ Contention(s) \/ Crash(s) \/ Start(s)
  PROVE  \E m : sch' = [sch EXCEPT ![s] = m] /\ MemoryAgrees(m, row)
                /\ (\A c \in m.page : c.id \in TriggerId /\ row[c.id].status # "absent")
                /\ (m.pc = "apply" => m.command.id \in TriggerId /\ row[m.command.id].status # "absent")
<1>1. IsMemory(sch[s]) /\ MemoryAgrees(sch[s], row)
  BY DEF AgreementInv, TInv, Shapes, DecisionsAgree
<1>2. \A c \in sch[s].page : c.id \in TriggerId /\ row[c.id].status # "absent"
  BY DEF AgreementInv, TInv, PagesRemember, OfKind
<1>3. /\ Down.page = {} /\ Down.pc = "down"
      /\ \A k : Idle(k).page = {} /\ Idle(k).pc = "idle"
  BY DEF Memory, Down, Idle
<1>4. ASSUME NEW m, sch' = [sch EXCEPT ![s] = m], m.page \subseteq sch[s].page, m.pc # "apply"
      PROVE MemoryAgrees(m, row) /\ \A c \in m.page : c.id \in TriggerId /\ row[c.id].status # "absent"
  BY <1>1, <1>2, <1>4 DEF MemoryAgrees
<1>5. CASE ReadPage(s)
  <2> DEFINE page == DuePage(clock, sch[s].cursor)
  <2>1. PICK m : sch' = [sch EXCEPT ![s] = m] /\ m.page \subseteq page /\ m.pc # "apply"
    <3> DEFINE full == [pc |-> "tick", now |-> clock, page |-> page, resume |-> Resume(page),
                        cursor |-> sch[s].cursor, command |-> NoCommand]
    <3>1. full.page = page /\ full.pc = "tick"
      OBVIOUS
    <3>2. sch' = [sch EXCEPT ![s] = IF page = {} THEN Idle(NoCursor) ELSE full]
      BY <1>5 DEF ReadPage
    <3> HIDE DEF page, full
    <3> QED BY <1>3, <3>1, <3>2
  <2>2. ASSUME NEW c \in page PROVE c.id \in TriggerId /\ row[c.id].status # "absent" /\ CandidateAgrees(c, row)
    <3>1. PICK t \in TriggerId : IsDue(t, clock) /\ c = Candidate(t)
      BY Zenon DEF DuePage
    <3>2. c.id = t /\ c.schedule = row[t].schedule /\ c.revision = row[t].revision
      BY <3>1 DEF Candidate
    <3>3. row[t].revision \in Nat
      BY DEF AgreementInv, TInv, Shapes
    <3> QED BY <3>1, <3>2, <3>3 DEF IsDue, CandidateAgrees
  <2> HIDE DEF page
  <2> QED BY <2>1, <2>2 DEF MemoryAgrees
<1>6. CASE Evaluate(s)
  <2>1. PICK c \in sch[s].page :
          \/ sch' = [sch EXCEPT ![s] =
                       [sch[s] EXCEPT !.pc = "apply", !.page = sch[s].page \ {c},
                                      !.command = CommandFor(c, sch[s].now)]]
          \/ sch' = [sch EXCEPT ![s] = Down]
    BY <1>6 DEF Evaluate
  <2>2. CASE sch' = [sch EXCEPT ![s] = Down]
    BY <1>3, <1>4, <2>2
  <2>3. CASE sch' = [sch EXCEPT ![s] =
                       [sch[s] EXCEPT !.pc = "apply", !.page = sch[s].page \ {c},
                                      !.command = CommandFor(c, sch[s].now)]]
    <3>1. PICK k : k = CommandFor(c, sch[s].now)
      OBVIOUS
    <3>2. PICK m : m = [sch[s] EXCEPT !.pc = "apply", !.page = sch[s].page \ {c}, !.command = k]
      OBVIOUS
    <3>3. m.pc = "apply" /\ m.page \subseteq sch[s].page /\ m.command = k /\ m.now = sch[s].now
      BY <1>1, <3>2 DEF IsMemory
    <3>4. k.id = c.id
      BY <3>1, CommandOfOneTime
    <3>5. CandidateAgrees(c, row) /\ row[c.id].revision \in Nat /\ zoneKnown \in BOOLEAN
      BY <1>1, <1>2 DEF MemoryAgrees, AgreementInv, TInv, Shapes, ZoneIsKnownOrNot
    <3>6. CommandAgrees(k, m.now, row)
      BY <3>1, <3>3, <3>5, CommandAgreement
    <3>7. MemoryAgrees(m, row)
      BY <1>1, <3>3, <3>6 DEF MemoryAgrees
    <3>8. sch' = [sch EXCEPT ![s] = m]
      BY <2>3, <3>1, <3>2
    <3> QED BY <1>2, <3>3, <3>4, <3>7, <3>8
  <2> QED BY <2>1, <2>2, <2>3
<1>7. CASE DiscardDecision(s) \/ MaterializeSkip(s) \/ MaterializeRun(s)
  <2>1. Proceed(s)
    BY <1>7 DEF DiscardDecision, MaterializeSkip, MaterializeRun, Record
  <2>2. PICK m : /\ sch' = [sch EXCEPT ![s] = m] /\ IsMemory(m)
                 /\ m.page \subseteq sch[s].page /\ m.pc # "apply"
    BY <2>1, ProceedRemembers DEF AgreementInv
  <2> QED BY <1>4, <2>2
<1>8. CASE Contention(s)
  <2>1. PICK k : sch' = [sch EXCEPT ![s] = Idle(k)]
    BY <1>8 DEF Contention
  <2> QED BY <1>3, <1>4, <2>1
<1>9. CASE Crash(s) \/ Start(s)
  BY <1>3, <1>4, <1>9 DEF Crash, Start
<1> QED BY <1>5, <1>6, <1>7, <1>8, <1>9 DEF Tick

\* The steps by what they write: everything but the Schedulers' leaves their memory,
\* and only they record occurrences.
LEMMA OthersLeave ==
  ASSUME [Next]_vars PROVE UNCHANGED <<sch, occurrence>> \/ \E s \in Scheduler : Tick(s) \/ Contention(s) \/ Crash(s) \/ Start(s)
<1>1. ASSUME TimePasses \/ ZoneVanishes \/ UNCHANGED vars PROVE UNCHANGED <<sch, occurrence>>
  BY <1>1 DEF TimePasses, ZoneVanishes, vars
<1>2. ASSUME NEW c \in Client, Management(c) PROVE UNCHANGED <<sch, occurrence>>
  BY <1>2 DEF Management, BeginCreate, BeginUpdate, BeginEnable, Commit, RequestFails
<1>3. ASSUME NEW t \in TriggerId, Disable(t) \/ Delete(t) PROVE UNCHANGED <<sch, occurrence>>
  BY <1>3 DEF Disable, Delete
<1>4. ASSUME NEW a \in Agent, ManualSubmission(a) \/ JobSettles(a) \/ \E b \in BOOLEAN : SetAgentEnabled(a, b)
      PROVE UNCHANGED <<sch, occurrence>>
  BY <1>4 DEF ManualSubmission, JobSettles, SetAgentEnabled
<1>5. ASSUME NEW a \in Agent, NEW d \in Definition, Rebind(a, d) PROVE UNCHANGED <<sch, occurrence>>
  BY <1>5 DEF Rebind
<1> QED BY <1>1, <1>2, <1>3, <1>4, <1>5 DEF Next

\* Only the host's own step changes what the zone database knows.
LEMMA ZoneStays ==
  ASSUME [Next]_vars, zoneKnown \in BOOLEAN PROVE zoneKnown' \in BOOLEAN
<1>1. CASE TimePasses \/ ZoneVanishes \/ UNCHANGED vars
  BY <1>1 DEF TimePasses, ZoneVanishes, vars
<1>2. ASSUME NEW c \in Client, Management(c) PROVE UNCHANGED zoneKnown
  BY <1>2 DEF Management, BeginCreate, BeginUpdate, BeginEnable, Commit, RequestFails
<1>3. ASSUME NEW t \in TriggerId, Disable(t) \/ Delete(t) PROVE UNCHANGED zoneKnown
  BY <1>3 DEF Disable, Delete
<1>4. ASSUME NEW a \in Agent, ManualSubmission(a) \/ JobSettles(a) \/ \E b \in BOOLEAN : SetAgentEnabled(a, b)
      PROVE UNCHANGED zoneKnown
  BY <1>4 DEF ManualSubmission, JobSettles, SetAgentEnabled
<1>5. ASSUME NEW a \in Agent, NEW d \in Definition, Rebind(a, d) PROVE UNCHANGED zoneKnown
  BY <1>5 DEF Rebind
<1>6. ASSUME NEW s \in Scheduler, Tick(s) \/ Contention(s) \/ Crash(s) \/ Start(s) PROVE UNCHANGED zoneKnown
  BY <1>6 DEF Tick, ReadPage, Evaluate, DiscardDecision, MaterializeSkip, MaterializeRun, Record, Contention, Crash, Start
<1> QED BY <1>1, <1>2, <1>3, <1>4, <1>5, <1>6 DEF Next

LEMMA AgreementStep == AgreementInv /\ [Next]_vars => AgreementInv'
<1> SUFFICES ASSUME AgreementInv, [Next]_vars PROVE AgreementInv'
  OBVIOUS
<1>1. TInv'
  BY TInvStep DEF AgreementInv
<1>2. RowsGoOn(row, row')
  BY RowsMoveOn DEF AgreementInv
<1>3. (\A t \in TriggerId : row[t].revision \in Nat) /\ sch = [s \in Scheduler |-> sch[s]]
  BY DEF AgreementInv, TInv, Shapes
<1>4. ASSUME NEW s \in Scheduler
      PROVE  /\ MemoryAgrees(sch[s], row)
             /\ \A c \in sch[s].page : c.id \in TriggerId /\ row[c.id].status # "absent"
             /\ sch[s].pc = "apply" => sch[s].command.id \in TriggerId /\ row[sch[s].command.id].status # "absent"
  BY DEF AgreementInv, DecisionsAgree, TInv, PagesRemember, OfKind, CommandsRemember
<1>5. \/ UNCHANGED sch
      \/ \E u \in Scheduler : Tick(u) \/ Contention(u) \/ Crash(u) \/ Start(u)
  BY OthersLeave
<1>6. DecisionsAgree'
  <2>1. CASE UNCHANGED sch
    <3>1. ASSUME NEW s \in Scheduler PROVE MemoryAgrees(sch[s], row')
      BY <1>2, <1>3, <1>4, AgreementStays
    <3> QED BY <2>1, <3>1 DEF DecisionsAgree
  <2>2. ASSUME NEW u \in Scheduler, Tick(u) \/ Contention(u) \/ Crash(u) \/ Start(u) PROVE DecisionsAgree'
    <3>1. PICK m : /\ sch' = [sch EXCEPT ![u] = m] /\ MemoryAgrees(m, row)
                   /\ (\A c \in m.page : c.id \in TriggerId /\ row[c.id].status # "absent")
                   /\ (m.pc = "apply" => m.command.id \in TriggerId /\ row[m.command.id].status # "absent")
      BY <2>2, MemoryLearns
    <3>2. MemoryAgrees(m, row')
      BY <1>2, <1>3, <3>1, AgreementStays
    <3>3. ASSUME NEW s \in Scheduler PROVE MemoryAgrees(sch[s], row')
      BY <1>2, <1>3, <1>4, AgreementStays
    <3>4. \A s \in Scheduler : sch'[s] = IF s = u THEN m ELSE sch[s]
      BY <1>3, <3>1
    <3> QED BY <3>2, <3>3, <3>4 DEF DecisionsAgree
  <2> QED BY <1>5, <2>1, <2>2
<1>7. ZoneIsKnownOrNot'
  BY ZoneStays DEF AgreementInv, ZoneIsKnownOrNot
<1> QED BY <1>1, <1>6, <1>7 DEF AgreementInv

\* The occurrence a Scheduler records is the one its present row is due for.
LEMMA RecordsCurrentRow ==
  ASSUME AgreementInv, NEW s \in Scheduler, MaterializeSkip(s) \/ MaterializeRun(s), NEW o \in Recorded
  PROVE  LET r == row[o.id]
             d == DecideDue(r.schedule, r.next, o.at, TRUE)
         IN  /\ o.id \in TriggerId /\ r.status = "live" /\ r.enabled
             /\ o.schedule = r.schedule /\ o.at = sch[s].now /\ ~(r.next > o.at)
             /\ o.skip \in {"none", "agent_disabled"} =>
                  d.failure = "none" /\ o.nominal = d.nominal /\ row'[o.id].next = d.next
<1>1. PICK m : m = sch[s].command
  OBVIOUS
<1>2. /\ m.id \in TriggerId /\ CommandAgrees(m, sch[s].now, row)
  BY <1>1 DEF AgreementInv, TInv, CommandsRemember, DecisionsAgree, MemoryAgrees, MaterializeSkip, MaterializeRun
<1>3. ~WritesNothing(m, sch[s].now)
  BY <1>1 DEF MaterializeSkip, MaterializeRun
<1>4. /\ row[m.id].status = "live" /\ row[m.id].enabled /\ row[m.id].revision = m.revision /\ row[m.id].next = m.expected
      /\ ~(row[m.id].next > sch[s].now)
  BY <1>3 DEF WritesNothing, Stale
<1>5. PICK skip : /\ occurrence' = occurrence \cup {OccurrenceOf(m, sch[s].now, skip)}
                  /\ row' = [row EXCEPT ![m.id] = Advanced(row[m.id], m)]
                  /\ skip \in {"none", "agent_disabled"} => m.skip = "none"
  <2>1. CASE MaterializeRun(s)
    BY <1>1, <2>1 DEF MaterializeRun, Record
  <2>2. CASE MaterializeSkip(s)
    <3>1. PICK k : k = IF m.skip # "none" THEN m.skip ELSE "agent_disabled"
      OBVIOUS
    <3>2. Record(s, k)
      BY <1>1, <2>2, <3>1 DEF MaterializeSkip
    <3>3. k \in {"none", "agent_disabled"} => m.skip = "none"
      BY <1>2, <3>1 DEF CommandAgrees, SkipOfCommand
    <3> QED BY <1>1, <3>2, <3>3 DEF Record
  <2> QED BY <2>1, <2>2
<1>6. o = OccurrenceOf(m, sch[s].now, skip)
  BY <1>5 DEF Recorded
<1>7. o.id = m.id /\ o.nominal = m.nominal /\ o.at = sch[s].now /\ o.skip = skip /\ o.schedule = row[m.id].schedule
  BY <1>6 DEF OccurrenceOf
<1>8. row'[m.id].next = m.after
  <2>1. IsRow(row[m.id]) /\ row = [t \in TriggerId |-> row[t]]
    BY <1>2 DEF AgreementInv, TInv, Shapes
  <2>2. Advanced(row[m.id], m).next = m.after
    <3>1. CASE m.after = NULL
      BY <2>1, <3>1 DEF Advanced, IsRow
    <3>2. CASE m.after # NULL
      BY <2>1, <3>2 DEF Advanced, IsRow
    <3> QED BY <3>1, <3>2
  <2> QED BY <1>2, <1>5, <2>1, <2>2
<1>9. skip \in {"none", "agent_disabled"} =>
        /\ DecideDue(row[m.id].schedule, row[m.id].next, sch[s].now, TRUE).failure = "none"
        /\ m.nominal = DecideDue(row[m.id].schedule, row[m.id].next, sch[s].now, TRUE).nominal
        /\ m.after = DecideDue(row[m.id].schedule, row[m.id].next, sch[s].now, TRUE).next
  BY <1>2, <1>4, <1>5 DEF CommandAgrees
<1> QED BY <1>2, <1>4, <1>5, <1>7, <1>8, <1>9, ZenonT(30)

\* What a Scheduler applies is what decide_due answers for the row inside the
\* transaction, whatever owners and other Schedulers did since its page was read
\* (materialize_due, _schedule_stale_reason).
THEOREM AppliedToCurrentRowHolds == Spec => AppliedToCurrentRow
<1>1. AgreementInv /\ [Next]_vars =>
        [\A o \in Recorded :
           LET r == row[o.id]
               d == DecideDue(r.schedule, r.next, o.at, TRUE)
           IN  /\ r.status = "live" /\ r.enabled
               /\ o.skip \in {"none", "agent_disabled"} =>
                    o.nominal = d.nominal /\ row'[o.id].next = d.next]_vars
  <2> SUFFICES ASSUME AgreementInv, [Next]_vars, NEW o \in Recorded
               PROVE  LET r == row[o.id]
                          d == DecideDue(r.schedule, r.next, o.at, TRUE)
                      IN  /\ r.status = "live" /\ r.enabled
                          /\ o.skip \in {"none", "agent_disabled"} =>
                               o.nominal = d.nominal /\ row'[o.id].next = d.next
    OBVIOUS
  <2>1. occurrence' # occurrence
    BY DEF Recorded
  <2>2. \E s \in Scheduler : MaterializeSkip(s) \/ MaterializeRun(s)
    <3>1. PICK s \in Scheduler : Tick(s) \/ Contention(s) \/ Crash(s) \/ Start(s)
      BY <2>1, OthersLeave
    <3> QED BY <2>1, <3>1 DEF Tick, ReadPage, Evaluate, DiscardDecision, Contention, Crash, Start
  <2> QED BY <2>2, RecordsCurrentRow
<1>2. Spec => []AgreementInv
  BY AgreementInitial, AgreementStep, PTL DEF Spec
<1> QED BY <1>1, <1>2, PTL DEF Spec, AppliedToCurrentRow

-----------------------------------------------------------------------------
(* A row is due sometime exactly when it is enabled.                       *)

\* An enabled row has a next fire time and a disabled one has none: the alignment the
\* database checks.  A request between its reads and its transaction carries it.
RowAligned(r) == r.enabled <=> r.next # NULL
RequestAligned(r) ==
  /\ r.op = "create" => (r.enabled <=> r.next # NULL)
  /\ r.op = "enable" => r.next # NULL
NextFireAligned == \A t \in TriggerId : RowAligned(row[t])
RequestsAligned == \A c \in Client : RequestAligned(request[c])
AlignmentInv == TInv /\ NextFireAligned /\ RequestsAligned

LEMMA AlignmentInitial == Init => AlignmentInv
<1> SUFFICES ASSUME Init PROVE AlignmentInv
  OBVIOUS
<1>1. RowAligned(NoRow) /\ RequestAligned(NoRequest)
  BY DEF RowAligned, RequestAligned, NoRow, NoRequest
<1> QED BY <1>1, TInvInit DEF AlignmentInv, NextFireAligned, RequestsAligned, Init

LEMMA OneRowAligned ==
  ASSUME AlignmentInv, NEW t \in TriggerId, NEW r, row' = [row EXCEPT ![t] = r], RowAligned(r)
  PROVE  NextFireAligned'
<1>1. \A u \in TriggerId : row'[u] = IF u = t THEN r ELSE row[u]
  BY DEF AlignmentInv, TInv, Shapes
<1> QED BY <1>1 DEF AlignmentInv, NextFireAligned, RowAligned

LEMMA OneRequestAligned ==
  ASSUME AlignmentInv, NEW c \in Client, NEW r, request' = [request EXCEPT ![c] = r], RequestAligned(r)
  PROVE  RequestsAligned'
<1>1. \A d \in Client : request'[d] = IF d = c THEN r ELSE request[d]
  BY DEF AlignmentInv, TInv, Shapes
<1> QED BY <1>1 DEF AlignmentInv, RequestsAligned, RequestAligned

\* A request that begins has a next fire time exactly when its row will be enabled.
LEMMA BeginAligned ==
  ASSUME AlignmentInv, NEW c \in Client,
         \/ \E t \in TriggerId, schedule \in Schedule, input \in Input, b \in BOOLEAN :
              BeginCreate(c, t, schedule, input, b) \/ BeginUpdate(c, t, b, schedule, input)
         \/ \E t \in TriggerId : BeginEnable(c, t)
         \/ RequestFails(c)
  PROVE  UNCHANGED row /\ RequestsAligned'
<1>1. ASSUME NEW t \in TriggerId, NEW schedule \in Schedule, NEW input \in Input, NEW b \in BOOLEAN,
             BeginCreate(c, t, schedule, input, b)
      PROVE  UNCHANGED row /\ RequestsAligned'
  <2>1. PICK next : /\ b <=> next # NULL
                    /\ request' = [request EXCEPT ![c] =
                         [op |-> "create", id |-> t, schedule |-> schedule, input |-> input,
                          enabled |-> b, next |-> next]]
    BY <1>1 DEF BeginCreate
  <2>2. PICK r : r = [op |-> "create", id |-> t, schedule |-> schedule, input |-> input, enabled |-> b, next |-> next]
    OBVIOUS
  <2>3. RequestAligned(r)
    <3>1. r.op = "create" /\ r.enabled = b /\ r.next = next
      BY <2>2
    <3> QED BY <2>1, <3>1 DEF RequestAligned
  <2> QED BY <1>1, <2>1, <2>2, <2>3, OneRequestAligned DEF BeginCreate
<1>2. ASSUME NEW t \in TriggerId, NEW schedule \in Schedule, NEW input \in Input, NEW b \in BOOLEAN,
             BeginUpdate(c, t, b, schedule, input)
      PROVE  UNCHANGED row /\ RequestsAligned'
  <2>0. PICK next : request' = [request EXCEPT ![c] =
                      [op |-> "update", id |-> t, schedule |-> schedule, input |-> input,
                       restated |-> b, next |-> next, expected |-> row[t].revision]]
    BY <1>2 DEF BeginUpdate
  <2>1. PICK r : r = [op |-> "update", id |-> t, schedule |-> schedule, input |-> input,
                      restated |-> b, next |-> next, expected |-> row[t].revision]
    OBVIOUS
  <2>2. r.op = "update"
    BY <2>1
  <2>3. RequestAligned(r)
    BY <2>2 DEF RequestAligned
  <2> QED BY <1>2, <2>0, <2>1, <2>3, OneRequestAligned DEF BeginUpdate
<1>3. ASSUME NEW t \in TriggerId, BeginEnable(c, t) PROVE UNCHANGED row /\ RequestsAligned'
  <2>0. PICK next : request' = [request EXCEPT ![c] = [op |-> "enable", id |-> t, next |-> next]] /\ next # NULL
    BY <1>3 DEF BeginEnable
  <2>1. PICK r : r = [op |-> "enable", id |-> t, next |-> next]
    OBVIOUS
  <2>2. r.op = "enable" /\ r.next # NULL
    BY <2>0, <2>1
  <2>3. RequestAligned(r)
    BY <2>2 DEF RequestAligned
  <2> QED BY <1>3, <2>0, <2>1, <2>3, OneRequestAligned DEF BeginEnable
<1>4. ASSUME RequestFails(c) PROVE UNCHANGED row /\ RequestsAligned'
  <2>1. RequestAligned(NoRequest)
    BY DEF RequestAligned, NoRequest
  <2> QED BY <1>4, <2>1, OneRequestAligned DEF RequestFails
<1> QED BY <1>1, <1>2, <1>3, <1>4

LEMMA CommitAligned ==
  ASSUME AlignmentInv, NEW c \in Client, Commit(c) PROVE NextFireAligned' /\ RequestsAligned'
<1>1. PICK r : r = request[c]
  OBVIOUS
<1>2. r.op # "none" /\ r.id \in TriggerId /\ RequestAligned(r)
  BY <1>1 DEF AlignmentInv, TInv, RequestsRemember, RequestsAligned, Commit
<1>3. PICK old : old = row[r.id]
  OBVIOUS
<1>4. IsRow(old) /\ RowAligned(old)
  BY <1>2, <1>3 DEF AlignmentInv, TInv, Shapes, NextFireAligned
<1>5. RequestsAligned'
  <2>1. RequestAligned(NoRequest)
    BY DEF RequestAligned, NoRequest
  <2> QED BY <2>1, OneRequestAligned DEF Commit
<1>6. CASE r.op = "create" /\ Create(r)
  <2>1. PICK new : new = [status |-> "live", schedule |-> r.schedule, input |-> r.input,
                          enabled |-> r.enabled, revision |-> 1, next |-> r.next]
    OBVIOUS
  <2>2. new.enabled = r.enabled /\ new.next = r.next
    BY <2>1
  <2>3. RowAligned(new)
    BY <1>2, <1>6, <2>2 DEF RowAligned, RequestAligned
  <2> QED BY <1>2, <1>5, <1>6, <2>1, <2>3, OneRowAligned DEF Create
<1>7. CASE r.op = "update" /\ Update(r)
  <2>1. PICK next : next = IF r.next # NULL THEN r.next ELSE old.next
    OBVIOUS
  <2>2. PICK schedule, revision, new :
          /\ new = [old EXCEPT !.schedule = schedule, !.input = r.input, !.revision = revision, !.next = next]
          /\ row' = [row EXCEPT ![r.id] = new]
    BY <1>3, <1>7, <2>1 DEF Update
  <2>3. old.enabled <=> next # NULL
    BY <1>3, <1>7, <2>1 DEF Update, UpdateAllowed
  <2>4. new.enabled = old.enabled /\ new.next = next
    BY <1>4, <2>2 DEF IsRow
  <2>5. RowAligned(new)
    BY <2>3, <2>4 DEF RowAligned
  <2> QED BY <1>2, <1>5, <2>2, <2>5, OneRowAligned
<1>8. CASE r.op = "enable" /\ Enable(r)
  <2>1. PICK new : new = [old EXCEPT !.enabled = TRUE, !.next = r.next]
    OBVIOUS
  <2>2. row' = [row EXCEPT ![r.id] = new]
    BY <1>3, <1>8, <2>1 DEF Enable
  <2>3. new.enabled = TRUE /\ new.next = r.next
    BY <1>4, <2>1 DEF IsRow
  <2>4. RowAligned(new)
    BY <1>2, <1>8, <2>3 DEF RowAligned, RequestAligned
  <2> QED BY <1>2, <1>5, <2>2, <2>4, OneRowAligned
<1> QED BY <1>1, <1>6, <1>7, <1>8 DEF Commit

LEMMA DisableDeleteAligned ==
  ASSUME AlignmentInv, NEW t \in TriggerId, Disable(t) \/ Delete(t)
  PROVE  NextFireAligned' /\ UNCHANGED request
<1>1. IsRow(row[t]) /\ RowAligned(row[t])
  BY DEF AlignmentInv, TInv, Shapes, NextFireAligned
<1>2. PICK new : /\ row' = [row EXCEPT ![t] = new]
                 /\ \/ new = [row[t] EXCEPT !.enabled = FALSE, !.next = NULL]
                    \/ new = [row[t] EXCEPT !.status = "deleted"]
  BY DEF Disable, Delete
<1>3. \/ new.enabled = FALSE /\ new.next = NULL
      \/ new.enabled = row[t].enabled /\ new.next = row[t].next
  BY <1>1, <1>2 DEF IsRow
<1>4. RowAligned(new)
  BY <1>1, <1>3 DEF RowAligned
<1> QED BY <1>2, <1>4, OneRowAligned DEF Disable, Delete

LEMMA RecordAligned ==
  ASSUME AlignmentInv, NEW s \in Scheduler, MaterializeSkip(s) \/ MaterializeRun(s)
  PROVE  NextFireAligned' /\ UNCHANGED request
<1>1. PICK m : m = sch[s].command
  OBVIOUS
<1>2. m.id \in TriggerId
  BY <1>1 DEF AlignmentInv, TInv, CommandsRemember, MaterializeSkip, MaterializeRun
<1>3. PICK old : old = row[m.id]
  OBVIOUS
<1>4. IsRow(old) /\ RowAligned(old)
  BY <1>2, <1>3 DEF AlignmentInv, TInv, Shapes, NextFireAligned
<1>5. old.enabled
  BY <1>1, <1>3 DEF MaterializeSkip, MaterializeRun, WritesNothing, Stale
<1>6. PICK new : new = Advanced(old, m)
  OBVIOUS
<1>7. row' = [row EXCEPT ![m.id] = new] /\ UNCHANGED request
  BY <1>1, <1>3, <1>6 DEF MaterializeSkip, MaterializeRun, Record
<1>8. RowAligned(new)
  <2>1. CASE m.after = NULL
    <3>1. new.enabled = FALSE /\ new.next = NULL
      BY <1>4, <1>6, <2>1 DEF Advanced, IsRow
    <3> QED BY <3>1 DEF RowAligned
  <2>2. CASE m.after # NULL
    <3>1. new.enabled = old.enabled /\ new.next = m.after
      BY <1>4, <1>6, <2>2 DEF Advanced, IsRow
    <3> QED BY <1>5, <2>2, <3>1 DEF RowAligned
  <2> QED BY <2>1, <2>2
<1> QED BY <1>2, <1>7, <1>8, OneRowAligned

LEMMA AlignmentStep == AlignmentInv /\ [Next]_vars => AlignmentInv'
<1> SUFFICES ASSUME AlignmentInv, [Next]_vars PROVE NextFireAligned' /\ RequestsAligned'
  BY TInvStep DEF AlignmentInv
<1>1. ASSUME UNCHANGED row PROVE NextFireAligned'
  BY <1>1 DEF AlignmentInv, NextFireAligned, RowAligned
<1>2. ASSUME UNCHANGED request PROVE RequestsAligned'
  BY <1>2 DEF AlignmentInv, RequestsAligned, RequestAligned
<1>3. CASE TimePasses \/ ZoneVanishes \/ UNCHANGED vars
  BY <1>1, <1>2, <1>3 DEF TimePasses, ZoneVanishes, vars
<1>4. ASSUME NEW c \in Client, Management(c) PROVE NextFireAligned' /\ RequestsAligned'
  <2>1. CASE Commit(c)
    BY <2>1, CommitAligned
  <2>2. CASE ~Commit(c)
    BY <1>1, <1>4, <2>2, BeginAligned DEF Management
  <2> QED BY <2>1, <2>2
<1>5. ASSUME NEW t \in TriggerId, Disable(t) \/ Delete(t) PROVE NextFireAligned' /\ RequestsAligned'
  BY <1>2, <1>5, DisableDeleteAligned
<1>6. CASE \E a \in Agent : ManualSubmission(a) \/ JobSettles(a) \/ \E b \in BOOLEAN : SetAgentEnabled(a, b)
  BY <1>1, <1>2, <1>6 DEF ManualSubmission, JobSettles, SetAgentEnabled
<1>7. CASE \E a \in Agent, d \in Definition : Rebind(a, d)
  BY <1>1, <1>2, <1>7 DEF Rebind
<1>8. ASSUME NEW s \in Scheduler, Tick(s) \/ Contention(s) \/ Crash(s) \/ Start(s)
      PROVE NextFireAligned' /\ RequestsAligned'
  <2>1. CASE MaterializeSkip(s) \/ MaterializeRun(s)
    BY <1>2, <2>1, RecordAligned
  <2>2. CASE ~(MaterializeSkip(s) \/ MaterializeRun(s))
    BY <1>1, <1>2, <1>8, <2>2 DEF Tick, ReadPage, Evaluate, DiscardDecision, Contention, Crash, Start
  <2> QED BY <2>1, <2>2
<1> QED BY <1>3, <1>4, <1>5, <1>6, <1>7, <1>8 DEF Next

\* A trigger has a next fire time exactly when it is enabled, whatever edit, disable
\* and tick crossed each other (_require_next_fire_alignment): the part of TypeOK
\* that does not depend on the arithmetic of schedules.
THEOREM AlignmentHolds == Spec => []NextFireAligned
<1>1. Spec => []AlignmentInv
  BY AlignmentInitial, AlignmentStep, PTL DEF Spec
<1>2. AlignmentInv => NextFireAligned
  BY DEF AlignmentInv
<1> QED BY <1>1, <1>2, PTL

-----------------------------------------------------------------------------
(***************************************************************************)
(* The arithmetic of schedules, for every zone with one transition, every  *)
(* period and every instant.                                               *)
(*                                                                         *)
(* The function GapEnd bisects with exists and brackets the transition     *)
(* until it has found it: a narrowest counterexample would have a narrower    *)
(* one.  So a wall reading is resolved as Resolved says, which is monotone,*)
(* and the firings of a cron expression are its matches resolved.  That    *)
(* nothing lies between two neighbouring matches then says that nothing    *)
(* fires between the nominal instant and the next one.                     *)
(***************************************************************************)

LEMMA Division ==
  ASSUME NEW a \in Int, NEW n \in Nat \ {0}
  PROVE  /\ a \div n \in Int
         /\ a % n \in 0..(n - 1)
         /\ a = n * (a \div n) + (a % n)
OBVIOUS

LEMMA SmallMultiple ==
  ASSUME NEW n \in Nat \ {0}, NEW k \in Int, n * k < n, n * k > -n
  PROVE  k = 0
OBVIOUS

\* A residue is the one number below n that the dividend differs from by a multiple.
LEMMA ResidueUnique ==
  ASSUME NEW n \in Nat \ {0}, NEW q \in Int, NEW r \in 0..(n - 1)
  PROVE  (n * q + r) % n = r
<1>1. PICK a : a = n * q + r
  OBVIOUS
<1>2. a \in Int
  BY <1>1
<1>3. PICK k : k = a \div n
  OBVIOUS
<1>4. PICK s : s = a % n
  OBVIOUS
<1>5. k \in Int /\ s \in 0..(n - 1) /\ a = n * k + s
  BY <1>2, <1>3, <1>4, Division
<1>6. n * (q - k) = s - r
  <2>1. n * (q - k) = n * q - n * k
    BY <1>5
  <2> QED BY <1>1, <1>5, <2>1
<1>7. q - k = 0
  BY <1>5, <1>6, SmallMultiple
<1> QED BY <1>1, <1>4, <1>5, <1>7

\* The readings a cron expression matches, and its neighbours around a reading.
Matches(phase, wall) == wall \in Int /\ wall % CronPeriod = phase

LEMMA CronNeighbours ==
  ASSUME NEW phase \in 0..(CronPeriod - 1), NEW wall \in Int
  PROVE  /\ AtOrBefore(phase, wall) \in Int /\ NextAfter(phase, wall) \in Int
         /\ Matches(phase, AtOrBefore(phase, wall)) /\ Matches(phase, NextAfter(phase, wall))
         /\ AtOrBefore(phase, wall) =< wall /\ wall < NextAfter(phase, wall)
         /\ AtOrBefore(phase, wall) > wall - CronPeriod
         /\ \A w \in Int : Matches(phase, w) => w =< AtOrBefore(phase, wall) \/ w >= NextAfter(phase, wall)
<1> DEFINE n == CronPeriod
<1>1. n \in Nat \ {0}
  BY SchedulingAssumption
<1>2. PICK k, s : k = (wall - phase) \div n /\ s = (wall - phase) % n
  OBVIOUS
<1>3. k \in Int /\ s \in 0..(n - 1) /\ wall - phase = n * k + s
  BY <1>1, <1>2, Division
<1>4. PICK at, next : at = AtOrBefore(phase, wall) /\ next = NextAfter(phase, wall)
  OBVIOUS
<1>5. at = wall - s /\ next = wall - s + n
  BY <1>2, <1>4 DEF AtOrBefore, NextAfter
<1>6. at \in Int /\ next \in Int /\ at =< wall /\ wall < next /\ at > wall - n
  BY <1>1, <1>3, <1>5
<1>7. at = n * k + phase /\ next = n * (k + 1) + phase
  <2>1. n * (k + 1) = n * k + n
    BY <1>1, <1>3
  <2> QED BY <1>1, <1>3, <1>5, <2>1
<1>8. at % n = phase /\ next % n = phase
  BY <1>1, <1>3, <1>7, ResidueUnique
<1>9. ASSUME NEW w \in Int, w % n = phase, w > at PROVE w >= next
  <2>1. PICK j : j = w \div n
    OBVIOUS
  <2>2. j \in Int /\ w = n * j + phase
    BY <1>1, <1>9, <2>1, Division
  <2>3. n * (j - k) = n * j - n * k
    BY <1>1, <1>3, <2>2
  <2>4. n * (j - k) > 0
    BY <1>1, <1>3, <1>7, <1>9, <2>2, <2>3
  <2>5. j - k >= 1
    <3>1. \A x \in Int : n * x > 0 => x >= 1
      BY <1>1
    <3> QED BY <1>3, <2>2, <2>4, <3>1
  <2>6. n * (j - k) >= n
    <3>1. \A x \in Int : x >= 1 => n * x >= n
      BY <1>1
    <3> QED BY <1>3, <2>2, <2>5, <3>1
  <2> QED BY <1>1, <1>3, <1>5, <1>7, <2>2, <2>3, <2>6
<1> HIDE DEF n
<1>10. \A w \in Int : w % n = phase => w =< at \/ w >= next
  BY <1>6, <1>9
<1> QED BY <1>4, <1>6, <1>8, <1>10 DEF Matches, n

\* The bisection in GapEnd: the function it defines, over the pairs of lo..hi.
Bisection(lo, hi) ==
  CHOOSE search : search = [p \in (lo..hi) \X (lo..hi) |->
    IF p[2] - p[1] =< 1 THEN p[2]
    ELSE IF UtcOffset(p[1] + (p[2] - p[1]) \div 2) = UtcOffset(lo)
         THEN search[<<p[1] + (p[2] - p[1]) \div 2, p[2]>>]
         ELSE search[<<p[1], p[1] + (p[2] - p[1]) \div 2>>]]

LEMMA GapEndBisects ==
  ASSUME NEW wall
  PROVE  GapEnd(wall) = Bisection(InstantOf(wall, 1), InstantOf(wall, 0))[<<InstantOf(wall, 1), InstantOf(wall, 0)>>]
BY DEF GapEnd, Bisection

\* A pair that brackets the transition.
Brackets(p) == p[1] < Transition /\ Transition =< p[2]

\* What a bisection that starts before the transition returns for each pair.
Edge(p) ==
  IF p[2] - p[1] =< 1 \/ p[2] < Transition THEN p[2]
  ELSE IF Transition =< p[1] THEN p[1] + 1 ELSE Transition

LEMMA MiddleFacts ==
  ASSUME NEW a \in Int, NEW b \in Int, b - a > 1
  PROVE  /\ a + (b - a) \div 2 \in Int
         /\ a < a + (b - a) \div 2 /\ a + (b - a) \div 2 < b
OBVIOUS

\* Such a function exists: it is Edge.
LEMMA BisectionExists ==
  ASSUME NEW lo \in Int, NEW hi \in Int, lo < Transition, OffsetBefore # OffsetAfter
  PROVE  \A p \in (lo..hi) \X (lo..hi) :
           Bisection(lo, hi)[p] =
             IF p[2] - p[1] =< 1 THEN p[2]
             ELSE IF UtcOffset(p[1] + (p[2] - p[1]) \div 2) = UtcOffset(lo)
                  THEN Bisection(lo, hi)[<<p[1] + (p[2] - p[1]) \div 2, p[2]>>]
                  ELSE Bisection(lo, hi)[<<p[1], p[1] + (p[2] - p[1]) \div 2>>]
<1> DEFINE Pair == (lo..hi) \X (lo..hi)
           Mid(p) == p[1] + (p[2] - p[1]) \div 2
           Step(f, p) == IF p[2] - p[1] =< 1 THEN p[2]
                         ELSE IF UtcOffset(Mid(p)) = UtcOffset(lo)
                              THEN f[<<Mid(p), p[2]>>] ELSE f[<<p[1], Mid(p)>>]
           g == [p \in Pair |-> Edge(p)]
<1>1. ASSUME NEW p \in Pair PROVE Edge(p) = Step(g, p)
  <2>1. p[1] \in lo..hi /\ p[2] \in lo..hi /\ Transition \in Int
    BY SchedulingAssumption
  <2>2. CASE p[2] - p[1] =< 1
    BY <2>2 DEF Edge
  <2>3. CASE p[2] - p[1] > 1
    <3>1. PICK m : m = Mid(p)
      OBVIOUS
    <3>2. m \in Int /\ p[1] < m /\ m < p[2]
      BY <2>1, <2>3, <3>1, MiddleFacts
    <3>3. m \in lo..hi
      BY <2>1, <3>2
    <3>4. UtcOffset(m) = UtcOffset(lo) <=> m < Transition
      BY <3>2 DEF UtcOffset
    <3>5. <<m, p[2]>> \in Pair /\ <<p[1], m>> \in Pair
      BY <2>1, <3>3
    <3>6. g[<<m, p[2]>>] = Edge(<<m, p[2]>>) /\ g[<<p[1], m>>] = Edge(<<p[1], m>>)
      BY <3>5
    <3>7. Edge(p) = IF m < Transition THEN Edge(<<m, p[2]>>) ELSE Edge(<<p[1], m>>)
      BY <2>1, <2>3, <3>2 DEF Edge
    <3>8. Step(g, p) = IF UtcOffset(m) = UtcOffset(lo) THEN g[<<m, p[2]>>] ELSE g[<<p[1], m>>]
      BY <2>1, <2>3, <3>1
    <3> HIDE DEF g, Step
    <3> QED BY <3>4, <3>6, <3>7, <3>8
  <2> QED BY <2>1, <2>2, <2>3
<1>2. g = [p \in Pair |-> Step(g, p)]
  <2>1. \A p \in Pair : g[p] = Edge(p)
    OBVIOUS
  <2>2. g = [p \in Pair |-> g[p]]
    OBVIOUS
  <2> HIDE DEF g, Step, Pair
  <2> QED BY <1>1, <2>1, <2>2
<1>3. \E f : f = [p \in Pair |-> Step(f, p)]
  <2> HIDE DEF g, Step, Pair
  <2> QED BY <1>2
<1>4. Bisection(lo, hi) = CHOOSE f : f = [p \in Pair |-> Step(f, p)]
  BY DEF Bisection
<1>5. Bisection(lo, hi) = [p \in Pair |-> Step(Bisection(lo, hi), p)]
  <2>1. PICK b : b = Bisection(lo, hi)
    OBVIOUS
  <2> HIDE DEF Step, Pair
  <2> QED BY <1>3, <1>4
<1>6. \A p \in Pair : Bisection(lo, hi)[p] = Step(Bisection(lo, hi), p)
  <2> HIDE DEF Step, Pair
  <2> QED BY <1>5
<1> QED BY <1>6

LEMMA LeastOf ==
  ASSUME NEW T, T \subseteq Nat, T # {} PROVE \E x \in T : \A y \in T : x =< y
<1> DEFINE R == OpToRel(<, Nat)
<1>1. IsWellFoundedOn(R, Nat)
  BY NatLessThanWellFounded
<1>2. \A x, y \in Nat : y < x => <<y, x>> \in R
  BY DEF OpToRel
<1> HIDE DEF R
<1>3. PICK x \in T : \A y \in T : ~(<<y, x>> \in R)
  BY <1>1, WFMin
<1>4. \A y \in T : x \in Nat /\ y \in Nat /\ ~(y < x)
  BY <1>2, <1>3
<1>5. \A y \in T : x =< y
  BY <1>4
<1> QED
  BY <1>5

\* A pair that brackets the transition keeps doing so until it has found it: a
\* pair that does not is no closer than one that has a closer pair which does not.
LEMMA BisectionFinds ==
  ASSUME NEW lo \in Int, NEW hi \in Int, lo < Transition, Transition =< hi,
         OffsetBefore # OffsetAfter
  PROVE  Bisection(lo, hi)[<<lo, hi>>] = Transition
<1> DEFINE Pair == (lo..hi) \X (lo..hi)
           Mid(p) == p[1] + (p[2] - p[1]) \div 2
<1>1. PICK b : b = Bisection(lo, hi)
  OBVIOUS
<1>3. ASSUME NEW p \in Pair
      PROVE b[p] = IF p[2] - p[1] =< 1 THEN p[2]
                   ELSE IF UtcOffset(Mid(p)) = UtcOffset(lo) THEN b[<<Mid(p), p[2]>>] ELSE b[<<p[1], Mid(p)>>]
  BY <1>1, BisectionExists
<1> DEFINE Wide(p) == p \in Pair /\ Brackets(p) /\ b[p] # Transition
           Widths == {n \in Nat : \E p \in Pair : Wide(p) /\ p[2] - p[1] = n}
<1>4. Transition \in Int
  BY SchedulingAssumption
<1>5. ASSUME NEW p \in Pair, Wide(p) PROVE \E q \in Pair : Wide(q) /\ q[2] - q[1] < p[2] - p[1]
  <2>1. p[1] \in lo..hi /\ p[2] \in lo..hi /\ p[1] < Transition /\ Transition =< p[2] /\ b[p] # Transition
    BY <1>5 DEF Brackets
  <2>2. p[2] - p[1] > 1
    <3>1. CASE p[2] - p[1] =< 1
      <4>1. b[p] = p[2]
        BY <1>3, <3>1
      <4> QED BY <1>4, <2>1, <3>1, <4>1
    <3> QED BY <2>1, <3>1
  <2>3. PICK m : m = Mid(p)
    OBVIOUS
  <2>4. m \in Int /\ p[1] < m /\ m < p[2]
    BY <2>1, <2>2, <2>3, MiddleFacts
  <2>5. m \in lo..hi
    BY <2>1, <2>4
  <2>6. UtcOffset(m) = UtcOffset(lo) <=> m < Transition
    BY <2>4 DEF UtcOffset
  <2>7. b[p] = IF m < Transition THEN b[<<m, p[2]>>] ELSE b[<<p[1], m>>]
    <3> HIDE DEF Pair
    <3>1. ~(p[2] - p[1] =< 1)
      BY <2>1, <2>2
    <3> QED BY <1>3, <2>3, <2>6, <3>1
  <2>8. CASE m < Transition
    <3>1. <<m, p[2]>> \in Pair /\ Brackets(<<m, p[2]>>) /\ b[<<m, p[2]>>] # Transition
      BY <2>1, <2>5, <2>7, <2>8 DEF Brackets
    <3>2. p[2] - m < p[2] - p[1]
      BY <2>1, <2>4
    <3> QED BY <3>1, <3>2
  <2>9. CASE ~(m < Transition)
    <3>1. <<p[1], m>> \in Pair /\ Brackets(<<p[1], m>>) /\ b[<<p[1], m>>] # Transition
      BY <1>4, <2>1, <2>4, <2>5, <2>7, <2>9 DEF Brackets
    <3>2. m - p[1] < p[2] - p[1]
      BY <2>1, <2>4
    <3> QED BY <3>1, <3>2
  <2> QED BY <2>8, <2>9
<1>6. Widths = {}
  <2> SUFFICES ASSUME Widths # {} PROVE FALSE
    OBVIOUS
  <2>1. PICK n \in Widths : \A k \in Widths : n =< k
    <3>1. Widths \subseteq Nat
      OBVIOUS
    <3> HIDE DEF Widths
    <3> QED BY <3>1, LeastOf
  <2>2. PICK p \in Pair : Wide(p) /\ p[2] - p[1] = n
    OBVIOUS
  <2>3. PICK q \in Pair : Wide(q) /\ q[2] - q[1] < p[2] - p[1]
    BY <1>5, <2>2
  <2>4. q[2] - q[1] \in Nat
    <3>1. q[1] \in Int /\ q[2] \in Int /\ q[1] < Transition /\ Transition =< q[2]
      BY <2>3 DEF Brackets
    <3> QED BY <1>4, <3>1
  <2>5. q[2] - q[1] \in Widths
    BY <2>3, <2>4
  <2>6. n \in Nat
    OBVIOUS
  <2> HIDE DEF Widths
  <2> QED BY <2>1, <2>2, <2>3, <2>4, <2>5, <2>6
<1>7. <<lo, hi>> \in Pair /\ Brackets(<<lo, hi>>)
  BY <1>4 DEF Brackets
<1>8. hi - lo \in Nat
  BY <1>4
<1>9. ~Wide(<<lo, hi>>)
  BY <1>6, <1>7, <1>8
<1> QED BY <1>1, <1>7, <1>9

-----------------------------------------------------------------------------
\* A wall reading means the instant that reads so, the first of two, or the end of the
\* gap it falls into.
Resolved(wall) ==
  IF wall < Transition + OffsetBefore THEN wall - OffsetBefore
  ELSE IF wall < Transition + OffsetAfter THEN Transition
  ELSE wall - OffsetAfter

LEMMA ResolvedLocally ==
  ASSUME NEW wall \in Int PROVE ResolveLocal(wall) = Resolved(wall)
<1>1. Transition \in Int /\ OffsetBefore \in Int /\ OffsetAfter \in Int
  BY SchedulingAssumption
<1>2. PICK first, second : first = InstantOf(wall, 0) /\ second = InstantOf(wall, 1)
  OBVIOUS
<1>3. first = wall - IF wall < Transition + (IF OffsetBefore >= OffsetAfter THEN OffsetBefore ELSE OffsetAfter)
                     THEN OffsetBefore ELSE OffsetAfter
  BY <1>2 DEF InstantOf
<1>4. second = wall - IF wall < Transition + (IF OffsetBefore >= OffsetAfter THEN OffsetAfter ELSE OffsetBefore)
                      THEN OffsetBefore ELSE OffsetAfter
  BY <1>2 DEF InstantOf
<1>5. CASE WallOf(first) = wall
  <2>1. ResolveLocal(wall) = first
    BY <1>2, <1>5 DEF ResolveLocal
  <2>2. first = Resolved(wall)
    BY <1>1, <1>3, <1>5 DEF WallOf, UtcOffset, Resolved
  <2> QED BY <2>1, <2>2
<1>6. CASE WallOf(first) # wall
  <2>1. ResolveLocal(wall) = Bisection(second, first)[<<second, first>>]
    BY <1>2, <1>6, GapEndBisects DEF ResolveLocal
  <2>2. /\ OffsetBefore < OffsetAfter
        /\ Transition + OffsetBefore =< wall /\ wall < Transition + OffsetAfter
    BY <1>1, <1>3, <1>6 DEF WallOf, UtcOffset
  <2>3. second = wall - OffsetAfter /\ first = wall - OffsetBefore
    BY <1>1, <1>3, <1>4, <2>2
  <2>4. second \in Int /\ first \in Int /\ second < Transition /\ Transition =< first
    BY <1>1, <2>2, <2>3
  <2>5. Bisection(second, first)[<<second, first>>] = Transition
    BY <1>1, <2>2, <2>4, BisectionFinds
  <2>6. Resolved(wall) = Transition
    BY <1>1, <2>2 DEF Resolved
  <2> QED BY <2>1, <2>5, <2>6
<1> QED BY <1>5, <1>6

\* The later reading is not resolved to the earlier instant.
LEMMA ResolvedMonotone ==
  ASSUME NEW v \in Int, NEW w \in Int, v =< w
  PROVE  Resolved(v) \in Int /\ Resolved(v) =< Resolved(w)
BY SchedulingAssumption DEF Resolved

\* An instant is a firing exactly when some match is resolved to it.
LEMMA FiringIsResolved ==
  ASSUME NEW phase, NEW u \in Int
  PROVE  IsFiring(phase, u) <=> \E w \in Int : Matches(phase, w) /\ Resolved(w) = u
<1>1. Transition \in Int /\ OffsetBefore \in Int /\ OffsetAfter \in Int
  BY SchedulingAssumption
<1>2. ASSUME NEW w \in Int
      PROVE  Resolved(w) = u <=> /\ w \in (WallOf(u - 1) + 1)..WallOf(u)
                                 /\ u < Transition \/ w >= Transition + OffsetBefore
  BY <1>1 DEF Resolved, WallOf, UtcOffset
<1>3. WallOf(u - 1) + 1 \in Int /\ WallOf(u) \in Int
  BY <1>1 DEF WallOf, UtcOffset
<1>4. \A w \in (WallOf(u - 1) + 1)..WallOf(u) : w \in Int
  BY <1>3
<1> QED BY <1>2, <1>4 DEF IsFiring, Matches

-----------------------------------------------------------------------------
(* Decisions.                                                              *)

\* The instants a cron calculation resolves, and how far from the clock they can be.
LEMMA CronInstants ==
  ASSUME NEW phase \in 0..(CronPeriod - 1), NEW now \in Int
  PROVE  LET wall == WallOf(now)
             nominal == ResolveLocal(AtOrBefore(phase, wall))
             next == ResolveLocal(NextAfter(phase, wall))
         IN  /\ nominal \in Int /\ next \in Int
             /\ now >= StartTime => nominal > 0 /\ next > 0
<1>1. /\ Transition \in Int /\ OffsetBefore \in Int /\ OffsetAfter \in Int /\ CronPeriod \in Nat \ {0}
      /\ StartTime \in Nat \ {0}
      /\ StartTime >= CronPeriod + OffsetBefore - OffsetAfter
      /\ StartTime >= CronPeriod + OffsetAfter - OffsetBefore
  BY SchedulingAssumption, TriggersAssumption
<1>2. PICK wall : wall = WallOf(now)
  OBVIOUS
<1>3. wall \in Int /\ (wall = now + OffsetBefore \/ wall = now + OffsetAfter)
  BY <1>1, <1>2 DEF WallOf, UtcOffset
<1>4. PICK at, after : at = AtOrBefore(phase, wall) /\ after = NextAfter(phase, wall)
  OBVIOUS
<1>5. at \in Int /\ after \in Int /\ at > wall - CronPeriod /\ after > wall
  BY <1>3, <1>4, CronNeighbours
<1>6. ResolveLocal(at) = Resolved(at) /\ ResolveLocal(after) = Resolved(after)
  BY <1>5, ResolvedLocally
<1>7. ASSUME NEW w \in Int, w > wall - CronPeriod
      PROVE Resolved(w) \in Int /\ (now >= StartTime => Resolved(w) > 0)
  <2>1. Resolved(w) \in Int /\ (Resolved(w) >= w - OffsetBefore \/ Resolved(w) >= w - OffsetAfter)
    BY <1>1 DEF Resolved
  <2>2. CronPeriod >= 1
    BY <1>1
  <2> QED BY <1>1, <1>3, <1>7, <2>1, <2>2
<1>8. after > wall - CronPeriod
  BY <1>1, <1>3, <1>5
<1> QED BY <1>2, <1>4, <1>5, <1>6, <1>7, <1>8

\* What is decided for a cron schedule coalesces, when it is not after the clock and the
\* next fire time is: the only other outcome of the calculation is a failure.
LEMMA CronCoalesces ==
  ASSUME NEW phase \in 0..(CronPeriod - 1), NEW now \in Int,
         NEW nominal, nominal = ResolveLocal(AtOrBefore(phase, WallOf(now))),
         NEW next, next = ResolveLocal(NextAfter(phase, WallOf(now))),
         nominal =< now, now < next
  PROVE  IsCoalesced(phase, now, nominal, next)
<1>1. PICK wall : wall = WallOf(now)
  OBVIOUS
<1>2. wall \in Int
  BY <1>1, SchedulingAssumption DEF WallOf, UtcOffset
<1>3. PICK at, after : at = AtOrBefore(phase, wall) /\ after = NextAfter(phase, wall)
  OBVIOUS
<1>4. /\ at \in Int /\ after \in Int /\ Matches(phase, at) /\ Matches(phase, after)
      /\ \A w \in Int : Matches(phase, w) => w =< at \/ w >= after
  BY <1>2, <1>3, CronNeighbours
<1>5. nominal = Resolved(at) /\ next = Resolved(after)
  BY <1>1, <1>3, <1>4, ResolvedLocally
<1>6. nominal \in Int /\ next \in Int
  BY <1>4, <1>5, ResolvedMonotone
<1>7. IsFiring(phase, nominal) /\ IsFiring(phase, next)
  BY <1>4, <1>5, <1>6, FiringIsResolved
<1>8. ASSUME NEW u \in (nominal + 1)..(next - 1), IsFiring(phase, u) PROVE FALSE
  <2>1. u \in Int /\ nominal < u /\ u < next
    BY <1>6
  <2>2. PICK w \in Int : Matches(phase, w) /\ Resolved(w) = u
    BY <1>8, <2>1, FiringIsResolved
  <2>3. CASE w =< at
    <3>1. Resolved(w) =< nominal
      BY <1>4, <1>5, <2>3, ResolvedMonotone
    <3> QED BY <1>6, <2>1, <2>2, <3>1
  <2>4. CASE w >= after
    <3>1. next =< Resolved(w)
      BY <1>4, <1>5, <2>4, ResolvedMonotone
    <3> QED BY <1>6, <2>1, <2>2, <3>1
  <2> QED BY <1>4, <2>2, <2>3, <2>4
<1> QED BY <1>7, <1>8 DEF IsCoalesced

\* A due interval: the last instant of its sequence that is not after the clock.
LEMMA DivFacts ==
  ASSUME NEW a \in Nat, NEW n \in Nat \ {0}
  PROVE  /\ (a \div n) * n \in Nat
         /\ (a \div n) * n =< a /\ a < (a \div n) * n + n
OBVIOUS

LEMMA IntervalDecision ==
  ASSUME NEW nextFire \in Nat, NEW every \in Nat \ {0}, NEW now \in Nat, nextFire =< now
  PROVE  LET d == CalculateInterval(nextFire, every, now)
         IN  \/ d = Undecided("invalid")
             \/ /\ d.failure = "none" /\ d.nominal \in Nat /\ d.next \in Nat
                /\ nextFire =< d.nominal /\ d.nominal =< now /\ now < d.next
                /\ d.next - d.nominal = every
<1>1. PICK a : a = now - nextFire
  OBVIOUS
<1>2. PICK elapsed : elapsed = (a \div every) * every
  OBVIOUS
<1>3. a \in Nat
  BY <1>1
<1>4. elapsed \in Nat /\ elapsed =< a /\ a < elapsed + every
  BY <1>2, <1>3, DivFacts
<1>5. PICK d : d = CalculateInterval(nextFire, every, now)
  OBVIOUS
<1>6. d = Undecided("invalid") \/ d = Decided(nextFire + elapsed, nextFire + elapsed + every)
  BY <1>1, <1>2, <1>5 DEF CalculateInterval
<1>7. \A x, y : Decided(x, y).failure = "none" /\ Decided(x, y).nominal = x /\ Decided(x, y).next = y
  BY DEF Decided
<1>8. CASE d = Undecided("invalid")
  BY <1>5, <1>8
<1>9. CASE d = Decided(nextFire + elapsed, nextFire + elapsed + every)
  <2>1. d.failure = "none" /\ d.nominal = nextFire + elapsed /\ d.next = nextFire + elapsed + every
    BY <1>7, <1>9
  <2>2. /\ d.nominal \in Nat /\ d.next \in Nat /\ nextFire =< d.nominal /\ d.nominal =< now
        /\ now < d.next /\ d.next - d.nominal = every
    BY <1>1, <1>4, <2>1
  <2> QED BY <1>5, <2>1, <2>2
<1> QED BY <1>6, <1>8, <1>9

LEMMA ScheduleFacts ==
  ASSUME NEW schedule \in Schedule
  PROVE  /\ schedule.kind \in ScheduleKind /\ schedule.arg \in Nat
         /\ schedule.kind = "cron" => schedule.arg \in 0..(CronPeriod - 1)
         /\ schedule.kind # "cron" => schedule.arg \in Nat \ {0}
<1>1. schedule \in [kind : ScheduleKind, arg : Nat]
  BY TriggersAssumption
<1>2. IF schedule.kind = "cron" THEN schedule.arg < CronPeriod ELSE schedule.arg > 0
  BY TriggersAssumption
<1>3. schedule.kind \in ScheduleKind /\ schedule.arg \in Nat
  BY <1>1
<1>4. CronPeriod \in Nat \ {0}
  BY SchedulingAssumption
<1> QED BY <1>2, <1>3, <1>4

LEMMA UndecidedTimes ==
  ASSUME NEW failure PROVE Undecided(failure).nominal = 0 /\ Undecided(failure).next = 0 /\ Undecided(failure).failure = failure
BY DEF Undecided, NULL

LEMMA DecidedTimes ==
  ASSUME NEW nominal, NEW next
  PROVE  Decided(nominal, next).nominal = nominal /\ Decided(nominal, next).next = next /\ Decided(nominal, next).failure = "none"
BY DEF Decided

\* Whatever is decided for a due schedule is an instant, or none.
LEMMA DecisionTimes ==
  ASSUME NEW schedule \in Schedule, NEW next \in Nat, NEW now \in Nat, NEW known \in BOOLEAN,
         next =< now, now >= StartTime
  PROVE  LET d == DecideDue(schedule, next, now, known) IN d.nominal \in Nat /\ d.next \in Nat
<1>1. PICK d : d = DecideDue(schedule, next, now, known)
  OBVIOUS
<1>2. CASE schedule.kind = "one_time"
  <2>1. d = Decided(next, 0)
    BY <1>1, <1>2 DEF DecideDue, CalculateOneTime, NULL
  <2> QED BY <1>1, <2>1, DecidedTimes
<1>3. CASE schedule.kind = "interval"
  <2>1. d = CalculateInterval(next, schedule.arg, now)
    BY <1>1, <1>3 DEF DecideDue
  <2>2. schedule.arg \in Nat \ {0}
    BY <1>3, ScheduleFacts
  <2>3. d = Undecided("invalid") \/ (d.nominal \in Nat /\ d.next \in Nat)
    BY <2>1, <2>2, IntervalDecision
  <2> QED BY <1>1, <2>3, UndecidedTimes
<1>4. CASE schedule.kind = "cron" /\ known
  <2>1. d = CalculateCron(next, schedule.arg, now)
    BY <1>1, <1>4 DEF DecideDue
  <2>2. schedule.arg \in 0..(CronPeriod - 1) /\ now \in Int
    BY <1>4, ScheduleFacts
  <2>3. PICK nominal, after : /\ nominal = ResolveLocal(AtOrBefore(schedule.arg, WallOf(now)))
                              /\ after = ResolveLocal(NextAfter(schedule.arg, WallOf(now)))
    OBVIOUS
  <2>4. nominal \in Nat /\ after \in Nat
    <3>1. nominal \in Int /\ after \in Int /\ nominal > 0 /\ after > 0
      BY <2>2, <2>3, CronInstants
    <3> QED BY <3>1
  <2>5. d = Undecided("invalid") \/ d = Decided(nominal, after)
    BY <2>1, <2>3 DEF CalculateCron
  <2> QED BY <1>1, <2>4, <2>5, UndecidedTimes, DecidedTimes
<1>5. CASE schedule.kind # "one_time" /\ schedule.kind # "interval" /\ ~(schedule.kind = "cron" /\ known)
  <2>1. d = Undecided("timezone")
    BY <1>1, <1>5 DEF DecideDue
  <2> QED BY <1>1, <2>1, UndecidedTimes
<1> QED BY <1>2, <1>3, <1>4, <1>5

LEMMA InitialTimes ==
  ASSUME NEW schedule \in Schedule, NEW now \in Nat, NEW known \in BOOLEAN, now >= StartTime
  PROVE  InitialNextFire(schedule, now, known) \in Nat
<1>1. PICK next : next = InitialNextFire(schedule, now, known)
  OBVIOUS
<1>2. CASE schedule.kind = "one_time"
  <2>1. next = schedule.arg
    BY <1>1, <1>2 DEF InitialNextFire
  <2> QED BY <1>1, <2>1, ScheduleFacts
<1>3. CASE schedule.kind = "interval"
  <2>1. next = IF now + schedule.arg > Horizon THEN 0 ELSE now + schedule.arg
    BY <1>1, <1>3 DEF InitialNextFire, NULL
  <2>2. schedule.arg \in Nat
    BY ScheduleFacts
  <2> QED BY <1>1, <2>1, <2>2
<1>4. CASE schedule.kind = "cron" /\ known
  <2>1. next = ResolveLocal(NextAfter(schedule.arg, WallOf(now)))
    BY <1>1, <1>4 DEF InitialNextFire
  <2>2. schedule.arg \in 0..(CronPeriod - 1) /\ now \in Int
    BY <1>4, ScheduleFacts
  <2>3. next \in Int /\ next > 0
    BY <2>1, <2>2, CronInstants
  <2> QED BY <1>1, <2>3
<1>5. CASE schedule.kind # "one_time" /\ schedule.kind # "interval" /\ ~(schedule.kind = "cron" /\ known)
  BY <1>5 DEF InitialNextFire, NULL
<1> QED BY <1>2, <1>3, <1>4, <1>5

-----------------------------------------------------------------------------
(***************************************************************************)
(* Types.  That a fire time stays an instant needs of a Scheduler that     *)
(* what it decides from was due when it read the clock.                    *)
(***************************************************************************)

RowFits(r) ==
  /\ r.status \in TriggerStatus /\ r.revision \in 0..MaxRevision
  /\ r.status # "absent" => r.schedule \in Schedule
  /\ r.next \in Nat

AskFits(r) ==
  /\ r.op \in {"create", "update"} => r.schedule \in Schedule
  /\ r.op \in {"create", "update", "enable"} => r.next \in Nat

CandidateFits(c, now) ==
  c.id \in TriggerId /\ c.schedule \in Schedule /\ c.next \in Nat /\ c.next =< now

CommandFits(m) ==
  m.id \in TriggerId /\ m.nominal \in Nat /\ m.after \in Nat /\ m.skip \in SkipReason

TickFits(m) ==
  /\ m.pc \in {"down", "idle", "tick", "apply"} /\ m.now \in Nat
  /\ m.pc \in {"tick", "apply"} => m.now >= StartTime
  /\ \A c \in m.page : CandidateFits(c, m.now)
  /\ m.pc = "tick" => m.page # {}
  /\ m.pc = "apply" <=> m.command # NoCommand
  /\ m.pc = "apply" => CommandFits(m.command)

OccurrenceFits(o) == o.id \in TriggerId /\ o.nominal \in Nat /\ o.skip \in SkipReason

HostFits ==
  /\ clock \in Nat /\ clock >= StartTime /\ zoneKnown \in BOOLEAN
  /\ agent \in [Agent -> [enabled : BOOLEAN, definition : Definition]]
  /\ pending \in [Agent -> 0..AgentCapacity]

TriggersFit == \A t \in TriggerId : RowFits(row[t])
AsksFit == \A c \in Client : AskFits(request[c])
TicksFit == \A s \in Scheduler : TickFits(sch[s])
OccurrencesFit == \A o \in occurrence : OccurrenceFits(o)

TypesInv == TInv /\ HostFits /\ TriggersFit /\ AsksFit /\ TicksFit /\ OccurrencesFit

LEMMA TypesInitial == Init => TypesInv
<1> SUFFICES ASSUME Init PROVE TypesInv
  OBVIOUS
<1>1. HostFits
  <2>1. clock \in Nat /\ clock >= StartTime /\ zoneKnown \in BOOLEAN
    BY TriggersAssumption DEF Init
  <2>2. 0 \in 0..AgentCapacity
    BY TriggersAssumption
  <2>3. pending \in [Agent -> 0..AgentCapacity]
    BY <2>2 DEF Init
  <2>4. \A a \in Agent : agent[a] \in [enabled : {TRUE}, definition : Definition]
    BY DEF Init
  <2>5. \A x \in [enabled : {TRUE}, definition : Definition] : x \in [enabled : BOOLEAN, definition : Definition]
    OBVIOUS
  <2>6. agent = [a \in Agent |-> agent[a]]
    BY DEF Init
  <2>7. agent \in [Agent -> [enabled : BOOLEAN, definition : Definition]]
    BY <2>4, <2>5, <2>6
  <2> QED BY <2>1, <2>3, <2>7 DEF HostFits
<1>2. RowFits(NoRow)
  BY TriggersAssumption DEF RowFits, NoRow, TriggerStatus, NULL
<1>3. AskFits(NoRequest)
  BY DEF AskFits, NoRequest
<1>4. TickFits(Down)
  BY DEF TickFits, Down, Memory
<1>5. TriggersFit
  <2>1. \A t \in TriggerId : row[t] = NoRow
    BY DEF Init
  <2> QED BY <1>2, <2>1 DEF TriggersFit
<1>6. AsksFit
  <2>1. \A c \in Client : request[c] = NoRequest
    BY DEF Init
  <2> QED BY <1>3, <2>1 DEF AsksFit
<1>7. TicksFit
  <2>1. \A s \in Scheduler : sch[s] = Down
    BY DEF Init
  <2> QED BY <1>4, <2>1 DEF TicksFit
<1>8. OccurrencesFit
  BY DEF Init, OccurrencesFit
<1> QED BY <1>1, <1>5, <1>6, <1>7, <1>8, TInvInit DEF TypesInv

LEMMA OneRowFits ==
  ASSUME TypesInv, NEW t \in TriggerId, NEW r, row' = [row EXCEPT ![t] = r], RowFits(r)
  PROVE  TriggersFit'
<1>1. \A u \in TriggerId : row'[u] = IF u = t THEN r ELSE row[u]
  BY DEF TypesInv, TInv, Shapes
<1> QED BY <1>1 DEF TypesInv, TriggersFit

LEMMA OneAskFits ==
  ASSUME TypesInv, NEW c \in Client, NEW r, request' = [request EXCEPT ![c] = r], AskFits(r)
  PROVE  AsksFit'
<1>1. \A d \in Client : request'[d] = IF d = c THEN r ELSE request[d]
  BY DEF TypesInv, TInv, Shapes
<1> QED BY <1>1 DEF TypesInv, AsksFit

LEMMA OneTickFits ==
  ASSUME TypesInv, NEW s \in Scheduler, NEW m, sch' = [sch EXCEPT ![s] = m], TickFits(m)
  PROVE  TicksFit'
<1>1. \A u \in Scheduler : sch'[u] = IF u = s THEN m ELSE sch[u]
  BY DEF TypesInv, TInv, Shapes
<1> QED BY <1>1 DEF TypesInv, TicksFit

LEMMA BeginFits ==
  ASSUME TypesInv, NEW c \in Client,
         \/ \E t \in TriggerId, schedule \in Schedule, input \in Input, b \in BOOLEAN :
              BeginCreate(c, t, schedule, input, b) \/ BeginUpdate(c, t, b, schedule, input)
         \/ \E t \in TriggerId : BeginEnable(c, t)
         \/ RequestFails(c)
  PROVE  AsksFit'
<1>0. clock \in Nat /\ clock >= StartTime /\ zoneKnown \in BOOLEAN /\ NULL \in Nat
  BY DEF TypesInv, HostFits, NULL
<1>1. ASSUME NEW t \in TriggerId, NEW schedule \in Schedule, NEW input \in Input, NEW b \in BOOLEAN,
             BeginCreate(c, t, schedule, input, b)
      PROVE  AsksFit'
  <2>1. PICK next : next = IF b THEN InitialNextFire(schedule, clock, zoneKnown) ELSE NULL
    OBVIOUS
  <2>2. next \in Nat
    BY <1>0, <2>1, InitialTimes
  <2>3. PICK r : r = [op |-> "create", id |-> t, schedule |-> schedule, input |-> input, enabled |-> b, next |-> next]
    OBVIOUS
  <2>4. r.schedule = schedule /\ r.next = next
    BY <2>3
  <2>5. AskFits(r)
    BY <2>2, <2>4 DEF AskFits
  <2>6. request' = [request EXCEPT ![c] = r]
    BY <1>1, <2>1, <2>3 DEF BeginCreate
  <2> QED BY <2>5, <2>6, OneAskFits
<1>2. ASSUME NEW t \in TriggerId, NEW schedule \in Schedule, NEW input \in Input, NEW b \in BOOLEAN,
             BeginUpdate(c, t, b, schedule, input)
      PROVE  AsksFit'
  <2>1. PICK next : next = IF b /\ row[t].enabled THEN InitialNextFire(schedule, clock, zoneKnown) ELSE NULL
    OBVIOUS
  <2>2. next \in Nat
    BY <1>0, <2>1, InitialTimes
  <2>3. PICK r : r = [op |-> "update", id |-> t, schedule |-> schedule, input |-> input,
                      restated |-> b, next |-> next, expected |-> row[t].revision]
    OBVIOUS
  <2>4. r.schedule = schedule /\ r.next = next
    BY <2>3
  <2>5. AskFits(r)
    BY <2>2, <2>4 DEF AskFits
  <2>6. request' = [request EXCEPT ![c] = r]
    BY <1>2, <2>1, <2>3 DEF BeginUpdate
  <2> QED BY <2>5, <2>6, OneAskFits
<1>3. ASSUME NEW t \in TriggerId, BeginEnable(c, t) PROVE AsksFit'
  <2>1. PICK next : next = InitialNextFire(row[t].schedule, clock, zoneKnown)
    OBVIOUS
  <2>2. row[t].schedule \in Schedule
    BY <1>3 DEF TypesInv, TriggersFit, RowFits, BeginEnable
  <2>3. next \in Nat
    BY <1>0, <2>1, <2>2, InitialTimes
  <2>4. PICK r : r = [op |-> "enable", id |-> t, next |-> next]
    OBVIOUS
  <2>5. r.op = "enable" /\ r.next = next
    BY <2>4
  <2>6. AskFits(r)
    BY <2>3, <2>5 DEF AskFits
  <2>7. request' = [request EXCEPT ![c] = r]
    BY <1>3, <2>1, <2>4 DEF BeginEnable
  <2> QED BY <2>6, <2>7, OneAskFits
<1>4. ASSUME RequestFails(c) PROVE AsksFit'
  <2>1. AskFits(NoRequest)
    BY DEF AskFits, NoRequest
  <2> QED BY <1>4, <2>1, OneAskFits DEF RequestFails
<1> QED BY <1>1, <1>2, <1>3, <1>4

LEMMA CommitFits ==
  ASSUME TypesInv, NEW c \in Client, Commit(c) PROVE TriggersFit' /\ AsksFit'
<1>1. PICK r : r = request[c]
  OBVIOUS
<1>2. r.op # "none" /\ r.id \in TriggerId /\ AskFits(r)
  BY <1>1 DEF TypesInv, TInv, RequestsRemember, AsksFit, Commit
<1>3. PICK old : old = row[r.id]
  OBVIOUS
<1>4. IsRow(old) /\ RowFits(old)
  BY <1>2, <1>3 DEF TypesInv, TInv, Shapes, TriggersFit
<1>5. AsksFit'
  <2>1. AskFits(NoRequest)
    BY DEF AskFits, NoRequest
  <2> QED BY <2>1, OneAskFits DEF Commit
<1>6. CASE r.op = "create" /\ Create(r)
  <2>1. PICK new : new = [status |-> "live", schedule |-> r.schedule, input |-> r.input,
                          enabled |-> r.enabled, revision |-> 1, next |-> r.next]
    OBVIOUS
  <2>2. new.status = "live" /\ new.schedule = r.schedule /\ new.revision = 1 /\ new.next = r.next
    BY <2>1
  <2>3. 1 \in 0..MaxRevision
    BY TriggersAssumption
  <2>4. RowFits(new)
    BY <1>2, <1>6, <2>2, <2>3 DEF RowFits, AskFits, TriggerStatus
  <2> QED BY <1>2, <1>5, <1>6, <2>1, <2>4, OneRowFits DEF Create
<1>7. CASE r.op = "update" /\ Update(r)
  <2>1. PICK next : next = IF r.next # NULL THEN r.next ELSE old.next
    OBVIOUS
  <2>2. PICK schedule : schedule = IF r.restated THEN r.schedule ELSE old.schedule
    OBVIOUS
  <2>3. PICK revision : revision = IF schedule # old.schedule \/ r.input # old.input THEN old.revision + 1 ELSE old.revision
    OBVIOUS
  <2>4. PICK new : new = [old EXCEPT !.schedule = schedule, !.input = r.input, !.revision = revision, !.next = next]
    OBVIOUS
  <2>5. row' = [row EXCEPT ![r.id] = new]
    BY <1>3, <1>7, <2>1, <2>2, <2>3, <2>4 DEF Update
  <2>6. old.status = "live" /\ revision \in 0..MaxRevision
    <3>1. old.status = "live"
      BY <1>3, <1>7 DEF Update, UpdateAllowed
    <3>2. (schedule # old.schedule \/ r.input # old.input) => old.revision < MaxRevision
      BY <1>3, <1>7, <2>2 DEF Update
    <3>3. MaxRevision \in Nat
      BY TriggersAssumption
    <3>4. old.revision \in 0..MaxRevision
      BY <1>4 DEF RowFits
    <3> QED BY <2>3, <3>1, <3>2, <3>3, <3>4
  <2>7. new.status = old.status /\ new.schedule = schedule /\ new.revision = revision /\ new.next = next
    BY <1>4, <2>4 DEF IsRow
  <2>8. schedule \in Schedule /\ next \in Nat
    BY <1>2, <1>4, <1>7, <2>1, <2>2, <2>6 DEF RowFits, AskFits
  <2>9. RowFits(new)
    BY <1>4, <2>6, <2>7, <2>8 DEF RowFits
  <2> QED BY <1>2, <1>5, <2>5, <2>9, OneRowFits
<1>8. CASE r.op = "enable" /\ Enable(r)
  <2>1. PICK new : new = [old EXCEPT !.enabled = TRUE, !.next = r.next]
    OBVIOUS
  <2>2. row' = [row EXCEPT ![r.id] = new]
    BY <1>3, <1>8, <2>1 DEF Enable
  <2>3. new.status = old.status /\ new.schedule = old.schedule /\ new.revision = old.revision /\ new.next = r.next
    BY <1>4, <2>1 DEF IsRow
  <2>4. RowFits(new)
    BY <1>2, <1>4, <1>8, <2>3 DEF RowFits, AskFits
  <2> QED BY <1>2, <1>5, <2>2, <2>4, OneRowFits
<1> QED BY <1>1, <1>6, <1>7, <1>8 DEF Commit

LEMMA DisableDeleteFits ==
  ASSUME TypesInv, NEW t \in TriggerId, Disable(t) \/ Delete(t) PROVE TriggersFit'
<1>1. IsRow(row[t]) /\ RowFits(row[t])
  BY DEF TypesInv, TInv, Shapes, TriggersFit
<1>2. PICK new : /\ row' = [row EXCEPT ![t] = new] /\ row[t].status = "live"
                 /\ \/ new = [row[t] EXCEPT !.enabled = FALSE, !.next = NULL]
                    \/ new = [row[t] EXCEPT !.status = "deleted"]
  BY DEF Disable, Delete
<1>3. /\ new.schedule = row[t].schedule /\ new.revision = row[t].revision
      /\ new.status \in {row[t].status, "deleted"} /\ new.next \in {row[t].next, 0}
  BY <1>1, <1>2 DEF IsRow, NULL
<1>4. RowFits(new)
  BY <1>1, <1>2, <1>3 DEF RowFits, TriggerStatus
<1> QED BY <1>2, <1>4, OneRowFits

\* A command decided for a candidate.
LEMMA CommandForFits ==
  ASSUME NEW c, NEW now \in Nat, now >= StartTime, CandidateFits(c, now), zoneKnown \in BOOLEAN
  PROVE  CommandFits(CommandFor(c, now)) /\ CommandFor(c, now) # NoCommand
<1>1. PICK d : d = DecideDue(c.schedule, c.next, now, zoneKnown)
  OBVIOUS
<1>2. d.nominal \in Nat /\ d.next \in Nat
  BY <1>1, DecisionTimes DEF CandidateFits
<1>3. d.failure \in {"none", "timezone", "invalid"}
  BY <1>1, FailureKinds
<1>4. PICK m : m = CommandFor(c, now)
  OBVIOUS
<1>5. /\ m.id = c.id /\ m.skip = SkipFor(d.failure) /\ m.after = d.next
      /\ m.nominal = IF d.failure = "none" THEN d.nominal ELSE c.next
  BY <1>1, <1>4 DEF CommandFor
<1>6. SkipFor(d.failure) \in SkipReason
  BY <1>3 DEF SkipFor, SkipReason
<1>7. CommandFits(m)
  BY <1>2, <1>5, <1>6 DEF CommandFits, CandidateFits
<1>8. m.id # 0
  BY <1>7, TriggersAssumption DEF CommandFits
<1>9. NoCommand.id = 0
  BY DEF NoCommand
<1> QED BY <1>4, <1>7, <1>8, <1>9

LEMMA TickStepFits ==
  ASSUME TypesInv, NEW s \in Scheduler, Tick(s) \/ Contention(s) \/ Crash(s) \/ Start(s)
  PROVE  TicksFit'
<1>1. IsMemory(sch[s]) /\ TickFits(sch[s])
  BY DEF TypesInv, TInv, Shapes, TicksFit
<1>2. TickFits(Down) /\ \A k : TickFits(Idle(k))
  BY DEF TickFits, Down, Idle, Memory
<1>3. CASE ReadPage(s)
  <2> DEFINE page == DuePage(clock, sch[s].cursor)
  <2>1. CASE page = {}
    <3>1. sch' = [sch EXCEPT ![s] = Idle(NoCursor)]
      BY <1>3, <2>1 DEF ReadPage
    <3> QED BY <1>2, <3>1, OneTickFits
  <2>2. CASE page # {}
    <3>1. PICK m : m = [pc |-> "tick", now |-> clock, page |-> page, resume |-> Resume(page),
                        cursor |-> sch[s].cursor, command |-> NoCommand]
      OBVIOUS
    <3>2. sch' = [sch EXCEPT ![s] = m]
      BY <1>3, <2>2, <3>1 DEF ReadPage
    <3>3. m.pc = "tick" /\ m.now = clock /\ m.page = page /\ m.command = NoCommand
      BY <3>1
    <3>4. ASSUME NEW c \in page PROVE CandidateFits(c, clock)
      <4>1. PICK t \in TriggerId : IsDue(t, clock) /\ c = Candidate(t)
        BY Zenon DEF DuePage
      <4>2. c.id = t /\ c.schedule = row[t].schedule /\ c.next = row[t].next
        BY <4>1 DEF Candidate
      <4>3. row[t].status = "live" /\ row[t].next =< clock /\ RowFits(row[t])
        BY <4>1 DEF IsDue, TypesInv, TriggersFit
      <4> QED BY <4>2, <4>3 DEF CandidateFits, RowFits
    <3>5. clock \in Nat /\ clock >= StartTime
      BY DEF TypesInv, HostFits
    <3> HIDE DEF page
    <3>6. TickFits(m)
      BY <2>2, <3>3, <3>4, <3>5 DEF TickFits
    <3> QED BY <3>2, <3>6, OneTickFits
  <2> QED BY <2>1, <2>2
<1>4. CASE Evaluate(s)
  <2>1. PICK c \in sch[s].page :
          \/ sch' = [sch EXCEPT ![s] =
                       [sch[s] EXCEPT !.pc = "apply", !.page = sch[s].page \ {c},
                                      !.command = CommandFor(c, sch[s].now)]]
          \/ sch' = [sch EXCEPT ![s] = Down]
    BY <1>4 DEF Evaluate
  <2>2. CASE sch' = [sch EXCEPT ![s] = Down]
    BY <1>2, <2>2, OneTickFits
  <2>3. CASE sch' = [sch EXCEPT ![s] =
                       [sch[s] EXCEPT !.pc = "apply", !.page = sch[s].page \ {c},
                                      !.command = CommandFor(c, sch[s].now)]]
    <3>1. PICK k : k = CommandFor(c, sch[s].now)
      OBVIOUS
    <3>2. PICK m : m = [sch[s] EXCEPT !.pc = "apply", !.page = sch[s].page \ {c}, !.command = k]
      OBVIOUS
    <3>3. m.pc = "apply" /\ m.page \subseteq sch[s].page /\ m.command = k /\ m.now = sch[s].now
      BY <1>1, <3>2 DEF IsMemory
    <3>4. sch[s].now \in Nat /\ sch[s].now >= StartTime /\ CandidateFits(c, sch[s].now) /\ zoneKnown \in BOOLEAN
      BY <1>1, <1>4 DEF Evaluate, TickFits, TypesInv, HostFits
    <3>5. CommandFits(k) /\ k # NoCommand
      BY <3>1, <3>4, CommandForFits
    <3>6. TickFits(m)
      BY <1>1, <3>3, <3>4, <3>5 DEF TickFits
    <3> QED BY <2>3, <3>1, <3>2, <3>6, OneTickFits
  <2> QED BY <2>1, <2>2, <2>3
<1>5. CASE DiscardDecision(s) \/ MaterializeSkip(s) \/ MaterializeRun(s)
  <2>1. Proceed(s) /\ sch[s].pc = "apply"
    BY <1>5 DEF DiscardDecision, MaterializeSkip, MaterializeRun, Record
  <2>2. CASE sch[s].page = {}
    <3>1. sch' = [sch EXCEPT ![s] = Idle(sch[s].resume)]
      BY <2>1, <2>2 DEF Proceed
    <3> QED BY <1>2, <3>1, OneTickFits
  <2>3. CASE sch[s].page # {}
    <3>1. PICK m : m = [sch[s] EXCEPT !.pc = "tick", !.command = NoCommand]
      OBVIOUS
    <3>2. m.pc = "tick" /\ m.command = NoCommand /\ m.page = sch[s].page /\ m.now = sch[s].now
      BY <1>1, <3>1 DEF IsMemory
    <3>3. TickFits(m)
      BY <1>1, <2>1, <2>3, <3>2 DEF TickFits
    <3>4. sch' = [sch EXCEPT ![s] = m]
      BY <2>1, <2>3, <3>1 DEF Proceed
    <3> QED BY <3>3, <3>4, OneTickFits
  <2> QED BY <2>2, <2>3
<1>6. CASE Contention(s)
  <2>1. PICK k : sch' = [sch EXCEPT ![s] = Idle(k)]
    BY <1>6 DEF Contention
  <2> QED BY <1>2, <2>1, OneTickFits
<1>7. CASE Crash(s) \/ Start(s)
  BY <1>2, <1>7, OneTickFits DEF Crash, Start
<1> QED BY <1>3, <1>4, <1>5, <1>6, <1>7 DEF Tick

LEMMA RecordFits ==
  ASSUME TypesInv, NEW s \in Scheduler, MaterializeSkip(s) \/ MaterializeRun(s)
  PROVE  TriggersFit' /\ OccurrencesFit'
<1>1. PICK m : m = sch[s].command
  OBVIOUS
<1>2. sch[s].pc = "apply" /\ ~WritesNothing(m, sch[s].now)
  BY <1>1 DEF MaterializeSkip, MaterializeRun
<1>3. CommandFits(m)
  BY <1>1, <1>2 DEF TypesInv, TicksFit, TickFits
<1>4. PICK skip : Record(s, skip) /\ skip \in SkipReason
  <2>1. CASE MaterializeRun(s)
    BY <2>1 DEF MaterializeRun, SkipReason
  <2>2. CASE MaterializeSkip(s)
    <3>1. PICK k : k = IF m.skip # "none" THEN m.skip ELSE "agent_disabled"
      OBVIOUS
    <3>2. Record(s, k)
      BY <1>1, <2>2, <3>1 DEF MaterializeSkip
    <3>3. k \in SkipReason
      BY <1>3, <3>1 DEF CommandFits, SkipReason
    <3> QED BY <3>2, <3>3
  <2> QED BY <2>1, <2>2
<1>5. /\ occurrence' = occurrence \cup {OccurrenceOf(m, sch[s].now, skip)}
      /\ row' = [row EXCEPT ![m.id] = Advanced(row[m.id], m)]
  BY <1>1, <1>4 DEF Record
<1>6. OccurrencesFit'
  <2>1. PICK o : o = OccurrenceOf(m, sch[s].now, skip)
    OBVIOUS
  <2>2. o.id = m.id /\ o.nominal = m.nominal /\ o.skip = skip
    BY <2>1 DEF OccurrenceOf
  <2>3. OccurrenceFits(o)
    BY <1>3, <1>4, <2>2 DEF OccurrenceFits, CommandFits
  <2> QED BY <1>5, <2>1, <2>3 DEF TypesInv, OccurrencesFit
<1>7. TriggersFit'
  <2>1. m.id \in TriggerId
    BY <1>3 DEF CommandFits
  <2>2. PICK old : old = row[m.id]
    OBVIOUS
  <2>3. IsRow(old) /\ RowFits(old)
    BY <2>1, <2>2 DEF TypesInv, TInv, Shapes, TriggersFit
  <2>4. PICK new : new = Advanced(old, m)
    OBVIOUS
  <2>5. new.status = old.status /\ new.revision = old.revision /\ new.schedule = old.schedule /\ new.next = m.after
    <3>1. CASE m.after = NULL
      BY <2>3, <2>4, <3>1 DEF Advanced, IsRow
    <3>2. CASE m.after # NULL
      BY <2>3, <2>4, <3>2 DEF Advanced, IsRow
    <3> QED BY <3>1, <3>2
  <2>6. RowFits(new)
    BY <1>3, <2>3, <2>5 DEF RowFits, CommandFits
  <2> QED BY <1>5, <2>1, <2>2, <2>4, <2>6, OneRowFits
<1> QED BY <1>6, <1>7

\* The clock, the host's zones, the Agents and their queues.
LEMMA HostStays ==
  ASSUME TypesInv, UNCHANGED <<clock, zoneKnown, agent, pending>> PROVE HostFits'
BY DEF TypesInv, HostFits

LEMMA PlacesFit ==
  ASSUME TypesInv, NEW a \in Agent,
         \/ ~QueueFull(a) /\ pending' = [pending EXCEPT ![a] = @ + 1]
         \/ pending[a] > 0 /\ pending' = [pending EXCEPT ![a] = @ - 1]
  PROVE  pending' \in [Agent -> 0..AgentCapacity]
<1>1. pending \in [Agent -> 0..AgentCapacity] /\ AgentCapacity \in Nat
  BY TriggersAssumption DEF TypesInv, HostFits
<1>2. CASE ~QueueFull(a) /\ pending' = [pending EXCEPT ![a] = @ + 1]
  <2>1. ~(pending[a] >= AgentCapacity)
    BY <1>2 DEF QueueFull
  <2>2. pending[a] + 1 \in 0..AgentCapacity
    BY <1>1, <2>1
  <2> QED BY <1>1, <1>2, <2>2
<1>3. CASE pending[a] > 0 /\ pending' = [pending EXCEPT ![a] = @ - 1]
  <2>1. pending[a] - 1 \in 0..AgentCapacity
    BY <1>1, <1>3
  <2> QED BY <1>1, <1>3, <2>1
<1> QED BY <1>2, <1>3

LEMMA HostStep ==
  ASSUME TypesInv, [Next]_vars PROVE HostFits'
<1>1. CASE TimePasses \/ ZoneVanishes \/ UNCHANGED vars
  <2>1. clock \in Nat /\ clock >= StartTime /\ StartTime \in Nat
    BY TriggersAssumption DEF TypesInv, HostFits
  <2>2. clock' \in Nat /\ clock' >= StartTime
    BY <1>1, <2>1 DEF TimePasses, ZoneVanishes, vars
  <2>3. zoneKnown' \in BOOLEAN /\ UNCHANGED <<agent, pending>>
    BY <1>1 DEF TimePasses, ZoneVanishes, vars, TypesInv, HostFits
  <2> QED BY <2>2, <2>3 DEF TypesInv, HostFits
<1>2. ASSUME NEW c \in Client, Management(c) PROVE HostFits'
  BY <1>2, HostStays DEF Management, BeginCreate, BeginUpdate, BeginEnable, Commit, RequestFails
<1>3. ASSUME NEW t \in TriggerId, Disable(t) \/ Delete(t) PROVE HostFits'
  BY <1>3, HostStays DEF Disable, Delete
<1>4. ASSUME NEW a \in Agent, ManualSubmission(a) \/ JobSettles(a) PROVE HostFits'
  <2>1. pending' \in [Agent -> 0..AgentCapacity]
    BY <1>4, PlacesFit DEF ManualSubmission, JobSettles
  <2> QED BY <1>4, <2>1 DEF ManualSubmission, JobSettles, TypesInv, HostFits
<1>5. ASSUME NEW a \in Agent, NEW b \in BOOLEAN, SetAgentEnabled(a, b) PROVE HostFits'
  <2>1. agent' \in [Agent -> [enabled : BOOLEAN, definition : Definition]]
    BY <1>5 DEF SetAgentEnabled, TypesInv, HostFits
  <2> QED BY <1>5, <2>1 DEF SetAgentEnabled, TypesInv, HostFits
<1>6. ASSUME NEW a \in Agent, NEW d \in Definition, Rebind(a, d) PROVE HostFits'
  <2>1. agent' \in [Agent -> [enabled : BOOLEAN, definition : Definition]]
    BY <1>6 DEF Rebind, TypesInv, HostFits
  <2> QED BY <1>6, <2>1 DEF Rebind, TypesInv, HostFits
<1>7. ASSUME NEW s \in Scheduler, Tick(s) \/ Contention(s) \/ Crash(s) \/ Start(s) PROVE HostFits'
  <2>1. CASE MaterializeRun(s)
    <3>1. PICK a : a = Target[sch[s].command.id]
      OBVIOUS
    <3>2. sch[s].command.id \in TriggerId
      BY <2>1 DEF MaterializeRun, TypesInv, TInv, CommandsRemember
    <3>3. a \in Agent
      BY <3>1, <3>2, TriggersAssumption
    <3>4. ~QueueFull(a) /\ pending' = [pending EXCEPT ![a] = @ + 1]
      BY <2>1, <3>1 DEF MaterializeRun, WritesNothing
    <3>5. pending' \in [Agent -> 0..AgentCapacity]
      BY <3>3, <3>4, PlacesFit
    <3>6. UNCHANGED <<clock, zoneKnown, agent>>
      BY <2>1 DEF MaterializeRun, Record
    <3> QED BY <3>5, <3>6 DEF TypesInv, HostFits
  <2>2. CASE ~MaterializeRun(s)
    BY <1>7, <2>2, HostStays DEF Tick, ReadPage, Evaluate, DiscardDecision, MaterializeSkip, Record,
                                 Contention, Crash, Start
  <2> QED BY <2>1, <2>2
<1> QED BY <1>1, <1>2, <1>3, <1>4, <1>5, <1>6, <1>7 DEF Next

LEMMA TypesStep == TypesInv /\ [Next]_vars => TypesInv'
<1> SUFFICES ASSUME TypesInv, [Next]_vars PROVE TypesInv'
  OBVIOUS
<1>1. TInv' /\ HostFits'
  BY TInvStep, HostStep DEF TypesInv
<1>2. ASSUME UNCHANGED row PROVE TriggersFit'
  BY <1>2 DEF TypesInv, TriggersFit
<1>3. ASSUME UNCHANGED request PROVE AsksFit'
  BY <1>3 DEF TypesInv, AsksFit
<1>4. ASSUME UNCHANGED <<sch, occurrence>> PROVE TicksFit' /\ OccurrencesFit'
  BY <1>4 DEF TypesInv, TicksFit, OccurrencesFit
<1>5. CASE TimePasses \/ ZoneVanishes \/ UNCHANGED vars
  <2>1. UNCHANGED <<row, request, sch, occurrence>>
    BY <1>5 DEF TimePasses, ZoneVanishes, vars
  <2> QED BY <1>1, <1>2, <1>3, <1>4, <2>1 DEF TypesInv
<1>6. ASSUME NEW c \in Client, Management(c) PROVE TypesInv'
  <2>1. UNCHANGED <<sch, occurrence>>
    BY <1>6 DEF Management, BeginCreate, BeginUpdate, BeginEnable, Commit, RequestFails
  <2>2. CASE Commit(c)
    BY <1>1, <1>4, <2>1, <2>2, CommitFits DEF TypesInv
  <2>3. CASE ~Commit(c)
    <3>1. AsksFit'
      BY <1>6, <2>3, BeginFits DEF Management
    <3>2. UNCHANGED row
      BY <1>6, <2>3 DEF Management, BeginCreate, BeginUpdate, BeginEnable, RequestFails
    <3> QED BY <1>1, <1>2, <1>4, <2>1, <3>1, <3>2 DEF TypesInv
  <2> QED BY <2>2, <2>3
<1>7. ASSUME NEW t \in TriggerId, Disable(t) \/ Delete(t) PROVE TypesInv'
  <2>1. UNCHANGED <<request, sch, occurrence>>
    BY <1>7 DEF Disable, Delete
  <2> QED BY <1>1, <1>3, <1>4, <1>7, <2>1, DisableDeleteFits DEF TypesInv
<1>8. CASE \E a \in Agent : ManualSubmission(a) \/ JobSettles(a) \/ \E b \in BOOLEAN : SetAgentEnabled(a, b)
  <2>1. UNCHANGED <<row, request, sch, occurrence>>
    BY <1>8 DEF ManualSubmission, JobSettles, SetAgentEnabled
  <2> QED BY <1>1, <1>2, <1>3, <1>4, <2>1 DEF TypesInv
<1>9. CASE \E a \in Agent, d \in Definition : Rebind(a, d)
  <2>1. UNCHANGED <<row, request, sch, occurrence>>
    BY <1>9 DEF Rebind
  <2> QED BY <1>1, <1>2, <1>3, <1>4, <2>1 DEF TypesInv
<1>10. ASSUME NEW s \in Scheduler, Tick(s) \/ Contention(s) \/ Crash(s) \/ Start(s) PROVE TypesInv'
  <2>1. TicksFit'
    BY <1>10, TickStepFits
  <2>2. UNCHANGED request
    BY <1>10 DEF Tick, ReadPage, Evaluate, DiscardDecision, MaterializeSkip, MaterializeRun, Record,
                 Contention, Crash, Start
  <2>3. CASE MaterializeSkip(s) \/ MaterializeRun(s)
    BY <1>1, <1>3, <2>1, <2>2, <2>3, RecordFits DEF TypesInv
  <2>4. CASE ~(MaterializeSkip(s) \/ MaterializeRun(s))
    <3>1. UNCHANGED <<row, occurrence>>
      BY <1>10, <2>4 DEF Tick, ReadPage, Evaluate, DiscardDecision, Contention, Crash, Start
    <3>2. OccurrencesFit'
      BY <3>1 DEF TypesInv, OccurrencesFit
    <3> QED BY <1>1, <1>2, <1>3, <2>1, <2>2, <3>1, <3>2 DEF TypesInv
  <2> QED BY <2>3, <2>4
<1> QED BY <1>5, <1>6, <1>7, <1>8, <1>9, <1>10 DEF Next

\* Every fire time, nominal instant, revision, queue and memory stays in its type, and
\* rows are aligned: whatever a tick computes from a schedule is an instant.
THEOREM TriggerTypes == Spec => []TypeOK
<1>1. Spec => []TypesInv
  BY TypesInitial, TypesStep, PTL DEF Spec
<1>2. TypesInv /\ NextFireAligned => TypeOK
  <2> SUFFICES ASSUME TypesInv, NextFireAligned PROVE TypeOK
    OBVIOUS
  <2>1. ASSUME NEW t \in TriggerId
        PROVE  /\ row[t].status \in TriggerStatus /\ row[t].revision \in 0..MaxRevision
               /\ row[t].status # "absent" => row[t].schedule \in Schedule
               /\ row[t].next \in Nat /\ (row[t].enabled <=> row[t].next # NULL)
    BY DEF TypesInv, TriggersFit, RowFits, NextFireAligned, RowAligned
  <2>2. ASSUME NEW s \in Scheduler
        PROVE  /\ sch[s].pc \in {"down", "idle", "tick", "apply"}
               /\ sch[s].pc = "tick" => sch[s].page # {}
               /\ sch[s].pc = "apply" <=> sch[s].command # NoCommand
    BY DEF TypesInv, TicksFit, TickFits
  <2>3. \A o \in occurrence : o.id \in TriggerId /\ o.nominal \in Nat /\ o.skip \in SkipReason
    BY DEF TypesInv, OccurrencesFit, OccurrenceFits
  <2> QED BY <2>1, <2>2, <2>3 DEF TypesInv, HostFits, TypeOK
<1> QED BY <1>1, <1>2, AlignmentHolds, PTL

-----------------------------------------------------------------------------
(* Coalescing.                                                             *)

\* What is recorded for a schedule that recurs coalesces, and what is recorded for one
\* that does not completes it, at the fire time its row had.
CoalescesAt(o, before, next) ==
  /\ o.schedule.kind = "cron" => IsCoalesced(o.schedule.arg, o.at, o.nominal, next)
  /\ o.schedule.kind = "interval" =>
       /\ before =< o.nominal /\ o.nominal =< o.at
       /\ o.at < next /\ next - o.nominal = o.schedule.arg
  /\ o.schedule.kind = "one_time" => o.nominal = before /\ next = NULL

LEMMA DecisionCoalesces ==
  ASSUME NEW schedule \in Schedule, NEW next \in Nat, NEW now \in Nat, next =< now, now >= StartTime,
         DecideDue(schedule, next, now, TRUE).failure = "none",
         NEW o, o.schedule = schedule, o.at = now, o.nominal = DecideDue(schedule, next, now, TRUE).nominal
  PROVE  CoalescesAt(o, next, DecideDue(schedule, next, now, TRUE).next)
<1>1. PICK d : d = DecideDue(schedule, next, now, TRUE)
  OBVIOUS
<1>0. d.failure = "none" /\ Undecided("invalid").failure = "invalid" /\ Undecided("timezone").failure = "timezone"
  BY <1>1, UndecidedTimes
<1>2. CASE schedule.kind = "one_time"
  <2>1. d = Decided(next, 0)
    BY <1>1, <1>2 DEF DecideDue, CalculateOneTime, NULL
  <2>2. d.nominal = next /\ d.next = 0
    BY <2>1, DecidedTimes
  <2> QED BY <1>1, <1>2, <2>2 DEF CoalescesAt, NULL
<1>3. CASE schedule.kind = "interval"
  <2>1. d = CalculateInterval(next, schedule.arg, now)
    BY <1>1, <1>3 DEF DecideDue
  <2>2. schedule.arg \in Nat \ {0}
    BY <1>3, ScheduleFacts
  <2>3. d # Undecided("invalid")
    BY <1>0
  <2>4. next =< d.nominal /\ d.nominal =< now /\ now < d.next /\ d.next - d.nominal = schedule.arg
    BY <2>1, <2>2, <2>3, IntervalDecision
  <2> QED BY <1>1, <1>3, <2>4 DEF CoalescesAt
<1>4. CASE schedule.kind = "cron"
  <2>1. d = CalculateCron(next, schedule.arg, now)
    BY <1>1, <1>4 DEF DecideDue
  <2>2. schedule.arg \in 0..(CronPeriod - 1) /\ now \in Int
    BY <1>4, ScheduleFacts
  <2>3. PICK nominal, after : /\ nominal = ResolveLocal(AtOrBefore(schedule.arg, WallOf(now)))
                              /\ after = ResolveLocal(NextAfter(schedule.arg, WallOf(now)))
    OBVIOUS
  <2>4. nominal \in Int /\ after \in Int
    BY <2>2, <2>3, CronInstants
  <2>5. /\ ~((nominal > next /\ nominal > now) \/ after =< now)
        /\ d = Decided(nominal, after)
    BY <1>0, <2>1, <2>3 DEF CalculateCron
  <2>6. nominal =< now /\ now < after
    BY <2>4, <2>5
  <2>7. IsCoalesced(schedule.arg, now, nominal, after)
    BY <2>2, <2>3, <2>6, CronCoalesces
  <2>8. d.nominal = nominal /\ d.next = after
    BY <2>5, DecidedTimes
  <2> QED BY <1>1, <1>4, <2>7, <2>8 DEF CoalescesAt
<1> QED BY <1>2, <1>3, <1>4, ScheduleFacts DEF ScheduleKind

LEMMA RecordCoalesces ==
  ASSUME AgreementInv, TypesInv, [Next]_vars, NEW o \in Recorded, o.skip \in {"none", "agent_disabled"}
  PROVE  /\ o.id \in TriggerId /\ o.schedule = row[o.id].schedule
         /\ row[o.id].status = "live" /\ row[o.id].enabled
         /\ CoalescesAt(o, row[o.id].next, row'[o.id].next)
<1>1. occurrence' # occurrence
  BY DEF Recorded
<1>2. PICK s \in Scheduler : MaterializeSkip(s) \/ MaterializeRun(s)
  <2>1. PICK s \in Scheduler : Tick(s) \/ Contention(s) \/ Crash(s) \/ Start(s)
    BY <1>1, OthersLeave
  <2> QED BY <1>1, <2>1 DEF Tick, ReadPage, Evaluate, DiscardDecision, Contention, Crash, Start
<1>3. PICK r : r = row[o.id]
  OBVIOUS
<1>4. PICK d : d = DecideDue(r.schedule, r.next, o.at, TRUE)
  OBVIOUS
<1>5. /\ o.id \in TriggerId /\ r.status = "live" /\ r.enabled
      /\ o.schedule = r.schedule /\ o.at = sch[s].now /\ ~(r.next > o.at)
      /\ d.failure = "none" /\ o.nominal = d.nominal /\ row'[o.id].next = d.next
  BY <1>2, <1>3, <1>4, RecordsCurrentRow
<1>6. r.schedule \in Schedule /\ r.next \in Nat
  BY <1>3, <1>5 DEF TypesInv, TriggersFit, RowFits
<1>7. o.at \in Nat /\ o.at >= StartTime
  BY <1>2, <1>5 DEF TypesInv, TicksFit, TickFits, MaterializeSkip, MaterializeRun
<1>8. r.next =< o.at
  BY <1>5, <1>6, <1>7
<1>9. CoalescesAt(o, r.next, d.next)
  BY <1>4, <1>5, <1>6, <1>7, <1>8, DecisionCoalesces
<1> QED BY <1>3, <1>5, <1>9

\* Misfires of a recurring schedule coalesce, for any number of Schedulers and requests:
\* the occurrence is for the last instant not after the tick, the next fire time is the
\* first one after it, and nothing between them was owed (calculate_cron,
\* calculate_interval, resolve_local).  A one-time schedule is completed at the fire time
\* of its row.
CoalescesAtTick ==
  [][\A o \in Recorded : o.skip \in {"none", "agent_disabled"} =>
       CoalescesAt(o, row[o.id].next, row'[o.id].next)]_vars

THEOREM CoalescesAtTickHolds == Spec => CoalescesAtTick
<1>1. AgreementInv /\ TypesInv /\ [Next]_vars =>
        [\A o \in Recorded : o.skip \in {"none", "agent_disabled"} =>
           CoalescesAt(o, row[o.id].next, row'[o.id].next)]_vars
  BY RecordCoalesces
<1>2. Spec => []AgreementInv
  BY AgreementInitial, AgreementStep, PTL DEF Spec
<1>3. Spec => []TypesInv
  BY TypesInitial, TypesStep, PTL DEF Spec
<1> QED BY <1>1, <1>2, <1>3, PTL DEF Spec, CoalescesAtTick

-----------------------------------------------------------------------------
(***************************************************************************)
(* Proofs about Workflows, for any number of workflows, budgets, signals   *)
(* and edits: the steps of a workflow form one chain of committed          *)
(* revisions, no step passes a decision its owner did not approve, limits  *)
(* hold over its whole life, and a finished workflow is final.             *)
(*                                                                         *)
(* No action writes the rows of two workflows, so the invariant is stated  *)
(* of one row and of the steps, checkpoints, decisions and signals that    *)
(* belong to it, without naming a variable.                                *)
(***************************************************************************)

StepRow == [run : StepRunEnded \cup {"created", "running"}, rev : Nat, state : Nat, status : StepStatus]
DecisionRow == [rev : Nat, state : DecisionState, expires : Nat]

\* The chain: the row counts its steps, all but the last are settled, and the
\* status of the row says whether the last one is still out.
Chained(entry, st) ==
  /\ entry \in WorkflowRow /\ st \in Seq(StepRow)
  /\ entry.steps = Len(st) /\ Len(st) # 0
  /\ \A i \in 1..Len(st) : st[i].rev = i - 1 /\ st[i].state = i - 1
  /\ \A i \in 1..Len(st) : i # Len(st) \/ entry.rev = entry.steps => st[i].status = "succeeded" /\ st[i].run = "succeeded"
  /\ entry.rev \in {entry.steps - 1, entry.steps}
  /\ entry.status = "running" => entry.rev = entry.steps - 1 /\ st[Len(st)].status = "running"
  /\ entry.status \in {"runnable", "waiting"} => entry.rev = entry.steps
  /\ entry.status # "pending"
  /\ st[Len(st)].run \notin StepRunEnded => entry.status \in {"running", "cancelled"}
  /\ (entry.status = "waiting") <=> (entry.wait # "none")

\* What was drawn is what the steps cost, within the budget.
WithinBudget(entry) ==
  /\ entry.reserved = entry.steps * StepClaim
  /\ entry.reserved <= entry.budget.reservation
  /\ entry.steps <= entry.budget.steps

\* The newest checkpoint is kept, and it is the one the next step reads.
Checkpointed(entry, kept) ==
  /\ \A c \in kept : c.rev \in 1..entry.rev /\ c.step = c.rev
  /\ entry.rev # 0 => [rev |-> entry.rev, step |-> entry.rev] \in kept

\* One decision per revision; consumed exactly when the step behind it exists;
\* the decision about the newest revision is what the row waits for.
Asked(entry, asked) ==
  /\ asked \subseteq DecisionRow
  /\ \A d, e \in asked : d.rev = e.rev => d = e
  /\ \A d \in asked : d.rev + 1 <= entry.rev /\ (d.state = "consumed" <=> d.rev + 2 <= entry.steps)
  /\ \A d \in asked : d.rev + 1 = entry.rev =>
        /\ entry.status = "waiting" => entry.wait = "owner_decision" /\ d.state = "pending"
        /\ entry.status = "runnable" => d.state = "approved"

\* At most one signal per revision, and none yet for the one that is waiting.
Woken(entry, heard) ==
  /\ \A s \in heard : s.rev \in Nat /\ s.rev <= entry.rev /\ (entry.status = "waiting" => s.rev < entry.rev)
  /\ \A s, t \in heard : s.rev = t.rev => s = t

Fits(entry, st, kept, asked, heard) ==
  Chained(entry, st) /\ WithinBudget(entry) /\ Checkpointed(entry, kept) /\ Asked(entry, asked) /\ Woken(entry, heard)

Untouched(st, kept, asked, heard) == st = <<>> /\ kept = {} /\ asked = {} /\ heard = {}

RowsFit ==
  \A w \in Workflow :
     IF wf[w] = Absent THEN Untouched(steps[w], checkpoints[w], decisions[w], signals[w])
     ELSE Fits(wf[w], steps[w], checkpoints[w], decisions[w], signals[w])

Tables ==
  /\ DOMAIN wf = Workflow /\ DOMAIN steps = Workflow /\ DOMAIN checkpoints = Workflow
  /\ DOMAIN decisions = Workflow /\ DOMAIN signals = Workflow
  /\ wfAgent \in [Workflow -> [enabled : BOOLEAN, config : Nat, resolvable : BOOLEAN]]
  /\ instant \in Nat

Active == {w \in Workflow : Exists(w) /\ wf[w].status \in WfActive}
FewActive == IsFiniteSet(Active) /\ Cardinality(Active) <= MaxActive

WInv == Tables /\ RowsFit /\ FewActive

-----------------------------------------------------------------------------
\* Rows.

\* The columns of a row; a row that exists is not the absent one.
LEMMA RowColumns ==
  ASSUME NEW entry \in WorkflowRow
  PROVE  /\ entry.status \in WfTerminal \cup WfActive /\ entry.rev \in Nat /\ entry.steps \in Nat
         /\ entry.budget \in Budgets /\ entry.reserved \in Nat /\ entry.wait \in WaitKind
         /\ entry # Absent
<1>1. entry.status # "absent"
  BY DEF WorkflowRow, WfTerminal, WfActive
<1>2. entry # Absent
  BY <1>1 DEF Absent
<1> QED BY <1>2 DEF WorkflowRow

\* Moving a row clears its wait and keeps what it counts.
LEMMA MovedRow ==
  ASSUME NEW entry \in WorkflowRow, NEW status \in WfTerminal \cup WfActive, NEW next, next = Moved(entry, status)
  PROVE  /\ next \in WorkflowRow /\ next.status = status /\ next.wait = "none"
         /\ next.rev = entry.rev /\ next.steps = entry.steps /\ next.budget = entry.budget
         /\ next.reserved = entry.reserved
BY DEF Moved, WorkflowRow, WaitKind

\* Drawing a step from the budget.
Drawn(entry) == [Moved(entry, "running") EXCEPT !.steps = entry.steps + 1, !.reserved = entry.reserved + StepClaim]

LEMMA DispatchedRow ==
  ASSUME NEW entry \in WorkflowRow
  PROVE  /\ Drawn(entry) \in WorkflowRow /\ Drawn(entry).status = "running" /\ Drawn(entry).wait = "none"
         /\ Drawn(entry).rev = entry.rev /\ Drawn(entry).steps = entry.steps + 1
         /\ Drawn(entry).budget = entry.budget /\ Drawn(entry).reserved = entry.reserved + StepClaim
<1>1. PICK count \in Nat, drawn \in Nat : count = entry.steps + 1 /\ drawn = entry.reserved + StepClaim
  BY RowColumns, WorkflowConstants
<1>2. Drawn(entry) = [entry EXCEPT !.status = "running", !.wait = "none", !.wakeup = 0, !.key = "none",
                               !.steps = count, !.reserved = drawn]
  BY <1>1 DEF Drawn, Moved, WorkflowRow
<1> DEFINE next == Drawn(entry)
<1> HIDE DEF next
<1>3. /\ next \in WorkflowRow /\ next.status = "running" /\ next.wait = "none" /\ next.rev = entry.rev
      /\ next.steps = count /\ next.budget = entry.budget /\ next.reserved = drawn
  <2>1. next = [entry EXCEPT !.status = "running", !.wait = "none", !.wakeup = 0, !.key = "none",
                           !.steps = count, !.reserved = drawn]
    BY <1>2 DEF next
  <2>2. next \in WorkflowRow
    BY <2>1 DEF WorkflowRow, WaitKind, WfActive
  <2> QED BY <2>1, <2>2 DEF WorkflowRow
<1> QED BY <1>1, <1>3 DEF next

\* A revision more, and the wait the directive asks for.
LEMMA DirectedRow ==
  ASSUME NEW entry \in WorkflowRow, entry.status = "running", entry.wait = "none", NEW dir \in Directives,
         NEW next, next = Directed([entry EXCEPT !.rev = entry.rev + 1], dir)
  PROVE  /\ next \in WorkflowRow /\ next.rev = entry.rev + 1 /\ next.steps = entry.steps
         /\ next.budget = entry.budget /\ next.reserved = entry.reserved
         /\ next.status \in {"succeeded", "runnable", "waiting"}
         /\ (next.status = "waiting") <=> (next.wait # "none")
         /\ dir.kind = "owner_decision" => next.status = "waiting" /\ next.wait = "owner_decision"
<1> DEFINE later == [entry EXCEPT !.rev = entry.rev + 1]
<1>1. /\ later \in WorkflowRow /\ later.rev = entry.rev + 1 /\ later.steps = entry.steps
      /\ later.budget = entry.budget /\ later.reserved = entry.reserved /\ later.wait = "none"
  BY DEF WorkflowRow
<1>2. next = Directed(later, dir)
  OBVIOUS
<1> HIDE DEF later
<1>3. CASE dir.kind = "complete"
  BY <1>1, <1>2, <1>3 DEF Directed, WorkflowRow, WfTerminal
<1>4. CASE dir.kind = "next"
  BY <1>1, <1>2, <1>4 DEF Directed, WorkflowRow, WfActive
<1>5. CASE dir.kind = "time"
  <2>1. dir.wakeup \in Nat
    BY <1>5, WorkflowConstants DEF Directives
  <2>2. next = [later EXCEPT !.status = "waiting", !.wait = "time", !.wakeup = dir.wakeup]
    BY <1>2, <1>5 DEF Directed
  <2> QED BY <1>1, <1>5, <2>1, <2>2, ZenonT(30) DEF WorkflowRow, WfActive, WaitKind
<1>6. CASE dir.kind = "signal"
  <2>1. dir.key \in SignalKeys
    BY <1>6 DEF Directives
  <2>2. next = [later EXCEPT !.status = "waiting", !.wait = "signal", !.key = dir.key]
    BY <1>2, <1>6 DEF Directed
  <2> QED BY <1>1, <1>6, <2>1, <2>2, ZenonT(30) DEF WorkflowRow, WfActive, WaitKind
<1>7. CASE dir.kind = "owner_decision"
  <2>1. next = [later EXCEPT !.status = "waiting", !.wait = "owner_decision"]
    BY <1>2, <1>7 DEF Directed
  <2> QED BY <1>1, <1>7, <2>1 DEF WorkflowRow, WfActive, WaitKind
<1> QED BY <1>3, <1>4, <1>5, <1>6, <1>7 DEF Directives

\* What depends on fewer columns survives a change of the others.
LEMMA PartsStay ==
  ASSUME NEW entry \in WorkflowRow, NEW next \in WorkflowRow, NEW kept, NEW heard,
         next.rev = entry.rev, next.steps = entry.steps, next.budget = entry.budget,
         next.reserved = entry.reserved, next.status = "waiting" => entry.status = "waiting"
  PROVE  /\ WithinBudget(entry) => WithinBudget(next)
         /\ Checkpointed(entry, kept) => Checkpointed(next, kept)
         /\ Woken(entry, heard) => Woken(next, heard)
BY DEF WithinBudget, Checkpointed, Woken

\* A row that leaves waiting or running for good, or for "runnable".
LEMMA ChainStays ==
  ASSUME NEW entry, NEW st, Chained(entry, st), NEW next \in WorkflowRow,
         next.rev = entry.rev, next.steps = entry.steps, next.wait = "none", next.status \notin {"waiting", "running", "pending"},
         next.status = "runnable" => entry.rev = entry.steps,
         next.status = "cancelled" \/ st[Len(st)].run \in StepRunEnded
  PROVE  Chained(next, st)
BY DEF Chained

\* The decisions of a row that moves to a final status.
LEMMA DecisionsRest ==
  ASSUME NEW entry, NEW asked, Asked(entry, asked), NEW next,
         next.rev = entry.rev, next.steps = entry.steps, next.status \notin {"waiting", "runnable"}
  PROVE  Asked(next, asked)
BY DEF Asked

\* The latest checkpoint is the one of the row's revision.
LEMMA LatestIsNewest ==
  ASSUME NEW entry \in WorkflowRow, NEW kept, Checkpointed(entry, kept)
  PROVE  (IF kept = {} THEN 0 ELSE (CHOOSE c \in kept : \A o \in kept : o.rev <= c.rev).step) = entry.rev
<1>1. entry.rev \in Nat
  BY RowColumns
<1>2. CASE kept = {}
  BY <1>1, <1>2 DEF Checkpointed
<1>3. CASE kept # {}
  <2>1. entry.rev # 0
    BY <1>1, <1>3 DEF Checkpointed
  <2> DEFINE newest == [rev |-> entry.rev, step |-> entry.rev]
  <2>2. newest \in kept /\ \A o \in kept : o.rev <= newest.rev
    BY <1>1, <2>1 DEF Checkpointed
  <2> DEFINE c == CHOOSE x \in kept : \A o \in kept : o.rev <= x.rev
  <2>3. c \in kept /\ \A o \in kept : o.rev <= c.rev
    BY <2>2
  <2>4. newest.rev = entry.rev
    OBVIOUS
  <2> HIDE DEF newest, c
  <2>5. c.rev = entry.rev /\ c.step = c.rev
    BY <1>1, <2>2, <2>3, <2>4 DEF Checkpointed
  <2> QED BY <1>3, <2>5 DEF c
<1> QED BY <1>2, <1>3

-----------------------------------------------------------------------------
\* Steps.

LEMMA StepColumns ==
  ASSUME NEW s \in StepRow
  PROVE  /\ s.run \in StepRunEnded \cup {"created", "running"} /\ s.rev \in Nat /\ s.state \in Nat
         /\ s.status \in StepStatus
BY DEF StepRow

\* Only the last step is written.
LEMMA LastStepMoves ==
  ASSUME NEW st \in Seq(StepRow), Len(st) # 0, NEW last \in StepRow,
         NEW next, next = [st EXCEPT ![Len(st)] = last]
  PROVE  /\ next \in Seq(StepRow) /\ Len(next) = Len(st) /\ next[Len(st)] = last
         /\ \A i \in 1..Len(st) : i # Len(st) => next[i] = st[i]
OBVIOUS

\* A chain whose last step moves on while its row stays.
LEMMA ChainMoves ==
  ASSUME NEW entry, NEW st, Chained(entry, st), NEW last \in StepRow,
         last.rev = st[Len(st)].rev, last.state = st[Len(st)].state,
         entry.rev # entry.steps, entry.status = "running" => last.status = "running",
         last.run \notin StepRunEnded => entry.status \in {"running", "cancelled"},
         NEW next, next = [st EXCEPT ![Len(st)] = last]
  PROVE  Chained(entry, next)
<1>1. /\ next \in Seq(StepRow) /\ Len(next) = Len(st) /\ next[Len(st)] = last
      /\ \A i \in 1..Len(st) : i # Len(st) => next[i] = st[i]
  BY LastStepMoves DEF Chained
<1>2. Len(st) \in Nat /\ Len(st) \in 1..Len(st) /\ entry.steps = Len(st)
  BY DEF Chained
<1>3. ASSUME NEW i \in 1..Len(next) PROVE next[i].rev = i - 1 /\ next[i].state = i - 1
  <2>1. st[i].rev = i - 1 /\ st[i].state = i - 1
    BY <1>1 DEF Chained
  <2>2. CASE i = Len(st)
    BY <1>1, <2>1, <2>2
  <2>3. CASE i # Len(st)
    BY <1>1, <2>1, <2>3
  <2> QED BY <2>2, <2>3
<1>4. \A i \in 1..Len(next) : i # Len(next) \/ entry.rev = entry.steps =>
         next[i].status = "succeeded" /\ next[i].run = "succeeded"
  BY <1>1, <1>2 DEF Chained
<1>5. /\ entry \in WorkflowRow /\ entry.rev \in {entry.steps - 1, entry.steps} /\ entry.status # "pending"
      /\ entry.status = "running" => entry.rev = entry.steps - 1
      /\ entry.status \in {"runnable", "waiting"} => entry.rev = entry.steps
      /\ (entry.status = "waiting") <=> (entry.wait # "none")
  BY DEF Chained
<1>6. /\ entry.status = "running" => next[Len(next)].status = "running"
      /\ next[Len(next)].run \notin StepRunEnded => entry.status \in {"running", "cancelled"}
  BY <1>1
<1> QED BY <1>1, <1>2, <1>3, <1>4, <1>5, <1>6 DEF Chained

\* A step whose Run is not over is running, and its row has not moved past it.
LEMMA LiveStep ==
  ASSUME NEW entry, NEW st, Chained(entry, st), st[Len(st)].run \notin StepRunEnded
  PROVE  entry.rev # entry.steps /\ entry.rev = entry.steps - 1 /\ entry.status \in {"running", "cancelled"}
<1>1. Len(st) \in 1..Len(st) /\ "succeeded" \in StepRunEnded
  BY DEF Chained, StepRunEnded
<1> QED BY <1>1 DEF Chained

-----------------------------------------------------------------------------
\* Decisions.

LEMMA DecisionColumns ==
  ASSUME NEW d \in DecisionRow
  PROVE  d.rev \in Nat /\ d.state \in DecisionState
BY DEF DecisionRow

\* Some decisions are given another state: each keeps its revision, so there is
\* still one per revision.
Rewritten(asked, some, state) == (asked \ some) \cup {[d EXCEPT !.state = state] : d \in some}

LEMMA RewrittenDecisions ==
  ASSUME NEW asked, asked \subseteq DecisionRow, \A d, e \in asked : d.rev = e.rev => d = e,
         NEW some, some \subseteq asked, NEW state \in DecisionState
  PROVE  /\ Rewritten(asked, some, state) \subseteq DecisionRow
         /\ \A e \in Rewritten(asked, some, state) :
               \/ e \in asked \ some
               \/ \E d \in some : e.rev = d.rev /\ e.state = state
         /\ \A d, e \in Rewritten(asked, some, state) : d.rev = e.rev => d = e
<1>1. \A d \in some : /\ [d EXCEPT !.state = state] \in DecisionRow
                      /\ [d EXCEPT !.state = state].rev = d.rev /\ [d EXCEPT !.state = state].state = state
  BY DEF DecisionRow
<1>2. \A e \in Rewritten(asked, some, state) :
         e \in asked \ some \/ \E d \in some : e = [d EXCEPT !.state = state]
  BY DEF Rewritten
<1>3. ASSUME NEW d \in Rewritten(asked, some, state), NEW e \in Rewritten(asked, some, state), d.rev = e.rev
      PROVE  d = e
  <2>1. CASE d \in asked \ some /\ e \in asked \ some
    BY <1>3, <2>1
  <2>2. ASSUME NEW x \in some, d = [x EXCEPT !.state = state], e \in asked \ some PROVE FALSE
    BY <1>1, <1>3, <2>2
  <2>3. ASSUME NEW x \in some, e = [x EXCEPT !.state = state], d \in asked \ some PROVE FALSE
    BY <1>1, <1>3, <2>3
  <2>4. ASSUME NEW x \in some, d = [x EXCEPT !.state = state], NEW y \in some, e = [y EXCEPT !.state = state]
        PROVE  d = e
    <3>1. x.rev = y.rev
      BY <1>1, <1>3, <2>4
    <3> QED BY <2>4, <3>1
  <2> QED BY <1>2, <2>1, <2>2, <2>3, <2>4
<1>4. Rewritten(asked, some, state) \subseteq DecisionRow
  BY <1>1, <1>2
<1>5. ASSUME NEW e \in Rewritten(asked, some, state)
      PROVE  e \in asked \ some \/ \E d \in some : e.rev = d.rev /\ e.state = state
  <2>1. ASSUME NEW x \in some, e = [x EXCEPT !.state = state] PROVE e.rev = x.rev /\ e.state = state
    BY <1>1, <2>1
  <2> QED BY <1>2, <2>1
<1> QED BY <1>3, <1>4, <1>5

\* Decisions that were not consumed are rewritten, and the row is final or stays.
LEMMA RewrittenRest ==
  ASSUME NEW entry, NEW asked, Asked(entry, asked), NEW some, some \subseteq asked,
         NEW state \in DecisionState \ {"consumed"}, \A d \in some : d.state # "consumed",
         NEW next, next.rev = entry.rev, next.steps = entry.steps, next.status \notin {"waiting", "runnable"}
  PROVE  Asked(next, Rewritten(asked, some, state))
<1>1. asked \subseteq DecisionRow /\ \A d, e \in asked : d.rev = e.rev => d = e
  BY DEF Asked
<1> DEFINE after == Rewritten(asked, some, state)
<1>2. /\ after \subseteq DecisionRow /\ \A d, e \in after : d.rev = e.rev => d = e
      /\ \A e \in after : e \in asked \ some \/ \E d \in some : e.rev = d.rev /\ e.state = state
  BY <1>1, RewrittenDecisions
<1> HIDE DEF after
<1>3. \A e \in after : e.rev + 1 <= next.rev /\ (e.state = "consumed" <=> e.rev + 2 <= next.steps)
  BY <1>2 DEF Asked
<1>4. Asked(next, after)
  BY <1>2, <1>3 DEF Asked
<1> QED BY <1>4 DEF after

-----------------------------------------------------------------------------
\* What each operation makes of one workflow.

LEMMA CreatedFits ==
  ASSUME NEW b \in Budgets, StepClaim <= b.reservation, NEW deadline \in Nat, NEW config \in Nat, NEW entry,
         entry = [status |-> "running", paused |-> FALSE, rev |-> 0, steps |-> 1, budget |-> b,
                reserved |-> StepClaim, deadline |-> deadline, config |-> config,
                wait |-> "none", wakeup |-> 0, key |-> "none", reason |-> "none"]
  PROVE  Fits(entry, <<NewStep(0, 0)>>, {}, {}, {})
<1>1. StepClaim \in Nat /\ b.steps \in Nat \ {0} /\ b.reservation \in Nat
  BY WorkflowConstants
<1>2. entry \in WorkflowRow
  BY <1>1 DEF WorkflowRow, WfActive, WaitKind, ReviewReason
<1>3. /\ entry.status = "running" /\ entry.rev = 0 /\ entry.steps = 1 /\ entry.budget = b /\ entry.reserved = StepClaim
      /\ entry.wait = "none"
  OBVIOUS
<1> DEFINE st == <<NewStep(0, 0)>>
<1>4. /\ NewStep(0, 0) \in StepRow /\ NewStep(0, 0).rev = 0 /\ NewStep(0, 0).state = 0
      /\ NewStep(0, 0).status = "running"
  BY DEF NewStep, StepRow, StepStatus
<1>5. st \in Seq(StepRow) /\ Len(st) = 1 /\ st[1] = NewStep(0, 0)
  BY <1>4
<1> HIDE DEF st
<1>6. Chained(entry, st)
  BY <1>2, <1>3, <1>4, <1>5 DEF Chained
<1>7. WithinBudget(entry)
  BY <1>1, <1>3 DEF WithinBudget
<1>8. Checkpointed(entry, {}) /\ Asked(entry, {}) /\ Woken(entry, {})
  BY <1>3 DEF Checkpointed, Asked, Woken
<1> QED BY <1>6, <1>7, <1>8 DEF Fits, st

LEMMA PausedFits ==
  ASSUME NEW entry, NEW st, NEW kept, NEW asked, NEW heard, Fits(entry, st, kept, asked, heard), NEW flag \in BOOLEAN
  PROVE  Fits([entry EXCEPT !.paused = flag], st, kept, asked, heard)
<1> DEFINE next == [entry EXCEPT !.paused = flag]
<1>1. entry \in WorkflowRow
  BY DEF Fits, Chained
<1>2. /\ next \in WorkflowRow /\ next.status = entry.status /\ next.wait = entry.wait /\ next.rev = entry.rev
      /\ next.steps = entry.steps /\ next.budget = entry.budget /\ next.reserved = entry.reserved
  BY <1>1 DEF WorkflowRow
<1> HIDE DEF next
<1>3. WithinBudget(next) /\ Checkpointed(next, kept) /\ Woken(next, heard)
  BY <1>1, <1>2, PartsStay DEF Fits
<1>4. Chained(next, st)
  BY <1>2 DEF Fits, Chained
<1>5. Asked(next, asked)
  BY <1>2 DEF Fits, Asked
<1>6. Fits(next, st, kept, asked, heard)
  BY <1>3, <1>4, <1>5 DEF Fits
<1> QED BY <1>6 DEF next

\* The owner cancels: the row ends, undecided questions are withdrawn.
Withdrawn(asked) == {IF d.state = "pending" THEN [d EXCEPT !.state = "cancelled"] ELSE d : d \in asked}

LEMMA CancelledFits ==
  ASSUME NEW entry, NEW st, NEW kept, NEW asked, NEW heard, Fits(entry, st, kept, asked, heard)
  PROVE  Fits(Moved(entry, "cancelled"), st, kept, Withdrawn(asked), heard)
<1> DEFINE next == Moved(entry, "cancelled")
           open == {d \in asked : d.state = "pending"}
           after == Withdrawn(asked)
<1>1. entry \in WorkflowRow /\ Asked(entry, asked) /\ Chained(entry, st)
  BY DEF Fits, Chained
<1>2. /\ next \in WorkflowRow /\ next.status = "cancelled" /\ next.wait = "none" /\ next.rev = entry.rev
      /\ next.steps = entry.steps /\ next.budget = entry.budget /\ next.reserved = entry.reserved
  BY <1>1, MovedRow DEF WfTerminal
<1>3. after = Rewritten(asked, open, "cancelled")
  <2>1. after \subseteq Rewritten(asked, open, "cancelled")
    BY DEF Rewritten, Withdrawn
  <2>2. Rewritten(asked, open, "cancelled") \subseteq after
    BY DEF Rewritten, Withdrawn
  <2> QED BY <2>1, <2>2
<1>4. open \subseteq asked /\ (\A d \in open : d.state # "consumed") /\ "cancelled" \in DecisionState \ {"consumed"}
  BY DEF DecisionState
<1> HIDE DEF next, open, after
<1>5. Asked(next, after)
  BY <1>1, <1>2, <1>3, <1>4, RewrittenRest
<1>6. WithinBudget(next) /\ Checkpointed(next, kept) /\ Woken(next, heard)
  BY <1>1, <1>2, PartsStay DEF Fits
<1>7. Chained(next, st)
  BY <1>1, <1>2, ChainStays
<1>8. Fits(next, st, kept, after, heard)
  BY <1>5, <1>6, <1>7 DEF Fits
<1> QED BY <1>8 DEF next, after

\* A signal the workflow waits for makes it runnable.
LEMMA SignalledFits ==
  ASSUME NEW entry, NEW st, NEW kept, NEW asked, NEW heard, Fits(entry, st, kept, asked, heard),
         entry.status = "waiting", entry.wait = "signal", NEW key, NEW payload
  PROVE  Fits(Moved(entry, "runnable"), st, kept, asked,
              heard \cup {[key |-> key, payload |-> payload, rev |-> entry.rev]})
<1> DEFINE next == Moved(entry, "runnable")
           signal == [key |-> key, payload |-> payload, rev |-> entry.rev]
<1>1. entry \in WorkflowRow /\ Asked(entry, asked) /\ Chained(entry, st) /\ entry.rev \in Nat /\ entry.steps \in Nat
  BY RowColumns DEF Fits, Chained
<1>2. /\ next \in WorkflowRow /\ next.status = "runnable" /\ next.wait = "none" /\ next.rev = entry.rev
      /\ next.steps = entry.steps /\ next.budget = entry.budget /\ next.reserved = entry.reserved
  BY <1>1, MovedRow DEF WfActive
<1>3. signal.rev = entry.rev
  OBVIOUS
<1> HIDE DEF next, signal
<1>4. Asked(next, asked)
  BY <1>1, <1>2 DEF Asked
<1>5. WithinBudget(next) /\ Checkpointed(next, kept)
  BY <1>1, <1>2, PartsStay DEF Fits
<1>6. Woken(next, heard \cup {signal})
  BY <1>1, <1>2, <1>3 DEF Woken, Fits
<1>7. Chained(next, st)
  <2>1. entry.rev = entry.steps /\ st[Len(st)].run \in StepRunEnded
    BY <1>1 DEF Chained
  <2> QED BY <1>1, <1>2, <2>1, ChainStays
<1>8. Fits(next, st, kept, asked, heard \cup {signal})
  BY <1>4, <1>5, <1>6, <1>7 DEF Fits
<1> QED BY <1>8 DEF next, signal

\* The owner decides what the workflow waits for.
LEMMA DecidedFits ==
  ASSUME NEW entry, NEW st, NEW kept, NEW asked, NEW heard, Fits(entry, st, kept, asked, heard),
         NEW d \in asked, d.state = "pending", entry.status = "waiting", entry.rev = d.rev + 1,
         NEW answer, NEW status,
         (answer = "approved" /\ status = "runnable") \/ (answer = "denied" /\ status = "cancelled")
  PROVE  Fits(Moved(entry, status), st, kept, Rewritten(asked, {d}, answer), heard)
<1> DEFINE next == Moved(entry, status)
           after == Rewritten(asked, {d}, answer)
<1>1. /\ entry \in WorkflowRow /\ Asked(entry, asked) /\ Chained(entry, st) /\ entry.rev \in Nat /\ entry.steps \in Nat
      /\ d.rev \in Nat /\ asked \subseteq DecisionRow
  BY RowColumns, DecisionColumns DEF Fits, Chained, Asked
<1>2. /\ next \in WorkflowRow /\ next.status = status /\ next.wait = "none" /\ next.rev = entry.rev
      /\ next.steps = entry.steps /\ next.budget = entry.budget /\ next.reserved = entry.reserved
  BY <1>1, MovedRow DEF WfActive, WfTerminal
<1>3. answer \in DecisionState \ {"consumed"} /\ {d} \subseteq asked
  BY DEF DecisionState
<1>4. /\ after \subseteq DecisionRow /\ \A e, f \in after : e.rev = f.rev => e = f
      /\ \A e \in after : e \in asked \ {d} \/ (e.rev = d.rev /\ e.state = answer)
  <2>1. \A e, f \in asked : e.rev = f.rev => e = f
    BY <1>1 DEF Asked
  <2>2. /\ after \subseteq DecisionRow /\ \A e, f \in after : e.rev = f.rev => e = f
        /\ \A e \in after : e \in asked \ {d} \/ \E x \in {d} : e.rev = x.rev /\ e.state = answer
    BY <1>1, <1>3, <2>1, RewrittenDecisions
  <2> HIDE DEF after
  <2> QED BY <2>2
<1> HIDE DEF next, after
<1>5. Asked(next, after)
  <2>1. \A e \in after : e.rev + 1 <= next.rev /\ (e.state = "consumed" <=> e.rev + 2 <= next.steps)
    BY <1>1, <1>2, <1>3, <1>4 DEF Asked
  <2>2. \A e \in after : e.rev + 1 = next.rev /\ next.status = "runnable" => e.state = "approved"
    <3> SUFFICES ASSUME NEW e \in after, e.rev + 1 = next.rev, next.status = "runnable" PROVE e.state = "approved"
      OBVIOUS
    <3>1. e.rev = d.rev
      BY <1>1, <1>2, <1>4, DecisionColumns
    <3>2. e \notin asked \ {d}
      BY <1>1, <3>1 DEF Asked
    <3> QED BY <1>2, <1>4, <3>2
  <2> QED BY <1>2, <1>4, <2>1, <2>2 DEF Asked
<1>6. WithinBudget(next) /\ Checkpointed(next, kept) /\ Woken(next, heard)
  BY <1>1, <1>2, PartsStay DEF Fits
<1>7. Chained(next, st)
  <2>1. entry.rev = entry.steps /\ st[Len(st)].run \in StepRunEnded
    BY <1>1 DEF Chained
  <2> QED BY <1>1, <1>2, <2>1, ChainStays
<1>8. Fits(next, st, kept, after, heard)
  BY <1>5, <1>6, <1>7 DEF Fits
<1> QED BY <1>8 DEF next, after

\* The owner decides too late for the row: only the decision is written.
LEMMA DecidedLateFits ==
  ASSUME NEW entry, NEW st, NEW kept, NEW asked, NEW heard, Fits(entry, st, kept, asked, heard),
         NEW d \in asked, d.state = "pending",
         ~(entry.status = "waiting" /\ entry.wait = "owner_decision" /\ entry.rev = d.rev + 1),
         NEW answer \in {"approved", "denied"}
  PROVE  Fits(entry, st, kept, Rewritten(asked, {d}, answer), heard)
<1> DEFINE after == Rewritten(asked, {d}, answer)
<1>1. /\ entry \in WorkflowRow /\ Asked(entry, asked) /\ entry.rev \in Nat /\ entry.steps \in Nat
      /\ d.rev \in Nat /\ asked \subseteq DecisionRow
  BY RowColumns, DecisionColumns DEF Fits, Chained, Asked
<1>2. answer \in DecisionState \ {"consumed"} /\ {d} \subseteq asked
  BY DEF DecisionState
<1>3. /\ after \subseteq DecisionRow /\ \A e, f \in after : e.rev = f.rev => e = f
      /\ \A e \in after : e \in asked \ {d} \/ (e.rev = d.rev /\ e.state = answer)
  <2>1. \A e, f \in asked : e.rev = f.rev => e = f
    BY <1>1 DEF Asked
  <2>2. /\ after \subseteq DecisionRow /\ \A e, f \in after : e.rev = f.rev => e = f
        /\ \A e \in after : e \in asked \ {d} \/ \E x \in {d} : e.rev = x.rev /\ e.state = answer
    BY <1>1, <1>2, <2>1, RewrittenDecisions
  <2> HIDE DEF after
  <2> QED BY <2>2
<1> HIDE DEF after
<1>4. d.rev + 1 = entry.rev => entry.status # "waiting" /\ entry.status # "runnable"
  BY <1>1 DEF Asked
<1>5. \A e \in after : e.rev + 1 <= entry.rev /\ (e.state = "consumed" <=> e.rev + 2 <= entry.steps)
  BY <1>1, <1>2, <1>3 DEF Asked
<1>6. \A e \in after : e.rev + 1 = entry.rev =>
         /\ entry.status = "waiting" => entry.wait = "owner_decision" /\ e.state = "pending"
         /\ entry.status = "runnable" => e.state = "approved"
  BY <1>1, <1>3, <1>4 DEF Asked
<1>7. Asked(entry, after)
  BY <1>3, <1>5, <1>6 DEF Asked
<1> QED BY <1>7 DEF Fits, after

\* The last step's Run moves while the row stays.
LEMMA RunMovesFits ==
  ASSUME NEW entry, NEW st, NEW kept, NEW asked, NEW heard, Fits(entry, st, kept, asked, heard),
         st[Len(st)].run \notin StepRunEnded, NEW last \in StepRow,
         last.rev = st[Len(st)].rev, last.state = st[Len(st)].state,
         entry.status = "running" => last.status = "running",
         NEW next, next = [st EXCEPT ![Len(st)] = last]
  PROVE  Fits(entry, next, kept, asked, heard)
<1>1. Chained(entry, st)
  BY DEF Fits
<1>2. entry.rev # entry.steps /\ entry.status \in {"running", "cancelled"}
  BY <1>1, LiveStep
<1>3. Chained(entry, next)
  BY <1>1, <1>2, ChainMoves
<1> QED BY <1>3 DEF Fits

\* A step commits: a revision more, its checkpoint kept, a decision asked for if
\* the directive says so.
LEMMA CommittedFits ==
  ASSUME NEW entry, NEW st, NEW kept, NEW asked, NEW heard, Fits(entry, st, kept, asked, heard),
         entry.status = "running", NEW dir \in Directives, NEW expires \in Nat,
         NEW last \in StepRow, last.rev = st[Len(st)].rev, last.state = st[Len(st)].state,
         last.run = "succeeded", last.status = "succeeded",
         NEW stored, stored = [st EXCEPT ![Len(st)] = last],
         NEW later, later = entry.rev + 1
  PROVE  Fits(Directed([entry EXCEPT !.rev = later], dir), stored,
              {c \in kept \cup {[rev |-> later, step |-> Len(st)]} : c.rev > later - Retained},
              asked \cup (IF dir.kind = "owner_decision"
                          THEN {[rev |-> st[Len(st)].rev, state |-> "pending", expires |-> expires]} ELSE {}),
              heard)
<1> DEFINE next == Directed([entry EXCEPT !.rev = later], dir)
           checkpoint == [rev |-> later, step |-> Len(st)]
           left == {c \in kept \cup {checkpoint} : c.rev > later - Retained}
           question == [rev |-> st[Len(st)].rev, state |-> "pending", expires |-> expires]
           after == asked \cup (IF dir.kind = "owner_decision" THEN {question} ELSE {})
<1>1. /\ entry \in WorkflowRow /\ Asked(entry, asked) /\ Chained(entry, st) /\ entry.rev \in Nat /\ entry.steps \in Nat
      /\ entry.wait = "none" /\ entry.rev = entry.steps - 1 /\ entry.steps = Len(st) /\ asked \subseteq DecisionRow
      /\ st[Len(st)].rev = entry.rev
  BY RowColumns DEF Fits, Chained, Asked
<1>2. /\ next \in WorkflowRow /\ next.rev = later /\ next.steps = entry.steps /\ next.budget = entry.budget
      /\ next.reserved = entry.reserved /\ next.status \in {"succeeded", "runnable", "waiting"}
      /\ (next.status = "waiting") <=> (next.wait # "none")
      /\ dir.kind = "owner_decision" => next.status = "waiting" /\ next.wait = "owner_decision"
  BY <1>1, DirectedRow
<1>3. checkpoint.rev = later /\ checkpoint.step = later /\ later = Len(st) /\ later \in Nat
  BY <1>1
<1>4. question \in DecisionRow /\ question.rev = entry.rev /\ question.state = "pending"
  BY <1>1 DEF DecisionRow, DecisionState
<1>5. next.rev = next.steps
  BY <1>1, <1>2
<1>6. checkpoint = [rev |-> next.rev, step |-> next.rev]
  BY <1>2, <1>3
<1> HIDE DEF next, checkpoint, question
<1>7. Checkpointed(next, left)
  <2>1. Retained \in Nat \ {0}
    BY WorkflowConstants
  <2>2. checkpoint \in left
    BY <1>3, <2>1
  <2>3. \A c \in left : c.rev \in 1..next.rev /\ c.step = c.rev
    BY <1>1, <1>2, <1>3 DEF Fits, Checkpointed
  <2> QED BY <1>6, <2>2, <2>3 DEF Checkpointed
<1>8. Asked(next, after)
  <2>1. after \subseteq DecisionRow /\ \A d \in after : d \in asked \/ (d = question /\ dir.kind = "owner_decision")
    BY <1>1, <1>4
  <2> HIDE DEF after
  <2>2. \A d \in asked : d.rev \in Nat /\ d.rev + 1 <= entry.rev /\ (d.state = "consumed" <=> d.rev + 2 <= entry.steps)
    BY <1>1, DecisionColumns DEF Asked
  <2>3. \A d, e \in after : d.rev = e.rev => d = e
    BY <1>1, <1>4, <2>1, <2>2 DEF Asked
  <2>4. \A d \in after : d.rev + 1 <= next.rev /\ (d.state = "consumed" <=> d.rev + 2 <= next.steps)
    BY <1>1, <1>2, <1>4, <2>1, <2>2
  <2>5. \A d \in after : d.rev + 1 = next.rev => next.status = "waiting" /\ next.wait = "owner_decision" /\ d.state = "pending"
    BY <1>1, <1>2, <1>4, <2>1, <2>2
  <2> QED BY <2>1, <2>3, <2>4, <2>5 DEF Asked
<1>9. Woken(next, heard)
  BY <1>1, <1>2 DEF Fits, Woken
<1>10. WithinBudget(next)
  BY <1>2 DEF Fits, WithinBudget
<1>11. Chained(next, stored)
  <2>1. /\ stored \in Seq(StepRow) /\ Len(stored) = Len(st) /\ stored[Len(st)] = last
        /\ \A i \in 1..Len(st) : i # Len(st) => stored[i] = st[i]
    BY <1>1, LastStepMoves DEF Chained
  <2>2. \A i \in 1..Len(st) : st[i].rev = i - 1 /\ st[i].state = i - 1
    BY <1>1 DEF Chained
  <2>3. \A i \in 1..Len(st) : i # Len(st) => st[i].status = "succeeded" /\ st[i].run = "succeeded"
    BY <1>1 DEF Chained
  <2>4. ASSUME NEW i \in 1..Len(st)
        PROVE  /\ stored[i].rev = i - 1 /\ stored[i].state = i - 1
               /\ stored[i].status = "succeeded" /\ stored[i].run = "succeeded"
    <3>1. CASE i = Len(st)
      BY <2>1, <2>2, <3>1
    <3>2. CASE i # Len(st)
      BY <2>1, <2>2, <2>3, <3>2
    <3> QED BY <3>1, <3>2
  <2>5. Len(st) \in 1..Len(st) /\ next.steps = Len(stored) /\ Len(stored) # 0
    BY <1>1, <1>2, <2>1 DEF Chained
  <2>6. stored[Len(stored)].run = "succeeded"
    BY <2>1
  <2> QED BY <1>2, <1>5, <2>1, <2>4, <2>5, <2>6 DEF Chained, StepRunEnded
<1>12. Fits(next, stored, left, after, heard)
  BY <1>7, <1>8, <1>9, <1>10, <1>11 DEF Fits
<1> QED BY <1>12 DEF next, checkpoint, question

\* The tick ends a workflow: its row is final, a step whose Run was lost fails,
\* an approval that came too late expires.
EndedRow(entry, status, reason) == [Moved(entry, status) EXCEPT !.reason = reason]
FailedSteps(st) ==
  [i \in DOMAIN st |-> IF st[i].status = "running" THEN [st[i] EXCEPT !.status = "failed"] ELSE st[i]]
Standing(entry, asked) == {d \in asked : d.state = "approved" /\ d.rev = entry.rev - 1}

LEMMA EndedFits ==
  ASSUME NEW entry, NEW st, NEW kept, NEW asked, NEW heard, Fits(entry, st, kept, asked, heard),
         entry.status \in {"running", "runnable", "waiting"}, st[Len(st)].run \in StepRunEnded,
         NEW status \in {"failed", "needs_review"}, NEW reason \in ReviewReason,
         NEW stored, stored = st \/ stored = FailedSteps(st),
         stored # st => entry.rev # entry.steps,
         NEW after, after = asked \/ after = Rewritten(asked, Standing(entry, asked), "expired")
  PROVE  Fits(EndedRow(entry, status, reason), stored, kept, after, heard)
<1> DEFINE moved == Moved(entry, status)
           next == EndedRow(entry, status, reason)
           late == Standing(entry, asked)
<1>1. entry \in WorkflowRow /\ Asked(entry, asked) /\ Chained(entry, st) /\ entry.rev \in Nat /\ entry.steps \in Nat
  BY RowColumns DEF Fits, Chained
<1>2. /\ moved \in WorkflowRow /\ moved.status = status /\ moved.wait = "none" /\ moved.rev = entry.rev
      /\ moved.steps = entry.steps /\ moved.budget = entry.budget /\ moved.reserved = entry.reserved
  BY <1>1, MovedRow DEF WfTerminal
<1>3. /\ next \in WorkflowRow /\ next.status = status /\ next.wait = "none" /\ next.rev = entry.rev
      /\ next.steps = entry.steps /\ next.budget = entry.budget /\ next.reserved = entry.reserved
  <2>1. next = [moved EXCEPT !.reason = reason]
    BY DEF EndedRow
  <2> HIDE DEF moved, next
  <2> QED BY <1>2, <2>1 DEF WorkflowRow
<1> HIDE DEF moved
<1>4. late \subseteq asked /\ (\A d \in late : d.state # "consumed") /\ "expired" \in DecisionState \ {"consumed"}
  BY DEF DecisionState, Standing
<1>5. after = asked \/ after = Rewritten(asked, late, "expired")
  OBVIOUS
<1> HIDE DEF next, late
<1>6. Asked(next, after)
  BY <1>1, <1>3, <1>4, <1>5, DecisionsRest, RewrittenRest
<1>7. WithinBudget(next) /\ Checkpointed(next, kept) /\ Woken(next, heard)
  BY <1>1, <1>3, PartsStay DEF Fits
<1>8. Chained(next, st)
  BY <1>1, <1>3, ChainStays
<1>9. Chained(next, stored)
  <2>1. CASE stored = st
    BY <1>8, <2>1
  <2>2. CASE stored # st
    <3>1. /\ st \in Seq(StepRow) /\ Len(st) \in Nat /\ DOMAIN st = 1..Len(st) /\ Len(st) \in 1..Len(st)
          /\ \A i \in 1..Len(st) : st[i] \in StepRow
      BY <1>1 DEF Chained
    <3>2. stored = [i \in 1..Len(st) |-> IF st[i].status = "running" THEN [st[i] EXCEPT !.status = "failed"] ELSE st[i]]
      BY <2>2, <3>1 DEF FailedSteps
    <3>3. \A i \in 1..Len(st) : /\ stored[i] \in StepRow /\ stored[i].rev = st[i].rev /\ stored[i].state = st[i].state
                                /\ stored[i].run = st[i].run
                                /\ st[i].status # "running" => stored[i].status = st[i].status
      BY <3>1, <3>2 DEF StepRow, StepStatus
    <3>4. stored \in [1..Len(st) -> StepRow]
      BY <3>2, <3>3
    <3>5. stored \in Seq(StepRow) /\ Len(stored) = Len(st)
      BY <3>1, <3>4
    <3>6. next.rev # next.steps
      BY <1>3, <2>2
    <3>7. \A i \in 1..Len(stored) : stored[i].rev = i - 1 /\ stored[i].state = i - 1
      BY <1>8, <3>1, <3>3, <3>5 DEF Chained
    <3>8. \A i \in 1..Len(stored) : i # Len(stored) => stored[i].status = "succeeded" /\ stored[i].run = "succeeded"
      <4>1. \A i \in 1..Len(st) : i # Len(st) => st[i].status = "succeeded" /\ st[i].run = "succeeded"
        BY <1>8 DEF Chained
      <4> QED BY <3>1, <3>3, <3>5, <4>1
    <3>9. /\ next.steps = Len(stored) /\ Len(stored) # 0 /\ next.rev \in {next.steps - 1, next.steps}
          /\ stored[Len(stored)].run \in StepRunEnded
      BY <1>3, <1>8, <3>1, <3>3, <3>5 DEF Chained
    <3> QED BY <1>3, <3>5, <3>6, <3>7, <3>8, <3>9 DEF Chained
  <2> QED BY <2>1, <2>2
<1>10. Fits(next, stored, kept, after, heard)
  BY <1>6, <1>7, <1>9 DEF Fits
<1> QED BY <1>10 DEF next, moved

\* The tick dispatches the next step: the chain grows by one, the approval is consumed.
LEMMA DispatchedFits ==
  ASSUME NEW entry, NEW st, NEW kept, NEW asked, NEW heard, Fits(entry, st, kept, asked, heard),
         entry.status \in {"runnable", "waiting"}, entry.wait # "owner_decision",
         entry.steps < entry.budget.steps, entry.reserved + StepClaim <= entry.budget.reservation,
         NEW next \in WorkflowRow, next.status = "running", next.wait = "none", next.rev = entry.rev,
         next.steps = entry.steps + 1, next.budget = entry.budget, next.reserved = entry.reserved + StepClaim,
         NEW new, new = NewStep(entry.rev, entry.rev)
  PROVE  Fits(next, Append(st, new), kept,
              Rewritten(asked, Standing(entry, asked), "consumed"), heard)
<1> DEFINE granted == Standing(entry, asked)
           after == Rewritten(asked, granted, "consumed")
<1>1. /\ entry \in WorkflowRow /\ Asked(entry, asked) /\ Chained(entry, st) /\ entry.rev \in Nat /\ entry.steps \in Nat
      /\ entry.reserved \in Nat /\ entry.budget \in Budgets /\ entry.rev = entry.steps /\ entry.steps = Len(st)
      /\ asked \subseteq DecisionRow
  BY RowColumns DEF Fits, Chained, Asked
<1>3. StepClaim \in Nat /\ entry.budget.steps \in Nat /\ entry.budget.reservation \in Nat
  BY <1>1, WorkflowConstants
<1>4. /\ next.status = "running" /\ next.wait = "none" /\ next.rev = entry.rev
      /\ next.steps = entry.steps + 1 /\ next.budget = entry.budget /\ next.reserved = entry.reserved + StepClaim
  OBVIOUS
<1>5. /\ new \in StepRow /\ new.rev = entry.rev /\ new.state = entry.rev /\ new.status = "running" /\ new.run = "created"
  BY <1>1 DEF NewStep, StepRow, StepStatus
<1>6. WithinBudget(next)
  <2>1. entry.reserved = entry.steps * StepClaim
    BY DEF Fits, WithinBudget
  <2>2. (entry.steps + 1) * StepClaim = entry.steps * StepClaim + StepClaim
    BY <1>1, <1>3
  <2>3. next.reserved = next.steps * StepClaim
    BY <1>4, <2>1, <2>2
  <2>4. next.reserved <= next.budget.reservation /\ next.steps <= next.budget.steps
    BY <1>1, <1>3, <1>4
  <2> QED BY <2>3, <2>4 DEF WithinBudget
<1>7. Checkpointed(next, kept) /\ Woken(next, heard)
  BY <1>1, <1>4 DEF Fits, Checkpointed, Woken
<1>8. /\ after \subseteq DecisionRow /\ \A d, e \in after : d.rev = e.rev => d = e
      /\ \A e \in after : e \in asked \ granted \/ \E d \in granted : e.rev = d.rev /\ e.state = "consumed"
  <2>1. granted \subseteq asked /\ "consumed" \in DecisionState /\ \A d, e \in asked : d.rev = e.rev => d = e
    BY <1>1 DEF DecisionState, Asked, Standing
  <2> QED BY <1>1, <2>1, RewrittenDecisions
<1>9. Asked(next, after)
  <2>1. \A d \in asked : d.rev \in Nat /\ d.rev + 1 <= entry.rev /\ (d.state = "consumed" <=> d.rev + 2 <= entry.steps)
    BY <1>1, DecisionColumns DEF Asked
  <2>2. \A d \in asked : d.rev + 1 = entry.rev => d \in granted
    BY <1>1, <2>1 DEF Asked, Standing
  <2>3. \A d \in granted : d \in asked /\ d.rev = entry.rev - 1
    BY DEF Standing
  <2> HIDE DEF after, granted
  <2>4. ASSUME NEW e \in after
        PROVE  e.rev + 1 <= next.rev /\ (e.state = "consumed" <=> e.rev + 2 <= next.steps)
    <3>1. CASE e \in asked \ granted
      BY <1>1, <1>4, <2>1, <2>2, <3>1
    <3>2. ASSUME NEW d \in granted, e.rev = d.rev, e.state = "consumed"
          PROVE  e.rev + 1 <= next.rev /\ e.rev + 2 <= next.steps
      BY <1>1, <1>4, <2>1, <2>3, <3>2
    <3> QED BY <1>8, <3>1, <3>2
  <2> QED BY <1>4, <1>8, <2>4 DEF Asked
<1> DEFINE longer == Append(st, new)
<1>10. /\ longer \in Seq(StepRow) /\ Len(longer) = Len(st) + 1 /\ longer[Len(st) + 1] = new
       /\ \A i \in 1..Len(st) : longer[i] = st[i]
  BY <1>1, <1>5 DEF Chained
<1> HIDE DEF longer, after
<1>11. Chained(next, longer)
  <2>1. \A i \in 1..Len(st) : /\ st[i].rev = i - 1 /\ st[i].state = i - 1
                              /\ st[i].status = "succeeded" /\ st[i].run = "succeeded"
    BY <1>1 DEF Chained
  <2>2. ASSUME NEW i \in 1..Len(longer)
        PROVE  /\ longer[i].rev = i - 1 /\ longer[i].state = i - 1
               /\ i # Len(longer) => longer[i].status = "succeeded" /\ longer[i].run = "succeeded"
    <3>1. CASE i = Len(st) + 1
      BY <1>1, <1>5, <1>10, <3>1
    <3>2. CASE i \in 1..Len(st)
      BY <1>1, <1>10, <2>1, <3>2
    <3> QED BY <1>1, <1>10, <3>1, <3>2
  <2>3. Len(longer) # 0 /\ next.steps = Len(longer) /\ next.rev = next.steps - 1 /\ next.rev # next.steps
    BY <1>1, <1>4, <1>10
  <2>4. longer[Len(longer)].status = "running"
    BY <1>5, <1>10
  <2> QED BY <1>4, <1>10, <2>2, <2>3, <2>4 DEF Chained
<1>12. Fits(next, longer, kept, after, heard)
  BY <1>6, <1>7, <1>9, <1>11 DEF Fits
<1> QED BY <1>12 DEF longer, after

-----------------------------------------------------------------------------
\* What the tick decides.

\* A lost Run is the last step's, and it is over.
LEMMA LostIsLast ==
  ASSUME NEW w \in Workflow, NEW entry, Chained(entry, steps[w]), RunLost(w)
  PROVE  steps[w][Len(steps[w])].run \in StepRunEnded
<1>1. /\ DOMAIN steps[w] = 1..Len(steps[w])
      /\ \A i \in 1..Len(steps[w]) : i # Len(steps[w]) => steps[w][i].status = "succeeded"
  BY DEF Chained
<1>2. PICK i \in 1..Len(steps[w]) : steps[w][i].status = "running" /\ steps[w][i].run \in StepRunEnded
  BY <1>1 DEF RunLost
<1>3. i = Len(steps[w])
  BY <1>1, <1>2
<1> QED BY <1>2, <1>3

\* The ladder of _advance, as far as the rows depend on it.
LEMMA AdvanceLadder ==
  ASSUME NEW w \in Workflow, Due(w), wf[w].status # "pending"
  PROVE  /\ wf[w].status \in {"running", "runnable", "waiting"}
         /\ wf[w].status = "running" => RunLost(w) /\ Advance(w) = "run_terminal_without_progress"
         /\ wf[w].status # "running" => Advance(w) # "run_terminal_without_progress"
         /\ Advance(w) = "dispatch" =>
               /\ wf[w].status # "running" /\ wf[w].wait # "owner_decision"
               /\ ~(wf[w].steps >= wf[w].budget.steps)
               /\ wf[w].reserved + StepClaim <= wf[w].budget.reservation
<1>1. /\ wf[w].status \in {"running", "runnable", "waiting"}
      /\ wf[w].status = "running" => RunLost(w)
  BY DEF Due
<1>2. CASE wf[w].status = "running"
  <2>1. Advance(w) = "run_terminal_without_progress"
    BY <1>2 DEF Advance
  <2> QED BY <1>1, <1>2, <2>1
<1>3. CASE wf[w].status # "running" /\ instant >= wf[w].deadline
  <2>1. Advance(w) = "deadline_exceeded"
    BY <1>3 DEF Advance
  <2> QED BY <1>1, <1>3, <2>1
<1>4. CASE wf[w].status # "running" /\ ~(instant >= wf[w].deadline)
  BY <1>1, <1>4 DEF Advance, AcceptsReservation
<1> QED BY <1>2, <1>3, <1>4

-----------------------------------------------------------------------------
\* The invariant.

\* One workflow is written at a time.
LEMMA OneRowMoves ==
  ASSUME RowsFit, NEW w \in Workflow,
         \A v \in Workflow \ {w} : /\ wf'[v] = wf[v] /\ steps'[v] = steps[v] /\ checkpoints'[v] = checkpoints[v]
                                   /\ decisions'[v] = decisions[v] /\ signals'[v] = signals[v],
         Fits(wf'[w], steps'[w], checkpoints'[w], decisions'[w], signals'[w])
  PROVE  RowsFit'
<1>1. wf'[w] # Absent
  BY RowColumns DEF Fits, Chained
<1>2. ASSUME NEW v \in Workflow, v # w
      PROVE  IF wf'[v] = Absent THEN Untouched(steps'[v], checkpoints'[v], decisions'[v], signals'[v])
             ELSE Fits(wf'[v], steps'[v], checkpoints'[v], decisions'[v], signals'[v])
  <2>1. IF wf[v] = Absent THEN Untouched(steps[v], checkpoints[v], decisions[v], signals[v])
        ELSE Fits(wf[v], steps[v], checkpoints[v], decisions[v], signals[v])
    BY DEF RowsFit
  <2>2. /\ wf'[v] = wf[v] /\ steps'[v] = steps[v] /\ checkpoints'[v] = checkpoints[v]
        /\ decisions'[v] = decisions[v] /\ signals'[v] = signals[v]
    BY <1>2
  <2> QED BY <2>1, <2>2
<1> QED BY <1>1, <1>2 DEF RowsFit

\* No action but a create makes a workflow active.
LEMMA NoneActivated ==
  ASSUME FewActive,
         \A w \in Workflow : (Exists(w) /\ wf[w].status \in WfActive)' => Exists(w) /\ wf[w].status \in WfActive
  PROVE  FewActive'
<1>1. Active' \subseteq Active
  BY DEF Active
<1>2. IsFiniteSet(Active') /\ Cardinality(Active') <= Cardinality(Active)
        /\ Cardinality(Active) \in Nat /\ Cardinality(Active') \in Nat
  BY <1>1, FS_Subset, FS_CardinalityType DEF FewActive
<1> QED BY <1>2, WorkflowConstants DEF FewActive

\* What an existing workflow's rows say.
LEMMA RowOf ==
  ASSUME RowsFit, NEW w \in Workflow, Exists(w) \/ steps[w] # <<>> \/ decisions[w] # {}
  PROVE  /\ Fits(wf[w], steps[w], checkpoints[w], decisions[w], signals[w])
         /\ wf[w] \in WorkflowRow /\ Exists(w) /\ wf[w].status # "pending"
<1>1. Exists(w)
  BY DEF RowsFit, Untouched, Exists
<1>2. Fits(wf[w], steps[w], checkpoints[w], decisions[w], signals[w])
  BY <1>1 DEF RowsFit, Exists
<1> QED BY <1>1, <1>2 DEF Fits, Chained

LEMMA WInit == WorkflowInit => WInv
<1> SUFFICES ASSUME WorkflowInit PROVE WInv
  OBVIOUS
<1>1. Tables
  BY DEF WorkflowInit, Tables
<1>2. RowsFit
  BY DEF WorkflowInit, RowsFit, Untouched
<1>3. Active = {}
  BY DEF WorkflowInit, Active, Exists
<1>4. FewActive
  BY <1>3, FS_EmptySet, WorkflowConstants DEF FewActive
<1> QED BY <1>1, <1>2, <1>4 DEF WInv

-----------------------------------------------------------------------------
\* The owner's operations.

LEMMA CreateStep ==
  ASSUME WInv, NEW w \in Workflow, NEW b \in Budgets, CreateWorkflow(w, b) PROVE WInv'
<1>1. Tables /\ RowsFit /\ FewActive
  BY DEF WInv
<1>2. Untouched(steps[w], checkpoints[w], decisions[w], signals[w])
  BY <1>1 DEF CreateWorkflow, RowsFit, Exists
<1>3. Tables'
  BY <1>1 DEF CreateWorkflow, Tables
<1>4. /\ wf'[w] = [status |-> "running", paused |-> FALSE, rev |-> 0, steps |-> 1, budget |-> b,
                   reserved |-> StepClaim, deadline |-> instant + DeadlineAfter, config |-> wfAgent[w].config,
                   wait |-> "none", wakeup |-> 0, key |-> "none", reason |-> "none"]
      /\ steps'[w] = <<NewStep(0, 0)>>
      /\ \A v \in Workflow \ {w} : wf'[v] = wf[v] /\ steps'[v] = steps[v]
      /\ checkpoints' = checkpoints /\ decisions' = decisions /\ signals' = signals
  BY <1>1 DEF CreateWorkflow, Tables
<1>5. instant + DeadlineAfter \in Nat /\ wfAgent[w].config \in Nat /\ StepClaim <= b.reservation
  BY <1>1, WorkflowConstants DEF Tables, CreateWorkflow
<1>6. Fits(wf'[w], <<NewStep(0, 0)>>, {}, {}, {})
  <2> DEFINE deadline == instant + DeadlineAfter
             config == wfAgent[w].config
  <2>1. deadline \in Nat /\ config \in Nat /\
        wf'[w] = [status |-> "running", paused |-> FALSE, rev |-> 0, steps |-> 1, budget |-> b,
                  reserved |-> StepClaim, deadline |-> deadline, config |-> config,
                  wait |-> "none", wakeup |-> 0, key |-> "none", reason |-> "none"]
    BY <1>4, <1>5
  <2> HIDE DEF deadline, config
  <2> QED BY <1>5, <2>1, CreatedFits
<1>7. Fits(wf'[w], steps'[w], checkpoints'[w], decisions'[w], signals'[w])
  BY <1>2, <1>4, <1>6 DEF Untouched
<1>8. RowsFit'
  BY <1>1, <1>4, <1>7, OneRowMoves
<1>9. FewActive'
  <2>1. ActiveCount = Cardinality(Active)
    BY DEF ActiveCount, Active
  <2>2. w \notin Active
    BY DEF CreateWorkflow, Active
  <2>3. Active' \subseteq Active \cup {w}
    BY <1>4 DEF Active, Exists
  <2>4. Cardinality(Active) < MaxActive /\ Cardinality(Active) \in Nat /\ IsFiniteSet(Active) /\ MaxActive \in Nat
    BY <1>1, <2>1, FS_CardinalityType, WorkflowConstants DEF CreateWorkflow, FewActive
  <2>5. IsFiniteSet(Active \cup {w}) /\ Cardinality(Active \cup {w}) = Cardinality(Active) + 1
    BY <2>2, <2>4, FS_AddElement
  <2>6. IsFiniteSet(Active') /\ Cardinality(Active') <= Cardinality(Active \cup {w}) /\ Cardinality(Active') \in Nat
    BY <2>3, <2>5, FS_Subset, FS_CardinalityType
  <2> QED BY <2>4, <2>5, <2>6 DEF FewActive
<1> QED BY <1>3, <1>8, <1>9 DEF WInv

LEMMA PauseStep ==
  ASSUME WInv, NEW w \in Workflow, NEW flag \in BOOLEAN, SetPaused(w, flag) PROVE WInv'
<1>1. Tables /\ RowsFit /\ FewActive
  BY DEF WInv
<1>2. Fits(wf[w], steps[w], checkpoints[w], decisions[w], signals[w]) /\ wf[w] \in WorkflowRow /\ Exists(w)
  BY <1>1, RowOf DEF SetPaused
<1>3. /\ Tables' /\ wf'[w] = [wf[w] EXCEPT !.paused = flag] /\ \A v \in Workflow \ {w} : wf'[v] = wf[v]
      /\ steps' = steps /\ checkpoints' = checkpoints /\ decisions' = decisions /\ signals' = signals
  BY <1>1 DEF SetPaused, Tables
<1>4. Fits(wf'[w], steps'[w], checkpoints'[w], decisions'[w], signals'[w])
  BY <1>2, <1>3, PausedFits
<1>5. RowsFit'
  BY <1>1, <1>3, <1>4, OneRowMoves
<1>6. wf'[w].status = wf[w].status
  BY <1>2, <1>3 DEF WorkflowRow
<1>7. FewActive'
  BY <1>1, <1>2, <1>3, <1>6, NoneActivated DEF Exists
<1> QED BY <1>3, <1>5, <1>7 DEF WInv

LEMMA CancelStep ==
  ASSUME WInv, NEW w \in Workflow, CancelWorkflow(w) PROVE WInv'
<1>1. Tables /\ RowsFit /\ FewActive
  BY DEF WInv
<1>2. Fits(wf[w], steps[w], checkpoints[w], decisions[w], signals[w]) /\ wf[w] \in WorkflowRow /\ Exists(w)
  BY <1>1, RowOf DEF CancelWorkflow
<1>3. /\ Tables' /\ wf'[w] = Moved(wf[w], "cancelled")
      /\ decisions'[w] = Withdrawn(decisions[w])
      /\ \A v \in Workflow \ {w} : wf'[v] = wf[v] /\ decisions'[v] = decisions[v]
      /\ steps' = steps /\ checkpoints' = checkpoints /\ signals' = signals
  BY <1>1 DEF CancelWorkflow, Tables, Withdrawn
<1>4. Fits(wf'[w], steps'[w], checkpoints'[w], decisions'[w], signals'[w])
  BY <1>2, <1>3, CancelledFits
<1>5. RowsFit'
  BY <1>1, <1>3, <1>4, OneRowMoves
<1>6. FewActive'
  BY <1>1, <1>2, <1>3, NoneActivated DEF Exists, CancelWorkflow
<1> QED BY <1>3, <1>5, <1>6 DEF WInv

LEMMA SignalStep ==
  ASSUME WInv, NEW w \in Workflow, NEW key, NEW payload, NEW rev, DeliverSignal(w, key, payload, rev) PROVE WInv'
<1>1. Tables /\ RowsFit /\ FewActive
  BY DEF WInv
<1>2. Fits(wf[w], steps[w], checkpoints[w], decisions[w], signals[w]) /\ wf[w] \in WorkflowRow /\ Exists(w)
  BY <1>1, RowOf DEF DeliverSignal
<1>3. rev = wf[w].rev /\ wf[w].status = "waiting" /\ wf[w].wait = "signal"
  BY DEF DeliverSignal, SignalAccepted
<1>4. /\ Tables' /\ wf'[w] = Moved(wf[w], "runnable")
      /\ signals'[w] = signals[w] \cup {[key |-> key, payload |-> payload, rev |-> wf[w].rev]}
      /\ \A v \in Workflow \ {w} : wf'[v] = wf[v] /\ signals'[v] = signals[v]
      /\ steps' = steps /\ checkpoints' = checkpoints /\ decisions' = decisions
  BY <1>1, <1>3 DEF DeliverSignal, Tables
<1>5. Fits(wf'[w], steps'[w], checkpoints'[w], decisions'[w], signals'[w])
  BY <1>2, <1>3, <1>4, SignalledFits
<1>6. RowsFit'
  BY <1>1, <1>4, <1>5, OneRowMoves
<1>7. FewActive'
  BY <1>1, <1>2, <1>3, <1>4, NoneActivated DEF Exists, WfActive
<1> QED BY <1>4, <1>6, <1>7 DEF WInv

LEMMA DecideStep ==
  ASSUME WInv, NEW w \in Workflow, NEW d \in decisions[w], NEW approve \in BOOLEAN, Decide(w, d, approve) PROVE WInv'
<1> DEFINE answer == IF approve THEN "approved" ELSE "denied"
           status == IF approve THEN "runnable" ELSE "cancelled"
           waits == wf[w].status = "waiting" /\ wf[w].wait = "owner_decision" /\ wf[w].rev = d.rev + 1
<1>1. Tables /\ RowsFit /\ FewActive
  BY DEF WInv
<1>2. Fits(wf[w], steps[w], checkpoints[w], decisions[w], signals[w]) /\ wf[w] \in WorkflowRow /\ Exists(w)
  BY <1>1, RowOf
<1>3. /\ Tables' /\ d.state = "pending" /\ decisions'[w] = Rewritten(decisions[w], {d}, answer)
      /\ \A v \in Workflow \ {w} : decisions'[v] = decisions[v]
      /\ steps' = steps /\ checkpoints' = checkpoints /\ signals' = signals
  BY <1>1 DEF Decide, Tables, Rewritten
<1>4. /\ waits => wf'[w] = Moved(wf[w], status) /\ \A v \in Workflow \ {w} : wf'[v] = wf[v]
      /\ ~waits => wf' = wf
  BY <1>1 DEF Decide, Tables
<1>5. /\ (answer = "approved" /\ status = "runnable") \/ (answer = "denied" /\ status = "cancelled")
      /\ answer \in {"approved", "denied"}
  OBVIOUS
<1> HIDE DEF answer, status
<1>6. Fits(wf'[w], steps'[w], checkpoints'[w], decisions'[w], signals'[w])
  <2>1. CASE waits
    BY <1>2, <1>3, <1>4, <1>5, <2>1, DecidedFits
  <2>2. CASE ~waits
    BY <1>2, <1>3, <1>4, <1>5, <2>2, DecidedLateFits
  <2> QED BY <2>1, <2>2
<1>7. RowsFit'
  BY <1>1, <1>3, <1>4, <1>6, OneRowMoves
<1>8. FewActive'
  BY <1>1, <1>2, <1>4, NoneActivated DEF Exists, WfActive
<1> QED BY <1>3, <1>7, <1>8 DEF WInv

-----------------------------------------------------------------------------
\* The step's Run.

LEMMA RunStep ==
  ASSUME WInv, NEW w \in Workflow, steps[w] # <<>>, LastStep(w).run \notin StepRunEnded,
         NEW last \in StepRow, last.rev = LastStep(w).rev, last.state = LastStep(w).state,
         wf[w].status = "running" => last.status = "running",
         DOMAIN steps' = Workflow, steps'[w] = [steps[w] EXCEPT ![Len(steps[w])] = last],
         \A v \in Workflow \ {w} : steps'[v] = steps[v],
         UNCHANGED <<wf, checkpoints, decisions, signals, wfAgent, instant>>
  PROVE  WInv'
<1>1. Tables /\ RowsFit /\ FewActive
  BY DEF WInv
<1>2. Fits(wf[w], steps[w], checkpoints[w], decisions[w], signals[w])
  BY <1>1, RowOf
<1>3. Fits(wf[w], steps'[w], checkpoints[w], decisions[w], signals[w])
  BY <1>2, RunMovesFits DEF LastStep
<1>4. RowsFit'
  BY <1>1, <1>3, OneRowMoves
<1>5. Tables'
  BY <1>1 DEF Tables
<1>6. FewActive'
  BY <1>1, NoneActivated DEF Exists
<1> QED BY <1>4, <1>5, <1>6 DEF WInv

\* The last step of a workflow is a row of the table.
LEMMA LastStepRow ==
  ASSUME WInv, NEW w \in Workflow, steps[w] # <<>>
  PROVE  /\ LastStep(w) \in StepRow /\ steps[w] \in Seq(StepRow) /\ Len(steps[w]) \in 1..Len(steps[w])
         /\ DOMAIN steps = Workflow
         /\ Chained(wf[w], steps[w])
<1>1. Chained(wf[w], steps[w]) /\ DOMAIN steps = Workflow
  BY RowOf DEF WInv, Fits, Tables
<1>2. steps[w] \in Seq(StepRow) /\ Len(steps[w]) \in 1..Len(steps[w])
  BY <1>1 DEF Chained
<1> QED BY <1>1, <1>2 DEF LastStep

LEMMA StartRunStep == ASSUME WInv, NEW w \in Workflow, StartStepRun(w) PROVE WInv'
<1> DEFINE last == [LastStep(w) EXCEPT !.run = "running"]
<1>1. steps[w] # <<>> /\ LastStep(w).run = "created"
  BY DEF StartStepRun
<1>2. LastStep(w) \in StepRow /\ DOMAIN steps = Workflow /\ steps[w] \in Seq(StepRow) /\ Chained(wf[w], steps[w])
      /\ Len(steps[w]) \in 1..Len(steps[w])
  BY <1>1, LastStepRow
<1>3. last \in StepRow /\ last.rev = LastStep(w).rev /\ last.state = LastStep(w).state /\ last.status = LastStep(w).status
  BY <1>2 DEF StepRow
<1>4. wf[w].status = "running" => LastStep(w).status = "running"
  BY <1>2 DEF Chained, LastStep
<1>5. /\ DOMAIN steps' = Workflow /\ \A v \in Workflow \ {w} : steps'[v] = steps[v]
      /\ steps'[w] = [steps[w] EXCEPT ![Len(steps[w])] = last]
      /\ UNCHANGED <<wf, checkpoints, decisions, signals, wfAgent, instant>>
  BY <1>2 DEF StartStepRun, LastStep
<1> HIDE DEF last
<1> QED BY <1>1, <1>3, <1>4, <1>5, RunStep DEF StepRunEnded

LEMMA LoseRunStep ==
  ASSUME WInv, NEW w \in Workflow, NEW outcome \in {"failed", "cancelled"}, LoseStepRun(w, outcome) PROVE WInv'
<1> DEFINE last == [LastStep(w) EXCEPT !.run = outcome]
<1>1. steps[w] # <<>> /\ LastStep(w).run \notin StepRunEnded
  BY DEF LoseStepRun, StepRunEnded
<1>2. LastStep(w) \in StepRow /\ DOMAIN steps = Workflow /\ steps[w] \in Seq(StepRow) /\ Chained(wf[w], steps[w])
      /\ Len(steps[w]) \in 1..Len(steps[w])
  BY <1>1, LastStepRow
<1>3. last \in StepRow /\ last.rev = LastStep(w).rev /\ last.state = LastStep(w).state /\ last.status = LastStep(w).status
  BY <1>2 DEF StepRow, StepRunEnded
<1>4. wf[w].status = "running" => LastStep(w).status = "running"
  BY <1>2 DEF Chained, LastStep
<1>5. /\ DOMAIN steps' = Workflow /\ \A v \in Workflow \ {w} : steps'[v] = steps[v]
      /\ steps'[w] = [steps[w] EXCEPT ![Len(steps[w])] = last]
      /\ UNCHANGED <<wf, checkpoints, decisions, signals, wfAgent, instant>>
  BY <1>2 DEF LoseStepRun, LastStep
<1> HIDE DEF last
<1> QED BY <1>1, <1>3, <1>4, <1>5, RunStep

LEMMA CommitCancelledStep == ASSUME WInv, NEW w \in Workflow, CommitCancelled(w) PROVE WInv'
<1> DEFINE last == [LastStep(w) EXCEPT !.run = "succeeded", !.status = "succeeded"]
<1>1. steps[w] # <<>> /\ LastStep(w).run \notin StepRunEnded /\ wf[w].status = "cancelled"
  BY DEF CommitCancelled, StepRunEnded
<1>2. LastStep(w) \in StepRow /\ DOMAIN steps = Workflow /\ steps[w] \in Seq(StepRow)
      /\ Len(steps[w]) \in 1..Len(steps[w])
  BY <1>1, LastStepRow
<1>3. last \in StepRow /\ last.rev = LastStep(w).rev /\ last.state = LastStep(w).state
  BY <1>2 DEF StepRow, StepRunEnded, StepStatus
<1>4. /\ DOMAIN steps' = Workflow /\ \A v \in Workflow \ {w} : steps'[v] = steps[v]
      /\ steps'[w] = [steps[w] EXCEPT ![Len(steps[w])] = last]
      /\ UNCHANGED <<wf, checkpoints, decisions, signals, wfAgent, instant>>
  BY <1>2 DEF CommitCancelled, LastStep
<1> HIDE DEF last
<1> QED BY <1>1, <1>3, <1>4, RunStep

LEMMA CommitStepStep == ASSUME WInv, NEW w \in Workflow, NEW dir \in Directives, CommitStep(w, dir) PROVE WInv'
<1> DEFINE last == [LastStep(w) EXCEPT !.run = "succeeded", !.status = "succeeded"]
           later == wf[w].rev + 1
           expires == instant + DecisionLife
<1>1. Tables /\ RowsFit /\ FewActive /\ steps[w] # <<>> /\ wf[w].status = "running"
  BY DEF WInv, CommitStep, StepFence
<1>2. LastStep(w) \in StepRow /\ DOMAIN steps = Workflow /\ steps[w] \in Seq(StepRow)
      /\ Len(steps[w]) \in 1..Len(steps[w])
  BY <1>1, LastStepRow
<1>3. Fits(wf[w], steps[w], checkpoints[w], decisions[w], signals[w]) /\ wf[w] \in WorkflowRow /\ Exists(w)
  BY <1>1, RowOf
<1>4. /\ last \in StepRow /\ last.rev = LastStep(w).rev /\ last.state = LastStep(w).state
      /\ last.run = "succeeded" /\ last.status = "succeeded"
  BY <1>2 DEF StepRow, StepRunEnded, StepStatus
<1>5. /\ steps'[w] = [steps[w] EXCEPT ![Len(steps[w])] = last]
      /\ \A v \in Workflow \ {w} : steps'[v] = steps[v]
  BY <1>2 DEF CommitStep, LastStep
<1>6. /\ wf'[w] = Directed([wf[w] EXCEPT !.rev = later], dir)
      /\ checkpoints'[w] = {c \in checkpoints[w] \cup {[rev |-> later, step |-> Len(steps[w])]} : c.rev > later - Retained}
      /\ decisions'[w] = decisions[w] \cup (IF dir.kind = "owner_decision"
                            THEN {[rev |-> LastStep(w).rev, state |-> "pending", expires |-> expires]} ELSE {})
      /\ signals' = signals
      /\ \A v \in Workflow \ {w} : wf'[v] = wf[v] /\ checkpoints'[v] = checkpoints[v] /\ decisions'[v] = decisions[v]
  BY <1>1 DEF CommitStep, Tables
<1>7. expires \in Nat
  BY <1>1, WorkflowConstants DEF Tables
<1>8. Tables'
  BY <1>1 DEF CommitStep, Tables
<1> HIDE DEF last, expires
<1>9. Fits(wf'[w], steps'[w], checkpoints'[w], decisions'[w], signals'[w])
  BY <1>1, <1>3, <1>4, <1>5, <1>6, <1>7, CommittedFits DEF LastStep
<1>10. RowsFit'
  BY <1>1, <1>5, <1>6, <1>9, OneRowMoves
<1>11. FewActive'
  BY <1>1, <1>3, <1>6, NoneActivated DEF Exists, WfActive
<1> QED BY <1>8, <1>10, <1>11 DEF WInv

-----------------------------------------------------------------------------
\* The tick.

LEMMA EndStep == ASSUME WInv, NEW w \in Workflow, TickEnds(w) PROVE WInv'
<1> DEFINE reason == Advance(w)
           status == IF reason \in FailureReason THEN "failed" ELSE "needs_review"
           failed == FailedSteps(steps[w])
           expired == Rewritten(decisions[w], Standing(wf[w], decisions[w]), "expired")
<1>1. Tables /\ RowsFit /\ FewActive /\ Due(w) /\ Exists(w) /\ reason \in ReviewReason
  BY DEF WInv, TickEnds, AdvancedBy, Due
<1>2. /\ Fits(wf[w], steps[w], checkpoints[w], decisions[w], signals[w]) /\ wf[w] \in WorkflowRow
      /\ wf[w].status # "pending" /\ Chained(wf[w], steps[w])
  BY <1>1, RowOf DEF Fits
<1>3. /\ wf[w].status \in {"running", "runnable", "waiting"}
      /\ wf[w].status = "running" => RunLost(w)
      /\ wf[w].status # "running" => reason # "run_terminal_without_progress"
  BY <1>1, <1>2, AdvanceLadder
<1>4. steps[w][Len(steps[w])].run \in StepRunEnded
  <2>1. CASE wf[w].status = "running"
    BY <1>2, <1>3, <2>1, LostIsLast
  <2>2. CASE wf[w].status # "running"
    BY <1>2, <1>3, <2>2 DEF Chained
  <2> QED BY <2>1, <2>2
<1>5. reason = "run_terminal_without_progress" => wf[w].rev # wf[w].steps
  BY <1>2, <1>3, RowColumns DEF Chained
<1>6. /\ wf'[w] = EndedRow(wf[w], status, reason)
      /\ \A v \in Workflow \ {w} : wf'[v] = wf[v]
      /\ signals' = signals /\ checkpoints' = checkpoints
  BY <1>1 DEF TickEnds, Tables, EndedRow
<1>7. /\ steps'[w] = IF reason = "run_terminal_without_progress" THEN failed ELSE steps[w]
      /\ \A v \in Workflow \ {w} : steps'[v] = steps[v]
  BY <1>1 DEF TickEnds, Tables, FailedSteps
<1>8. /\ decisions'[w] = IF reason = "authority_lost" THEN expired ELSE decisions[w]
      /\ \A v \in Workflow \ {w} : decisions'[v] = decisions[v]
  BY <1>1 DEF TickEnds, Tables, Approved, Rewritten, Standing
<1>9. Tables'
  BY <1>1 DEF TickEnds, Tables
<1>10. status \in {"failed", "needs_review"}
  OBVIOUS
<1> HIDE DEF reason, status, failed, expired
<1>11. Fits(wf'[w], steps'[w], checkpoints'[w], decisions'[w], signals'[w])
  <2>1. steps'[w] = steps[w] \/ steps'[w] = failed
    BY <1>7
  <2>2. steps'[w] # steps[w] => wf[w].rev # wf[w].steps
    BY <1>5, <1>7
  <2>3. decisions'[w] = decisions[w] \/ decisions'[w] = expired
    BY <1>8
  <2> QED BY <1>1, <1>2, <1>3, <1>4, <1>6, <1>10, <2>1, <2>2, <2>3, EndedFits DEF failed, expired
<1>12. RowsFit'
  BY <1>1, <1>6, <1>7, <1>8, <1>11, OneRowMoves
<1>13. FewActive'
  BY <1>1, <1>3, <1>6, NoneActivated DEF Exists, WfActive
<1> QED BY <1>9, <1>12, <1>13 DEF WInv

LEMMA DispatchStep == ASSUME WInv, NEW w \in Workflow, TickDispatches(w) PROVE WInv'
<1> DEFINE entry == wf[w]
           new == NewStep(entry.rev, entry.rev)
           consumed == Rewritten(decisions[w], Standing(entry, decisions[w]), "consumed")
<1>1. Tables /\ RowsFit /\ FewActive /\ Due(w) /\ Exists(w) /\ Advance(w) = "dispatch"
  BY DEF WInv, TickDispatches, AdvancedBy, Due
<1>2. /\ Fits(entry, steps[w], checkpoints[w], decisions[w], signals[w]) /\ entry \in WorkflowRow
      /\ entry.status # "pending" /\ Checkpointed(entry, checkpoints[w])
  BY <1>1, RowOf DEF Fits
<1>3. /\ entry.status \in {"runnable", "waiting"} /\ entry.wait # "owner_decision"
      /\ ~(entry.steps >= entry.budget.steps) /\ entry.reserved + StepClaim <= entry.budget.reservation
  BY <1>1, <1>2, AdvanceLadder
<1>4. entry.steps < entry.budget.steps
  BY <1>2, <1>3, RowColumns, WorkflowConstants
<1>5. LatestState(w) = entry.rev
  BY <1>2, LatestIsNewest DEF LatestState
<1>6. /\ wf'[w] = Drawn(entry) /\ steps'[w] = Append(steps[w], new) /\ decisions'[w] = consumed
      /\ \A v \in Workflow \ {w} : wf'[v] = wf[v] /\ steps'[v] = steps[v] /\ decisions'[v] = decisions[v]
      /\ signals' = signals /\ checkpoints' = checkpoints
  <2>1. wf'[w] = Drawn(entry) /\ \A v \in Workflow \ {w} : wf'[v] = wf[v]
    <3>1. wf' = [wf EXCEPT ![w] = Drawn(wf[w])]
      BY DEF TickDispatches, Drawn
    <3> QED BY <1>1, <3>1 DEF Tables
  <2>2. steps'[w] = Append(steps[w], new) /\ \A v \in Workflow \ {w} : steps'[v] = steps[v]
    BY <1>1, <1>5 DEF TickDispatches, Tables
  <2>3. decisions'[w] = consumed /\ \A v \in Workflow \ {w} : decisions'[v] = decisions[v]
    BY <1>1 DEF TickDispatches, Tables, Approved, Rewritten, Standing
  <2> QED BY <2>1, <2>2, <2>3 DEF TickDispatches
<1>7. Tables'
  BY <1>1 DEF TickDispatches, Tables
<1>8. /\ wf'[w] \in WorkflowRow /\ wf'[w].status = "running" /\ wf'[w].wait = "none" /\ wf'[w].rev = entry.rev
      /\ wf'[w].steps = entry.steps + 1 /\ wf'[w].budget = entry.budget /\ wf'[w].reserved = entry.reserved + StepClaim
  BY <1>2, <1>6, DispatchedRow
<1> HIDE DEF entry, new
<1>9. new = NewStep(entry.rev, entry.rev)
  BY DEF new
<1>10. Fits(wf'[w], steps'[w], checkpoints'[w], decisions'[w], signals'[w])
  BY <1>2, <1>3, <1>4, <1>6, <1>8, <1>9, DispatchedFits
<1>11. RowsFit'
  BY <1>1, <1>6, <1>10, OneRowMoves
<1>12. FewActive'
  BY <1>1, <1>3, <1>6, NoneActivated DEF Exists, WfActive, entry
<1> QED BY <1>7, <1>11, <1>12 DEF WInv

\* What leaves the rows alone: a deferring tick, an edit of an agent, the clock.
LEMMA RowsRest ==
  ASSUME WInv, UNCHANGED <<wf, steps, checkpoints, decisions, signals>>,
         wfAgent' \in [Workflow -> [enabled : BOOLEAN, config : Nat, resolvable : BOOLEAN]], instant' \in Nat
  PROVE  WInv'
<1>1. Tables'
  BY DEF WInv, Tables
<1>2. RowsFit'
  BY DEF WInv, RowsFit
<1>3. FewActive'
  BY NoneActivated DEF WInv, Exists
<1> QED BY <1>1, <1>2, <1>3 DEF WInv

LEMMA EditStep == ASSUME WInv, NEW w \in Workflow, NEW a \in AgentEdits(wfAgent[w]), EditAgent(w, a) PROVE WInv'
<1>1. wfAgent \in [Workflow -> [enabled : BOOLEAN, config : Nat, resolvable : BOOLEAN]] /\ instant \in Nat
  BY DEF WInv, Tables
<1>2. a \in [enabled : BOOLEAN, config : Nat, resolvable : BOOLEAN]
  <2> DEFINE ag == wfAgent[w]
  <2>1. ag \in [enabled : BOOLEAN, config : Nat, resolvable : BOOLEAN]
    BY <1>1
  <2>2. ag.config + 1 \in Nat /\ (~ag.enabled) \in BOOLEAN
    BY <2>1
  <2>3. \/ a = [ag EXCEPT !.enabled = ~ag.enabled] \/ a = [ag EXCEPT !.resolvable = FALSE]
        \/ a = [ag EXCEPT !.config = ag.config + 1]
    BY DEF AgentEdits
  <2> HIDE DEF ag
  <2> QED BY <2>1, <2>2, <2>3
<1> QED BY <1>1, <1>2, RowsRest DEF EditAgent

LEMMA WStep == WInv /\ [WorkflowNext]_wfVars => WInv'
<1> SUFFICES ASSUME WInv, [WorkflowNext]_wfVars PROVE WInv'
  OBVIOUS
<1>1. wfAgent \in [Workflow -> [enabled : BOOLEAN, config : Nat, resolvable : BOOLEAN]] /\ instant \in Nat
  BY DEF WInv, Tables
<1>2. CASE TickDefers
  BY <1>1, <1>2, RowsRest DEF TickDefers
<1>3. CASE PassInstant
  BY <1>1, <1>3, RowsRest DEF PassInstant
<1>4. CASE UNCHANGED wfVars
  BY <1>1, <1>4, RowsRest DEF wfVars
<1> QED
  BY <1>2, <1>3, <1>4, CreateStep, PauseStep, CancelStep, SignalStep, DecideStep, StartRunStep, LoseRunStep,
     CommitStepStep, CommitCancelledStep, EndStep, DispatchStep, EditStep DEF WorkflowNext

-----------------------------------------------------------------------------
\* Theorems.

LEMMA WInvSound == WInv => WorkflowSound
<1> SUFFICES ASSUME WInv PROVE WorkflowSound
  OBVIOUS
<1>1. Tables /\ RowsFit /\ FewActive
  BY DEF WInv
<1>2. ASSUME NEW w \in Workflow, Exists(w)
      PROVE  /\ Chained(wf[w], steps[w]) /\ WithinBudget(wf[w]) /\ Checkpointed(wf[w], checkpoints[w])
             /\ Asked(wf[w], decisions[w]) /\ Woken(wf[w], signals[w])
             /\ wf[w].rev \in Nat /\ wf[w].steps \in Nat
  BY <1>1, <1>2, RowOf, RowColumns DEF Fits
<1>3. ASSUME NEW w \in Workflow, ~Exists(w)
      PROVE  steps[w] = <<>> /\ decisions[w] = {} /\ signals[w] = {}
  BY <1>1, <1>3 DEF RowsFit, Untouched, Exists
<1>4. WorkflowTypeOK
  <2>1. ASSUME NEW w \in Workflow, NEW i \in DOMAIN steps[w] PROVE steps[w][i] \in StepRow
    BY <1>2, <1>3 DEF Chained
  <2>2. ASSUME NEW w \in Workflow, NEW d \in decisions[w] PROVE d \in DecisionRow
    BY <1>2, <1>3 DEF Asked
  <2>3. ASSUME NEW w \in Workflow, Exists(w)
        PROVE  wf[w] \in WorkflowRow /\ ((wf[w].status = "waiting") <=> (wf[w].wait # "none"))
    BY <1>2, <2>3 DEF Chained
  <2> QED BY <2>1, <2>2, <2>3 DEF WorkflowTypeOK, StepRow, DecisionRow
<1>5. StepChain
  <2> SUFFICES ASSUME NEW w \in Workflow, Exists(w)
               PROVE  /\ wf[w].steps = Len(steps[w])
                      /\ \A i \in DOMAIN steps[w] : steps[w][i].rev = i - 1 /\ steps[w][i].state = i - 1
                      /\ \A i \in 1..Len(steps[w]) - 1 :
                            steps[w][i].status = "succeeded" /\ steps[w][i].run = "succeeded"
                      /\ wf[w].rev \in {wf[w].steps - 1, wf[w].steps}
                      /\ wf[w].rev > 0 => \E c \in checkpoints[w] : c = [rev |-> wf[w].rev, step |-> wf[w].rev]
    BY DEF StepChain
  <2>1. Chained(wf[w], steps[w]) /\ Checkpointed(wf[w], checkpoints[w]) /\ wf[w].rev \in Nat
    BY <1>2
  <2>2. \A i \in 1..Len(steps[w]) - 1 : steps[w][i].status = "succeeded" /\ steps[w][i].run = "succeeded"
    BY <2>1 DEF Chained
  <2>3. wf[w].rev > 0 => \E c \in checkpoints[w] : c = [rev |-> wf[w].rev, step |-> wf[w].rev]
    BY <2>1 DEF Checkpointed
  <2> QED BY <2>1, <2>2, <2>3, SMTT(30) DEF Chained
<1>6. LiveRunCommits
  <2> SUFFICES ASSUME NEW w \in LiveRuns PROVE wf[w].status = "cancelled" \/ StepFence(w)
    BY DEF LiveRunCommits
  <2>1. PICK i \in DOMAIN steps[w] : w \in Workflow /\ steps[w][i].run \notin StepRunEnded
    BY DEF LiveRuns
  <2>2. Exists(w)
    BY <1>3, <2>1
  <2>3. Chained(wf[w], steps[w])
    BY <1>2, <2>1, <2>2
  <2>4. i = Len(steps[w])
    BY <2>1, <2>3 DEF Chained, StepRunEnded
  <2>5. wf[w].status \in {"running", "cancelled"}
    BY <2>1, <2>3, <2>4 DEF Chained
  <2>6. wf[w].status = "running" => LastStep(w).status = "running" /\ LastStep(w).rev = wf[w].rev
    BY <2>1, <2>3, <2>4 DEF Chained, LastStep
  <2> QED BY <2>5, <2>6 DEF StepFence
<1>7. DecisionGates
  <2> SUFFICES ASSUME NEW w \in Workflow, NEW d \in decisions[w]
               PROVE  (d.state = "consumed") <=> (\E i \in DOMAIN steps[w] : steps[w][i].rev = d.rev + 1)
    BY DEF DecisionGates
  <2>1. Exists(w)
    BY <1>3
  <2>2. Chained(wf[w], steps[w]) /\ Asked(wf[w], decisions[w])
    BY <1>2, <2>1
  <2>3. d.rev \in Nat /\ ((d.state = "consumed") <=> (d.rev + 2 <= Len(steps[w])))
    BY <2>2, DecisionColumns DEF Asked, Chained
  <2>4. /\ DOMAIN steps[w] = 1..Len(steps[w]) /\ Len(steps[w]) \in Nat
        /\ \A i \in 1..Len(steps[w]) : steps[w][i].rev = i - 1
    BY <2>2 DEF Chained
  <2>5. ASSUME d.rev + 2 <= Len(steps[w]) PROVE \E i \in DOMAIN steps[w] : steps[w][i].rev = d.rev + 1
    <3>1. d.rev + 2 \in 1..Len(steps[w]) /\ (d.rev + 2) - 1 = d.rev + 1
      BY <2>3, <2>4, <2>5
    <3> QED BY <2>4, <3>1
  <2>6. ASSUME NEW i \in DOMAIN steps[w], steps[w][i].rev = d.rev + 1 PROVE d.rev + 2 <= Len(steps[w])
    BY <2>3, <2>4, <2>6
  <2> QED BY <2>3, <2>5, <2>6
<1>8. BudgetHeld
  <2>1. ActiveCount = Cardinality(Active)
    BY DEF ActiveCount, Active
  <2> QED BY <1>1, <1>2, <2>1 DEF BudgetHeld, FewActive, WithinBudget
<1>9. OneWakeup
  BY <1>2, <1>3 DEF OneWakeup, Woken
<1> QED BY <1>4, <1>5, <1>6, <1>7, <1>8, <1>9 DEF WorkflowSound

\* The invariant of the tables holds in every reachable state, however the owner,
\* the Worker, whatever else ends a Run, and the tick interleave.
THEOREM WorkflowInvariant == WorkflowSpec => []WInv
<1>1. WorkflowInit => WInv
  BY WInit
<1>2. WInv /\ [WorkflowNext]_wfVars => WInv'
  BY WStep
<1> QED BY <1>1, <1>2, PTL DEF WorkflowSpec

\* The steps of a workflow form one chain of committed revisions, a Run that is
\* still live can commit, the step behind a decision exists exactly when the
\* approval was consumed, the cumulative limits hold and a step has one wakeup:
\* for any number of workflows and any budgets.
THEOREM WorkflowSoundHolds == WorkflowSpec => []WorkflowSound
<1>1. WInv => WorkflowSound
  BY WInvSound
<1> QED BY <1>1, WorkflowInvariant, PTL

\* A finished workflow keeps its row, its steps and its checkpoints, whatever
\* success, signal, decision or tick still arrives.
LEMMA FinishedStays ==
  ASSUME WInv, [WorkflowNext]_wfVars, NEW w \in Workflow, Exists(w), wf[w].status \in WfTerminal
  PROVE  wf'[w] = wf[w] /\ Len(steps'[w]) = Len(steps[w]) /\ checkpoints'[w] = checkpoints[w]
<1>1. Tables /\ Chained(wf[w], steps[w]) /\ wf[w].status \notin {"running", "runnable", "waiting", "pending"}
  BY RowOf DEF WInv, Fits, WfTerminal
<1>2. DOMAIN wf = Workflow /\ DOMAIN steps = Workflow /\ DOMAIN checkpoints = Workflow /\ steps[w] \in Seq(StepRow)
  BY <1>1 DEF Tables, Chained
<1>3. ASSUME NEW v \in Workflow, NEW b \in Budgets, CreateWorkflow(v, b)
      PROVE  wf'[w] = wf[w] /\ steps'[w] = steps[w] /\ checkpoints'[w] = checkpoints[w]
  BY <1>2, <1>3 DEF CreateWorkflow
<1>4. ASSUME NEW v \in Workflow, CancelWorkflow(v) \/ (\E f \in BOOLEAN : SetPaused(v, f))
      PROVE  wf'[w] = wf[w] /\ steps'[w] = steps[w] /\ checkpoints'[w] = checkpoints[w]
  BY <1>1, <1>2, <1>4 DEF CancelWorkflow, SetPaused, WfActive
<1>5. ASSUME NEW v \in Workflow, NEW k, NEW p, NEW r, DeliverSignal(v, k, p, r)
      PROVE  wf'[w] = wf[w] /\ steps'[w] = steps[w] /\ checkpoints'[w] = checkpoints[w]
  BY <1>1, <1>2, <1>5 DEF DeliverSignal, SignalAccepted
<1>6. ASSUME NEW v \in Workflow, NEW d \in decisions[v], NEW a \in BOOLEAN, Decide(v, d, a)
      PROVE  wf'[w] = wf[w] /\ steps'[w] = steps[w] /\ checkpoints'[w] = checkpoints[w]
  BY <1>1, <1>2, <1>6 DEF Decide
<1>7. ASSUME NEW v \in Workflow, StartStepRun(v) \/ (\E o \in {"failed", "cancelled"} : LoseStepRun(v, o)) \/ CommitCancelled(v)
      PROVE  wf'[w] = wf[w] /\ Len(steps'[w]) = Len(steps[w]) /\ checkpoints'[w] = checkpoints[w]
  <2>1. wf' = wf /\ checkpoints' = checkpoints
    BY <1>7 DEF StartStepRun, LoseStepRun, CommitCancelled
  <2>2. CASE v # w
    BY <1>2, <1>7, <2>2 DEF StartStepRun, LoseStepRun, CommitCancelled
  <2>3. CASE v = w
    <3>1. LastStep(w) \in StepRow /\ Len(steps[w]) \in 1..Len(steps[w]) /\ Len(steps[w]) # 0
      BY <1>1, <1>2 DEF Chained, LastStep
    <3>2. PICK last \in StepRow : steps'[w] = [steps[w] EXCEPT ![Len(steps[w])] = last]
      <4>1. ASSUME StartStepRun(w) PROVE steps'[w] = [steps[w] EXCEPT ![Len(steps[w])] = [LastStep(w) EXCEPT !.run = "running"]]
        BY <1>2, <3>1, <4>1 DEF StartStepRun, LastStep
      <4>2. ASSUME NEW o \in {"failed", "cancelled"}, LoseStepRun(w, o)
            PROVE  steps'[w] = [steps[w] EXCEPT ![Len(steps[w])] = [LastStep(w) EXCEPT !.run = o]]
        BY <1>2, <3>1, <4>2 DEF LoseStepRun, LastStep
      <4>3. ASSUME CommitCancelled(w)
            PROVE  steps'[w] = [steps[w] EXCEPT ![Len(steps[w])] = [LastStep(w) EXCEPT !.run = "succeeded", !.status = "succeeded"]]
        BY <1>2, <3>1, <4>3 DEF CommitCancelled, LastStep
      <4>4. \A o \in {"running", "failed", "cancelled"} : [LastStep(w) EXCEPT !.run = o] \in StepRow
        BY <3>1 DEF StepRow, StepRunEnded
      <4>5. [LastStep(w) EXCEPT !.run = "succeeded", !.status = "succeeded"] \in StepRow
        BY <3>1 DEF StepRow, StepRunEnded, StepStatus
      <4> QED BY <1>7, <2>3, <4>1, <4>2, <4>3, <4>4, <4>5
    <3>3. Len(steps'[w]) = Len(steps[w])
      BY <1>2, <3>1, <3>2, LastStepMoves
    <3> QED BY <2>1, <3>3
  <2> QED BY <2>1, <2>2, <2>3
<1>8. ASSUME NEW v \in Workflow, NEW dir \in Directives, CommitStep(v, dir)
      PROVE  wf'[w] = wf[w] /\ steps'[w] = steps[w] /\ checkpoints'[w] = checkpoints[w]
  BY <1>1, <1>2, <1>8 DEF CommitStep, StepFence
<1>9. ASSUME NEW v \in Workflow, TickEnds(v) \/ TickDispatches(v)
      PROVE  wf'[w] = wf[w] /\ steps'[w] = steps[w] /\ checkpoints'[w] = checkpoints[w]
  <2>1. v # w
    BY <1>1, <1>9 DEF TickEnds, TickDispatches, AdvancedBy, Due
  <2>2. CASE TickEnds(v)
    BY <1>2, <2>1, <2>2 DEF TickEnds
  <2>3. CASE TickDispatches(v)
    BY <1>2, <2>1, <2>3 DEF TickDispatches
  <2> QED BY <1>9, <2>2, <2>3
<1>10. CASE TickDefers \/ PassInstant \/ (\E v \in Workflow : \E a \in AgentEdits(wfAgent[v]) : EditAgent(v, a)) \/ UNCHANGED wfVars
  BY <1>10 DEF TickDefers, PassInstant, EditAgent, wfVars
<1> QED BY <1>3, <1>4, <1>5, <1>6, <1>7, <1>8, <1>9, <1>10 DEF WorkflowNext

\* The same of every behaviour.
THEOREM WorkflowFinalHolds == WorkflowSpec => WorkflowFinal
<1>1. WInv /\ [WorkflowNext]_wfVars =>
        [\A w \in Workflow : Exists(w) /\ wf[w].status \in WfTerminal =>
            wf'[w] = wf[w] /\ Len(steps'[w]) = Len(steps[w]) /\ checkpoints'[w] = checkpoints[w]]_wfVars
  BY FinishedStays
<1> QED BY <1>1, WorkflowInvariant, PTL DEF WorkflowSpec, WorkflowFinal
=============================================================================
