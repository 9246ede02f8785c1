------------------------- MODULE ConversationsProofs -------------------------
(***************************************************************************)
(* Proofs about Conversations and about Memory on top of it, for any       *)
(* number of messages, Runs, retries and projections and any limits: only  *)
(* the newest Turn is ever being answered, an answered Turn has one reply  *)
(* by its authoritative Run, an answer once given stays, a Run is shown    *)
(* the past as it is stored, and memory keeps to its limits and sources.   *)
(*                                                                         *)
(* Every action but a submission touches either the Runs or the Turns, so  *)
(* what holds is stated of Turns, replies and Runs without naming a        *)
(* variable, and each kind of change is proved once.                       *)
(***************************************************************************)
EXTENDS Memory, FiniteSetTheorems, SequenceTheorems, WellFoundedInduction, TLAPS

RunState == {"live"} \cup RunEnded
TurnRow == [message : ClientMessage, state : TurnState, authority : Nat]

\* The context of a Run is whatever was assembled for it; nobody works on a
\* Run that succeeded or failed.
RunRow(run) ==
  /\ run \in [turn : Nat, status : RunState, attempts : 1..MaxAttempts, worker : WorkerState, context : {run.context}]
  /\ run.status \in {"succeeded", "failed"} => run.worker = "settled"

IsSequence(s) == s \in Seq({s[i] : i \in DOMAIN s})
RunTable(rs) == IsSequence(rs) /\ \A r \in 1..Len(rs) : RunRow(rs[r])

\* An answered Turn has the one reply of its authoritative Run, a Run of its
\* own that gave it; no other Turn has authority or reply.
Answered(ts, rps, rs) ==
  \A i \in 1..Len(ts) :
    /\ ts[i].state = "succeeded" =>
          /\ ts[i].authority \in 1..Len(rs)
          /\ rs[ts[i].authority].turn = i /\ Spoke(rs[ts[i].authority])
          /\ [turn |-> i, run |-> ts[i].authority] \in rps
          /\ \A p \in rps : p.turn = i => p.run = ts[i].authority
    /\ ts[i].state # "succeeded" => ts[i].authority = 0 /\ \A p \in rps : p.turn # i

Told(ts, rps, rs) ==
  /\ ts \in Seq(TurnRow) /\ RunTable(rs)
  /\ \A r \in 1..Len(rs) : rs[r].turn <= Len(ts)
  /\ rps \subseteq [turn : 1..Len(ts), run : 1..Len(rs)]
  /\ \A i \in 1..Len(ts) : ts[i].state \in ActiveTurn => i = Len(ts)
  /\ Answered(ts, rps, rs)

\* A projection a Worker still holds is of a Run of some Turn, and it says
\* succeeded only of a Run that gave an answer, recorded or too late.
OwedTrue(ow, rs) ==
  /\ ow \subseteq [run : 1..Len(rs), verdict : RunEnded]
  /\ \A p \in ow : rs[p.run].turn # 0 /\ (p.verdict = "succeeded" => Spoke(rs[p.run]))

\* What every change of the Runs keeps.
Keeps(rs, next) ==
  /\ RunTable(next) /\ Len(rs) <= Len(next)
  /\ \A r \in 1..Len(rs) :
        /\ next[r].turn = rs[r].turn /\ (Spoke(rs[r]) => Spoke(next[r]))
        /\ rs[r].status = "succeeded" => next[r].status = "succeeded"

\* What every change of the Turns keeps.
Stands(ts, next) ==
  /\ Len(ts) <= Len(next)
  /\ \A i \in 1..Len(ts) : ts[i].state \in {"succeeded", "ambiguous"} => next[i] = ts[i]

TalkInv ==
  /\ conversation \in {"active", "archived", "deleted"} /\ refreshes \in {0, 1}
  /\ Told(turns, replies, runs) /\ OwedTrue(owed, runs)

\* What the maintenance pass is about to project did succeed.
PassTrue(todo, rs) == \A r \in todo : r \in 1..Len(rs) /\ rs[r].status = "succeeded"

MemoryInv == TalkInv /\ pass \in [phase : {"idle", "projecting", "materializing"}, todo : SUBSET Nat]
                     /\ PassTrue(pass.todo, runs)

-----------------------------------------------------------------------------
(* Sequences of rows.                                                      *)

LEMMA OwnRange ==
  ASSUME NEW S, NEW s \in Seq(S)
  PROVE  IsSequence(s)
<1> DEFINE T == {s[i] : i \in DOMAIN s}
<1>1. s \in [1..Len(s) -> S] /\ Len(s) \in Nat /\ DOMAIN s = 1..Len(s)
  BY LenProperties
<1>2. s = [i \in 1..Len(s) |-> s[i]] /\ \A i \in 1..Len(s) : s[i] \in T
  BY <1>1
<1> HIDE DEF T
<1>3. [i \in 1..Len(s) |-> s[i]] \in Seq(T)
  BY <1>1, <1>2
<1>4. s \in Seq(T)
  BY <1>2, <1>3
<1> QED
  BY <1>4 DEF IsSequence, T

LEMMA TableFacts ==
  ASSUME NEW rs, RunTable(rs)
  PROVE  /\ Len(rs) \in Nat /\ DOMAIN rs = 1..Len(rs)
         /\ \A r \in 1..Len(rs) : rs[r].turn \in Nat /\ rs[r].status \in RunState /\ rs[r].attempts \in 1..MaxAttempts
                                  /\ rs[r].worker \in WorkerState
<1>1. rs \in Seq({rs[i] : i \in DOMAIN rs})
  BY DEF RunTable, IsSequence
<1> QED
  BY <1>1, LenProperties DEF RunTable, RunRow

LEMMA TableAppend ==
  ASSUME NEW rs, RunTable(rs), NEW x, RunRow(x)
  PROVE  /\ RunTable(Append(rs, x)) /\ Len(Append(rs, x)) = Len(rs) + 1
         /\ \A r \in 1..Len(rs) : Append(rs, x)[r] = rs[r]
         /\ Append(rs, x)[Len(rs) + 1] = x
<1> DEFINE S == {rs[i] : i \in DOMAIN rs} \cup {x}
<1>1. rs \in Seq(S)
  BY SeqMonotonic DEF RunTable, IsSequence
<1>2. /\ Append(rs, x) \in Seq(S) /\ Len(Append(rs, x)) = Len(rs) + 1
      /\ \A r \in 1..Len(rs) : Append(rs, x)[r] = rs[r]
      /\ Append(rs, x)[Len(rs) + 1] = x
  BY <1>1, AppendProperties
<1>3. IsSequence(Append(rs, x))
  BY <1>2, OwnRange
<1>4. ASSUME NEW r \in 1..(Len(rs) + 1) PROVE RunRow(Append(rs, x)[r])
  BY <1>2, TableFacts, r \in 1..Len(rs) \/ r = Len(rs) + 1 DEF RunTable
<1> QED
  BY <1>2, <1>3, <1>4 DEF RunTable

LEMMA TableExtend ==
  ASSUME NEW rs, RunTable(rs), NEW x, RunRow(x), NEW n \in Nat
  PROVE  LET next == rs \o [k \in 1..n |-> x] IN
         /\ RunTable(next) /\ Len(next) = Len(rs) + n
         /\ \A r \in 1..Len(rs) : next[r] = rs[r]
         /\ \A r \in (Len(rs) + 1)..(Len(rs) + n) : next[r] = x
<1> DEFINE S == {rs[i] : i \in DOMAIN rs} \cup {x}
           more == [k \in 1..n |-> x]
           next == rs \o more
<1>1. rs \in Seq(S)
  BY SeqMonotonic DEF RunTable, IsSequence
<1>2. more \in Seq(S) /\ Len(more) = n
  OBVIOUS
<1>3. /\ next \in Seq(S) /\ Len(next) = Len(rs) + n
      /\ \A i \in 1..(Len(rs) + n) : next[i] = IF i <= Len(rs) THEN rs[i] ELSE more[i - Len(rs)]
  BY <1>1, <1>2, ConcatProperties
<1>4. IsSequence(next)
  BY <1>3, OwnRange
<1>5. Len(rs) \in Nat
  BY TableFacts
<1>6. /\ \A r \in 1..Len(rs) : next[r] = rs[r]
      /\ \A r \in (Len(rs) + 1)..(Len(rs) + n) : next[r] = x
  BY <1>3, <1>5
<1>7. \A r \in 1..Len(next) : RunRow(next[r])
  BY <1>3, <1>5, <1>6 DEF RunTable
<1> QED
  BY <1>3, <1>4, <1>6, <1>7 DEF RunTable

LEMMA TableRewrite ==
  ASSUME NEW rs, RunTable(rs), NEW r \in 1..Len(rs), NEW x, RunRow(x)
  PROVE  /\ RunTable([rs EXCEPT ![r] = x]) /\ Len([rs EXCEPT ![r] = x]) = Len(rs)
         /\ \A i \in 1..Len(rs) : [rs EXCEPT ![r] = x][i] = IF i = r THEN x ELSE rs[i]
<1> DEFINE S == {rs[i] : i \in DOMAIN rs} \cup {x}
<1>1. rs \in Seq(S)
  BY SeqMonotonic DEF RunTable, IsSequence
<1>2. /\ [rs EXCEPT ![r] = x] \in Seq(S) /\ Len([rs EXCEPT ![r] = x]) = Len(rs)
      /\ \A i \in 1..Len(rs) : [rs EXCEPT ![r] = x][i] = IF i = r THEN x ELSE rs[i]
  BY <1>1, ExceptSeq
<1>3. IsSequence([rs EXCEPT ![r] = x])
  BY <1>2, OwnRange
<1> QED
  BY <1>2, <1>3 DEF RunTable
-----------------------------------------------------------------------------
(* The Runs change.                                                        *)

\* Turns and replies stay true of Runs that were only added or ended.
LEMMA RunsMove ==
  ASSUME NEW ts, NEW rps, NEW rs, NEW next, Told(ts, rps, rs), Keeps(rs, next),
         \A r \in 1..Len(next) : next[r].turn <= Len(ts)
  PROVE  Told(ts, rps, next)
<1>1. Len(rs) \in Nat /\ Len(next) \in Nat
  BY TableFacts DEF Told, Keeps
<1>2. rps \subseteq [turn : 1..Len(ts), run : 1..Len(next)]
  BY <1>1 DEF Told, Keeps
<1>3. Answered(ts, rps, next)
  <2>1. ASSUME NEW i \in 1..Len(ts), ts[i].state = "succeeded"
        PROVE  /\ ts[i].authority \in 1..Len(next)
               /\ next[ts[i].authority].turn = i /\ Spoke(next[ts[i].authority])
    <3>1. ts[i].authority \in 1..Len(rs) /\ rs[ts[i].authority].turn = i /\ Spoke(rs[ts[i].authority])
      BY <2>1 DEF Told, Answered
    <3> QED
      BY <1>1, <3>1 DEF Keeps
  <2> QED
    BY <2>1 DEF Told, Answered
<1> QED
  BY <1>2, <1>3 DEF Told, Keeps

LEMMA OwedMove ==
  ASSUME NEW ow, NEW rs, NEW next, OwedTrue(ow, rs), RunTable(rs), Keeps(rs, next)
  PROVE  OwedTrue(ow, next)
BY TableFacts DEF Keeps, OwedTrue

LEMMA PassMove ==
  ASSUME NEW todo, NEW rs, NEW next, PassTrue(todo, rs), RunTable(rs), Keeps(rs, next)
  PROVE  PassTrue(todo, next)
BY TableFacts DEF Keeps, PassTrue

\* One Run is rewritten: it keeps its Turn, and its answer if it gave one.
RunGoesOn(run, x) ==
  /\ RunRow(x) /\ x.turn = run.turn /\ (Spoke(run) => Spoke(x))
  /\ run.status = "succeeded" => x.status = "succeeded"

LEMMA RunRewritten ==
  ASSUME NEW ts, NEW rps, NEW rs, Told(ts, rps, rs), NEW r \in 1..Len(rs), NEW x, RunGoesOn(rs[r], x)
  PROVE  Told(ts, rps, [rs EXCEPT ![r] = x]) /\ Keeps(rs, [rs EXCEPT ![r] = x])
<1> DEFINE next == [rs EXCEPT ![r] = x]
<1>1. /\ RunTable(next) /\ Len(next) = Len(rs)
      /\ \A i \in 1..Len(rs) : next[i] = IF i = r THEN x ELSE rs[i]
  BY TableRewrite DEF Told, RunGoesOn
<1>2. Len(rs) \in Nat
  BY TableFacts DEF Told
<1> HIDE DEF next
<1>3. Keeps(rs, next)
  BY <1>1, <1>2 DEF Keeps, RunGoesOn
<1>4. \A i \in 1..Len(next) : next[i].turn <= Len(ts)
  BY <1>1 DEF Told, RunGoesOn
<1>5. Told(ts, rps, next)
  BY <1>3, <1>4, RunsMove
<1> QED
  BY <1>3, <1>5 DEF next

\* A Run is added for a Turn that exists, or outside the conversation.
LEMMA RunAdded ==
  ASSUME NEW ts, NEW rps, NEW rs, Told(ts, rps, rs), NEW x, RunRow(x), x.turn <= Len(ts)
  PROVE  Told(ts, rps, Append(rs, x)) /\ Keeps(rs, Append(rs, x))
<1>1. Len(rs) \in Nat
  BY TableFacts DEF Told
<1>2. /\ RunTable(Append(rs, x)) /\ Len(Append(rs, x)) = Len(rs) + 1
      /\ \A r \in 1..Len(rs) : Append(rs, x)[r] = rs[r]
      /\ Append(rs, x)[Len(rs) + 1] = x
  BY TableAppend DEF Told
<1>3. Keeps(rs, Append(rs, x))
  BY <1>1, <1>2 DEF Keeps
<1>4. ASSUME NEW i \in 1..Len(Append(rs, x)) PROVE Append(rs, x)[i].turn <= Len(ts)
  BY <1>1, <1>2, i \in 1..Len(rs) \/ i = Len(rs) + 1 DEF Told
<1> QED
  BY <1>3, <1>4, RunsMove

-----------------------------------------------------------------------------
(* The Turns change.                                                       *)

\* A new Turn, when none is being answered.
LEMMA TurnAdded ==
  ASSUME NEW ts, NEW rps, NEW rs, Told(ts, rps, rs), NEW m \in ClientMessage,
         \A i \in 1..Len(ts) : ts[i].state \notin ActiveTurn
  PROVE  LET next == Append(ts, [message |-> m, state |-> "running", authority |-> 0]) IN
         Told(next, rps, rs) /\ Stands(ts, next) /\ Len(next) = Len(ts) + 1
<1> DEFINE row == [message |-> m, state |-> "running", authority |-> 0]
           next == Append(ts, row)
<1>1. row \in TurnRow /\ row.state = "running" /\ row.authority = 0
  BY DEF TurnRow, TurnState, ActiveTurn
<1> HIDE DEF row
<1>2. /\ next \in Seq(TurnRow) /\ Len(next) = Len(ts) + 1
      /\ \A i \in 1..Len(ts) : next[i] = ts[i]
      /\ next[Len(ts) + 1] = row
  BY <1>1, AppendProperties DEF Told
<1>3. Len(ts) \in Nat
  BY LenProperties DEF Told
<1> HIDE DEF next
<1>4. \A i \in 1..Len(next) : i \in 1..Len(ts) \/ i = Len(ts) + 1
  BY <1>2, <1>3
<1>5. Stands(ts, next)
  BY <1>2, <1>3 DEF Stands
<1>6. rps \subseteq [turn : 1..Len(next), run : 1..Len(rs)] /\ \A p \in rps : p.turn # Len(ts) + 1
  BY <1>2, <1>3 DEF Told
<1>7. ASSUME NEW i \in 1..Len(next), next[i].state \in ActiveTurn PROVE i = Len(next)
  BY <1>2, <1>4, <1>7
<1>8. Answered(next, rps, rs)
  BY <1>1, <1>2, <1>4, <1>6 DEF Told, Answered
<1>9. \A r \in 1..Len(rs) : rs[r].turn <= Len(next)
  BY <1>2, <1>3, TableFacts DEF Told
<1>10. Told(next, rps, rs)
  BY <1>2, <1>6, <1>7, <1>8, <1>9 DEF Told
<1> QED
  BY <1>2, <1>5, <1>10 DEF next, row

\* The newest Turn, not answered, is tried again.
LEMMA TurnReopened ==
  ASSUME NEW ts, NEW rps, NEW rs, Told(ts, rps, rs), NEW i \in 1..Len(ts), i = Len(ts),
         ts[i].state \in {"failed", "cancelled"}
  PROVE  LET next == [ts EXCEPT ![i].state = "running"] IN
         Told(next, rps, rs) /\ Stands(ts, next) /\ Len(next) = Len(ts)
<1> DEFINE row == [ts[i] EXCEPT !.state = "running"]
           next == [ts EXCEPT ![i] = row]
<1>1. ts \in Seq(TurnRow) /\ ts[i] \in TurnRow
  BY ElementOfSeq DEF Told
<1>2. row \in TurnRow /\ row.state = "running" /\ row.authority = ts[i].authority
  BY <1>1 DEF TurnRow, TurnState, ActiveTurn
<1> HIDE DEF row
<1>3. /\ next \in Seq(TurnRow) /\ Len(next) = Len(ts)
      /\ \A j \in 1..Len(ts) : next[j] = IF j = i THEN row ELSE ts[j]
  BY <1>1, <1>2, ExceptSeq
<1>4. next = [ts EXCEPT ![i].state = "running"]
  BY DEF row
<1> HIDE DEF next
<1>5. Len(ts) \in Nat
  BY <1>1, LenProperties
<1>6. Stands(ts, next)
  BY <1>3, <1>5 DEF Stands
<1>7. Answered(next, rps, rs)
  BY <1>2, <1>3 DEF Told, Answered
<1>8. \A j \in 1..Len(next) : next[j].state \in ActiveTurn => j = Len(next)
  BY <1>3 DEF Told
<1>9. Told(next, rps, rs)
  BY <1>3, <1>7, <1>8 DEF Told
<1> QED
  BY <1>3, <1>4, <1>6, <1>9

\* The verdict of a Run on its active Turn.
LEMMA TurnJudged ==
  ASSUME NEW ts, NEW rps, NEW rs, Told(ts, rps, rs), NEW r \in 1..Len(rs), rs[r].turn # 0,
         ts[rs[r].turn].state \in ActiveTurn,
         NEW verdict \in RunEnded, verdict = "succeeded" => Spoke(rs[r])
  PROVE  LET t == rs[r].turn
             next == [ts EXCEPT ![t] = [message |-> ts[t].message, state |-> verdict,
                        authority |-> IF verdict = "succeeded" THEN r ELSE ts[t].authority]]
             said == IF verdict = "succeeded" THEN rps \cup {[turn |-> t, run |-> r]} ELSE rps
         IN Told(next, said, rs) /\ Stands(ts, next)
<1> DEFINE t == rs[r].turn
           row == [message |-> ts[t].message, state |-> verdict,
                   authority |-> IF verdict = "succeeded" THEN r ELSE ts[t].authority]
           next == [ts EXCEPT ![t] = row]
           said == IF verdict = "succeeded" THEN rps \cup {[turn |-> t, run |-> r]} ELSE rps
<1>1. ts \in Seq(TurnRow) /\ Len(ts) \in Nat /\ Len(rs) \in Nat
  BY LenProperties, TableFacts DEF Told
<1>2. t \in 1..Len(ts)
  BY <1>1, TableFacts DEF Told
<1>3. ts[t] \in TurnRow /\ ts[t].authority = 0 /\ \A p \in rps : p.turn # t
  BY <1>1, <1>2, ElementOfSeq DEF Told, Answered, ActiveTurn
<1>4. row \in TurnRow /\ row.state = verdict /\ row.authority = IF verdict = "succeeded" THEN r ELSE 0
  BY <1>1, <1>3 DEF TurnRow, TurnState, RunEnded
<1>5. /\ said \subseteq [turn : 1..Len(ts), run : 1..Len(rs)]
      /\ \A p \in said : p.turn # t => p \in rps
      /\ \A p \in rps : p \in said
      /\ verdict = "succeeded" => [turn |-> t, run |-> r] \in said /\ \A p \in said : p.turn = t => p.run = r
      /\ verdict # "succeeded" => \A p \in said : p.turn # t
  BY <1>2, <1>3 DEF Told
<1> HIDE DEF row, said
<1>6. /\ next \in Seq(TurnRow) /\ Len(next) = Len(ts)
      /\ \A j \in 1..Len(ts) : next[j] = IF j = t THEN row ELSE ts[j]
  BY <1>1, <1>2, <1>4, ExceptSeq
<1> HIDE DEF next
<1>7. Stands(ts, next)
  BY <1>1, <1>6 DEF Stands, ActiveTurn
<1>8. Answered(next, said, rs)
  <2>1. ASSUME NEW j \in 1..Len(next), j # t
        PROVE  /\ next[j].state = "succeeded" =>
                    /\ next[j].authority \in 1..Len(rs)
                    /\ rs[next[j].authority].turn = j /\ Spoke(rs[next[j].authority])
                    /\ [turn |-> j, run |-> next[j].authority] \in said
                    /\ \A p \in said : p.turn = j => p.run = next[j].authority
               /\ next[j].state # "succeeded" => next[j].authority = 0 /\ \A p \in said : p.turn # j
    BY <1>5, <1>6, <2>1 DEF Told, Answered
  <2>2. /\ next[t].state = "succeeded" =>
             /\ next[t].authority \in 1..Len(rs)
             /\ rs[next[t].authority].turn = t /\ Spoke(rs[next[t].authority])
             /\ [turn |-> t, run |-> next[t].authority] \in said
             /\ \A p \in said : p.turn = t => p.run = next[t].authority
        /\ next[t].state # "succeeded" => next[t].authority = 0 /\ \A p \in said : p.turn # t
    BY <1>2, <1>4, <1>5, <1>6
  <2> QED
    BY <2>1, <2>2 DEF Answered
<1>9. \A j \in 1..Len(next) : next[j].state \in ActiveTurn => j = Len(next)
  BY <1>4, <1>6 DEF Told, ActiveTurn, RunEnded
<1>10. Told(next, said, rs)
  BY <1>5, <1>6, <1>8, <1>9 DEF Told
<1> QED
  BY <1>7, <1>10 DEF next, said, row
-----------------------------------------------------------------------------
(* The actions of a conversation.                                          *)

LEMMA NewRunFits ==
  ASSUME NEW n \in Nat, NEW m, NEW memories
  PROVE  RunRow(NewRun(n, m, memories)) /\ NewRun(n, m, memories).turn = n
BY ConversationConstants DEF NewRun, RunRow, RunState, WorkerState

LEMMA NothingChanges ==
  ASSUME TalkInv
  PROVE  Stands(turns, turns) /\ Keeps(runs, runs)
<1>1. Len(turns) \in Nat /\ Len(runs) \in Nat
  BY LenProperties, TableFacts DEF TalkInv, Told
<1> QED
  BY <1>1 DEF TalkInv, Told, Stands, Keeps

LEMMA SendKeeps ==
  ASSUME TalkInv, NEW m \in ClientMessage, NEW memories, SendMessage(m, memories)
  PROVE  TalkInv' /\ Stands(turns, turns') /\ Keeps(runs, runs')
<1> DEFINE x == NewRun(Len(turns) + 1, m, memories)
<1>1. Told(turns, replies, runs) /\ OwedTrue(owed, runs) /\ RunTable(runs) /\ turns \in Seq(TurnRow)
  BY DEF TalkInv, Told
<1>2. Len(turns) \in Nat /\ DOMAIN turns = 1..Len(turns)
  BY <1>1, LenProperties
<1>3. RunRow(x) /\ x.turn = Len(turns) + 1
  BY <1>2, NewRunFits
<1> HIDE DEF x
<1>4. /\ turns' = Append(turns, [message |-> m, state |-> "running", authority |-> 0])
      /\ runs' = Append(runs, x) /\ replies' = replies /\ owed' = owed
      /\ conversation' = conversation /\ refreshes' = refreshes
      /\ \A i \in 1..Len(turns) : turns[i].state \notin ActiveTurn
  BY <1>2 DEF SendMessage, x
<1>5. Told(turns', replies, runs) /\ Stands(turns, turns') /\ Len(turns') = Len(turns) + 1
  BY <1>1, <1>4, TurnAdded
<1>6. Told(turns', replies, runs') /\ Keeps(runs, runs')
  <2>1. x.turn <= Len(turns')
    BY <1>2, <1>3, <1>5
  <2> QED
    BY <1>3, <1>4, <1>5, <2>1, RunAdded
<1>7. OwedTrue(owed, runs')
  BY <1>1, <1>6, OwedMove
<1> QED
  BY <1>4, <1>5, <1>6, <1>7 DEF TalkInv

LEMMA RetryKeeps ==
  ASSUME TalkInv, NEW i, NEW memories, RetryTurn(i, memories)
  PROVE  TalkInv' /\ Stands(turns, turns') /\ Keeps(runs, runs')
<1> DEFINE x == NewRun(i, turns[i].message, memories)
<1>1. Told(turns, replies, runs) /\ OwedTrue(owed, runs) /\ RunTable(runs) /\ turns \in Seq(TurnRow)
  BY DEF TalkInv, Told
<1>2. Len(turns) \in Nat /\ DOMAIN turns = 1..Len(turns)
  BY <1>1, LenProperties
<1>3. i \in 1..Len(turns) /\ i = Len(turns) /\ turns[i].state \in {"failed", "cancelled"}
  BY <1>2 DEF RetryTurn, Retryable
<1>4. RunRow(x) /\ x.turn = i
  BY <1>3, NewRunFits
<1> HIDE DEF x
<1>5. /\ turns' = [turns EXCEPT ![i].state = "running"]
      /\ runs' = Append(runs, x) /\ replies' = replies /\ owed' = owed
      /\ conversation' = conversation /\ refreshes' = refreshes
  BY DEF RetryTurn, x
<1>6. Told(turns', replies, runs) /\ Stands(turns, turns') /\ Len(turns') = Len(turns)
  BY <1>1, <1>3, <1>5, TurnReopened
<1>7. Told(turns', replies, runs') /\ Keeps(runs, runs')
  <2>1. x.turn <= Len(turns')
    BY <1>2, <1>3, <1>4, <1>6
  <2> QED
    BY <1>4, <1>5, <1>6, <2>1, RunAdded
<1>8. OwedTrue(owed, runs')
  BY <1>1, <1>7, OwedMove
<1> QED
  BY <1>5, <1>6, <1>7, <1>8 DEF TalkInv

\* One Run ends, is given another attempt or loses its Worker; a Worker may
\* owe its Turn the verdict.
LEMMA RunEndsKeeps ==
  ASSUME TalkInv, NEW r \in 1..Len(runs), NEW x, RunGoesOn(runs[r], x),
         runs' = [runs EXCEPT ![r] = x],
         NEW verdict \in RunEnded, verdict = "succeeded" => Spoke(x),
         owed' \in {owed, owed \cup Owing(r, verdict)},
         UNCHANGED <<conversation, turns, replies, refreshes>>
  PROVE  TalkInv' /\ Stands(turns, turns') /\ Keeps(runs, runs')
<1>1. Told(turns, replies, runs) /\ OwedTrue(owed, runs) /\ RunTable(runs)
  BY DEF TalkInv, Told
<1>2. Told(turns, replies, runs') /\ Keeps(runs, runs')
  BY <1>1, RunRewritten
<1>3. OwedTrue(owed, runs')
  BY <1>1, <1>2, OwedMove
<1>4. runs'[r] = x /\ r \in 1..Len(runs') /\ x.turn = runs[r].turn
  BY <1>1, TableRewrite DEF RunGoesOn
<1>5. OwedTrue(owed', runs')
  BY <1>3, <1>4 DEF OwedTrue, Owing
<1> QED
  BY <1>2, <1>5, NothingChanges DEF TalkInv

\* The row of a Run after each change of it.
Settled(run, v) == [run EXCEPT !.status = v, !.worker = "settled"]
Missed(run, v) == [run EXCEPT !.worker = IF v = "succeeded" THEN "late_answer" ELSE "late_failure"]
Ended(run, v) == [run EXCEPT !.status = v, !.worker = IF v = "failed" THEN "settled" ELSE @]
Again(run) == [run EXCEPT !.attempts = @ + 1]

RowOf(t, s, n, w, c) == [turn |-> t, status |-> s, attempts |-> n, worker |-> w, context |-> c]
RowWith(run, state, w, n) == RowOf(run.turn, state, n, w, run.context)

LEMMA RowRewritten ==
  ASSUME NEW t, NEW s, NEW n, NEW w, NEW c, NEW v
  PROVE  /\ Settled(RowOf(t, s, n, w, c), v) = RowOf(t, v, n, "settled", c)
         /\ Missed(RowOf(t, s, n, w, c), v)
              = RowOf(t, s, n, IF v = "succeeded" THEN "late_answer" ELSE "late_failure", c)
         /\ Ended(RowOf(t, s, n, w, c), v) = RowOf(t, v, n, IF v = "failed" THEN "settled" ELSE w, c)
         /\ Again(RowOf(t, s, n, w, c)) = RowOf(t, s, n + 1, w, c)
<1>1. [[turn |-> t, status |-> s, attempts |-> n, worker |-> w, context |-> c] EXCEPT !.status = v]
        = [turn |-> t, status |-> v, attempts |-> n, worker |-> w, context |-> c]
  OBVIOUS
<1>2. \A u : [[turn |-> t, status |-> v, attempts |-> n, worker |-> w, context |-> c] EXCEPT !.worker = u]
        = [turn |-> t, status |-> v, attempts |-> n, worker |-> u, context |-> c]
  OBVIOUS
<1>3. Settled(RowOf(t, s, n, w, c), v) = RowOf(t, v, n, "settled", c)
  BY <1>1, <1>2 DEF Settled, RowOf
<1>4. Ended(RowOf(t, s, n, w, c), v) = RowOf(t, v, n, IF v = "failed" THEN "settled" ELSE w, c)
  BY <1>1, <1>2 DEF Ended, RowOf
<1>5. Missed(RowOf(t, s, n, w, c), v)
        = RowOf(t, s, n, IF v = "succeeded" THEN "late_answer" ELSE "late_failure", c)
  BY DEF Missed, RowOf
<1>6. Again(RowOf(t, s, n, w, c)) = RowOf(t, s, n + 1, w, c)
  BY DEF Again, RowOf
<1> QED
  BY <1>3, <1>4, <1>5, <1>6

LEMMA RowsWritten ==
  ASSUME NEW run, RunRow(run), NEW v
  PROVE  /\ Settled(run, v) = RowWith(run, v, "settled", run.attempts)
         /\ Missed(run, v) = RowWith(run, run.status,
                               IF v = "succeeded" THEN "late_answer" ELSE "late_failure", run.attempts)
         /\ Ended(run, v) = RowWith(run, v, IF v = "failed" THEN "settled" ELSE run.worker, run.attempts)
         /\ Again(run) = RowWith(run, run.status, run.worker, run.attempts + 1)
<1>1. run = RowOf(run.turn, run.status, run.attempts, run.worker, run.context)
  BY DEF RunRow, RowOf
<1>2. /\ Settled(RowOf(run.turn, run.status, run.attempts, run.worker, run.context), v)
           = RowOf(run.turn, v, run.attempts, "settled", run.context)
      /\ Missed(RowOf(run.turn, run.status, run.attempts, run.worker, run.context), v)
           = RowOf(run.turn, run.status, run.attempts,
                   IF v = "succeeded" THEN "late_answer" ELSE "late_failure", run.context)
      /\ Ended(RowOf(run.turn, run.status, run.attempts, run.worker, run.context), v)
           = RowOf(run.turn, v, run.attempts, IF v = "failed" THEN "settled" ELSE run.worker, run.context)
      /\ Again(RowOf(run.turn, run.status, run.attempts, run.worker, run.context))
           = RowOf(run.turn, run.status, run.attempts + 1, run.worker, run.context)
  BY RowRewritten
<1> QED
  BY <1>1, <1>2, Zenon DEF RowWith

LEMMA RowFits ==
  ASSUME NEW run, RunRow(run), NEW state \in RunState, NEW w \in WorkerState, NEW n \in 1..MaxAttempts,
         state \in {"succeeded", "failed"} => w = "settled",
         Spoke(run) => state = "succeeded" \/ (w = "late_answer" /\ state # "failed"),
         run.status = "succeeded" => state = "succeeded"
  PROVE  /\ RunGoesOn(run, RowWith(run, state, w, n)) /\ RowWith(run, state, w, n).context = run.context
         /\ state = "succeeded" \/ (w = "late_answer" /\ state # "failed") => Spoke(RowWith(run, state, w, n))
<1> DEFINE x == RowWith(run, state, w, n)
<1>1. x.turn = run.turn /\ x.status = state /\ x.worker = w /\ x.context = run.context
  BY DEF RowWith, RowOf
<1>2. RunRow(x)
  BY DEF RowWith, RowOf, RunRow
<1> HIDE DEF x
<1>3. Spoke(x) <=> state = "succeeded" \/ (w = "late_answer" /\ state # "failed")
  BY <1>1 DEF Spoke
<1> QED
  BY <1>1, <1>2, <1>3 DEF RunGoesOn, x

LEMMA RunChanges ==
  ASSUME NEW run, RunRow(run), NEW v \in RunEnded
  PROVE  /\ run.status = "live" /\ run.worker = "working" =>
              /\ RunGoesOn(run, Settled(run, v)) /\ Settled(run, v).context = run.context
              /\ v = "succeeded" => Spoke(Settled(run, v))
         /\ run.worker = "working" =>
              /\ RunGoesOn(run, Missed(run, v)) /\ Missed(run, v).context = run.context
              /\ v = "succeeded" => Spoke(Missed(run, v))
         /\ run.status = "live" /\ v # "succeeded" /\ (v = "failed" => run.worker = "working")
              => RunGoesOn(run, Ended(run, v)) /\ Ended(run, v).context = run.context
         /\ run.status = "live" /\ run.attempts < MaxAttempts
              => RunGoesOn(run, Again(run)) /\ Again(run).context = run.context
<1>1. /\ run.attempts \in 1..MaxAttempts /\ MaxAttempts \in Nat /\ v \in RunState /\ run.status \in RunState
      /\ run.worker \in WorkerState /\ (run.status \in {"succeeded", "failed"} => run.worker = "settled")
      /\ {"settled", "late_answer", "late_failure"} \subseteq WorkerState
  BY ConversationConstants DEF RunRow, RunState, WorkerState
<1>2. Spoke(run) <=> run.status = "succeeded" \/ (run.worker = "late_answer" /\ run.status # "failed")
  BY DEF Spoke
<1>3. ASSUME run.status = "live", run.worker = "working"
      PROVE  /\ RunGoesOn(run, Settled(run, v)) /\ Settled(run, v).context = run.context
             /\ v = "succeeded" => Spoke(Settled(run, v))
  <2>1. Settled(run, v) = RowWith(run, v, "settled", run.attempts)
    BY RowsWritten
  <2>2. ~Spoke(run) /\ run.status # "succeeded"
    BY <1>2, <1>3
  <2> QED
    BY <1>1, <2>1, <2>2, RowFits
<1>4. ASSUME run.worker = "working"
      PROVE  /\ RunGoesOn(run, Missed(run, v)) /\ Missed(run, v).context = run.context
             /\ v = "succeeded" => Spoke(Missed(run, v))
  <2> DEFINE w == IF v = "succeeded" THEN "late_answer" ELSE "late_failure"
  <2>1. Missed(run, v) = RowWith(run, run.status, w, run.attempts)
    BY RowsWritten
  <2>2. run.status \notin {"succeeded", "failed"} /\ ~Spoke(run)
    BY <1>1, <1>2, <1>4
  <2>3. w \in WorkerState /\ (v = "succeeded" => w = "late_answer")
    BY <1>1
  <2> HIDE DEF w
  <2> QED
    BY <1>1, <2>1, <2>2, <2>3, RowFits
<1>5. ASSUME run.status = "live", v # "succeeded", v = "failed" => run.worker = "working"
      PROVE  RunGoesOn(run, Ended(run, v)) /\ Ended(run, v).context = run.context
  <2> DEFINE w == IF v = "failed" THEN "settled" ELSE run.worker
  <2>1. Ended(run, v) = RowWith(run, v, w, run.attempts)
    BY RowsWritten
  <2>2. w \in WorkerState /\ (v = "failed" => w = "settled") /\ run.status # "succeeded"
    BY <1>1, <1>5
  <2>3. Spoke(run) => w = "late_answer" /\ v # "failed"
    BY <1>2, <1>5
  <2> HIDE DEF w
  <2> QED
    BY <1>1, <1>5, <2>1, <2>2, <2>3, RowFits
<1>6. ASSUME run.status = "live", run.attempts < MaxAttempts
      PROVE  RunGoesOn(run, Again(run)) /\ Again(run).context = run.context
  <2>1. Again(run) = RowWith(run, run.status, run.worker, run.attempts + 1)
    BY RowsWritten
  <2>2. run.attempts + 1 \in 1..MaxAttempts
    BY <1>1, <1>6
  <2> QED
    BY <1>1, <1>2, <1>6, <2>1, <2>2, RowFits
<1> QED
  BY <1>3, <1>4, <1>5, <1>6

\* The four changes, and what a Worker then owes.
RunChange(r, v) == SettleAttempt(r, v) \/ SettleLate(r, v) \/ (EndUnprojected(r, v) /\ v # "succeeded")

LEMMA RunChangeShape ==
  ASSUME TalkInv, NEW r, NEW v \in RunEnded, RunChange(r, v)
  PROVE  /\ r \in 1..Len(runs)
         /\ \E x : /\ RunGoesOn(runs[r], x) /\ x.context = runs[r].context /\ runs' = [runs EXCEPT ![r] = x]
                   /\ owed' = owed \/ (owed' = owed \cup Owing(r, v) /\ (v = "succeeded" => Spoke(x)))
         /\ UNCHANGED <<conversation, turns, replies, refreshes, compaction>>
<1>1. r \in 1..Len(runs)
  BY TableFacts DEF TalkInv, Told, RunChange, SettleAttempt, Holds, SettleLate, EndUnprojected
<1>2. RunRow(runs[r])
  BY <1>1 DEF TalkInv, Told, RunTable
<1>3. UNCHANGED <<conversation, turns, replies, refreshes, compaction>>
  BY DEF RunChange, SettleAttempt, SettleLate, EndUnprojected
<1>4. CASE SettleAttempt(r, v)
  <2>1. runs' = [runs EXCEPT ![r] = Settled(runs[r], v)]
    BY <1>4 DEF SettleAttempt, Settled
  <2>2. runs[r].status = "live" /\ runs[r].worker = "working" /\ owed' = owed \cup Owing(r, v)
    BY <1>4 DEF SettleAttempt, Holds
  <2> QED
    BY <1>1, <1>2, <1>3, <2>1, <2>2, RunChanges
<1>5. CASE SettleLate(r, v)
  <2>1. runs' = [runs EXCEPT ![r] = Missed(runs[r], v)]
    BY <1>5 DEF SettleLate, Missed
  <2>2. runs[r].worker = "working" /\ owed' = owed \cup Owing(r, v)
    BY <1>5 DEF SettleLate
  <2> QED
    BY <1>1, <1>2, <1>3, <2>1, <2>2, RunChanges
<1>6. CASE EndUnprojected(r, v) /\ v # "succeeded"
  <2>1. runs' = [runs EXCEPT ![r] = Ended(runs[r], v)]
    BY <1>6 DEF EndUnprojected, Ended
  <2>2. runs[r].status = "live" /\ (v = "failed" => runs[r].worker = "working") /\ owed' = owed
    BY <1>6 DEF EndUnprojected
  <2> QED
    BY <1>1, <1>2, <1>3, <1>6, <2>1, <2>2, RunChanges
<1> QED
  BY <1>4, <1>5, <1>6 DEF RunChange

LEMMA SettleKeeps ==
  ASSUME TalkInv, NEW r, NEW v \in RunEnded, RunChange(r, v)
  PROVE  TalkInv' /\ Stands(turns, turns') /\ Keeps(runs, runs')
<1>1. r \in 1..Len(runs) /\ UNCHANGED <<conversation, turns, replies, refreshes>>
  BY RunChangeShape
<1>2. PICK x : /\ RunGoesOn(runs[r], x) /\ runs' = [runs EXCEPT ![r] = x]
               /\ owed' = owed \/ (owed' = owed \cup Owing(r, v) /\ (v = "succeeded" => Spoke(x)))
  BY RunChangeShape
<1>3. CASE owed' = owed
  <2>1. "failed" \in RunEnded /\ "failed" # "succeeded"
    BY DEF RunEnded
  <2> QED
    BY <1>1, <1>2, <1>3, <2>1, RunEndsKeeps
<1>4. CASE owed' # owed
  BY <1>1, <1>2, <1>4, RunEndsKeeps
<1> QED
  BY <1>3, <1>4

LEMMA ScheduleShape ==
  ASSUME TalkInv, NEW r, ScheduleAnotherAttempt(r)
  PROVE  /\ r \in 1..Len(runs) /\ runs' = [runs EXCEPT ![r] = Again(runs[r])]
         /\ RunGoesOn(runs[r], Again(runs[r])) /\ Again(runs[r]).context = runs[r].context
         /\ owed' = owed \cup Owing(r, "failed")
         /\ UNCHANGED <<conversation, turns, replies, refreshes, compaction>>
<1>1. r \in 1..Len(runs) /\ runs[r].status = "live" /\ runs[r].attempts < MaxAttempts
  BY TableFacts DEF TalkInv, Told, ScheduleAnotherAttempt, Holds
<1>2. RunRow(runs[r])
  BY <1>1 DEF TalkInv, Told, RunTable
<1>3. "failed" \in RunEnded
  BY DEF RunEnded
<1>4. /\ runs' = [runs EXCEPT ![r] = Again(runs[r])] /\ owed' = owed \cup Owing(r, "failed")
      /\ UNCHANGED <<conversation, turns, replies, refreshes, compaction>>
  BY DEF ScheduleAnotherAttempt, Again
<1> QED
  BY <1>1, <1>2, <1>3, <1>4, RunChanges

LEMMA ScheduleKeeps ==
  ASSUME TalkInv, NEW r, ScheduleAnotherAttempt(r)
  PROVE  TalkInv' /\ Stands(turns, turns') /\ Keeps(runs, runs')
<1>1. "failed" \in RunEnded /\ "failed" # "succeeded"
  BY DEF RunEnded
<1> QED
  BY <1>1, ScheduleShape, RunEndsKeeps

\* A projection, by the Worker that settled the Run or by the maintenance pass.
LEMMA ProjectRunKeeps ==
  ASSUME TalkInv, NEW r \in 1..Len(runs), runs[r].turn # 0,
         NEW verdict \in RunEnded, verdict = "succeeded" => Spoke(runs[r]),
         ProjectRun(r, verdict), owed' \subseteq owed, UNCHANGED <<conversation, runs>>
  PROVE  TalkInv' /\ Stands(turns, turns') /\ Keeps(runs, runs')
<1> DEFINE t == runs[r].turn
<1>1. Told(turns, replies, runs) /\ OwedTrue(owed, runs)
  BY DEF TalkInv
<1>2. OwedTrue(owed', runs')
  BY <1>1 DEF OwedTrue
<1>3. refreshes' \in {0, 1}
  BY DEF TalkInv, ProjectRun
<1>4. Told(turns', replies', runs) /\ Stands(turns, turns')
  <2>1. CASE AcceptsVerdict(t, verdict)
    <3>1. turns' = [turns EXCEPT ![t] = [message |-> turns[t].message, state |-> verdict,
                      authority |-> IF verdict = "succeeded" THEN r ELSE turns[t].authority]]
      BY <2>1 DEF ProjectRun, Projected
    <3>2. replies' = IF verdict = "succeeded" THEN replies \cup {[turn |-> t, run |-> r]} ELSE replies
      BY <2>1 DEF ProjectRun
    <3>3. turns[t].state \in ActiveTurn
      BY <2>1 DEF AcceptsVerdict
    <3> QED
      BY <1>1, <3>1, <3>2, <3>3, TurnJudged
  <2>2. CASE ~AcceptsVerdict(t, verdict)
    <3>1. turns' = turns /\ replies' = replies
      BY <2>2 DEF ProjectRun
    <3> QED
      BY <1>1, <3>1, NothingChanges
  <2> QED
    BY <2>1, <2>2
<1> QED
  BY <1>2, <1>3, <1>4, NothingChanges DEF TalkInv

LEMMA ProjectKeeps ==
  ASSUME TalkInv, NEW p, Project(p)
  PROVE  TalkInv' /\ Stands(turns, turns') /\ Keeps(runs, runs')
<1>1. /\ p.run \in 1..Len(runs) /\ p.verdict \in RunEnded /\ runs[p.run].turn # 0
      /\ p.verdict = "succeeded" => Spoke(runs[p.run])
  BY DEF Project, TalkInv, OwedTrue
<1>2. ProjectRun(p.run, p.verdict) /\ owed' \subseteq owed /\ UNCHANGED <<conversation, runs>>
  BY DEF Project
<1> QED
  BY <1>1, <1>2, ProjectRunKeeps

LEMMA ReconcileKeeps ==
  ASSUME TalkInv, NEW r, Reconcile(r)
  PROVE  TalkInv' /\ Stands(turns, turns') /\ Keeps(runs, runs')
<1> DEFINE t == runs[r].turn
           verdict == runs[r].status
<1>1. Told(turns, replies, runs) /\ OwedTrue(owed, runs)
  BY DEF TalkInv
<1>2. r \in 1..Len(runs) /\ t # 0 /\ verdict \in RunEnded /\ turns[t].state \in ActiveTurn
  BY TableFacts DEF TalkInv, Told, Reconcile
<1>3. turns' = [turns EXCEPT ![t] = [message |-> turns[t].message, state |-> verdict,
                  authority |-> IF verdict = "succeeded" THEN r ELSE turns[t].authority]]
  BY DEF Reconcile, Projected
<1>4. /\ replies' = IF verdict = "succeeded" THEN replies \cup {[turn |-> t, run |-> r]} ELSE replies
      /\ UNCHANGED <<conversation, runs, owed, refreshes>>
  BY DEF Reconcile
<1>5. Told(turns', replies', runs) /\ Stands(turns, turns')
  <2>1. verdict = "succeeded" => Spoke(runs[r])
    BY DEF Spoke
  <2> QED
    BY <1>1, <1>2, <1>3, <1>4, <2>1, TurnJudged
<1> QED
  BY <1>1, <1>4, <1>5, NothingChanges DEF TalkInv

LEMMA TalkStepKeeps ==
  ASSUME TalkInv, TalkStep
  PROVE  TalkInv' /\ Stands(turns, turns') /\ Keeps(runs, runs')
<1>1. ASSUME NEW r, NEW v \in {"succeeded", "failed", "ambiguous", "cancelled"},
             RunChange(r, v)
      PROVE  TalkInv' /\ Stands(turns, turns') /\ Keeps(runs, runs')
  BY <1>1, SettleKeeps DEF RunEnded
<1>2. CASE \/ RefreshCompaction \/ LoseRefresh \/ Archive \/ Unarchive \/ Delete
           \/ \E p \in owed : LoseProjection(p)
  <2>1. UNCHANGED <<turns, replies, runs>> /\ owed' \subseteq owed
    BY <1>2 DEF RefreshCompaction, LoseRefresh, Archive, Unarchive, Delete, LoseProjection
  <2>2. conversation' \in {"active", "archived", "deleted"} /\ refreshes' \in {0, 1}
    <3>1. CASE RefreshCompaction \/ LoseRefresh
      <4>1. refreshes > 0 /\ refreshes' = refreshes - 1 /\ conversation' = conversation
        BY <3>1 DEF RefreshCompaction, LoseRefresh
      <4> QED
        BY <4>1 DEF TalkInv
    <3>2. CASE Archive \/ Unarchive \/ Delete \/ \E p \in owed : LoseProjection(p)
      BY <3>2 DEF TalkInv, Archive, Unarchive, Delete, LoseProjection
    <3> QED
      BY <1>2, <3>1, <3>2
  <2>3. OwedTrue(owed', runs')
    BY <2>1 DEF TalkInv, OwedTrue
  <2> QED
    BY <2>1, <2>2, <2>3, NothingChanges DEF TalkInv
<1>3. ASSUME NEW r, NEW v \in {"succeeded", "failed", "ambiguous"}, SettleAttempt(r, v) \/ SettleLate(r, v)
      PROVE  RunChange(r, v)
  BY <1>3 DEF RunChange
<1>4. ASSUME NEW r, NEW v \in {"failed", "ambiguous", "cancelled"}, EndUnprojected(r, v)
      PROVE  RunChange(r, v)
  BY <1>4 DEF RunChange
<1> QED
  BY <1>1, <1>2, <1>3, <1>4, ScheduleKeeps, ProjectKeeps, ReconcileKeeps DEF TalkStep

-----------------------------------------------------------------------------
(* Results about a conversation alone.                                     *)

LEMMA TalkInitial == ConversationInit => TalkInv
<1> SUFFICES ASSUME ConversationInit PROVE TalkInv
  OBVIOUS
<1>1. turns = <<>> /\ runs = <<>> /\ replies = {} /\ owed = {} /\ refreshes = 0 /\ conversation = "active"
  BY DEF ConversationInit
<1>2. turns \in Seq(TurnRow) /\ Len(turns) = 0 /\ Len(runs) = 0
  BY <1>1
<1>3. IsSequence(runs)
  BY <1>1, OwnRange, EmptySeq
<1> QED
  BY <1>1, <1>2, <1>3 DEF TalkInv, Told, RunTable, Answered, OwedTrue

LEMMA AnsweredRow ==
  ASSUME NEW ts, NEW rps, NEW rs, Told(ts, rps, rs), NEW i \in 1..Len(ts)
  PROVE  /\ ts[i].message \in ClientMessage /\ ts[i].state \in TurnState /\ ts[i].authority \in 0..Len(rs)
         /\ ts[i].state # "succeeded" => ts[i].authority = 0 /\ \A p \in rps : p.turn # i
<1>1. ts \in Seq(TurnRow) /\ Len(rs) \in Nat
  BY TableFacts DEF Told
<1>2. ts[i] \in TurnRow
  BY <1>1, ElementOfSeq
<1>3. CASE ts[i].state = "succeeded"
  <2>1. ts[i].authority \in 1..Len(rs)
    BY <1>3 DEF Told, Answered
  <2> QED
    BY <1>1, <1>2, <1>3, <2>1 DEF TurnRow
<1>4. CASE ts[i].state # "succeeded"
  <2>1. ts[i].authority = 0 /\ \A p \in rps : p.turn # i
    BY <1>4 DEF Told, Answered
  <2> QED
    BY <1>1, <1>2, <2>1 DEF TurnRow
<1> QED
  BY <1>3, <1>4

\* The invariant says what the run checks.
LEMMA TalkInvImplies == TalkInv => ConversationSound
<1> SUFFICES ASSUME TalkInv PROVE ConversationSound
  OBVIOUS
<1>1. Told(turns, replies, runs)
  BY DEF TalkInv
<1>2. turns \in Seq(TurnRow) /\ DOMAIN turns = 1..Len(turns) /\ DOMAIN runs = 1..Len(runs)
      /\ Len(turns) \in Nat /\ Len(runs) \in Nat
  BY <1>1, LenProperties, TableFacts DEF Told
<1>3. ASSUME NEW i \in 1..Len(turns)
      PROVE  turns[i].message \in ClientMessage /\ turns[i].state \in TurnState /\ turns[i].authority \in 0..Len(runs)
  BY <1>1, AnsweredRow
<1>4. ConversationTypeOK
  <2>1. conversation \in {"active", "archived", "deleted"} /\ refreshes \in {0, 1}
    BY DEF TalkInv
  <2>2. replies \subseteq [turn : DOMAIN turns, run : DOMAIN runs] /\ owed \subseteq [run : DOMAIN runs, verdict : RunEnded]
    BY <1>1, <1>2 DEF TalkInv, Told, OwedTrue
  <2>3. ASSUME NEW r \in DOMAIN runs PROVE runs[r].turn \in 0..Len(turns) /\ runs[r].attempts \in 1..MaxAttempts /\ runs[r].worker \in WorkerState
    <3>1. runs[r].turn \in Nat /\ runs[r].attempts \in 1..MaxAttempts /\ runs[r].worker \in WorkerState
      BY <1>1, <1>2, TableFacts DEF Told
    <3>2. runs[r].turn <= Len(turns)
      BY <1>1, <1>2 DEF Told
    <3> QED
      BY <1>2, <3>1, <3>2
  <2> QED
    BY <1>2, <1>3, <2>1, <2>2, <2>3 DEF ConversationTypeOK
<1>5. OnlyNewestActive
  BY <1>1, <1>2 DEF OnlyNewestActive, Told
<1>6. OneAnswer
  <2> SUFFICES ASSUME NEW i \in 1..Len(turns)
               PROVE  LET mine == {p \in replies : p.turn = i} IN
                      IF turns[i].state = "succeeded"
                      THEN /\ mine = {[turn |-> i, run |-> turns[i].authority]}
                           /\ runs[turns[i].authority].turn = i
                           /\ Spoke(runs[turns[i].authority])
                      ELSE mine = {} /\ turns[i].authority = 0
    BY <1>2 DEF OneAnswer
  <2>1. \A p \in replies : p = [turn |-> p.turn, run |-> p.run]
    BY <1>1 DEF Told
  <2> DEFINE mine == {p \in replies : p.turn = i}
  <2>2. CASE turns[i].state = "succeeded"
    <3>1. /\ runs[turns[i].authority].turn = i /\ Spoke(runs[turns[i].authority])
          /\ [turn |-> i, run |-> turns[i].authority] \in replies
          /\ \A p \in replies : p.turn = i => p.run = turns[i].authority
      BY <1>1, <2>2 DEF Told, Answered
    <3>2. ASSUME NEW p \in mine PROVE p = [turn |-> i, run |-> turns[i].authority]
      BY <2>1, <3>1
    <3>3. [turn |-> i, run |-> turns[i].authority] \in mine
      BY <3>1
    <3> QED
      BY <2>2, <3>1, <3>2, <3>3
  <2>3. CASE turns[i].state # "succeeded"
    <3>1. turns[i].authority = 0 /\ \A p \in replies : p.turn # i
      BY <1>1, <2>3, AnsweredRow
    <3>2. mine = {}
      BY <3>1
    <3> QED
      BY <2>3, <3>1, <3>2
  <2> QED
    BY <2>2, <2>3
<1> QED
  BY <1>4, <1>5, <1>6 DEF ConversationSound

LEMMA TalkNextKeeps ==
  ASSUME TalkInv, [ConversationNext]_talkVars
  PROVE  TalkInv' /\ Stands(turns, turns')
<1>1. CASE UNCHANGED talkVars
  BY <1>1, NothingChanges DEF talkVars, TalkInv
<1>2. CASE ConversationNext
  BY <1>2, SendKeeps, RetryKeeps, TalkStepKeeps DEF ConversationNext
<1> QED
  BY <1>1, <1>2

(* The inductive invariant of a conversation: rows, replies and what the   *)
(* Workers still owe agree, refused results included (send_message,        *)
(* retry_turn, project_terminal_run, reconcile_unprojected_terminal_runs). *)
THEOREM ConversationInvariant == ConversationSpec => []TalkInv
<1>1. TalkInv /\ [ConversationNext]_talkVars => TalkInv'
  BY TalkNextKeeps
<1> QED
  BY TalkInitial, <1>1, PTL DEF ConversationSpec

(* Only the newest Turn is ever being answered, and an answered Turn has   *)
(* the one reply of its authoritative Run, which succeeded or whose result *)
(* came too late to be recorded, however late or often Runs are projected  *)
(* (_project_terminal_run_on_connection).                                  *)
THEOREM ConversationSoundHolds == ConversationSpec => []ConversationSound
BY ConversationInvariant, TalkInvImplies, PTL

LEMMA StandsStays ==
  ASSUME TalkInv, Stands(turns, turns')
  PROVE  \A i \in DOMAIN turns : turns[i].state \in {"succeeded", "ambiguous"} => turns'[i] = turns[i]
BY LenProperties DEF TalkInv, Told, Stands

(* An answered or ambiguous Turn is never reopened, re-answered or failed  *)
(* by a late Run or a retry (the compare-and-set, retry_turn).             *)
THEOREM AnswerStaysHolds == ConversationSpec => AnswerStays
<1>1. TalkInv /\ [ConversationNext]_talkVars
        => [\A i \in DOMAIN turns : turns[i].state \in {"succeeded", "ambiguous"} => turns'[i] = turns[i]]_talkVars
  BY TalkNextKeeps, StandsStays
<1> QED
  BY ConversationInvariant, <1>1, PTL DEF ConversationSpec, AnswerStays
-----------------------------------------------------------------------------
(* Results about a conversation whose Runs learn.                          *)

MemoryGoal == MemoryInv' /\ Stands(turns, turns') /\ Keeps(runs, runs')

LEMMA MemoryUntouched ==
  ASSUME MemoryInv, TalkInv', Stands(turns, turns'), Keeps(runs, runs'), UNCHANGED pass
  PROVE  MemoryGoal
BY PassMove DEF MemoryInv, TalkInv, Told, MemoryGoal

LEMMA SubmitRunKeeps ==
  ASSUME MemoryInv, NEW m, SubmitRun(m)
  PROVE  MemoryGoal
<1> DEFINE x == NewRun(0, m, Candidates(m))
<1>1. Told(turns, replies, runs) /\ OwedTrue(owed, runs) /\ RunTable(runs) /\ Len(turns) \in Nat
  BY LenProperties DEF MemoryInv, TalkInv, Told
<1>2. RunRow(x) /\ x.turn = 0
  BY NewRunFits
<1>3. x.turn <= Len(turns)
  BY <1>1, <1>2
<1>4. runs' = Append(runs, x) /\ UNCHANGED <<conversation, turns, replies, owed, refreshes, pass>>
  BY DEF SubmitRun
<1> HIDE DEF x
<1>5. Told(turns, replies, runs') /\ Keeps(runs, runs')
  BY <1>1, <1>2, <1>3, <1>4, RunAdded
<1>6. OwedTrue(owed, runs')
  BY <1>1, <1>5, OwedMove
<1>7. TalkInv' /\ Stands(turns, turns')
  BY <1>4, <1>5, <1>6, NothingChanges DEF MemoryInv, TalkInv
<1> QED
  BY <1>4, <1>5, <1>7, MemoryUntouched

\* The Runs queued by one pass are finitely many of those there are.
LEMMA FirstOfFinite ==
  ASSUME NEW n \in Nat, NEW rows \in SUBSET (1..n), NEW k
  PROVE  FirstOf(rows, k) \in SUBSET (1..n) /\ Cardinality(FirstOf(rows, k)) \in Nat
<1>1. FirstOf(rows, k) \in SUBSET (1..n)
  BY DEF FirstOf
<1>2. IsFiniteSet(1..n)
  BY FS_Interval
<1>3. IsFiniteSet(FirstOf(rows, k))
  BY <1>1, <1>2, FS_Subset
<1> QED
  BY <1>1, <1>3, FS_CardinalityType

LEMMA QueueKeeps ==
  ASSUME MemoryInv, QueueExtractions
  PROVE  MemoryGoal
<1> DEFINE all == {r \in DOMAIN runs : runs[r].status = "succeeded" /\ integrations[r].state = "extraction_pending"}
           rows == FirstOf(all, ExtractLimit)
           queued == FirstOf({r \in rows : ExtractionVerdict(r) = "extraction_queued"}, MaxRuns - Len(runs))
           n == Cardinality(queued)
<1>1. Told(turns, replies, runs) /\ OwedTrue(owed, runs) /\ RunTable(runs) /\ Len(turns) \in Nat
  BY LenProperties DEF MemoryInv, TalkInv, Told
<1>2. Len(runs) \in Nat /\ DOMAIN runs = 1..Len(runs)
  BY <1>1, TableFacts
<1>3. n \in Nat
  <2>1. all \in SUBSET (1..Len(runs))
    BY <1>2
  <2>2. rows \in SUBSET (1..Len(runs))
    BY <1>2, <2>1, FirstOfFinite
  <2>3. {r \in rows : ExtractionVerdict(r) = "extraction_queued"} \in SUBSET (1..Len(runs))
    BY <2>2
  <2> QED
    BY <1>2, <2>3, FirstOfFinite
<1>4. PICK m \in ClientMessage : runs' = runs \o [k \in 1..n |-> NewRun(0, m, Candidates(m))]
  BY DEF QueueExtractions
<1>5. UNCHANGED <<conversation, turns, replies, owed, refreshes>> /\ pass' = [pass EXCEPT !.phase = "materializing"]
  BY DEF QueueExtractions
<1> DEFINE x == NewRun(0, m, Candidates(m))
<1>6. RunRow(x) /\ x.turn = 0
  BY NewRunFits
<1> HIDE DEF n, x
<1>7. runs' = runs \o [k \in 1..n |-> x]
  BY <1>4 DEF x
<1>8. /\ RunTable(runs') /\ Len(runs') = Len(runs) + n
      /\ \A r \in 1..Len(runs) : runs'[r] = runs[r]
      /\ \A r \in (Len(runs) + 1)..(Len(runs) + n) : runs'[r] = x
  BY <1>1, <1>3, <1>6, <1>7, TableExtend
<1>9. Keeps(runs, runs')
  BY <1>2, <1>3, <1>8 DEF Keeps
<1>10. ASSUME NEW r \in 1..Len(runs') PROVE runs'[r].turn <= Len(turns)
  <2>1. CASE r \in 1..Len(runs)
    BY <1>1, <1>8, <2>1 DEF Told
  <2>2. CASE r \in (Len(runs) + 1)..(Len(runs) + n)
    BY <1>1, <1>6, <1>8, <2>2
  <2> QED
    BY <1>2, <1>3, <1>8, <2>1, <2>2
<1>11. Told(turns, replies, runs')
  BY <1>1, <1>9, <1>10, RunsMove
<1>12. OwedTrue(owed, runs')
  BY <1>1, <1>9, OwedMove
<1>13. TalkInv' /\ Stands(turns, turns')
  BY <1>5, <1>11, <1>12, NothingChanges DEF MemoryInv, TalkInv
<1>14. PassTrue(pass.todo, runs')
  BY <1>1, <1>9, PassMove DEF MemoryInv
<1> QED
  BY <1>5, <1>9, <1>13, <1>14 DEF MemoryInv, MemoryGoal

LEMMA PassProjectsKeeps ==
  ASSUME MemoryInv, NEW r, PassProjects(r)
  PROVE  MemoryGoal
<1>1. r \in 1..Len(runs) /\ runs[r].status = "succeeded"
  BY DEF PassProjects, MemoryInv, PassTrue
<1>2. UNCHANGED <<conversation, runs, owed>> /\ pass' = [pass EXCEPT !.todo = @ \ {r}]
  BY DEF PassProjects
<1>3. TalkInv' /\ Stands(turns, turns')
  <2>1. CASE runs[r].turn # 0
    <3>1. ProjectRun(r, "succeeded") /\ "succeeded" \in RunEnded /\ Spoke(runs[r])
      BY <1>1, <2>1 DEF PassProjects, RunEnded, Spoke
    <3> QED
      BY <1>1, <1>2, <2>1, <3>1, ProjectRunKeeps DEF MemoryInv
  <2>2. CASE runs[r].turn = 0
    <3>1. UNCHANGED <<turns, replies, refreshes>>
      BY <2>2 DEF PassProjects
    <3> QED
      BY <1>2, <3>1, NothingChanges DEF MemoryInv, TalkInv
  <2> QED
    BY <2>1, <2>2
<1>4. pass'.todo \subseteq pass.todo /\ pass' \in [phase : {"idle", "projecting", "materializing"}, todo : SUBSET Nat]
  BY <1>2 DEF MemoryInv
<1>5. Keeps(runs, runs')
  BY <1>2, NothingChanges DEF MemoryInv
<1> QED
  BY <1>2, <1>3, <1>4, <1>5 DEF MemoryInv, MemoryGoal, PassTrue

LEMMA PassPhaseKeeps ==
  ASSUME MemoryInv, BeginPass \/ AbandonPass \/ MaterializePending
  PROVE  MemoryGoal
<1>1. UNCHANGED <<conversation, turns, replies, runs, owed, refreshes>>
  BY DEF BeginPass, AbandonPass, MaterializePending, talkVars
<1>2. TalkInv' /\ Stands(turns, turns') /\ Keeps(runs, runs')
  BY <1>1, NothingChanges DEF MemoryInv, TalkInv
<1>3. DOMAIN runs = 1..Len(runs) /\ Len(runs) \in Nat
  BY TableFacts DEF MemoryInv, TalkInv, Told
<1>4. pass' \in [phase : {"idle", "projecting", "materializing"}, todo : SUBSET Nat] /\ PassTrue(pass'.todo, runs)
  <2>1. CASE BeginPass
    BY <1>3, <2>1 DEF BeginPass, PassTrue, Waiting
  <2>2. CASE AbandonPass \/ MaterializePending
    <3>1. pass' = [phase |-> "idle", todo |-> {}]
      BY <2>2 DEF AbandonPass, MaterializePending
    <3> QED
      BY <3>1 DEF PassTrue
  <2> QED
    BY <2>1, <2>2
<1> QED
  BY <1>1, <1>2, <1>4 DEF MemoryInv, MemoryGoal

LEMMA MemoryRunsKeep ==
  ASSUME MemoryInv, MemoryRuns
  PROVE  MemoryGoal
<1>1. CASE TalkSubmit
  <2>1. UNCHANGED pass
    BY <1>1 DEF TalkSubmit
  <2>2. TalkInv' /\ Stands(turns, turns') /\ Keeps(runs, runs')
    BY <1>1, SendKeeps, RetryKeeps DEF TalkSubmit, MemoryInv
  <2> QED
    BY <2>1, <2>2, MemoryUntouched
<1>2. ASSUME NEW r, NEW ps, SucceedProposing(r, ps) PROVE MemoryGoal
  <2>1. UNCHANGED pass /\ RunChange(r, "succeeded") /\ "succeeded" \in RunEnded
    BY <1>2 DEF SucceedProposing, RunEnded, RunChange
  <2>2. TalkInv' /\ Stands(turns, turns') /\ Keeps(runs, runs')
    BY <2>1, SettleKeeps DEF MemoryInv
  <2> QED
    BY <2>1, <2>2, MemoryUntouched
<1>3. CASE TalkOn
  <2>1. UNCHANGED pass /\ TalkStep
    BY <1>3 DEF TalkOn, memoryOnly
  <2> QED
    BY <2>1, TalkStepKeeps, MemoryUntouched DEF MemoryInv
<1> QED
  BY <1>1, <1>2, <1>3, SubmitRunKeeps DEF MemoryRuns

LEMMA MemoryNextKeeps ==
  ASSUME MemoryInv, [MemoryNext]_memoryVars
  PROVE  MemoryGoal
<1>1. CASE UNCHANGED memoryVars \/ OwnerEdits \/ ToggleInstance
  <2>1. UNCHANGED <<conversation, turns, replies, runs, owed, refreshes, pass>>
    BY <1>1 DEF memoryVars, talkVars, memoryOnly, OwnerEdits, ToggleInstance, SetPolicy, DecideSuggestion,
         CreateMemory, PromoteRun, ReadMemory, EditMemory, DeleteMemory
  <2>2. TalkInv'
    BY <2>1 DEF MemoryInv, TalkInv
  <2>3. Stands(turns, turns') /\ Keeps(runs, runs')
    BY <2>1, NothingChanges DEF MemoryInv
  <2> QED
    BY <2>1, <2>2, <2>3, MemoryUntouched
<1>2. CASE MemoryPass \/ AbandonPass
  BY <1>2, PassPhaseKeeps, PassProjectsKeeps, QueueKeeps DEF MemoryPass
<1> QED
  BY <1>1, <1>2, MemoryRunsKeep DEF MemoryNext

(* The same invariant with the maintenance pass at work: what the pass is  *)
(* about to project did succeed (maintain_memory).                         *)
THEOREM MemoryInvariant == MemorySpec => []MemoryInv
<1>1. MemoryInit => MemoryInv
  BY TalkInitial DEF MemoryInit, MemoryInv, PassTrue
<1>2. MemoryInv /\ [MemoryNext]_memoryVars => MemoryInv'
  BY MemoryNextKeeps DEF MemoryGoal
<1> QED
  BY <1>1, <1>2, PTL DEF MemorySpec

(* A conversation stays sound while the memory service submits Runs of its *)
(* own, projects what a Worker lost and injects memories into contexts.    *)
THEOREM ConversationSoundWithMemory == MemorySpec => []ConversationSound
<1>1. MemoryInv => ConversationSound
  BY TalkInvImplies DEF MemoryInv
<1> QED
  BY MemoryInvariant, <1>1, PTL

(* The maintenance pass, which projects Runs again, reopens and re-answers *)
(* no Turn either.                                                         *)
THEOREM AnswerStaysWithMemory == MemorySpec => AnswerStays
<1>1. MemoryInv /\ [MemoryNext]_memoryVars
        => [\A i \in DOMAIN turns : turns[i].state \in {"succeeded", "ambiguous"} => turns'[i] = turns[i]]_talkVars
  BY MemoryNextKeeps, StandsStays DEF MemoryGoal, MemoryInv
<1> QED
  BY MemoryInvariant, <1>1, PTL DEF MemorySpec, AnswerStays
-----------------------------------------------------------------------------
(* What the memory holds.                                                  *)

Version == [fact : Facts, base : Nat]
ItemRow == [scope : MemScope, status : {"active", "deleted"}, automatic : BOOLEAN, versions : Seq(Version)]
SuggestionRow ==
  [source : Nat, scope : MemScope, fact : Facts,
   state : {"pending", "duplicate", "quota", "saved", "dismissed"}, item : Nat]

\* Each version of an item was written over the one before it.
Chained(it) ==
  it \in ItemRow /\ it.versions # <<>> /\ \A v \in 1..Len(it.versions) : it.versions[v].base = v - 1

Unlearnt(its) ==
  \A i \in 1..Len(its) : its[i].automatic =>
    /\ its[i].scope = "agent"
    /\ \A j \in 1..Len(its) :
         j < i /\ its[j].scope = "agent" => its[j].versions[1].fact # its[i].versions[1].fact

Roomy(its) == \A sc \in MemScope : Cardinality(ActiveIn(its, sc)) <= ScopeCapacity

Shelf(its) ==
  its \in Seq(ItemRow) /\ (\A i \in 1..Len(its) : Chained(its[i])) /\ Unlearnt(its) /\ Roomy(its)

FromAnswer(r, ts, rs) ==
  r \in 1..Len(rs) /\ rs[r].status = "succeeded" /\ (rs[r].turn # 0 => ts[rs[r].turn].authority = r)

\* The items, at least floor of them, and the suggestions drawn from Runs rs of Turns ts.
Kept(b, floor, ts, rs) ==
  /\ b = [items |-> b.items, suggestions |-> b.suggestions]
  /\ floor \in Nat /\ floor <= Len(b.items)
  /\ Shelf(b.items) /\ b.suggestions \in Seq(SuggestionRow)
  /\ \A k \in 1..Len(b.suggestions) :
       b.suggestions[k].item \in 0..Len(b.items) /\ FromAnswer(b.suggestions[k].source, ts, rs)

LEMMA ActiveFinite ==
  ASSUME NEW its \in Seq(ItemRow), NEW sc
  PROVE  /\ ActiveIn(its, sc) \subseteq 1..Len(its) /\ IsFiniteSet(ActiveIn(its, sc))
         /\ Cardinality(ActiveIn(its, sc)) \in Nat
<1>1. Len(its) \in Nat /\ DOMAIN its = 1..Len(its)
  BY LenProperties
<1>2. ActiveIn(its, sc) \subseteq 1..Len(its)
  BY <1>1 DEF ActiveIn
<1>3. IsFiniteSet(1..Len(its))
  BY <1>1, FS_Interval
<1>4. IsFiniteSet(ActiveIn(its, sc))
  BY <1>2, <1>3, FS_Subset
<1> QED
  BY <1>2, <1>4, FS_CardinalityType

LEMMA NewItemChained ==
  ASSUME NEW sc \in MemScope, NEW f \in Facts, NEW auto \in BOOLEAN
  PROVE  LET x == NewItem(sc, f, auto) IN
         /\ Chained(x) /\ x.scope = sc /\ x.automatic = auto
         /\ x.versions[1].fact = f
<1> DEFINE ver == [fact |-> f, base |-> 0]
           x == NewItem(sc, f, auto)
<1>1. ver \in Version /\ ver.fact = f /\ ver.base = 0
  BY DEF Version
<1> HIDE DEF ver
<1>2. <<ver>> \in Seq(Version) /\ Len(<<ver>>) = 1 /\ <<ver>>[1] = ver /\ <<ver>> # <<>>
  BY <1>1
<1>3. x = [scope |-> sc, status |-> "active", automatic |-> auto, versions |-> <<ver>>]
  BY DEF NewItem, ver
<1>4. x.versions = <<ver>> /\ x.scope = sc /\ x.automatic = auto
  BY <1>3
<1>5. x \in ItemRow
  BY <1>2, <1>3 DEF ItemRow
<1> HIDE DEF x
<1>6. \A v \in 1..Len(x.versions) : x.versions[v].base = v - 1
  BY <1>1, <1>2, <1>4
<1>7. Chained(x)
  BY <1>2, <1>4, <1>5, <1>6 DEF Chained
<1>8. x.versions[1].fact = f
  BY <1>1, <1>2, <1>4
<1> QED
  BY <1>4, <1>7, <1>8 DEF x

\* A new item, when its scope has room and, saved by itself, its fact is new.
LEMMA ShelfGrows ==
  ASSUME NEW its, Shelf(its), NEW sc \in MemScope, NEW f \in Facts, NEW auto \in BOOLEAN,
         HasRoom(its, sc), auto => sc = "agent" /\ ~KnownBefore(its, sc, f)
  PROVE  LET next == Append(its, NewItem(sc, f, auto)) IN
         Shelf(next) /\ Len(next) = Len(its) + 1 /\ Len(its) \in Nat
<1> DEFINE x == NewItem(sc, f, auto)
           next == Append(its, x)
<1>1. Chained(x) /\ x.scope = sc /\ x.automatic = auto /\ x.versions[1].fact = f
  BY NewItemChained
<1>2. x \in ItemRow /\ its \in Seq(ItemRow)
  BY <1>1 DEF Chained, Shelf
<1> HIDE DEF x
<1>3. /\ next \in Seq(ItemRow) /\ Len(next) = Len(its) + 1
      /\ \A i \in 1..Len(its) : next[i] = its[i]
      /\ next[Len(its) + 1] = x
  BY <1>2, AppendProperties
<1>4. Len(its) \in Nat /\ DOMAIN its = 1..Len(its) /\ DOMAIN next = 1..Len(next)
  BY <1>2, <1>3, LenProperties
<1> HIDE DEF next
<1>5. \A i \in 1..Len(next) : i \in 1..Len(its) \/ i = Len(its) + 1
  BY <1>3, <1>4
<1>6. \A i \in 1..Len(next) : Chained(next[i])
  BY <1>1, <1>3, <1>5 DEF Shelf
<1>7. Unlearnt(next)
  <2> SUFFICES ASSUME NEW i \in 1..Len(next), next[i].automatic
               PROVE  /\ next[i].scope = "agent"
                      /\ \A j \in 1..Len(next) : j < i /\ next[j].scope = "agent"
                            => next[j].versions[1].fact # next[i].versions[1].fact
    BY DEF Unlearnt
  <2>1. CASE i \in 1..Len(its)
    <3>1. \A j \in 1..Len(next) : j < i => j \in 1..Len(its)
      BY <1>3, <1>4, <2>1
    <3> QED
      BY <1>3, <2>1, <3>1 DEF Shelf, Unlearnt
  <2>2. CASE i = Len(its) + 1
    <3>1. auto /\ sc = "agent" /\ ~KnownBefore(its, sc, f)
      BY <1>1, <1>3, <2>2
    <3>2. ASSUME NEW j \in 1..Len(its), its[j].scope = "agent" PROVE its[j].versions[1].fact # f
      <4>1. its[j].versions \in Seq(Version) /\ its[j].versions # <<>>
        BY DEF Shelf, Chained, ItemRow
      <4>2. 1 \in DOMAIN its[j].versions
        BY <4>1, EmptySeq, LenProperties
      <4> QED
        BY <1>4, <3>1, <3>2, <4>2 DEF KnownBefore
    <3>3. \A j \in 1..Len(next) : j < i => j \in 1..Len(its)
      BY <1>3, <1>4, <2>2
    <3> QED
      BY <1>1, <1>3, <2>2, <3>1, <3>2, <3>3
  <2> QED
    BY <1>5, <2>1, <2>2
<1>8. ASSUME NEW s \in MemScope PROVE Cardinality(ActiveIn(next, s)) <= ScopeCapacity
  <2>1. IsFiniteSet(ActiveIn(its, s)) /\ Cardinality(ActiveIn(its, s)) \in Nat /\ Cardinality(ActiveIn(its, s)) <= ScopeCapacity
    BY <1>2, ActiveFinite DEF Shelf, Roomy
  <2>2. ActiveIn(next, s) \subseteq ActiveIn(its, s) \cup {Len(its) + 1}
    BY <1>3, <1>4, <1>5 DEF ActiveIn
  <2>3. CASE s # sc
    <3>1. ActiveIn(next, s) \subseteq ActiveIn(its, s)
      BY <1>1, <1>3, <2>2, <2>3 DEF ActiveIn
    <3>2. Cardinality(ActiveIn(next, s)) <= Cardinality(ActiveIn(its, s)) /\ Cardinality(ActiveIn(next, s)) \in Nat
      BY <2>1, <3>1, FS_Subset, FS_CardinalityType
    <3> QED
      BY <2>1, <3>2, MemoryConstants
  <2>4. CASE s = sc
    <3>1. Cardinality(ActiveIn(its, s)) < ScopeCapacity
      BY <2>4 DEF HasRoom
    <3>2. /\ IsFiniteSet(ActiveIn(its, s) \cup {Len(its) + 1})
          /\ Cardinality(ActiveIn(its, s) \cup {Len(its) + 1}) <= Cardinality(ActiveIn(its, s)) + 1
          /\ Cardinality(ActiveIn(its, s) \cup {Len(its) + 1}) \in Nat
      BY <2>1, FS_AddElement, FS_CardinalityType
    <3>3. Cardinality(ActiveIn(next, s)) <= Cardinality(ActiveIn(its, s) \cup {Len(its) + 1}) /\ Cardinality(ActiveIn(next, s)) \in Nat
      BY <2>2, <3>2, FS_Subset, FS_CardinalityType
    <3> QED
      BY <2>1, <3>1, <3>2, <3>3, MemoryConstants
  <2> QED
    BY <2>3, <2>4
<1>9. Shelf(next)
  BY <1>3, <1>6, <1>7, <1>8 DEF Shelf, Roomy
<1> QED
  BY <1>3, <1>4, <1>9 DEF next, x

\* An item is edited or deleted: its first version and its scope stay.
LEMMA ShelfRewritten ==
  ASSUME NEW its, Shelf(its), NEW i \in 1..Len(its), NEW x, Chained(x),
         x.scope = its[i].scope, x.automatic = its[i].automatic,
         x.versions[1] = its[i].versions[1], x.status = "active" => its[i].status = "active"
  PROVE  Shelf([its EXCEPT ![i] = x]) /\ Len([its EXCEPT ![i] = x]) = Len(its)
<1> DEFINE next == [its EXCEPT ![i] = x]
<1>1. its \in Seq(ItemRow) /\ x \in ItemRow
  BY DEF Shelf, Chained
<1>2. /\ next \in Seq(ItemRow) /\ Len(next) = Len(its)
      /\ \A j \in 1..Len(its) : next[j] = IF j = i THEN x ELSE its[j]
  BY <1>1, ExceptSeq
<1>3. DOMAIN its = 1..Len(its) /\ DOMAIN next = 1..Len(its)
  BY <1>1, <1>2, LenProperties
<1> HIDE DEF next
<1>4. \A j \in 1..Len(next) : Chained(next[j])
  BY <1>2 DEF Shelf
<1>5. \A j \in 1..Len(its) :
        next[j].scope = its[j].scope /\ next[j].automatic = its[j].automatic /\ next[j].versions[1] = its[j].versions[1]
  BY <1>2
<1>6. Unlearnt(next)
  BY <1>2, <1>5 DEF Shelf, Unlearnt
<1>7. ASSUME NEW s \in MemScope PROVE Cardinality(ActiveIn(next, s)) <= ScopeCapacity
  <2>1. IsFiniteSet(ActiveIn(its, s)) /\ Cardinality(ActiveIn(its, s)) \in Nat /\ Cardinality(ActiveIn(its, s)) <= ScopeCapacity
    BY <1>1, ActiveFinite DEF Shelf, Roomy
  <2>2. ActiveIn(next, s) \subseteq ActiveIn(its, s)
    BY <1>2, <1>3 DEF ActiveIn
  <2>3. Cardinality(ActiveIn(next, s)) <= Cardinality(ActiveIn(its, s)) /\ Cardinality(ActiveIn(next, s)) \in Nat
    BY <2>1, <2>2, FS_Subset, FS_CardinalityType
  <2> QED
    BY <2>1, <2>3, MemoryConstants
<1> QED
  BY <1>2, <1>4, <1>6, <1>7 DEF Shelf, Roomy, next
-----------------------------------------------------------------------------
(* Suggestions become items.                                               *)

\* A suggestion is decided: its row keeps its source.
LEMMA Marked ==
  ASSUME NEW b, NEW floor, NEW ts, NEW rs, Kept(b, floor, ts, rs), NEW k \in 1..Len(b.suggestions),
         NEW its, Shelf(its), Len(its) \in Nat, Len(b.items) <= Len(its),
         NEW state \in {"pending", "duplicate", "quota", "saved", "dismissed"}, NEW item \in 0..Len(its),
         NEW next, next = [items |-> its,
                           suggestions |-> [b.suggestions EXCEPT ![k] = [@ EXCEPT !.state = state, !.item = item]]]
  PROVE  Kept(next, floor, ts, rs)
<1> DEFINE x == [b.suggestions[k] EXCEPT !.state = state, !.item = item]
           sgs == [b.suggestions EXCEPT ![k] = x]
<1>1. b.suggestions \in Seq(SuggestionRow) /\ b.suggestions[k] \in SuggestionRow
  BY ElementOfSeq DEF Kept
<1>2. item \in Nat
  OBVIOUS
<1>3. x \in SuggestionRow /\ x.source = b.suggestions[k].source /\ x.item = item
  BY <1>1, <1>2 DEF SuggestionRow
<1> HIDE DEF x
<1>4. /\ sgs \in Seq(SuggestionRow) /\ Len(sgs) = Len(b.suggestions)
      /\ \A j \in 1..Len(b.suggestions) : sgs[j] = IF j = k THEN x ELSE b.suggestions[j]
  BY <1>1, <1>3, ExceptSeq
<1>5. next = [items |-> its, suggestions |-> sgs]
  BY DEF x
<1> HIDE DEF sgs
<1>6. next.items = its /\ next.suggestions = sgs
  BY <1>5
<1>7. Len(b.items) \in Nat
  BY LenProperties DEF Kept, Shelf
<1>8. ASSUME NEW j \in 1..Len(sgs) PROVE sgs[j].item \in 0..Len(its) /\ FromAnswer(sgs[j].source, ts, rs)
  <2>1. CASE j = k
    BY <1>3, <1>4, <2>1 DEF Kept
  <2>2. CASE j # k
    <3>1. sgs[j] = b.suggestions[j] /\ b.suggestions[j].item \in 0..Len(b.items) /\ FromAnswer(b.suggestions[j].source, ts, rs)
      BY <1>4, <2>2 DEF Kept
    <3> QED
      BY <1>7, <3>1
  <2> QED
    BY <2>1, <2>2
<1> QED
  BY <1>4, <1>5, <1>6, <1>8 DEF Kept

\* _save_suggestion: a duplicate, a fact known before, a full scope, or a new item.
LEMMA SaveKeeps ==
  ASSUME NEW b, NEW floor, NEW ts, NEW rs, Kept(b, floor, ts, rs), NEW k \in 1..Len(b.suggestions), NEW auto \in BOOLEAN,
         auto => b.suggestions[k].scope = "agent"
  PROVE  Kept(Save(b, k, auto), floor, ts, rs)
<1> DEFINE s == b.suggestions[k]
           its == b.items
<1>1. s.scope \in MemScope /\ s.fact \in Facts
  <2>1. s \in SuggestionRow
    BY ElementOfSeq DEF Kept
  <2> QED
    BY <2>1 DEF SuggestionRow
<1>2. Shelf(its) /\ Len(its) \in Nat /\ b = [items |-> its, suggestions |-> b.suggestions]
  BY LenProperties DEF Kept, Shelf
<1> DEFINE marked(state, item) == [b.suggestions EXCEPT ![k] = [@ EXCEPT !.state = state, !.item = item]]
<1>3. \A state, item : [b.suggestions EXCEPT ![k].state = state, ![k].item = item] = marked(state, item)
  OBVIOUS
<1>4. CASE Held(its, s.scope, s.fact)
  <2>1. Save(b, k, auto) = [b EXCEPT !.suggestions = marked("duplicate", 0)]
    BY <1>3, <1>4 DEF Save
  <2>2. Save(b, k, auto) = [items |-> its, suggestions |-> marked("duplicate", 0)]
    BY <1>2, <2>1
  <2>3. 0 \in 0..Len(its) /\ Len(its) <= Len(its)
    BY <1>2
  <2> QED
    BY <1>2, <2>2, <2>3, Marked
<1>5. CASE ~Held(its, s.scope, s.fact) /\ auto /\ KnownBefore(its, s.scope, s.fact)
  BY <1>5 DEF Save
<1>6. CASE /\ ~Held(its, s.scope, s.fact) /\ ~(auto /\ KnownBefore(its, s.scope, s.fact)) /\ ~HasRoom(its, s.scope)
  <2>1. Save(b, k, auto) = [b EXCEPT !.suggestions = marked("quota", 0)]
    BY <1>3, <1>6 DEF Save
  <2>2. Save(b, k, auto) = [items |-> its, suggestions |-> marked("quota", 0)]
    BY <1>2, <2>1
  <2>3. 0 \in 0..Len(its) /\ Len(its) <= Len(its)
    BY <1>2
  <2> QED
    BY <1>2, <2>2, <2>3, Marked
<1>7. CASE /\ ~Held(its, s.scope, s.fact) /\ ~(auto /\ KnownBefore(its, s.scope, s.fact)) /\ HasRoom(its, s.scope)
  <2> DEFINE more == Append(its, NewItem(s.scope, s.fact, auto))
  <2>1. Save(b, k, auto) = [items |-> more, suggestions |-> marked("saved", Len(its) + 1)]
    BY <1>3, <1>7 DEF Save
  <2>2. Shelf(more) /\ Len(more) = Len(its) + 1
    BY <1>1, <1>2, <1>7, ShelfGrows
  <2> HIDE DEF more
  <2>3. Len(its) + 1 \in 0..Len(more) /\ Len(its) <= Len(more) /\ Len(more) \in Nat
    BY <1>2, <2>2
  <2> QED
    BY <2>1, <2>2, <2>3, Marked
<1> QED
  BY <1>4, <1>5, <1>6, <1>7

\* A pending suggestion is added.
LEMMA Grown ==
  ASSUME NEW b, NEW floor, NEW ts, NEW rs, Kept(b, floor, ts, rs), NEW r \in Nat, FromAnswer(r, ts, rs), NEW p \in Proposals,
         NEW next, next = [b EXCEPT !.suggestions = Append(@,
                    [source |-> r, scope |-> p.scope, fact |-> p.fact, state |-> "pending", item |-> 0])]
  PROVE  /\ Kept(next, floor, ts, rs) /\ Len(next.suggestions) = Len(b.suggestions) + 1 /\ Len(b.suggestions) \in Nat
         /\ next.suggestions[Len(next.suggestions)].scope = p.scope
<1> DEFINE x == [source |-> r, scope |-> p.scope, fact |-> p.fact, state |-> "pending", item |-> 0]
           sgs == Append(b.suggestions, x)
<1>1. x \in SuggestionRow /\ x.source = r /\ x.item = 0 /\ x.scope = p.scope
  BY DEF SuggestionRow, Proposals
<1>2. next = [items |-> b.items, suggestions |-> sgs] /\ b.suggestions \in Seq(SuggestionRow)
  BY DEF Kept
<1> HIDE DEF x
<1>3. /\ sgs \in Seq(SuggestionRow) /\ Len(sgs) = Len(b.suggestions) + 1
      /\ \A j \in 1..Len(b.suggestions) : sgs[j] = b.suggestions[j]
      /\ sgs[Len(b.suggestions) + 1] = x
  BY <1>1, <1>2, AppendProperties
<1>4. Len(b.suggestions) \in Nat /\ Len(b.items) \in Nat
  BY LenProperties DEF Kept, Shelf
<1> HIDE DEF sgs
<1>5. next.items = b.items /\ next.suggestions = sgs
  BY <1>2
<1>6. ASSUME NEW j \in 1..Len(sgs) PROVE sgs[j].item \in 0..Len(b.items) /\ FromAnswer(sgs[j].source, ts, rs)
  <2>1. CASE j \in 1..Len(b.suggestions)
    BY <1>3, <2>1 DEF Kept
  <2>2. CASE j = Len(b.suggestions) + 1
    BY <1>1, <1>3, <1>4, <2>2
  <2> QED
    BY <1>3, <1>4, <2>1, <2>2
<1>7. Kept(next, floor, ts, rs)
  BY <1>2, <1>3, <1>5, <1>6 DEF Kept
<1> QED
  BY <1>1, <1>3, <1>4, <1>5, <1>7

LEMMA SuggestKeeps ==
  ASSUME NEW b, NEW floor, NEW ts, NEW rs, Kept(b, floor, ts, rs), NEW r \in Nat, FromAnswer(r, ts, rs), NEW p \in Proposals
  PROVE  Kept(Suggest(b, r, p), floor, ts, rs)
<1> DEFINE grown == [b EXCEPT !.suggestions = Append(@,
                    [source |-> r, scope |-> p.scope, fact |-> p.fact, state |-> "pending", item |-> 0])]
<1>1. /\ Kept(grown, floor, ts, rs) /\ Len(grown.suggestions) = Len(b.suggestions) + 1 /\ Len(b.suggestions) \in Nat
      /\ grown.suggestions[Len(grown.suggestions)].scope = p.scope
  BY Grown
<1>2. \/ Suggest(b, r, p) = b
      \/ Suggest(b, r, p) = grown
      \/ p.scope = "agent" /\ Suggest(b, r, p) = Save(grown, Len(grown.suggestions), TRUE)
  BY DEF Suggest
<1> HIDE DEF grown
<1>3. Len(grown.suggestions) \in 1..Len(grown.suggestions)
  BY <1>1
<1>4. p.scope = "agent" => Kept(Save(grown, Len(grown.suggestions), TRUE), floor, ts, rs)
  BY <1>1, <1>3, SaveKeeps
<1> QED
  BY <1>1, <1>2, <1>4

-----------------------------------------------------------------------------
(* One proposal after another.                                             *)

LEMMA LeastOf ==
  ASSUME NEW T, T \subseteq Nat, T # {} PROVE \E x \in T : \A y \in T : x <= y
<1> DEFINE R == OpToRel(<, Nat)
<1>1. IsWellFoundedOn(R, Nat)
  BY NatLessThanWellFounded
<1>2. \A x, y \in Nat : y < x => <<y, x>> \in R
  BY DEF OpToRel
<1> HIDE DEF R
<1>3. PICK x \in T : \A y \in T : ~(<<y, x>> \in R)
  BY <1>1, WFMin
<1>4. \A y \in T : x \in Nat /\ y \in Nat /\ ~(y < x)
  BY <1>2, <1>3
<1>5. \A y \in T : x <= y
  BY <1>4
<1> QED
  BY <1>5

\* The equation Books defines its function by, up to m.
BooksUpTo(f, work, m) ==
  f = [k \in 0..m |-> IF k = 0 THEN [items |-> items, suggestions |-> suggestions]
                      ELSE Suggest(f[k - 1], work[k][1], work[k][2])]

LEMMA BooksExist ==
  ASSUME NEW work, NEW n \in Nat
  PROVE  \E f : BooksUpTo(f, work, n)
<1> DEFINE T == {m \in Nat : ~\E f : BooksUpTo(f, work, m)}
<1> SUFFICES T = {}
  OBVIOUS
<1> SUFFICES ASSUME T # {} PROVE FALSE
  OBVIOUS
<1>1. PICK m \in T : \A y \in T : m <= y
  <2>1. T \subseteq Nat
    OBVIOUS
  <2> HIDE DEF T
  <2> QED
    BY <2>1, LeastOf
<1>2. m \in Nat /\ ~\E f : BooksUpTo(f, work, m)
  OBVIOUS
<1>3. CASE m = 0
  <2> DEFINE start == [items |-> items, suggestions |-> suggestions]
             f == [k \in 0..0 |-> start]
  <2>1. f = [k \in 0..0 |-> IF k = 0 THEN start ELSE Suggest(f[k - 1], work[k][1], work[k][2])]
    <3>1. \A k \in 0..0 : start = IF k = 0 THEN start ELSE Suggest(f[k - 1], work[k][1], work[k][2])
      OBVIOUS
    <3> HIDE DEF start
    <3> QED
      BY <3>1
  <2>2. BooksUpTo(f, work, 0)
    BY <2>1 DEF BooksUpTo
  <2> QED
    BY <1>2, <1>3, <2>2
<1>4. CASE m # 0
  <2>1. m - 1 \in Nat /\ ~(m <= m - 1)
    BY <1>2, <1>4
  <2>2. \E f : BooksUpTo(f, work, m - 1)
    BY <1>1, <2>1
  <2>3. PICK f : BooksUpTo(f, work, m - 1)
    BY <2>2
  <2> DEFINE start == [items |-> items, suggestions |-> suggestions]
             last == Suggest(f[m - 1], work[m][1], work[m][2])
             g == [k \in 0..m |-> IF k < m THEN f[k] ELSE last]
  <2>4. \A k \in 0..(m - 1) : f[k] = IF k = 0 THEN start ELSE Suggest(f[k - 1], work[k][1], work[k][2])
    BY <2>3 DEF BooksUpTo
  <2>5. \A k \in 0..m : g[k] = IF k < m THEN f[k] ELSE last
    OBVIOUS
  <2> HIDE DEF start
  <2>6. ASSUME NEW k \in 0..m
        PROVE  (IF k < m THEN f[k] ELSE last) = IF k = 0 THEN start ELSE Suggest(g[k - 1], work[k][1], work[k][2])
    <3>1. CASE k = 0
      BY <1>2, <1>4, <2>4, <3>1
    <3>2. CASE k # 0 /\ k < m
      <4>1. k \in 0..(m - 1) /\ k - 1 \in 0..m /\ k - 1 < m
        BY <1>2, <3>2
      <4>2. g[k - 1] = f[k - 1]
        BY <2>5, <4>1
      <4> QED
        BY <2>4, <3>2, <4>1, <4>2
    <3>3. CASE k = m
      <4>1. m - 1 \in 0..m /\ m - 1 < m
        BY <1>2, <1>4
      <4>2. g[m - 1] = f[m - 1]
        BY <2>5, <4>1
      <4> QED
        BY <1>4, <3>3, <4>2
    <3> QED
      BY <1>2, <3>1, <3>2, <3>3
  <2>7. g = [k \in 0..m |-> IF k = 0 THEN start ELSE Suggest(g[k - 1], work[k][1], work[k][2])]
    BY <2>6
  <2>8. BooksUpTo(g, work, m)
    BY <2>7 DEF BooksUpTo, start
  <2> QED
    BY <1>2, <2>8
<1> QED
  BY <1>3, <1>4

LEMMA BooksKeep ==
  ASSUME NEW work, NEW floor, NEW ts, NEW rs, Len(work) \in Nat,
         Kept([items |-> items, suggestions |-> suggestions], floor, ts, rs),
         \A k \in 1..Len(work) : work[k][1] \in Nat /\ FromAnswer(work[k][1], ts, rs) /\ work[k][2] \in Proposals
  PROVE  Kept(Books(work)[Len(work)], floor, ts, rs)
<1> DEFINE f == Books(work)
           n == Len(work)
<1>1. BooksUpTo(f, work, n)
  <2>1. \E g : BooksUpTo(g, work, n)
    BY BooksExist
  <2>2. f = CHOOSE g : BooksUpTo(g, work, n)
    BY DEF Books, BooksUpTo
  <2> HIDE DEF f
  <2> QED
    BY <2>1, <2>2
<1> HIDE DEF f
<1>2. /\ f[0] = [items |-> items, suggestions |-> suggestions]
      /\ \A k \in 1..n : f[k] = Suggest(f[k - 1], work[k][1], work[k][2])
  <2>1. \A k \in 0..n : f[k] = IF k = 0 THEN [items |-> items, suggestions |-> suggestions]
                               ELSE Suggest(f[k - 1], work[k][1], work[k][2])
    BY <1>1 DEF BooksUpTo
  <2> QED
    BY <2>1
<1> DEFINE T == {k \in 0..n : ~Kept(f[k], floor, ts, rs)}
<1>3. T = {}
  <2> SUFFICES ASSUME T # {} PROVE FALSE
    OBVIOUS
  <2>1. PICK m \in T : \A y \in T : m <= y
    <3>1. T \subseteq Nat
      OBVIOUS
    <3> HIDE DEF T
    <3> QED
      BY <3>1, LeastOf
  <2>2. m \in 1..n
    <3>1. Kept(f[0], floor, ts, rs)
      BY <1>2
    <3> QED
      BY <3>1
  <2>3. m - 1 \in 0..n /\ ~(m <= m - 1)
    BY <2>2
  <2>4. Kept(f[m - 1], floor, ts, rs)
    BY <2>1, <2>3
  <2>5. Kept(Suggest(f[m - 1], work[m][1], work[m][2]), floor, ts, rs)
    BY <2>2, <2>4, SuggestKeeps
  <2> QED
    BY <1>2, <2>2, <2>5
<1>4. n \in 0..n
  OBVIOUS
<1> QED
  BY <1>3, <1>4 DEF f
-----------------------------------------------------------------------------
(* What was captured of each Run.                                          *)

IntegrationState ==
  {"none", "pending", "no_facts", "processed", "policy_changed", "agent_disabled", "source_ineligible",
   "extraction_pending", "extraction_queued", "extraction_failed"}
IntegrationRow ==
  [mode : Mode, extraction : BOOLEAN, revision : Nat, proposals : SUBSET Proposals,
   state : IntegrationState, derived : Nat]

\* One row for each of n Runs, under a policy there was.
Captures(ints, n, top) ==
  /\ ints \in Seq(IntegrationRow) /\ Len(ints) = n /\ n \in Nat
  /\ \A r \in 1..n : ints[r].revision <= top /\ ints[r].derived <= n

LEMMA RowMoves ==
  ASSUME NEW x \in IntegrationRow, NEW st \in IntegrationState, NEW y, y = [x EXCEPT !.state = st]
  PROVE  y \in IntegrationRow /\ y.revision = x.revision /\ y.derived = x.derived
BY DEF IntegrationRow

LEMMA CaptureFits ==
  ASSUME NEW mode \in Mode, NEW ext \in BOOLEAN, policy.revision \in Nat
  PROVE  Capture(mode, ext) \in IntegrationRow /\ Capture(mode, ext).revision = policy.revision
         /\ Capture(mode, ext).derived = 0
BY DEF Capture, IntegrationRow, IntegrationState

\* Every row is rewritten, none moves; m more are added.
LEMMA CapturesMapped ==
  ASSUME NEW ints, NEW n, NEW top, Captures(ints, n, top), NEW m \in Nat, NEW f, NEW x \in IntegrationRow,
         x.revision <= top, x.derived = 0,
         f = [r \in DOMAIN ints |-> f[r]],
         \A r \in 1..n : f[r] \in IntegrationRow /\ f[r].revision = ints[r].revision /\ f[r].derived <= n + m
  PROVE  Captures(f \o [k \in 1..m |-> x], n + m, top)
<1> DEFINE more == [k \in 1..m |-> x]
           next == f \o more
<1>1. DOMAIN ints = 1..n /\ n \in Nat
  BY LenProperties DEF Captures
<1>2. f = [r \in 1..n |-> f[r]] /\ \A r \in 1..n : f[r] \in IntegrationRow
  BY <1>1
<1>3. [r \in 1..n |-> f[r]] \in Seq(IntegrationRow)
  BY <1>1, <1>2
<1>4. f \in Seq(IntegrationRow)
  BY <1>2, <1>3
<1>5. Len(f) = n
  BY <1>1, <1>2, <1>4, LenProperties
<1>6. more \in Seq(IntegrationRow) /\ Len(more) = m
  OBVIOUS
<1>7. /\ next \in Seq(IntegrationRow) /\ Len(next) = n + m
      /\ \A i \in 1..(n + m) : next[i] = IF i <= n THEN f[i] ELSE more[i - n]
  BY <1>4, <1>5, <1>6, ConcatProperties
<1> HIDE DEF next
<1>8. ASSUME NEW i \in 1..(n + m) PROVE next[i].revision <= top /\ next[i].derived <= n + m
  <2>1. CASE i <= n
    BY <1>1, <1>7, <2>1 DEF Captures
  <2>2. CASE i > n
    <3>1. i - n \in 1..m
      BY <1>1, <2>2
    <3>2. next[i] = x
      BY <1>1, <1>7, <2>2, <3>1
    <3> QED
      BY <1>1, <3>2
  <2> QED
    BY <1>1, <2>1, <2>2
<1>9. Captures(next, n + m, top)
  BY <1>1, <1>7, <1>8 DEF Captures
<1> QED
  BY <1>9 DEF next

LEMMA CapturesRewritten ==
  ASSUME NEW ints, NEW n, NEW top, Captures(ints, n, top), NEW f, f = [r \in DOMAIN ints |-> f[r]],
         \A r \in 1..n : f[r] \in IntegrationRow /\ f[r].revision = ints[r].revision /\ f[r].derived = ints[r].derived
  PROVE  Captures(f, n, top)
<1>1. DOMAIN ints = 1..n /\ n \in Nat
  BY LenProperties DEF Captures
<1>2. f = [r \in 1..n |-> f[r]] /\ \A r \in 1..n : f[r] \in IntegrationRow
  BY <1>1
<1>3. [r \in 1..n |-> f[r]] \in Seq(IntegrationRow)
  BY <1>1, <1>2
<1>4. f \in Seq(IntegrationRow)
  BY <1>2, <1>3
<1>5. Len(f) = n
  BY <1>1, <1>2, <1>4, LenProperties
<1> QED
  BY <1>1, <1>4, <1>5 DEF Captures

LEMMA CapturesGrow ==
  ASSUME NEW ints, NEW n, NEW top, Captures(ints, n, top), NEW x \in IntegrationRow, x.revision <= top, x.derived = 0
  PROVE  Captures(Append(ints, x), n + 1, top)
<1> DEFINE next == Append(ints, x)
<1>1. /\ next \in Seq(IntegrationRow) /\ Len(next) = n + 1 /\ n \in Nat
      /\ \A i \in 1..n : next[i] = ints[i]
      /\ next[n + 1] = x
  BY AppendProperties DEF Captures
<1>2. ASSUME NEW i \in 1..n PROVE ints[i].derived \in Nat
  <2>1. ints[i] \in IntegrationRow
    BY ElementOfSeq DEF Captures
  <2> QED
    BY <2>1 DEF IntegrationRow
<1> HIDE DEF next
<1>3. ASSUME NEW i \in 1..(n + 1) PROVE next[i].revision <= top /\ next[i].derived <= n + 1
  <2>1. CASE i \in 1..n
    BY <1>1, <1>2, <2>1 DEF Captures
  <2>2. CASE i = n + 1
    BY <1>1, <2>2
  <2> QED
    BY <1>1, <2>1, <2>2
<1>4. Captures(next, n + 1, top)
  BY <1>1, <1>3 DEF Captures
<1> QED
  BY <1>4 DEF next
-----------------------------------------------------------------------------
(* The inductive invariant of the memory.                                  *)

Noted(rd, n) ==
  rd \in [Editors -> [item : Nat, version : Nat]] /\ \A e \in Editors : rd[e].item <= n

PolicyRow == [mode : Mode, extraction : BOOLEAN, revision : 0..MaxPolicies]

Books0 == [items |-> items, suggestions |-> suggestions]

LearntInv ==
  /\ MemoryInv
  /\ policy \in PolicyRow
  /\ Captures(integrations, Len(runs), policy.revision)
  /\ Kept(Books0, Len(items), turns, runs)
  /\ Noted(readers, Len(items))

\* A source that counted once counts on: its Turn keeps its answer.
LEMMA KeptOn ==
  ASSUME NEW b, NEW floor, NEW ts, NEW rps, NEW rs, Kept(b, floor, ts, rs), Told(ts, rps, rs),
         NEW ts2, NEW rs2, Keeps(rs, rs2), Stands(ts, ts2)
  PROVE  Kept(b, floor, ts2, rs2)
<1>1. Len(rs) \in Nat /\ Len(rs2) \in Nat /\ \A r \in 1..Len(rs) : rs[r].turn \in Nat
  BY TableFacts DEF Told, Keeps
<1>2. ASSUME NEW r, FromAnswer(r, ts, rs) PROVE FromAnswer(r, ts2, rs2)
  <2>1. r \in 1..Len(rs) /\ rs[r].status = "succeeded" /\ (rs[r].turn # 0 => ts[rs[r].turn].authority = r)
    BY <1>2 DEF FromAnswer
  <2>2. r \in 1..Len(rs2) /\ rs2[r].status = "succeeded" /\ rs2[r].turn = rs[r].turn
    BY <1>1, <2>1 DEF Keeps
  <2>3. ASSUME rs[r].turn # 0 PROVE ts2[rs[r].turn].authority = r
    <3>1. rs[r].turn \in 1..Len(ts)
      <4>1. Len(ts) \in Nat /\ rs[r].turn <= Len(ts)
        BY <2>1, LenProperties DEF Told
      <4> QED
        BY <1>1, <2>1, <2>3, <4>1
    <3>2. ts[rs[r].turn].authority = r /\ r # 0
      BY <1>1, <2>1, <2>3
    <3>3. ts[rs[r].turn].state = "succeeded"
      BY <3>1, <3>2 DEF Told, Answered
    <3> QED
      BY <3>1, <3>2, <3>3 DEF Stands
  <2> QED
    BY <2>2, <2>3 DEF FromAnswer
<1> QED
  BY <1>2 DEF Kept

\* A step of the conversation or of the pass that leaves the books alone.
LEMMA BooksStay ==
  ASSUME LearntInv, MemoryGoal, UNCHANGED <<items, suggestions, readers>>
  PROVE  Kept(Books0', Len(items)', turns', runs') /\ Noted(readers', Len(items'))
<1>1. Told(turns, replies, runs) /\ Keeps(runs, runs') /\ Stands(turns, turns')
  BY DEF LearntInv, MemoryInv, TalkInv, MemoryGoal
<1>2. Books0' = Books0
  BY DEF Books0
<1>3. Kept(Books0, Len(items), turns', runs')
  BY <1>1, KeptOn DEF LearntInv
<1> QED
  BY <1>2, <1>3 DEF LearntInv

LEMMA CapturesStay ==
  ASSUME LearntInv, UNCHANGED <<policy, integrations>>, Len(runs') = Len(runs)
  PROVE  policy' \in PolicyRow /\ Captures(integrations', Len(runs'), policy'.revision)
BY DEF LearntInv

LEMMA PolicyFacts ==
  ASSUME LearntInv
  PROVE  policy.mode \in Mode /\ policy.extraction \in BOOLEAN /\ policy.revision \in Nat
         /\ policy.revision <= MaxPolicies
BY MemoryConstants DEF LearntInv, PolicyRow

LEMMA RunCount ==
  ASSUME LearntInv
  PROVE  Len(runs) \in Nat /\ DOMAIN runs = 1..Len(runs) /\ DOMAIN integrations = 1..Len(runs) /\ RunTable(runs)
         /\ \A r \in 1..Len(runs) : integrations[r] \in IntegrationRow
<1>1. RunTable(runs)
  BY DEF LearntInv, MemoryInv, TalkInv, Told
<1>2. integrations \in Seq(IntegrationRow) /\ Len(integrations) = Len(runs)
  BY DEF LearntInv, Captures
<1> QED
  BY <1>1, <1>2, TableFacts, LenProperties, ElementOfSeq

-----------------------------------------------------------------------------
(* Runs are submitted and end.                                             *)

LEMMA SubmitLearns ==
  ASSUME LearntInv, MemoryGoal, TalkSubmit \/ \E m \in ClientMessage : SubmitRun(m)
  PROVE  LearntInv'
<1>1. UNCHANGED <<items, suggestions, readers, policy>> /\ CaptureIntegration
  BY DEF TalkSubmit, SubmitRun
<1>2. \E x : RunRow(x) /\ runs' = Append(runs, x)
  <2>1. ASSUME NEW m \in ClientMessage, NEW c, SendMessage(m, c) PROVE \E x : RunRow(x) /\ runs' = Append(runs, x)
    <3>1. Len(turns) + 1 \in Nat
      BY LenProperties DEF LearntInv, MemoryInv, TalkInv, Told
    <3> QED
      BY <2>1, <3>1, NewRunFits DEF SendMessage
  <2>2. ASSUME NEW i, NEW c, RetryTurn(i, c) PROVE \E x : RunRow(x) /\ runs' = Append(runs, x)
    <3>1. i \in Nat
      BY <2>2, LenProperties DEF LearntInv, MemoryInv, TalkInv, Told, RetryTurn
    <3> QED
      BY <2>2, <3>1, NewRunFits DEF RetryTurn
  <2>3. ASSUME NEW m, SubmitRun(m) PROVE \E x : RunRow(x) /\ runs' = Append(runs, x)
    BY <2>3, NewRunFits DEF SubmitRun
  <2> QED
    BY <2>1, <2>2, <2>3 DEF TalkSubmit
<1>3. Len(runs') = Len(runs) + 1
  BY <1>2, TableAppend, RunCount
<1> DEFINE x == Capture(policy.mode, policy.extraction)
<1>4. x \in IntegrationRow /\ x.revision = policy.revision /\ x.derived = 0 /\ x.revision <= policy.revision
  BY PolicyFacts, CaptureFits
<1>5. integrations' = Append(integrations, x)
  BY <1>1 DEF CaptureIntegration
<1> HIDE DEF x
<1>6. Captures(integrations', Len(runs'), policy'.revision)
  BY <1>1, <1>3, <1>4, <1>5, CapturesGrow DEF LearntInv
<1>7. policy' \in PolicyRow
  BY <1>1 DEF LearntInv
<1> QED
  BY <1>1, <1>6, <1>7, BooksStay DEF LearntInv, MemoryGoal

LEMMA CapturedFits ==
  ASSUME LearntInv, NEW r \in 1..Len(runs), NEW ps \in SUBSET Proposals
  PROVE  Captures(Captured(r, ps), Len(runs), policy.revision)
<1> DEFINE n == Len(runs)
           f == Captured(r, ps)
<1>1. Captures(integrations, n, policy.revision)
  BY DEF LearntInv
<1>2. /\ n \in Nat /\ DOMAIN integrations = 1..n
      /\ \A q \in 1..n : integrations[q] \in IntegrationRow
  BY RunCount
<1>3. {"none", "pending", "no_facts", "extraction_pending"} \subseteq IntegrationState
  BY DEF IntegrationState
<1>4. CASE Parents(r) # {}
  <2> DEFINE y(q) == [integrations[q] EXCEPT !.proposals = ps, !.state = IF ps # {} THEN "pending" ELSE "no_facts"]
  <2>1. f = [q \in DOMAIN integrations |-> IF q \in Parents(r) THEN y(q) ELSE integrations[q]]
    BY <1>4 DEF Captured
  <2>2. ASSUME NEW q \in 1..n
        PROVE  y(q) \in IntegrationRow /\ y(q).revision = integrations[q].revision /\ y(q).derived = integrations[q].derived
    <3> DEFINE st == IF ps # {} THEN "pending" ELSE "no_facts"
               row == integrations[q]
               z == [row EXCEPT !.proposals = ps, !.state = st]
    <3>1. st \in IntegrationState
      BY <1>3
    <3>2. row \in IntegrationRow
      BY <1>2
    <3>3. y(q) = z
      OBVIOUS
    <3> HIDE DEF st, row, y
    <3>4. z \in IntegrationRow /\ z.revision = row.revision /\ z.derived = row.derived
      BY <3>1, <3>2 DEF IntegrationRow
    <3> QED
      BY <3>3, <3>4 DEF row
  <2> HIDE DEF y, f
  <2>3. f = [q \in DOMAIN integrations |-> f[q]]
    BY <2>1
  <2>4. ASSUME NEW q \in 1..n
        PROVE  f[q] \in IntegrationRow /\ f[q].revision = integrations[q].revision /\ f[q].derived = integrations[q].derived
    BY <1>2, <2>1, <2>2
  <2>5. Captures(f, n, policy.revision)
    BY <1>1, <2>3, <2>4, CapturesRewritten
  <2> QED
    BY <2>5 DEF f
<1>5. CASE Parents(r) = {} /\ integrations[r].mode = "manual"
  BY <1>1, <1>5 DEF Captured
<1>6. CASE Parents(r) = {} /\ integrations[r].mode # "manual"
  <2> DEFINE st == IF ps # {} THEN "pending" ELSE IF integrations[r].extraction THEN "extraction_pending" ELSE "none"
             row == integrations[r]
             y == [row EXCEPT !.proposals = ps, !.state = st]
  <2>1. f = [integrations EXCEPT ![r] = y]
    BY <1>6 DEF Captured
  <2>2. y \in IntegrationRow /\ y.revision = integrations[r].revision /\ y.derived = integrations[r].derived
    <3>1. st \in IntegrationState
      BY <1>3
    <3>2. row \in IntegrationRow
      BY <1>2
    <3> HIDE DEF st, row
    <3>5. y \in IntegrationRow /\ y.revision = row.revision /\ y.derived = row.derived
      BY <3>1, <3>2 DEF IntegrationRow
    <3> QED
      BY <3>5 DEF row
  <2> HIDE DEF y, f
  <2>3. f = [q \in DOMAIN integrations |-> f[q]] /\ \A q \in 1..n : f[q] = IF q = r THEN y ELSE integrations[q]
    BY <1>2, <2>1
  <2>4. ASSUME NEW q \in 1..n
        PROVE  f[q] \in IntegrationRow /\ f[q].revision = integrations[q].revision /\ f[q].derived = integrations[q].derived
    BY <1>2, <2>2, <2>3
  <2>5. Captures(f, n, policy.revision)
    BY <1>1, <2>3, <2>4, CapturesRewritten
  <2> QED
    BY <2>5 DEF f
<1> QED
  BY <1>4, <1>5, <1>6

LEMMA SucceedLearns ==
  ASSUME LearntInv, MemoryGoal, NEW r, NEW ps \in SUBSET Proposals, SucceedProposing(r, ps)
  PROVE  LearntInv'
<1>1. r \in 1..Len(runs) /\ runs' = [runs EXCEPT ![r] = Settled(runs[r], "succeeded")]
  BY RunCount DEF SucceedProposing, SettleAttempt, Holds, Settled
<1>2. Len(runs') = Len(runs)
  <2>1. runs \in Seq({runs[i] : i \in DOMAIN runs})
    BY RunCount DEF RunTable, IsSequence
  <2>2. DOMAIN runs' = 1..Len(runs) /\ runs' = [i \in 1..Len(runs) |-> runs'[i]]
    BY <1>1, RunCount
  <2>3. RunTable(runs')
    BY DEF MemoryGoal, MemoryInv, TalkInv, Told
  <2>4. DOMAIN runs' = 1..Len(runs') /\ Len(runs') \in Nat
    BY <2>3, TableFacts
  <2> QED
    BY <2>2, <2>4, RunCount
<1>3. UNCHANGED <<items, suggestions, readers, policy>> /\ integrations' = Captured(r, ps)
  BY DEF SucceedProposing
<1>4. Captures(integrations', Len(runs'), policy'.revision)
  BY <1>1, <1>2, <1>3, CapturedFits
<1>5. policy' \in PolicyRow
  BY <1>3 DEF LearntInv
<1> QED
  BY <1>3, <1>4, <1>5, BooksStay DEF LearntInv, MemoryGoal
-----------------------------------------------------------------------------
(* The maintenance pass.                                                   *)

LEMMA QueueLearns ==
  ASSUME LearntInv, MemoryGoal, QueueExtractions
  PROVE  LearntInv'
<1> DEFINE all == {r \in DOMAIN runs : runs[r].status = "succeeded" /\ integrations[r].state = "extraction_pending"}
           rows == FirstOf(all, ExtractLimit)
           queued == FirstOf({r \in rows : ExtractionVerdict(r) = "extraction_queued"}, MaxRuns - Len(runs))
           n == Len(runs)
           m == Cardinality(queued)
           d(r) == n + Cardinality({q \in queued : q <= r})
           x == Capture("manual", FALSE)
           f == [r \in DOMAIN integrations |->
                  IF r \in queued
                  THEN [integrations[r] EXCEPT !.state = "extraction_queued", !.derived = d(r)]
                  ELSE IF r \in rows /\ ExtractionVerdict(r) # "extraction_queued"
                  THEN [integrations[r] EXCEPT !.state = ExtractionVerdict(r)]
                  ELSE IF /\ integrations[r].state = "extraction_queued"
                          /\ runs[integrations[r].derived].status \in RunEnded \ {"succeeded"}
                  THEN [integrations[r] EXCEPT !.state = "extraction_failed"]
                  ELSE integrations[r]]
<1>1. /\ n \in Nat /\ DOMAIN runs = 1..n /\ DOMAIN integrations = 1..n /\ RunTable(runs)
      /\ \A r \in 1..n : integrations[r] \in IntegrationRow
  BY RunCount
<1>2. integrations' = f \o [k \in 1..m |-> x]
  BY DEF QueueExtractions
<1>3. UNCHANGED <<items, suggestions, readers, policy>>
  BY DEF QueueExtractions
<1>4. queued \in SUBSET (1..n) /\ m \in Nat
  <2>1. all \in SUBSET (1..n)
    BY <1>1
  <2>2. rows \in SUBSET (1..n)
    BY <1>1, <2>1, FirstOfFinite
  <2>3. {r \in rows : ExtractionVerdict(r) = "extraction_queued"} \in SUBSET (1..n)
    BY <2>2
  <2> QED
    BY <1>1, <2>3, FirstOfFinite
<1>5. Len(runs') = n + m
  <2>1. PICK c \in ClientMessage : runs' = runs \o [k \in 1..m |-> NewRun(0, c, Candidates(c))]
    BY DEF QueueExtractions
  <2> DEFINE y == NewRun(0, c, Candidates(c))
  <2>2. RunRow(y)
    BY NewRunFits
  <2>3. runs' = runs \o [k \in 1..m |-> y]
    BY <2>1
  <2> HIDE DEF y, m
  <2> QED
    BY <1>1, <1>4, <2>2, <2>3, TableExtend
<1>6. ASSUME NEW r \in 1..n PROVE d(r) \in Nat /\ d(r) <= n + m
  <2> DEFINE below == {q \in queued : q <= r}
  <2>1. below \subseteq queued /\ IsFiniteSet(1..n)
    BY <1>1, FS_Interval
  <2>2. IsFiniteSet(queued)
    BY <1>4, <2>1, FS_Subset
  <2>3. IsFiniteSet(below) /\ Cardinality(below) <= m
    BY <2>1, <2>2, FS_Subset
  <2>4. Cardinality(below) \in Nat
    BY <2>3, FS_CardinalityType
  <2> HIDE DEF below, queued, m
  <2>5. n + Cardinality(below) \in Nat /\ n + Cardinality(below) <= n + m
    BY <1>1, <1>4, <2>3, <2>4
  <2> QED
    BY <2>5 DEF below
<1>7. \A r : ExtractionVerdict(r) \in IntegrationState
  BY DEF ExtractionVerdict, IntegrationState
<1>8. "extraction_queued" \in IntegrationState /\ "extraction_failed" \in IntegrationState
  BY DEF IntegrationState
<1>9. ASSUME NEW r \in 1..n
      PROVE  f[r] \in IntegrationRow /\ f[r].revision = integrations[r].revision /\ f[r].derived <= n + m
  <2> DEFINE row == integrations[r]
             v == ExtractionVerdict(r)
             dr == d(r)
  <2>1. \/ f[r] = [row EXCEPT !.state = "extraction_queued", !.derived = dr]
        \/ f[r] = [row EXCEPT !.state = v]
        \/ f[r] = [row EXCEPT !.state = "extraction_failed"]
        \/ f[r] = row
    <3> HIDE DEF queued, rows, v, dr, d
    <3> QED
      BY <1>1 DEF v, dr
  <2>2. row \in IntegrationRow /\ v \in IntegrationState /\ dr \in Nat /\ dr <= n + m
    BY <1>1, <1>6, <1>7
  <2>3. row.derived <= n + m
    <3>1. row.derived <= n /\ row.derived \in Nat
      BY <2>2 DEF LearntInv, Captures, IntegrationRow
    <3> HIDE DEF m, row
    <3> QED
      BY <1>1, <1>4, <3>1
  <2>4. PICK y : y = f[r]
    OBVIOUS
  <2> HIDE DEF f, row, v, dr, m
  <2>5. CASE y = [row EXCEPT !.state = "extraction_queued", !.derived = dr]
    <3>1. y \in IntegrationRow /\ y.revision = row.revision /\ y.derived = dr
      BY <1>8, <2>2, <2>5 DEF IntegrationRow
    <3> QED
      BY <2>2, <2>4, <3>1 DEF row
  <2>6. CASE y = [row EXCEPT !.state = v]
    <3>1. y \in IntegrationRow /\ y.revision = row.revision /\ y.derived = row.derived
      BY <2>2, <2>6, RowMoves
    <3> QED
      BY <2>3, <2>4, <3>1 DEF row
  <2>7. CASE y = [row EXCEPT !.state = "extraction_failed"]
    <3>1. y \in IntegrationRow /\ y.revision = row.revision /\ y.derived = row.derived
      BY <1>8, <2>2, <2>7, RowMoves
    <3> QED
      BY <2>3, <2>4, <3>1 DEF row
  <2>8. CASE y = row
    BY <2>2, <2>3, <2>4, <2>8 DEF row
  <2> QED
    BY <2>1, <2>4, <2>5, <2>6, <2>7, <2>8
<1>10. x \in IntegrationRow /\ x.revision = policy.revision /\ x.derived = 0 /\ x.revision <= policy.revision
  <2>1. "manual" \in Mode /\ FALSE \in BOOLEAN
    BY DEF Mode
  <2>2. policy.revision \in Nat
    BY PolicyFacts
  <2>3. x \in IntegrationRow /\ x.revision = policy.revision /\ x.derived = 0
    BY <2>1, <2>2 DEF Capture, IntegrationRow, IntegrationState
  <2> HIDE DEF x
  <2> QED
    BY <2>2, <2>3
<1>11. f = [r \in DOMAIN integrations |-> f[r]]
  OBVIOUS
<1> HIDE DEF f, x, m
<1>12. Captures(integrations, n, policy.revision)
  BY DEF LearntInv
<1>13. Captures(f \o [k \in 1..m |-> x], n + m, policy.revision)
  BY <1>4, <1>9, <1>10, <1>11, <1>12, CapturesMapped
<1>14. Captures(integrations', Len(runs'), policy'.revision)
  BY <1>2, <1>3, <1>5, <1>13
<1>15. policy' \in PolicyRow
  BY <1>3 DEF LearntInv
<1> QED
  BY <1>3, <1>14, <1>15, BooksStay DEF LearntInv, MemoryGoal

\* What the pass works on: proposals of Runs that still count.
LEMMA WorkFacts ==
  ASSUME LearntInv, NEW work \in Orders
  PROVE  /\ Len(work) \in Nat
         /\ \A k \in 1..Len(work) :
              work[k][1] \in Nat /\ FromAnswer(work[k][1], turns, runs) /\ work[k][2] \in Proposals
<1> DEFINE n == Len(runs)
           all == (1..n) \X Proposals
           c == Cardinality(ToProcess)
<1>1. n \in Nat /\ DOMAIN integrations = 1..n
  BY RunCount
<1>2. IsFiniteSet(Proposals)
  <2>1. IsFiniteSet(MemScope \X Facts)
    <3>1. IsFiniteSet(MemScope)
      <4>1. IsFiniteSet({"user"}) /\ IsFiniteSet({"agent"})
        BY FS_Singleton
      <4>2. IsFiniteSet({"user"} \cup {"agent"})
        BY <4>1, FS_Union
      <4>3. MemScope = {"user"} \cup {"agent"}
        BY DEF MemScope
      <4> QED
        BY <4>2, <4>3
    <3> QED
      BY <3>1, FS_Product, MemoryConstants
  <2> DEFINE g == [z \in MemScope \X Facts |-> [scope |-> z[1], fact |-> z[2]]]
  <2>2. g \in Surjection(MemScope \X Facts, Proposals)
    <3>1. \A z \in MemScope \X Facts : g[z] \in Proposals
      BY DEF Proposals
    <3>2. \A p \in Proposals : \E z \in MemScope \X Facts : g[z] = p
      <4> SUFFICES ASSUME NEW p \in Proposals PROVE \E z \in MemScope \X Facts : g[z] = p
        OBVIOUS
      <4>1. <<p.scope, p.fact>> \in MemScope \X Facts /\ p = [scope |-> p.scope, fact |-> p.fact]
        BY DEF Proposals
      <4>2. g[<<p.scope, p.fact>>] = [scope |-> p.scope, fact |-> p.fact]
        BY <4>1
      <4> QED
        BY <4>1, <4>2
    <3> HIDE DEF g
    <3>3. g \in [MemScope \X Facts -> Proposals]
      BY <3>1 DEF g
    <3> QED
      BY <3>2, <3>3 DEF Surjection
  <2> HIDE DEF g
  <2> QED
    BY <2>1, <2>2, FS_Surjection
<1>3. ToProcess \subseteq all
  BY <1>1 DEF ToProcess, PendingRows
<1>4. IsFiniteSet(ToProcess) /\ c \in Nat
  <2>1. IsFiniteSet(1..n)
    BY <1>1, FS_Interval
  <2>2. IsFiniteSet(all)
    BY <1>2, <2>1, FS_Product
  <2>3. IsFiniteSet(ToProcess)
    BY <1>3, <2>2, FS_Subset
  <2> QED
    BY <2>3, FS_CardinalityType
<1>5. work \in [1..c -> ToProcess]
  BY DEF Orders, SetToSeqs
<1>6. Len(work) = c
  <2> HIDE DEF c
  <2>1. work \in Seq(ToProcess)
    BY <1>4, <1>5
  <2>2. DOMAIN work = 1..c /\ DOMAIN work = 1..Len(work) /\ Len(work) \in Nat
    BY <1>5, <2>1, LenProperties
  <2> QED
    BY <1>4, <2>2
<1>7. ASSUME NEW w \in ToProcess
      PROVE  w[1] \in Nat /\ FromAnswer(w[1], turns, runs) /\ w[2] \in Proposals
  <2>1. w[1] \in 1..n /\ runs[w[1]].status = "succeeded" /\ PendingVerdict(w[1]) = "processed" /\ w[2] \in Proposals
    BY <1>1 DEF ToProcess, PendingRows
  <2>2. EligibleSource(w[1])
    BY <2>1 DEF PendingVerdict
  <2> QED
    BY <1>1, <2>1, <2>2 DEF FromAnswer, EligibleSource
<1> HIDE DEF c
<1> QED
  BY <1>4, <1>5, <1>6, <1>7

LEMMA MaterializeLearns ==
  ASSUME LearntInv, MemoryGoal, MaterializePending
  PROVE  LearntInv'
<1>1. PICK work \in Orders :
        LET books == Books(work)[Len(work)] IN
        /\ items' = books.items /\ suggestions' = books.suggestions
        /\ integrations' = [r \in DOMAIN integrations |->
               IF r \in PendingRows THEN [integrations[r] EXCEPT !.state = PendingVerdict(r)]
               ELSE integrations[r]]
        /\ UNCHANGED <<talkVars, policy, readers, instanceEnabled>>
  BY DEF MaterializePending
<1>2. UNCHANGED <<turns, runs, policy, readers>>
  BY <1>1 DEF talkVars
<1> DEFINE books == Books(work)[Len(work)]
<1>3. Kept(books, Len(items), turns, runs)
  BY WorkFacts, BooksKeep DEF LearntInv, Books0
<1>4. items' = books.items /\ suggestions' = books.suggestions
  BY <1>1
<1> HIDE DEF books
<1>5. Books0' = books
  BY <1>3, <1>4 DEF Books0, Kept
<1>6. Len(items) \in Nat /\ Len(items) <= Len(items') /\ Len(items') \in Nat
  BY <1>3, <1>4, LenProperties DEF Kept, Shelf
<1>7. Kept(Books0', Len(items'), turns', runs')
  BY <1>2, <1>3, <1>4, <1>5, <1>6 DEF Kept
<1>8. Noted(readers', Len(items'))
  BY <1>2, <1>6 DEF LearntInv, Noted
<1>9. Captures(integrations', Len(runs), policy.revision)
  <2> DEFINE f == integrations'
  <2>1. f = [r \in DOMAIN integrations |->
               IF r \in PendingRows THEN [integrations[r] EXCEPT !.state = PendingVerdict(r)]
               ELSE integrations[r]]
    BY <1>1
  <2>2. DOMAIN integrations = 1..Len(runs) /\ \A r \in 1..Len(runs) : integrations[r] \in IntegrationRow
    BY RunCount
  <2>3. \A r : PendingVerdict(r) \in IntegrationState
    BY DEF PendingVerdict, IntegrationState
  <2>4. ASSUME NEW r \in 1..Len(runs)
        PROVE  f[r] \in IntegrationRow /\ f[r].revision = integrations[r].revision /\ f[r].derived = integrations[r].derived
    <3>1. f[r] = [integrations[r] EXCEPT !.state = PendingVerdict(r)] \/ f[r] = integrations[r]
      BY <2>1, <2>2
    <3>2. PICK y : y = f[r]
      OBVIOUS
    <3>3. PICK v \in IntegrationState : v = PendingVerdict(r)
      BY <2>3
    <3>4. CASE y = [integrations[r] EXCEPT !.state = v]
      BY <2>2, <3>2, <3>4, RowMoves
    <3> QED
      BY <2>2, <3>1, <3>2, <3>3, <3>4
  <2>5. f = [r \in DOMAIN integrations |-> f[r]]
    BY <2>1
  <2>6. Captures(integrations, Len(runs), policy.revision)
    BY DEF LearntInv
  <2> HIDE DEF f
  <2>7. Captures(f, Len(runs), policy.revision)
    BY <2>4, <2>5, <2>6, CapturesRewritten
  <2> QED
    BY <2>7 DEF f
<1>10. policy' \in PolicyRow
  BY <1>2 DEF LearntInv
<1> QED
  BY <1>2, <1>7, <1>8, <1>9, <1>10 DEF LearntInv, MemoryGoal
-----------------------------------------------------------------------------
(* The owner.                                                              *)

\* The owner's steps leave the conversation and its Runs alone.
LEMMA OwnerLearns ==
  ASSUME LearntInv, MemoryGoal, UNCHANGED <<turns, runs, integrations>>,
         policy' \in PolicyRow, policy.revision <= policy'.revision, policy'.revision \in Nat,
         Kept(Books0', Len(items'), turns, runs), Noted(readers', Len(items'))
  PROVE  LearntInv'
<1>1. Captures(integrations, Len(runs), policy'.revision)
  <2>1. ASSUME NEW r \in 1..Len(runs) PROVE integrations[r].revision <= policy'.revision
    <3>1. integrations[r].revision \in Nat
      BY RunCount DEF IntegrationRow
    <3>2. integrations[r].revision <= policy.revision /\ policy.revision \in Nat
      BY PolicyFacts DEF LearntInv, Captures
    <3> QED
      BY <3>1, <3>2
  <2> QED
    BY <2>1 DEF LearntInv, Captures
<1>2. turns' = turns /\ runs' = runs /\ integrations' = integrations
  OBVIOUS
<1> QED
  BY <1>1, <1>2 DEF LearntInv, MemoryGoal

LEMMA PolicyStays ==
  ASSUME LearntInv, UNCHANGED policy
  PROVE  policy' \in PolicyRow /\ policy.revision <= policy'.revision /\ policy'.revision \in Nat
<1>1. policy \in PolicyRow /\ policy.revision \in Nat
  BY PolicyFacts DEF LearntInv
<1> QED
  BY <1>1

LEMMA ItemCount ==
  ASSUME LearntInv
  PROVE  /\ Len(items) \in Nat /\ DOMAIN items = 1..Len(items) /\ items \in Seq(ItemRow) /\ Shelf(items)
         /\ DOMAIN suggestions = 1..Len(suggestions) /\ suggestions \in Seq(SuggestionRow)
<1>1. Kept(Books0, Len(items), turns, runs) /\ Books0.items = items /\ Books0.suggestions = suggestions
  BY DEF LearntInv, Books0
<1>2. Shelf(items) /\ suggestions \in Seq(SuggestionRow)
  BY <1>1 DEF Kept
<1> QED
  BY <1>2, LenProperties DEF Shelf

\* The items change, the suggestions do not.
LEMMA ItemsChange ==
  ASSUME LearntInv, Shelf(items'), Len(items) <= Len(items'), UNCHANGED suggestions
  PROVE  Kept(Books0', Len(items'), turns, runs) /\ Len(items') \in Nat
         /\ \A n \in Nat : n <= Len(items) => n <= Len(items')
<1>1. Len(items') \in Nat /\ Len(items) \in Nat
  BY ItemCount, LenProperties DEF Shelf
<1>2. Kept(Books0, Len(items), turns, runs) /\ Books0.items = items /\ Books0.suggestions = suggestions
  BY DEF LearntInv, Books0
<1> DEFINE b == [items |-> items', suggestions |-> suggestions]
<1>3. Books0' = b
  BY DEF Books0
<1>4. b.items = items' /\ b.suggestions = suggestions /\ b = [items |-> b.items, suggestions |-> b.suggestions]
  OBVIOUS
<1> HIDE DEF b
<1>5. ASSUME NEW k \in 1..Len(suggestions)
      PROVE  suggestions[k].item \in 0..Len(items') /\ FromAnswer(suggestions[k].source, turns, runs)
  <2>1. suggestions[k].item \in 0..Len(items) /\ FromAnswer(suggestions[k].source, turns, runs)
    BY <1>2 DEF Kept
  <2> QED
    BY <1>1, <2>1
<1>6. Kept(b, Len(items'), turns, runs)
  BY <1>1, <1>2, <1>4, <1>5, ItemCount DEF Kept
<1> QED
  BY <1>1, <1>3, <1>6

LEMMA NotedOn ==
  ASSUME NEW rd, NEW n \in Nat, NEW m \in Nat, n <= m, Noted(rd, n) PROVE Noted(rd, m)
<1>1. ASSUME NEW e \in Editors PROVE rd[e].item <= m
  <2>1. rd[e].item \in Nat /\ rd[e].item <= n
    BY DEF Noted
  <2> QED
    BY <2>1
<1> QED
  BY <1>1 DEF Noted

LEMMA CreateLearns ==
  ASSUME LearntInv, MemoryGoal, NEW sc \in MemScope, NEW f \in Facts, CreateMemory(sc, f)
  PROVE  LearntInv'
<1>1. /\ HasRoom(items, sc) /\ items' = Append(items, NewItem(sc, f, FALSE))
      /\ UNCHANGED <<turns, runs, integrations, policy, suggestions, readers>>
  BY DEF CreateMemory, talkVars
<1>2. Shelf(items') /\ Len(items') = Len(items) + 1 /\ Len(items) \in Nat
  BY <1>1, ItemCount, ShelfGrows
<1>3. Len(items) <= Len(items') /\ Len(items') \in Nat
  BY <1>2
<1>4. Kept(Books0', Len(items'), turns, runs)
  BY <1>1, <1>2, <1>3, ItemsChange
<1>5. Noted(readers', Len(items'))
  <2>1. Noted(readers, Len(items))
    BY DEF LearntInv
  <2> QED
    BY <1>1, <1>2, <1>3, <2>1, NotedOn
<1> QED
  BY <1>1, <1>4, <1>5, PolicyStays, OwnerLearns

\* An item is edited or deleted.
LEMMA RewriteLearns ==
  ASSUME LearntInv, MemoryGoal, NEW i \in 1..Len(items), NEW x, Chained(x),
         x.scope = items[i].scope, x.automatic = items[i].automatic,
         x.versions[1] = items[i].versions[1], x.status = "active" => items[i].status = "active",
         items' = [items EXCEPT ![i] = x],
         UNCHANGED <<turns, runs, integrations, policy, suggestions, readers>>
  PROVE  LearntInv'
<1>1. Shelf(items') /\ Len(items') = Len(items) /\ Len(items) \in Nat
  BY ItemCount, ShelfRewritten
<1>2. Len(items) <= Len(items')
  BY <1>1
<1>3. Kept(Books0', Len(items'), turns, runs)
  BY <1>1, <1>2, ItemsChange
<1>4. Noted(readers', Len(items'))
  BY <1>1 DEF LearntInv
<1> QED
  BY <1>3, <1>4, PolicyStays, OwnerLearns

LEMMA ItemFacts ==
  ASSUME LearntInv, NEW i \in 1..Len(items)
  PROVE  /\ Chained(items[i]) /\ items[i] \in ItemRow /\ items[i].versions \in Seq(Version)
         /\ Len(items[i].versions) \in Nat \ {0}
<1>1. Chained(items[i])
  BY ItemCount DEF Shelf
<1>2. items[i] \in ItemRow /\ items[i].versions # <<>>
  BY <1>1 DEF Chained
<1>3. items[i].versions \in Seq(Version)
  BY <1>2 DEF ItemRow
<1>4. Len(items[i].versions) \in Nat /\ Len(items[i].versions) # 0
  BY <1>2, <1>3, LenProperties, EmptySeq
<1> QED
  BY <1>1, <1>2, <1>3, <1>4

LEMMA DeleteLearns ==
  ASSUME LearntInv, MemoryGoal, NEW i \in DOMAIN items, DeleteMemory(i)
  PROVE  LearntInv'
<1>1. i \in 1..Len(items)
  BY ItemCount
<1> DEFINE x == [items[i] EXCEPT !.status = "deleted"]
<1>2. items[i] \in ItemRow /\ Chained(items[i])
  BY <1>1, ItemFacts
<1>3. /\ x \in ItemRow /\ x.scope = items[i].scope /\ x.automatic = items[i].automatic
      /\ x.versions = items[i].versions /\ x.status = "deleted"
  BY <1>2 DEF ItemRow
<1>4. /\ items' = [items EXCEPT ![i] = x]
      /\ UNCHANGED <<turns, runs, integrations, policy, suggestions, readers>>
  BY DEF DeleteMemory, talkVars
<1> HIDE DEF x
<1>5. Chained(x)
  BY <1>2, <1>3 DEF Chained
<1>6. x.versions[1] = items[i].versions[1] /\ (x.status = "active" => items[i].status = "active")
  BY <1>3
<1> QED
  BY <1>1, <1>3, <1>4, <1>5, <1>6, RewriteLearns

LEMMA EditLearns ==
  ASSUME LearntInv, MemoryGoal, NEW e \in Editors, NEW f \in Facts, EditMemory(e, f)
  PROVE  LearntInv'
<1> DEFINE i == readers[e].item
           old == items[i]
           ver == [fact |-> f, base |-> readers[e].version]
           vs == Append(old.versions, ver)
           x == [old EXCEPT !.versions = vs]
<1>1. i \in 1..Len(items)
  <2>1. i # 0 /\ i \in Nat /\ i <= Len(items)
    BY DEF EditMemory, LearntInv, Noted
  <2> QED
    BY <2>1, ItemCount
<1>2. Chained(old) /\ old \in ItemRow /\ old.versions \in Seq(Version) /\ Len(old.versions) \in Nat \ {0}
  BY <1>1, ItemFacts
<1>3. readers[e].version = Len(old.versions)
  BY DEF EditMemory, VersionExpected, CurrentVersion
<1>4. /\ items' = [items EXCEPT ![i] = x]
      /\ UNCHANGED <<turns, runs, integrations, policy, suggestions, readers>>
  BY DEF EditMemory, talkVars
<1> HIDE DEF i, old
<1>5. ver \in Version /\ ver.base = Len(old.versions)
  BY <1>2, <1>3 DEF Version
<1> HIDE DEF ver
<1>6. /\ vs \in Seq(Version) /\ Len(vs) = Len(old.versions) + 1 /\ vs # <<>>
      /\ \A v \in 1..Len(old.versions) : vs[v] = old.versions[v]
      /\ vs[Len(old.versions) + 1] = ver
  BY <1>2, <1>5, AppendProperties
<1> HIDE DEF vs
<1>7. /\ x \in ItemRow /\ x.scope = old.scope /\ x.automatic = old.automatic
      /\ x.versions = vs /\ x.status = old.status
  BY <1>2, <1>6 DEF ItemRow
<1> HIDE DEF x
<1>8. ASSUME NEW v \in 1..Len(vs) PROVE vs[v].base = v - 1
  <2>1. CASE v \in 1..Len(old.versions)
    BY <1>2, <1>6, <2>1 DEF Chained
  <2>2. CASE v = Len(old.versions) + 1
    BY <1>2, <1>5, <1>6, <2>2
  <2> QED
    BY <1>2, <1>6, <2>1, <2>2
<1>9. Chained(x)
  BY <1>6, <1>7, <1>8 DEF Chained
<1>10. x.versions[1] = old.versions[1]
  BY <1>2, <1>6, <1>7
<1> QED
  BY <1>1, <1>4, <1>7, <1>9, <1>10, RewriteLearns DEF old

LEMMA DecideLearns ==
  ASSUME LearntInv, MemoryGoal, NEW k \in DOMAIN suggestions, NEW a \in BOOLEAN, DecideSuggestion(k, a)
  PROVE  LearntInv'
<1> DEFINE next == IF a THEN Save(Books0, k, FALSE) ELSE [Books0 EXCEPT !.suggestions[k].state = "dismissed"]
<1>1. items' = next.items /\ suggestions' = next.suggestions
      /\ UNCHANGED <<turns, runs, integrations, policy, readers>>
  BY DEF DecideSuggestion, Books0, talkVars
<1>2. Kept(Books0, Len(items), turns, runs) /\ Books0.items = items /\ Books0.suggestions = suggestions
      /\ k \in 1..Len(suggestions)
  BY ItemCount DEF LearntInv, Books0
<1>3. Kept(next, Len(items), turns, runs)
  <2>1. CASE a
    <3>1. Kept(Save(Books0, k, FALSE), Len(items), turns, runs)
      BY <1>2, SaveKeeps
    <3> QED
      BY <2>1, <3>1
  <2>2. CASE ~a
    <3> DEFINE s == suggestions[k]
               x == [s EXCEPT !.state = "dismissed"]
               y == [s EXCEPT !.state = "dismissed", !.item = s.item]
    <3>1. s \in SuggestionRow /\ s.item \in 0..Len(items)
      <4>1. suggestions \in Seq(SuggestionRow)
        BY ItemCount
      <4>2. s \in SuggestionRow
        BY <1>2, <4>1, ElementOfSeq
      <4> QED
        BY <1>2, <4>2 DEF Kept
    <3>2. x = y
      <4> HIDE DEF s
      <4> QED
        BY <3>1 DEF SuggestionRow
    <3>3. [suggestions EXCEPT ![k].state = "dismissed"] = [suggestions EXCEPT ![k] = x]
      OBVIOUS
    <3>4. [suggestions EXCEPT ![k] = y] = [suggestions EXCEPT ![k] = [@ EXCEPT !.state = "dismissed", !.item = s.item]]
      OBVIOUS
    <3>5. next = [Books0 EXCEPT !.suggestions = [@ EXCEPT ![k].state = "dismissed"]]
      BY <2>2
    <3>6. next = [items |-> items, suggestions |-> [suggestions EXCEPT ![k].state = "dismissed"]]
      BY <3>5 DEF Books0
    <3> HIDE DEF x, y
    <3>7. next = [items |-> items,
                  suggestions |-> [Books0.suggestions EXCEPT ![k] = [@ EXCEPT !.state = "dismissed", !.item = s.item]]]
      BY <1>2, <3>2, <3>3, <3>4, <3>6
    <3>8. Shelf(items) /\ Len(items) \in Nat /\ Len(Books0.items) <= Len(items)
      BY <1>2, ItemCount
    <3> HIDE DEF s, next
    <3> QED
      BY <1>2, <3>1, <3>7, <3>8, Marked
  <2> QED
    BY <2>1, <2>2
<1> HIDE DEF next
<1>4. Books0' = next
  BY <1>1, <1>3 DEF Books0, Kept
<1>5. Len(items) \in Nat /\ Len(items) <= Len(items') /\ Len(items') \in Nat
  BY <1>1, <1>3, LenProperties DEF Kept, Shelf
<1>6. Kept(Books0', Len(items'), turns, runs)
  BY <1>1, <1>3, <1>4, <1>5 DEF Kept
<1>7. Noted(readers', Len(items'))
  <2>1. Noted(readers, Len(items))
    BY DEF LearntInv
  <2> QED
    BY <1>1, <1>5, <2>1, NotedOn
<1> QED
  BY <1>1, <1>6, <1>7, PolicyStays, OwnerLearns
LEMMA ReadLearns ==
  ASSUME LearntInv, MemoryGoal, NEW e \in Editors, NEW i \in DOMAIN items, ReadMemory(e, i)
  PROVE  LearntInv'
<1>1. i \in 1..Len(items) /\ Len(items) \in Nat
  BY ItemCount
<1> DEFINE x == [item |-> i, version |-> CurrentVersion(i)]
<1>2. /\ readers' = [readers EXCEPT ![e] = x]
      /\ UNCHANGED <<turns, runs, integrations, policy, items, suggestions>>
  BY DEF ReadMemory, talkVars
<1>3. x \in [item : Nat, version : Nat] /\ x.item <= Len(items)
  BY <1>1, ItemFacts DEF CurrentVersion
<1> HIDE DEF x
<1>4. Noted(readers', Len(items'))
  BY <1>2, <1>3 DEF LearntInv, Noted
<1>5. Kept(Books0', Len(items'), turns, runs)
  BY <1>2 DEF LearntInv, Books0
<1> QED
  BY <1>2, <1>4, <1>5, PolicyStays, OwnerLearns

LEMMA PolicyLearns ==
  ASSUME LearntInv, MemoryGoal, NEW mode \in Mode, NEW ext \in BOOLEAN, SetPolicy(mode, ext)
  PROVE  LearntInv'
<1>1. /\ policy' = [mode |-> mode, extraction |-> ext, revision |-> policy.revision + 1]
      /\ policy.revision < MaxPolicies
      /\ UNCHANGED <<turns, runs, integrations, items, suggestions, readers>>
  BY DEF SetPolicy, talkVars
<1>2. policy.revision \in Nat /\ MaxPolicies \in Nat
  BY PolicyFacts, MemoryConstants
<1>3. policy.revision + 1 \in 0..MaxPolicies
  BY <1>1, <1>2
<1>4. policy' \in PolicyRow /\ policy'.revision = policy.revision + 1
  BY <1>1, <1>3 DEF PolicyRow
<1>5. policy.revision <= policy'.revision /\ policy'.revision \in Nat
  BY <1>2, <1>4
<1>6. Kept(Books0', Len(items'), turns, runs) /\ Noted(readers', Len(items'))
  BY <1>1 DEF LearntInv, Books0
<1> QED
  BY <1>1, <1>4, <1>5, <1>6, OwnerLearns

LEMMA SameRuns ==
  ASSUME LearntInv, MemoryGoal, DOMAIN runs' = DOMAIN runs
  PROVE  Len(runs') = Len(runs)
<1>1. RunTable(runs) /\ RunTable(runs')
  BY DEF LearntInv, MemoryGoal, MemoryInv, TalkInv, Told
<1>2. Len(runs) \in Nat /\ Len(runs') \in Nat /\ 1..Len(runs') = 1..Len(runs)
  BY <1>1, TableFacts
<1> QED
  BY <1>2

LEMMA OtherLearns ==
  ASSUME LearntInv, MemoryGoal,
         \/ TalkOn \/ BeginPass \/ AbandonPass \/ ToggleInstance \/ UNCHANGED memoryVars
         \/ \E r \in DOMAIN runs : PassProjects(r)
  PROVE  LearntInv'
<1>1. UNCHANGED <<items, suggestions, readers, policy, integrations>>
  BY DEF TalkOn, BeginPass, AbandonPass, ToggleInstance, PassProjects, memoryVars, memoryOnly
<1>2. DOMAIN runs' = DOMAIN runs
  <2>1. CASE TalkOn
    <3>1. TalkStep
      BY <2>1 DEF TalkOn
    <3> QED
      BY <3>1 DEF TalkStep, SettleAttempt, SettleLate, ScheduleAnotherAttempt, EndUnprojected, Project, LoseProjection,
           Reconcile, RefreshCompaction, LoseRefresh, Archive, Unarchive, Delete
  <2>2. CASE ~TalkOn
    BY <2>2 DEF BeginPass, AbandonPass, ToggleInstance, PassProjects, memoryVars, talkVars
  <2> QED
    BY <2>1, <2>2
<1>3. policy' \in PolicyRow /\ Captures(integrations', Len(runs'), policy'.revision)
  BY <1>1, <1>2, SameRuns, CapturesStay
<1> QED
  BY <1>1, <1>3, BooksStay DEF LearntInv, MemoryGoal

LEMMA LearntNext ==
  ASSUME LearntInv, [MemoryNext]_memoryVars
  PROVE  LearntInv'
<1>1. MemoryGoal
  BY MemoryNextKeeps DEF LearntInv
<1>2. CASE MemoryRuns
  <2>1. ASSUME NEW r \in DOMAIN runs, NEW ps \in SUBSET Proposals, SucceedProposing(r, ps) PROVE LearntInv'
    BY <1>1, <2>1, SucceedLearns
  <2> QED
    BY <1>1, <1>2, <2>1, SubmitLearns, OtherLearns DEF MemoryRuns
<1>3. CASE MemoryPass
  BY <1>1, <1>3, QueueLearns, MaterializeLearns, OtherLearns DEF MemoryPass
<1>4. CASE OwnerEdits
  <2>1. ASSUME NEW r \in DOMAIN runs, NEW sc \in MemScope, NEW f \in Facts, PromoteRun(r, sc, f) PROVE LearntInv'
    BY <1>1, <2>1, CreateLearns DEF PromoteRun
  <2>2. ASSUME NEW mode \in Mode, NEW ext \in BOOLEAN, SetPolicy(mode, ext) PROVE LearntInv'
    BY <1>1, <2>2, PolicyLearns
  <2>3. ASSUME NEW k \in DOMAIN suggestions, NEW a \in BOOLEAN, DecideSuggestion(k, a) PROVE LearntInv'
    BY <1>1, <2>3, DecideLearns
  <2>4. ASSUME NEW sc \in MemScope, NEW f \in Facts, CreateMemory(sc, f) PROVE LearntInv'
    BY <1>1, <2>4, CreateLearns
  <2>5. ASSUME NEW e \in Editors, NEW i \in DOMAIN items, ReadMemory(e, i) PROVE LearntInv'
    BY <1>1, <2>5, ReadLearns
  <2>6. ASSUME NEW e \in Editors, NEW f \in Facts, EditMemory(e, f) PROVE LearntInv'
    BY <1>1, <2>6, EditLearns
  <2>7. ASSUME NEW i \in DOMAIN items, DeleteMemory(i) PROVE LearntInv'
    BY <1>1, <2>7, DeleteLearns
  <2> QED
    BY <1>4, <2>1, <2>2, <2>3, <2>4, <2>5, <2>6, <2>7 DEF OwnerEdits
<1>5. CASE AbandonPass \/ ToggleInstance \/ UNCHANGED memoryVars
  BY <1>1, <1>5, OtherLearns
<1> QED
  BY <1>2, <1>3, <1>4, <1>5 DEF MemoryNext

LEMMA LearntInit ==
  ASSUME MemoryInit
  PROVE  LearntInv
<1>1. MemoryInv
  BY TalkInitial DEF MemoryInit, MemoryInv, PassTrue
<1>2. items = <<>> /\ suggestions = <<>> /\ integrations = <<>> /\ runs = <<>>
      /\ policy = [mode |-> "manual", extraction |-> FALSE, revision |-> 0]
      /\ readers = [e \in Editors |-> [item |-> 0, version |-> 0]]
  BY DEF MemoryInit, ConversationInit
<1>3. policy \in PolicyRow
  <2>1. "manual" \in Mode /\ 0 \in 0..MaxPolicies /\ FALSE \in BOOLEAN
    BY MemoryConstants DEF Mode
  <2> QED
    BY <1>2, <2>1 DEF PolicyRow
<1>4. Len(runs) = 0 /\ Len(items) = 0 /\ Len(suggestions) = 0
  BY <1>2
<1>5. Captures(integrations, Len(runs), policy.revision)
  <2>1. integrations \in Seq(IntegrationRow) /\ Len(integrations) = 0
    BY <1>2
  <2> QED
    BY <1>4, <2>1 DEF Captures
<1>6. Shelf(items)
  <2>1. items \in Seq(ItemRow)
    BY <1>2
  <2>2. ASSUME NEW sc \in MemScope PROVE Cardinality(ActiveIn(items, sc)) <= ScopeCapacity
    <3>1. ActiveIn(items, sc) = {}
      BY <1>2 DEF ActiveIn
    <3>2. Cardinality({}) = 0
      BY FS_EmptySet
    <3>3. Cardinality(ActiveIn(items, sc)) = 0
      BY <3>1, <3>2, Zenon
    <3> QED
      BY <3>3, MemoryConstants
  <2> QED
    BY <1>4, <2>1, <2>2 DEF Shelf, Unlearnt, Roomy
<1>7. Kept(Books0, Len(items), turns, runs)
  <2>1. Books0.items = items /\ Books0.suggestions = suggestions
        /\ Books0 = [items |-> Books0.items, suggestions |-> Books0.suggestions]
    BY DEF Books0
  <2>2. suggestions \in Seq(SuggestionRow)
    BY <1>2
  <2> QED
    BY <1>4, <1>6, <2>1, <2>2 DEF Kept
<1>8. Noted(readers, Len(items))
  BY <1>2, <1>4 DEF Noted
<1> QED
  BY <1>1, <1>3, <1>5, <1>7, <1>8 DEF LearntInv

LEMMA LearntIsSound ==
  ASSUME LearntInv
  PROVE  MemorySound
<1>1. /\ Len(items) \in Nat /\ DOMAIN items = 1..Len(items) /\ items \in Seq(ItemRow) /\ Shelf(items)
      /\ DOMAIN suggestions = 1..Len(suggestions)
  BY ItemCount
<1>2. DOMAIN integrations = 1..Len(runs) /\ DOMAIN runs = 1..Len(runs) /\ Len(runs) \in Nat
  BY RunCount
<1>3. /\ Books0.suggestions = suggestions /\ Books0.items = items
      /\ \A k \in 1..Len(suggestions) : suggestions[k].item \in 0..Len(items) /\ FromAnswer(suggestions[k].source, turns, runs)
  BY DEF LearntInv, Kept, Books0
<1>4. MemoryTypeOK
  <2>1. ASSUME NEW r \in 1..Len(runs)
        PROVE  integrations[r].revision <= policy.revision /\ integrations[r].derived \in 0..Len(runs)
    <3>1. integrations[r].derived \in Nat
      BY RunCount DEF IntegrationRow
    <3> QED
      BY <1>2, <3>1 DEF LearntInv, Captures
  <2>2. policy.mode \in Mode /\ policy.revision \in 0..MaxPolicies
    BY DEF LearntInv, PolicyRow
  <2> QED
    BY <1>1, <1>2, <1>3, <2>1, <2>2 DEF MemoryTypeOK
<1>5. ScopeWithinCapacity
  BY <1>1 DEF Shelf, Roomy, ScopeWithinCapacity
<1>6. NothingRelearnt
  <2>1. Unlearnt(items)
    BY <1>1 DEF Shelf
  <2>2. \A i \in 1..Len(items) : \A j \in 1..(i - 1) : j \in 1..Len(items) /\ j < i
    BY <1>1
  <2> QED
    BY <1>1, <2>1, <2>2 DEF Unlearnt, NothingRelearnt
<1>7. SuggestedFromAnswer
  BY <1>1, <1>3 DEF SuggestedFromAnswer, FromAnswer
<1>8. NoLostEdit
  <2>1. ASSUME NEW i \in 1..Len(items), NEW v \in DOMAIN items[i].versions PROVE items[i].versions[v].base = v - 1
    <3>1. Chained(items[i]) /\ items[i].versions \in Seq(Version)
      BY ItemFacts
    <3>2. v \in 1..Len(items[i].versions)
      BY <3>1, LenProperties
    <3> QED
      BY <3>1, <3>2 DEF Chained
  <2> QED
    BY <1>1, <2>1 DEF NoLostEdit
<1> QED
  BY <1>4, <1>5, <1>6, <1>7, <1>8 DEF MemorySound

(* The inductive invariant of the memory: every capture, item, suggestion  *)
(* and note of a reader agrees with the Runs and Turns they came from,     *)
(* through every pass of maintain_memory and every edit of the owner.      *)
THEOREM LearntInvariant == MemorySpec => []LearntInv
<1>1. MemoryInit => LearntInv
  BY LearntInit
<1>2. LearntInv /\ [MemoryNext]_memoryVars => LearntInv'
  BY LearntNext
<1> QED
  BY <1>1, <1>2, PTL DEF MemorySpec

(* No scope outgrows its capacity, nothing the owner deleted is saved      *)
(* again by itself, a suggestion comes from the Run whose answer the Turn  *)
(* kept, and no edit is lost (_save_suggestion, materialize_pending,       *)
(* eligible_conversation_source, edit_memory).                             *)
THEOREM MemorySoundHolds == MemorySpec => []MemorySound
<1>1. LearntInv => MemorySound
  BY LearntIsSound
<1> QED
  BY LearntInvariant, <1>1, PTL
-----------------------------------------------------------------------------
(* Sets of numbers in ascending order.                                     *)

Lists(s, S) ==
  /\ s \in Seq(Nat)
  /\ \A j, k \in 1..Len(s) : j < k => s[j] < s[k]
  /\ \A k \in 1..Len(s) : s[k] \in S
  /\ \A i \in S : \E k \in 1..Len(s) : s[k] = i

LEMMA ListsAgree ==
  ASSUME NEW s, NEW t, NEW S, Lists(s, S), Lists(t, S)
  PROVE  \A k \in 1..Len(s) : k <= Len(t) /\ s[k] = t[k]
<1>1. Len(s) \in Nat /\ Len(t) \in Nat /\ (\A k \in 1..Len(s) : s[k] \in Nat) /\ (\A k \in 1..Len(t) : t[k] \in Nat)
  BY LenProperties, ElementOfSeq DEF Lists
<1> DEFINE T == {k \in 1..Len(s) : ~(k <= Len(t) /\ s[k] = t[k])}
<1> SUFFICES ASSUME T # {} PROVE FALSE
  OBVIOUS
<1>2. PICK k \in T : \A y \in T : k <= y
  <2>1. T \subseteq Nat
    BY <1>1
  <2> HIDE DEF T
  <2> QED
    BY <2>1, LeastOf
<1>3. k \in 1..Len(s) /\ ~(k <= Len(t) /\ s[k] = t[k])
  OBVIOUS
<1>4. \A j \in 1..Len(s) : j < k => j <= Len(t) /\ s[j] = t[j]
  BY <1>1, <1>2, <1>3
<1>5. PICK j \in 1..Len(t) : t[j] = s[k]
  BY <1>3 DEF Lists
<1>6. j >= k
  <2> SUFFICES ASSUME j < k PROVE FALSE
    BY <1>1, <1>3
  <2>1. j \in 1..Len(s) /\ s[j] = t[j]
    BY <1>1, <1>3, <1>4
  <2>2. s[j] < s[k]
    BY <1>3, <2>1 DEF Lists
  <2> QED
    BY <1>1, <1>3, <1>5, <2>1, <2>2
<1>7. k \in 1..Len(t) /\ t[k] # s[k] /\ t[k] <= s[k]
  <2>1. k \in 1..Len(t)
    BY <1>1, <1>3, <1>6
  <2>2. k = j \/ t[k] < t[j]
    BY <1>1, <1>6, <2>1 DEF Lists
  <2> QED
    BY <1>1, <1>3, <1>5, <2>1, <2>2
<1>8. PICK i \in 1..Len(s) : s[i] = t[k]
  BY <1>7 DEF Lists
<1>9. CASE i < k
  <2>1. i \in 1..Len(t) /\ s[i] = t[i]
    BY <1>1, <1>4, <1>9
  <2>2. t[i] < t[k]
    BY <1>7, <1>9, <2>1 DEF Lists
  <2> QED
    BY <1>1, <1>7, <1>8, <2>1, <2>2
<1>10. CASE i >= k
  <2>1. i = k \/ s[k] < s[i]
    BY <1>1, <1>3, <1>10 DEF Lists
  <2> QED
    BY <1>1, <1>3, <1>7, <1>8, <2>1
<1> QED
  BY <1>1, <1>3, <1>9, <1>10

LEMMA ListsUnique ==
  ASSUME NEW s, NEW t, NEW S, Lists(s, S), Lists(t, S)
  PROVE  s = t
<1>1. s \in Seq(Nat) /\ t \in Seq(Nat) /\ Len(s) \in Nat /\ Len(t) \in Nat
  BY LenProperties DEF Lists
<1>2. \A k \in 1..Len(s) : k <= Len(t) /\ s[k] = t[k]
  BY ListsAgree
<1>3. \A k \in 1..Len(t) : k <= Len(s) /\ t[k] = s[k]
  BY ListsAgree
<1>4. Len(s) = Len(t)
  <2>1. Len(s) <= Len(t)
    BY <1>1, <1>2
  <2>2. Len(t) <= Len(s)
    BY <1>1, <1>3
  <2> QED
    BY <1>1, <2>1, <2>2
<1> QED
  BY <1>1, <1>2, <1>4, SeqEqual

LEMMA AscendingLists ==
  ASSUME NEW n \in Nat, NEW S \in SUBSET (1..n)
  PROVE  Lists(Ascending(S), S)
<1> DEFINE c == Cardinality(S)
           upTo(i) == {j \in S : j <= i}
           rank == [i \in S |-> Cardinality(upTo(i))]
           s == Ascending(S)
<1>0. \A i \in S : i \in Nat
  OBVIOUS
<1>1. IsFiniteSet(S) /\ c \in Nat
  <2>1. IsFiniteSet(1..n)
    BY FS_Interval
  <2>2. IsFiniteSet(S)
    BY <2>1, FS_Subset
  <2> QED
    BY <2>2, FS_CardinalityType
<1>2. ASSUME NEW i \in S PROVE IsFiniteSet(upTo(i)) /\ Cardinality(upTo(i)) \in 1..c
  <2>1. upTo(i) \subseteq S /\ i \in upTo(i)
    OBVIOUS
  <2>2. IsFiniteSet(upTo(i)) /\ Cardinality(upTo(i)) <= c
    BY <1>1, <2>1, FS_Subset
  <2>3. Cardinality(upTo(i)) \in Nat /\ Cardinality(upTo(i)) # 0
    <3>1. upTo(i) # {}
      BY <2>1
    <3> HIDE DEF upTo
    <3> QED
      BY <2>2, <3>1, FS_CardinalityType, FS_EmptySet
  <2> HIDE DEF upTo, c
  <2> QED
    BY <1>1, <2>2, <2>3
<1>3. ASSUME NEW i \in S, NEW k \in S, i < k PROVE rank[i] < rank[k]
  <2>1. upTo(i) \cup {k} \subseteq upTo(k) /\ k \notin upTo(i)
    <3>1. i \in Nat /\ k \in Nat
      BY <1>0
    <3>2. ASSUME NEW j \in upTo(i) PROVE j \in upTo(k)
      <4>1. j \in S /\ j \in Nat /\ j <= i
        BY <1>0
      <4>2. j <= k
        BY <1>3, <3>1, <4>1
      <4> QED
        BY <4>1, <4>2
    <3>3. k \in upTo(k) /\ k \notin upTo(i)
      BY <1>3, <3>1
    <3> HIDE DEF upTo
    <3> QED
      BY <3>2, <3>3
  <2>2. IsFiniteSet(upTo(i)) /\ IsFiniteSet(upTo(k)) /\ Cardinality(upTo(i)) \in Nat /\ Cardinality(upTo(k)) \in Nat
    BY <1>2
  <2> HIDE DEF upTo
  <2>3. Cardinality(upTo(i) \cup {k}) = Cardinality(upTo(i)) + 1
    BY <2>1, <2>2, FS_AddElement
  <2>4. Cardinality(upTo(i) \cup {k}) <= Cardinality(upTo(k))
    BY <2>1, <2>2, FS_Subset
  <2> QED
    BY <2>2, <2>3, <2>4
<1>4. rank \in Injection(S, 1..c)
  <2>1. rank \in [S -> 1..c]
    BY <1>2
  <2>2. ASSUME NEW i \in S, NEW k \in S, rank[i] = rank[k] PROVE i = k
    <3>1. ~(i < k) /\ ~(k < i)
      <4>1. rank[i] \in Nat /\ rank[k] \in Nat
        BY <1>2
      <4> HIDE DEF rank
      <4> QED
        BY <1>3, <2>2, <4>1
    <3> QED
      BY <3>1
  <2> HIDE DEF rank, c
  <2> QED
    BY <2>1, <2>2 DEF Injection, IsInjective
<1>5. \A k \in 1..c : \E i \in S : Cardinality(upTo(i)) = k
  <2>1. IsFiniteSet(1..c) /\ Cardinality(1..c) = c
    <3> HIDE DEF c
    <3>1. IsFiniteSet(1..c) /\ Cardinality(1..c) = IF 1 > c THEN 0 ELSE c - 1 + 1
      BY <1>1, FS_Interval
    <3> QED
      BY <1>1, <3>1
  <2>2. Cardinality(S) = Cardinality(1..c)
    BY <2>1
  <2> HIDE DEF c
  <2>3. rank \in Surjection(S, 1..c)
    BY <1>4, <2>1, <2>2, FS_Injection
  <2> QED
    BY <2>3 DEF Surjection
<1>6. s = [k \in 1..c |-> CHOOSE i \in S : Cardinality(upTo(i)) = k]
  BY DEF Ascending
<1> HIDE DEF s, c
<1>7. \A k \in 1..c : s[k] \in S /\ Cardinality(upTo(s[k])) = k
  <2> HIDE DEF upTo
  <2> SUFFICES ASSUME NEW k \in 1..c PROVE s[k] \in S /\ Cardinality(upTo(s[k])) = k
    OBVIOUS
  <2>1. s[k] = CHOOSE i \in S : Cardinality(upTo(i)) = k
    BY <1>6
  <2>2. \E i \in S : Cardinality(upTo(i)) = k
    BY <1>5
  <2> QED
    BY <2>1, <2>2
<1>8. s = [k \in 1..c |-> s[k]] /\ \A k \in 1..c : s[k] \in Nat
  <2> HIDE DEF upTo
  <2>1. \A k \in 1..c : s[k] \in Nat
    BY <1>0, <1>7
  <2>2. s = [k \in 1..c |-> s[k]]
    BY <1>6
  <2> QED
    BY <2>1, <2>2
<1>9. [k \in 1..c |-> s[k]] \in Seq(Nat)
  BY <1>1, <1>8
<1>10. s \in Seq(Nat) /\ Len(s) = c
  <2>1. s \in Seq(Nat)
    BY <1>8, <1>9
  <2>2. DOMAIN s = 1..c /\ DOMAIN s = 1..Len(s) /\ Len(s) \in Nat
    BY <1>8, <2>1, LenProperties
  <2> QED
    BY <1>1, <2>1, <2>2
<1>11. ASSUME NEW j \in 1..c, NEW k \in 1..c, j < k PROVE s[j] < s[k]
  <2>1. s[j] \in S /\ s[k] \in S /\ rank[s[j]] = j /\ rank[s[k]] = k
    BY <1>7
  <2>2. s[j] # s[k] /\ s[j] \in Nat /\ s[k] \in Nat
    <3>1. j # k
      BY <1>1, <1>11
    <3> HIDE DEF rank
    <3> QED
      BY <1>0, <2>1, <3>1
  <2>3. ~(s[k] < s[j])
    <3> SUFFICES ASSUME s[k] < s[j] PROVE FALSE
      OBVIOUS
    <3> HIDE DEF rank
    <3>1. rank[s[k]] < rank[s[j]]
      BY <1>3, <2>1
    <3>2. k < j /\ j < k /\ j \in Nat /\ k \in Nat
      BY <1>1, <1>11, <2>1, <3>1
    <3> QED
      BY <3>2
  <2> HIDE DEF rank
  <2> QED
    BY <2>2, <2>3
<1>12. ASSUME NEW i \in S PROVE \E k \in 1..c : s[k] = i
  <2> DEFINE k == rank[i]
  <2>1. k \in 1..c
    BY <1>2
  <2>2. s[k] \in S /\ rank[s[k]] = k
    BY <1>7, <2>1
  <2>3. s[k] = i
    <3> HIDE DEF rank
    <3> QED
      BY <1>4, <2>2 DEF Injection, IsInjective
  <2> QED
    BY <2>1, <2>3
<1>13. Lists(s, S)
  BY <1>7, <1>10, <1>11, <1>12 DEF Lists
<1> QED
  BY <1>13 DEF s

LEMMA ListsOnly ==
  ASSUME NEW n \in Nat, NEW S \in SUBSET (1..n), NEW s, Lists(s, S)
  PROVE  s = Ascending(S)
BY AscendingLists, ListsUnique

LEMMA ListsNone ==
  Lists(<<>>, {})
<1>1. <<>> \in Seq(Nat) /\ Len(<<>>) = 0
  OBVIOUS
<1> QED
  BY <1>1 DEF Lists

LEMMA ListsJoined ==
  ASSUME NEW s, NEW S, Lists(s, S), NEW t, NEW T, Lists(t, T), \A i \in S, j \in T : i < j
  PROVE  Lists(s \o t, S \cup T)
<1> DEFINE u == s \o t
<1>1. s \in Seq(Nat) /\ t \in Seq(Nat) /\ Len(s) \in Nat /\ Len(t) \in Nat
  BY LenProperties DEF Lists
<1>2. /\ u \in Seq(Nat) /\ Len(u) = Len(s) + Len(t)
      /\ \A i \in 1..(Len(s) + Len(t)) : u[i] = IF i <= Len(s) THEN s[i] ELSE t[i - Len(s)]
  BY <1>1, ConcatProperties
<1> HIDE DEF u
<1>3. \A i \in 1..Len(u) : i \in 1..Len(s) \/ i - Len(s) \in 1..Len(t)
  BY <1>1, <1>2
<1>4. /\ \A i \in 1..Len(s) : i \in 1..Len(u) /\ u[i] = s[i]
      /\ \A i \in 1..Len(t) : i + Len(s) \in 1..Len(u) /\ u[i + Len(s)] = t[i]
      /\ \A i \in 1..Len(u) : i - Len(s) \in 1..Len(t) => u[i] = t[i - Len(s)]
  <2>1. \A i \in 1..Len(s) : i \in 1..Len(u) /\ u[i] = s[i]
    BY <1>1, <1>2
  <2>2. ASSUME NEW i \in 1..Len(t) PROVE i + Len(s) \in 1..Len(u) /\ u[i + Len(s)] = t[i]
    <3>1. i + Len(s) \in 1..(Len(s) + Len(t)) /\ ~(i + Len(s) <= Len(s)) /\ (i + Len(s)) - Len(s) = i
      BY <1>1
    <3> QED
      BY <1>2, <3>1
  <2>3. ASSUME NEW i \in 1..Len(u), i - Len(s) \in 1..Len(t) PROVE u[i] = t[i - Len(s)]
    <3>1. ~(i <= Len(s)) /\ i \in 1..(Len(s) + Len(t))
      BY <1>1, <1>2, <2>3
    <3> QED
      BY <1>2, <3>1
  <2> QED
    BY <2>1, <2>2, <2>3
<1>5. ASSUME NEW j \in 1..Len(u), NEW k \in 1..Len(u), j < k PROVE u[j] < u[k]
  <2>1. CASE k \in 1..Len(s)
    <3>1. j \in 1..Len(s)
      BY <1>1, <1>5, <2>1
    <3> QED
      BY <1>4, <1>5, <2>1, <3>1 DEF Lists
  <2>2. CASE k - Len(s) \in 1..Len(t) /\ j \in 1..Len(s)
    BY <1>4, <2>2 DEF Lists
  <2>3. CASE k - Len(s) \in 1..Len(t) /\ j - Len(s) \in 1..Len(t)
    <3>1. j - Len(s) < k - Len(s)
      BY <1>1, <1>5
    <3> QED
      BY <1>4, <2>3, <3>1 DEF Lists
  <2> QED
    BY <1>3, <2>1, <2>2, <2>3
<1>6. \A k \in 1..Len(u) : u[k] \in S \cup T
  BY <1>3, <1>4 DEF Lists
<1>7. ASSUME NEW i \in S \cup T PROVE \E k \in 1..Len(u) : u[k] = i
  <2>1. CASE i \in S
    <3>1. PICK k \in 1..Len(s) : s[k] = i
      BY <2>1 DEF Lists
    <3> QED
      BY <1>4, <3>1
  <2>2. CASE i \in T
    <3>1. PICK k \in 1..Len(t) : t[k] = i
      BY <2>2 DEF Lists
    <3> QED
      BY <1>4, <3>1
  <2> QED
    BY <2>1, <2>2
<1>8. Lists(u, S \cup T)
  BY <1>2, <1>5, <1>6, <1>7 DEF Lists
<1> QED
  BY <1>8 DEF u

\* The last k members, and the first k.
LEMMA NewestFacts ==
  ASSUME NEW R, NEW s \in Seq(R), NEW k \in 0..Len(s)
  PROVE  /\ Newest(s, k) \in Seq(R) /\ Len(Newest(s, k)) = k /\ k \in Nat
         /\ \A i \in 1..k : Newest(s, k)[i] = s[Len(s) - k + i]
<1>1. Len(s) \in Nat
  BY LenProperties
<1>2. Len(s) - k + 1 \in Int /\ Len(s) \in Int
  BY <1>1
<1>3. \A i \in (Len(s) - k + 1)..Len(s) : s[i] \in R
  BY <1>1, ElementOfSeq
<1> DEFINE m == Len(s) - k + 1
<1>4. /\ SubSeq(s, m, Len(s)) \in Seq(R)
      /\ Len(SubSeq(s, m, Len(s))) = IF m <= Len(s) THEN Len(s) - m + 1 ELSE 0
      /\ \A i \in 1..(Len(s) - m + 1) : SubSeq(s, m, Len(s))[i] = s[m + i - 1]
  BY <1>2, <1>3, SubSeqProperties
<1>5. Newest(s, k) = SubSeq(s, m, Len(s))
  BY DEF Newest
<1>6. (IF m <= Len(s) THEN Len(s) - m + 1 ELSE 0) = k /\ Len(s) - m + 1 = k
  BY <1>1
<1>7. \A i \in 1..k : m + i - 1 = Len(s) - k + i
  BY <1>1
<1> HIDE DEF m
<1> QED
  BY <1>1, <1>4, <1>5, <1>6, <1>7

LEMMA ListsNewest ==
  ASSUME NEW s, NEW S, Lists(s, S), NEW k \in 1..Len(s)
  PROVE  Lists(Newest(s, k), {i \in S : s[Len(s) - k + 1] <= i})
<1> DEFINE t == Newest(s, k)
           T == {i \in S : s[Len(s) - k + 1] <= i}
           d == Len(s) - k
<1>1. s \in Seq(Nat) /\ Len(s) \in Nat /\ k \in 0..Len(s) /\ \A i \in 1..Len(s) : s[i] \in Nat
  BY LenProperties, ElementOfSeq DEF Lists
<1>2. t \in Seq(Nat) /\ Len(t) = k /\ k \in Nat /\ \A i \in 1..k : t[i] = s[d + i]
  BY <1>1, NewestFacts
<1> HIDE DEF t
<1>3. d \in Nat /\ d + 1 \in 1..Len(s) /\ \A i \in 1..k : d + i \in 1..Len(s) /\ (i = 1 \/ d + 1 < d + i)
  BY <1>1
<1>4. \A j, l \in 1..k : j < l => d + j < d + l
  <2> HIDE DEF d
  <2> QED
    BY <1>1, <1>3
<1>5. ASSUME NEW j \in 1..k, NEW l \in 1..k, j < l PROVE t[j] < t[l]
  <2> HIDE DEF d
  <2>1. d + j \in 1..Len(s) /\ d + l \in 1..Len(s) /\ d + j < d + l
    BY <1>3, <1>4, <1>5
  <2>2. s[d + j] < s[d + l]
    BY <2>1 DEF Lists
  <2> QED
    BY <1>2, <2>2
<1>6. ASSUME NEW i \in 1..k PROVE t[i] \in T
  <2>1. t[i] = s[d + i] /\ d + i \in 1..Len(s) /\ s[d + i] \in S
    BY <1>2, <1>3 DEF Lists
  <2>2. s[d + 1] <= s[d + i]
    <3>1. CASE i = 1
      BY <1>1, <1>3, <3>1
    <3>2. CASE d + 1 < d + i
      <4>1. s[d + 1] < s[d + i]
        BY <1>3, <2>1, <3>2 DEF Lists
      <4> QED
        BY <1>1, <1>3, <2>1, <4>1
    <3> QED
      BY <1>3, <3>1, <3>2
  <2> QED
    BY <2>1, <2>2
<1>7. ASSUME NEW i \in T PROVE \E l \in 1..k : t[l] = i
  <2>1. PICK p \in 1..Len(s) : s[p] = i
    BY DEF Lists
  <2>2. p >= d + 1
    <3>1. p < d + 1 => s[p] < s[d + 1]
      BY <1>3 DEF Lists
    <3>2. s[d + 1] <= s[p] /\ s[p] \in Nat /\ s[d + 1] \in Nat
      BY <1>1, <1>3, <2>1
    <3> HIDE DEF d
    <3> QED
      BY <1>1, <1>3, <3>1, <3>2
  <2>3. p - d \in 1..k /\ d + (p - d) = p
    BY <1>1, <1>3, <2>2
  <2>4. t[p - d] = i
    <3> HIDE DEF d
    <3> QED
      BY <1>2, <2>1, <2>3
  <2> QED
    BY <2>3, <2>4
<1> HIDE DEF d, T
<1>8. Lists(t, T)
  BY <1>2, <1>5, <1>6, <1>7 DEF Lists
<1> QED
  BY <1>8 DEF t, T

LEMMA OldestFacts ==
  ASSUME NEW R, NEW s \in Seq(R), NEW k \in 0..Len(s)
  PROVE  /\ SubSeq(s, 1, k) \in Seq(R) /\ Len(SubSeq(s, 1, k)) = k /\ k \in Nat
         /\ \A i \in 1..k : SubSeq(s, 1, k)[i] = s[i]
<1>1. Len(s) \in Nat
  BY LenProperties
<1>2. k \in Int /\ 1 \in Int /\ k \in Nat
  BY <1>1
<1>3. \A i \in 1..k : s[i] \in R
  BY <1>1, ElementOfSeq
<1>4. /\ SubSeq(s, 1, k) \in Seq(R)
      /\ Len(SubSeq(s, 1, k)) = IF 1 <= k THEN k - 1 + 1 ELSE 0
      /\ \A i \in 1..(k - 1 + 1) : SubSeq(s, 1, k)[i] = s[1 + i - 1]
  BY <1>2, <1>3, SubSeqProperties
<1>5. (IF 1 <= k THEN k - 1 + 1 ELSE 0) = k /\ k - 1 + 1 = k
  BY <1>1
<1>6. \A i \in 1..k : 1 + i - 1 = i
  BY <1>1
<1> QED
  BY <1>2, <1>4, <1>5, <1>6

LEMMA ListsOldest ==
  ASSUME NEW s, NEW S, Lists(s, S), NEW k \in 1..Len(s)
  PROVE  Lists(SubSeq(s, 1, k), {i \in S : i <= s[k]})
<1> DEFINE t == SubSeq(s, 1, k)
           T == {i \in S : i <= s[k]}
<1>1. s \in Seq(Nat) /\ Len(s) \in Nat /\ k \in 0..Len(s) /\ \A i \in 1..Len(s) : s[i] \in Nat
  BY LenProperties, ElementOfSeq DEF Lists
<1>2. t \in Seq(Nat) /\ Len(t) = k /\ k \in Nat /\ \A i \in 1..k : t[i] = s[i]
  BY <1>1, OldestFacts
<1> HIDE DEF t
<1>3. \A i \in 1..k : i \in 1..Len(s) /\ (i = k \/ i < k)
  BY <1>1
<1>4. \A j, l \in 1..k : j < l => t[j] < t[l]
  BY <1>2, <1>3 DEF Lists
<1>5. ASSUME NEW i \in 1..k PROVE t[i] \in T
  <2>1. t[i] = s[i] /\ s[i] \in S
    BY <1>2, <1>3 DEF Lists
  <2>2. i = k \/ s[i] < s[k]
    BY <1>3 DEF Lists
  <2>3. s[i] <= s[k]
    BY <1>1, <1>3, <2>2
  <2> QED
    BY <2>1, <2>3
<1>6. ASSUME NEW i \in T PROVE \E l \in 1..k : t[l] = i
  <2>1. PICK p \in 1..Len(s) : s[p] = i
    BY DEF Lists
  <2>2. k < p => s[k] < s[p]
    BY DEF Lists
  <2>3. s[p] <= s[k] /\ s[p] \in Nat /\ s[k] \in Nat
    BY <1>1, <2>1
  <2>4. p \in 1..k
    BY <1>1, <2>2, <2>3
  <2> QED
    BY <1>2, <2>1, <2>4
<1> HIDE DEF T
<1>7. Lists(t, T)
  BY <1>2, <1>4, <1>5, <1>6 DEF Lists
<1> QED
  BY <1>7 DEF t, T

\* A list that starts where another one passes is the rest of it.
LEMMA ListsSuffix ==
  ASSUME NEW c, NEW S, Lists(c, S), NEW lo \in Nat, NEW s, Lists(s, {i \in S : lo <= i})
  PROVE  \E k \in 0..Len(c) : s = Newest(c, k)
<1> DEFINE T == {i \in S : lo <= i}
<1>1. c \in Seq(Nat) /\ Len(c) \in Nat /\ s \in Seq(Nat) /\ Len(s) \in Nat
      /\ (\A i \in 1..Len(c) : c[i] \in Nat) /\ (\A i \in 1..Len(s) : s[i] \in Nat)
  BY LenProperties, ElementOfSeq DEF Lists
<1>2. CASE Len(s) = 0
  <2>1. s = <<>>
    BY <1>1, <1>2, EmptySeq
  <2>2. 0 \in 0..Len(c) /\ Len(Newest(c, 0)) = 0 /\ Newest(c, 0) \in Seq(Nat)
    <3>1. 0 \in 0..Len(c)
      BY <1>1
    <3> QED
      BY <1>1, <3>1, NewestFacts
  <2>3. Newest(c, 0) = <<>>
    BY <2>2, EmptySeq
  <2> QED
    BY <2>1, <2>2, <2>3
<1>3. CASE Len(s) # 0
  <2>1. 1 \in 1..Len(s)
    BY <1>1, <1>3
  <2>2. s[1] \in T
    BY <2>1 DEF Lists
  <2>3. PICK p \in 1..Len(c) : c[p] = s[1]
    BY <2>2 DEF Lists
  <2> DEFINE k == Len(c) - p + 1
  <2>4. k \in 1..Len(c) /\ Len(c) - k + 1 = p /\ k \in 0..Len(c)
    BY <1>1
  <2>5. Lists(Newest(c, k), {i \in S : c[Len(c) - k + 1] <= i})
    BY <2>4, ListsNewest
  <2>6. {i \in S : c[Len(c) - k + 1] <= i} = T
    <3>1. ASSUME NEW i \in T PROVE s[1] <= i
      <4>1. PICK q \in 1..Len(s) : s[q] = i
        BY DEF Lists
      <4>2. q = 1 \/ 1 < q
        BY <1>1
      <4>3. q = 1 \/ s[1] < s[q]
        BY <2>1, <4>2 DEF Lists
      <4> QED
        BY <1>1, <2>1, <4>1, <4>3
    <3>2. ASSUME NEW i \in S, s[1] <= i PROVE lo <= i
      <4>1. i \in Nat /\ s[1] \in Nat /\ lo <= s[1]
        <5>1. PICK q \in 1..Len(c) : c[q] = i
          BY DEF Lists
        <5> QED
          BY <1>1, <2>1, <2>2, <5>1
      <4> QED
        BY <3>2, <4>1
    <3> QED
      BY <2>3, <2>4, <3>1, <3>2
  <2> HIDE DEF T, k
  <2>7. Lists(s, T)
    BY DEF T
  <2>8. s = Newest(c, k)
    BY <2>5, <2>6, <2>7, ListsUnique
  <2> QED
    BY <2>4, <2>8
<1> QED
  BY <1>2, <1>3
-----------------------------------------------------------------------------
(* What a sequence of Turns costs.                                         *)

\* The equation SumOf defines its function by, up to m.
SumUpTo(f, costs, m) ==
  f = [k \in 0..m |-> IF k = 0 THEN 0 ELSE f[k - 1] + costs[k]]

LEMMA SumExists ==
  ASSUME NEW costs, NEW n \in Nat
  PROVE  \E f : SumUpTo(f, costs, n)
<1> DEFINE T == {m \in Nat : ~\E f : SumUpTo(f, costs, m)}
<1> SUFFICES T = {}
  OBVIOUS
<1> SUFFICES ASSUME T # {} PROVE FALSE
  OBVIOUS
<1>1. PICK m \in T : \A y \in T : m <= y
  <2>1. T \subseteq Nat
    OBVIOUS
  <2> HIDE DEF T
  <2> QED
    BY <2>1, LeastOf
<1>2. m \in Nat /\ ~\E f : SumUpTo(f, costs, m)
  OBVIOUS
<1>3. CASE m = 0
  <2> DEFINE f == [k \in 0..0 |-> 0]
  <2>1. f = [k \in 0..0 |-> IF k = 0 THEN 0 ELSE f[k - 1] + costs[k]]
    <3>1. \A k \in 0..0 : 0 = IF k = 0 THEN 0 ELSE f[k - 1] + costs[k]
      OBVIOUS
    <3> QED
      BY <3>1
  <2>2. SumUpTo(f, costs, 0)
    BY <2>1 DEF SumUpTo
  <2> QED
    BY <1>2, <1>3, <2>2
<1>4. CASE m # 0
  <2>1. m - 1 \in Nat /\ ~(m <= m - 1)
    BY <1>2, <1>4
  <2>2. \E f : SumUpTo(f, costs, m - 1)
    BY <1>1, <2>1
  <2>3. PICK f : SumUpTo(f, costs, m - 1)
    BY <2>2
  <2> DEFINE last == f[m - 1] + costs[m]
             g == [k \in 0..m |-> IF k < m THEN f[k] ELSE last]
  <2>4. \A k \in 0..(m - 1) : f[k] = IF k = 0 THEN 0 ELSE f[k - 1] + costs[k]
    BY <2>3 DEF SumUpTo
  <2>5. \A k \in 0..m : g[k] = IF k < m THEN f[k] ELSE last
    OBVIOUS
  <2>6. ASSUME NEW k \in 0..m
        PROVE  (IF k < m THEN f[k] ELSE last) = IF k = 0 THEN 0 ELSE g[k - 1] + costs[k]
    <3>1. CASE k = 0
      BY <1>2, <1>4, <2>4, <3>1
    <3>2. CASE k # 0 /\ k < m
      <4>1. k \in 0..(m - 1) /\ k - 1 \in 0..m /\ k - 1 < m
        BY <1>2, <3>2
      <4>2. g[k - 1] = f[k - 1]
        BY <2>5, <4>1
      <4> QED
        BY <2>4, <3>2, <4>1, <4>2
    <3>3. CASE k = m
      <4>1. m - 1 \in 0..m /\ m - 1 < m
        BY <1>2, <1>4
      <4>2. g[m - 1] = f[m - 1]
        BY <2>5, <4>1
      <4> QED
        BY <1>2, <1>4, <3>3, <4>2
    <3> QED
      BY <1>2, <3>1, <3>2, <3>3
  <2>7. g = [k \in 0..m |-> IF k = 0 THEN 0 ELSE g[k - 1] + costs[k]]
    BY <2>6
  <2>8. SumUpTo(g, costs, m)
    BY <2>7 DEF SumUpTo
  <2> QED
    BY <1>2, <2>8
<1> QED
  BY <1>3, <1>4

LEMMA SumIsNatural ==
  ASSUME NEW costs, Len(costs) \in Nat, \A k \in 1..Len(costs) : costs[k] \in Nat
  PROVE  SumOf(costs) \in Nat /\ (Len(costs) = 0 => SumOf(costs) = 0)
<1> DEFINE n == Len(costs)
           f == CHOOSE f : SumUpTo(f, costs, n)
<1>1. SumUpTo(f, costs, n)
  BY SumExists
<1>2. SumOf(costs) = f[n]
  BY DEF SumOf, SumUpTo
<1> HIDE DEF f
<1>3. f[0] = 0 /\ \A k \in 1..n : f[k] = f[k - 1] + costs[k]
  <2>1. \A k \in 0..n : f[k] = IF k = 0 THEN 0 ELSE f[k - 1] + costs[k]
    BY <1>1 DEF SumUpTo
  <2> QED
    BY <2>1
<1> DEFINE T == {k \in 0..n : f[k] \notin Nat}
<1>4. T = {}
  <2> SUFFICES ASSUME T # {} PROVE FALSE
    OBVIOUS
  <2>1. PICK m \in T : \A y \in T : m <= y
    <3>1. T \subseteq Nat
      OBVIOUS
    <3> HIDE DEF T
    <3> QED
      BY <3>1, LeastOf
  <2>2. m \in 1..n
    BY <1>3
  <2>3. m - 1 \in 0..n /\ ~(m <= m - 1)
    BY <2>2
  <2>4. f[m - 1] \in Nat
    BY <2>1, <2>3
  <2>5. costs[m] \in Nat /\ f[m] = f[m - 1] + costs[m]
    BY <1>3, <2>2
  <2>6. f[m] \in Nat
    BY <2>4, <2>5
  <2>7. m \in T
    OBVIOUS
  <2>8. f[m] \notin Nat
    BY <2>7
  <2> QED
    BY <2>6, <2>8
<1>5. n \in 0..n
  OBVIOUS
<1>6. f[n] \in Nat
  BY <1>4, <1>5
<1> QED
  BY <1>2, <1>3, <1>6

\* What elements cost when f says what each does: the newest cost the newest.
CostsBy(f, seq) == [k \in 1..Len(seq) |-> f[seq[k]]]

LEMMA CostsFacts ==
  ASSUME NEW R, NEW f \in [R -> Nat], NEW seq \in Seq(R)
  PROVE  /\ CostsBy(f, seq) \in Seq(Nat) /\ Len(CostsBy(f, seq)) = Len(seq)
         /\ SumOf(CostsBy(f, seq)) \in Nat /\ (Len(seq) = 0 => SumOf(CostsBy(f, seq)) = 0)
<1> DEFINE costs == CostsBy(f, seq)
<1>1. Len(seq) \in Nat /\ \A k \in 1..Len(seq) : f[seq[k]] \in Nat
  BY LenProperties, ElementOfSeq
<1>2. costs = [k \in 1..Len(seq) |-> f[seq[k]]]
  BY DEF CostsBy
<1>3. costs \in Seq(Nat) /\ Len(costs) = Len(seq) /\ \A k \in 1..Len(seq) : costs[k] \in Nat
  BY <1>1, <1>2
<1> HIDE DEF costs
<1>4. SumOf(costs) \in Nat /\ (Len(costs) = 0 => SumOf(costs) = 0)
  BY <1>1, <1>3, SumIsNatural
<1> QED
  BY <1>3, <1>4 DEF costs

LEMMA CostsOfNewest ==
  ASSUME NEW R, NEW f \in [R -> Nat], NEW seq \in Seq(R), NEW k \in 0..Len(seq)
  PROVE  Newest(CostsBy(f, seq), k) = CostsBy(f, Newest(seq, k))
<1> DEFINE costs == CostsBy(f, seq)
           last == Newest(seq, k)
           sums == CostsBy(f, last)
<1>1. costs \in Seq(Nat) /\ Len(costs) = Len(seq) /\ Len(seq) \in Nat
  BY CostsFacts, LenProperties
<1>2. \A i \in 1..Len(seq) : costs[i] = f[seq[i]]
  BY DEF CostsBy
<1>3. last \in Seq(R) /\ Len(last) = k /\ k \in Nat /\ \A i \in 1..k : last[i] = seq[Len(seq) - k + i]
  BY NewestFacts
<1> HIDE DEF costs, last
<1>4. sums \in Seq(Nat) /\ Len(sums) = k
  BY <1>3, CostsFacts
<1>5. \A i \in 1..k : sums[i] = f[last[i]]
  BY <1>3 DEF CostsBy
<1> HIDE DEF sums
<1>6. /\ Newest(costs, k) \in Seq(Nat) /\ Len(Newest(costs, k)) = k
      /\ \A i \in 1..k : Newest(costs, k)[i] = costs[Len(seq) - k + i]
  <2>1. k \in 0..Len(costs)
    BY <1>1
  <2>2. /\ Newest(costs, k) \in Seq(Nat) /\ Len(Newest(costs, k)) = k
        /\ \A i \in 1..k : Newest(costs, k)[i] = costs[Len(costs) - k + i]
    BY <1>1, <2>1, NewestFacts
  <2> QED
    BY <1>1, <2>2
<1>7. ASSUME NEW i \in 1..k PROVE Newest(costs, k)[i] = sums[i]
  <2>1. Len(seq) - k + i \in 1..Len(seq)
    BY <1>1
  <2> QED
    BY <1>2, <1>3, <1>5, <1>6, <2>1
<1>8. Newest(costs, k) = sums
  BY <1>4, <1>6, <1>7, SeqEqual
<1> QED
  BY <1>8 DEF costs, sums, last

\* The greatest number of newest members that fit is well defined: none fits always.
LEMMA FittingFacts ==
  ASSUME NEW R, NEW f \in [R -> Nat], NEW seq \in Seq(R), NEW budget \in Nat
  PROVE  \E k \in 0..Len(seq) : /\ Fitting(seq, CostsBy(f, seq), budget) = Newest(seq, k)
                                /\ SumOf(CostsBy(f, Newest(seq, k))) \in 0..budget
<1> DEFINE costs == CostsBy(f, seq)
           sum(k) == SumOf(Newest(costs, k))
           fits(k) == sum(k) <= budget
           best(k) == fits(k) /\ \A j \in (k + 1)..Len(seq) : sum(j) > budget
           T == {d \in 0..Len(seq) : fits(Len(seq) - d)}
<1>1. Len(seq) \in Nat
  BY LenProperties
<1>2. ASSUME NEW k \in 0..Len(seq)
      PROVE  sum(k) = SumOf(CostsBy(f, Newest(seq, k))) /\ sum(k) \in Nat /\ (k = 0 => sum(k) = 0)
  <2>1. Newest(costs, k) = CostsBy(f, Newest(seq, k))
    BY CostsOfNewest
  <2>2. Newest(seq, k) \in Seq(R) /\ Len(Newest(seq, k)) = k
    BY NewestFacts
  <2> HIDE DEF costs
  <2> QED
    BY <2>1, <2>2, CostsFacts
<1> HIDE DEF costs, sum
<1>3. fits(0)
  BY <1>1, <1>2
<1> HIDE DEF fits
<1>4. PICK d \in T : \A y \in T : d <= y
  <2>1. Len(seq) \in T
    <3>1. Len(seq) \in 0..Len(seq) /\ Len(seq) - Len(seq) = 0
      BY <1>1
    <3> QED
      BY <1>3, <3>1
  <2>2. T \subseteq Nat /\ T # {}
    BY <2>1
  <2> HIDE DEF T
  <2> QED
    BY <2>2, LeastOf
<1>5. Len(seq) - d \in 0..Len(seq) /\ fits(Len(seq) - d)
  BY <1>1
<1>6. ASSUME NEW j \in (Len(seq) - d + 1)..Len(seq) PROVE sum(j) > budget
  <2>1. j \in 0..Len(seq) /\ Len(seq) - j \in 0..Len(seq) /\ Len(seq) - (Len(seq) - j) = j /\ ~(d <= Len(seq) - j)
    BY <1>1, <1>5
  <2>2. ~fits(j)
    BY <1>4, <2>1
  <2> QED
    BY <1>2, <2>1, <2>2 DEF fits
<1>7. \E k \in 0..Len(seq) : best(k)
  BY <1>5, <1>6
<1> DEFINE k == CHOOSE k \in 0..Len(seq) : best(k)
<1>8. Fitting(seq, costs, budget) = Newest(seq, k)
  BY DEF Fitting, fits, sum
<1>9. k \in 0..Len(seq) /\ best(k)
  <2> HIDE DEF best
  <2> QED
    BY <1>7
<1> HIDE DEF k
<1>10. sum(k) \in 0..budget
  BY <1>2, <1>9 DEF fits
<1> QED
  BY <1>2, <1>8, <1>9, <1>10 DEF costs
-----------------------------------------------------------------------------
(* The blocks of the Turns.                                                *)

LEMMA BoundGrows ==
  ASSUME NEW i \in Nat, NEW j \in Nat, i < j
  PROVE  BlockBound * i + BlockBound <= BlockBound * j
<1>0. BlockBound \in Nat
  BY ConversationConstants
<1>1. PICK d \in Nat : j = i + 1 + d
  <2>1. j - i - 1 \in Nat /\ j = i + 1 + (j - i - 1)
    OBVIOUS
  <2> QED
    BY <2>1
<1>2. BlockBound * (i + 1 + d) = BlockBound * i + BlockBound + BlockBound * d
  BY <1>0
<1>3. BlockBound * d \in Nat /\ BlockBound * i \in Nat /\ BlockBound * j \in Nat
  BY <1>0
<1> QED
  BY <1>0, <1>1, <1>2, <1>3

LEMMA BlockFacts ==
  ASSUME NEW i \in Nat, NEW k \in 1..BlockBound
  PROVE  Block(i, k) \in Nat /\ TurnOf(Block(i, k)) = i /\ PartOf(Block(i, k)) = k
<1> DEFINE b == BlockBound * i + k - 1
           q == b \div BlockBound
           r == b % BlockBound
<1>0. BlockBound \in Nat \ {0}
  BY ConversationConstants
<1>1. BlockBound * i \in Nat /\ b \in Nat
  BY <1>0
<1>2. q \in Nat /\ r \in 0..(BlockBound - 1) /\ b = BlockBound * q + r
  <2> HIDE DEF b
  <2> QED
    BY <1>0, <1>1
<1> HIDE DEF q, r
<1>3. BlockBound * q \in Nat
  BY <1>0, <1>2
<1>4. ~(q < i)
  <2>1. q < i => BlockBound * q + BlockBound <= BlockBound * i
    BY <1>2, BoundGrows
  <2> QED
    BY <1>0, <1>1, <1>2, <1>3, <2>1
<1>5. ~(i < q)
  <2>1. i < q => BlockBound * i + BlockBound <= BlockBound * q
    BY <1>2, BoundGrows
  <2> QED
    BY <1>0, <1>1, <1>2, <1>3, <2>1
<1>6. q = i
  BY <1>2, <1>4, <1>5
<1>7. r = k - 1
  BY <1>1, <1>2, <1>6
<1> QED
  BY <1>1, <1>6, <1>7 DEF Block, TurnOf, PartOf, q, r

\* Blocks are numbered in their order.
LEMMA BlockOrder ==
  ASSUME NEW i \in Nat, NEW k \in 1..BlockBound, NEW j \in Nat, NEW l \in 1..BlockBound
  PROVE  Block(i, k) < Block(j, l) <=> i < j \/ (i = j /\ k < l)
<1>0. BlockBound \in Nat \ {0}
  BY ConversationConstants
<1>1. BlockBound * i \in Nat /\ BlockBound * j \in Nat
  BY <1>0
<1>2. i < j => BlockBound * i + BlockBound <= BlockBound * j
  BY BoundGrows
<1>3. j < i => BlockBound * j + BlockBound <= BlockBound * i
  BY BoundGrows
<1> DEFINE x == BlockBound * i
           y == BlockBound * j
<1>4. i = j => x = y
  OBVIOUS
<1> HIDE DEF x, y
<1>5. x + k - 1 < y + l - 1 <=> i < j \/ (i = j /\ k < l)
  BY <1>0, <1>1, <1>2, <1>3, <1>4 DEF x, y
<1> QED
  BY <1>5 DEF Block, x, y

\* The blocks of the Turns S, and what each costs and reads.
OfTurns(ts, S) == UNION {{Block(i, k) : k \in DOMAIN Blocks[ts[i].message]} : i \in S}
RowIn(ts, b) == Blocks[ts[TurnOf(b)].message][PartOf(b)]

LEMMA OfTurnsFacts ==
  ASSUME NEW ts \in Seq(TurnRow), NEW S \in SUBSET (1..Len(ts)), NEW b \in OfTurns(ts, S)
  PROVE  /\ b \in 1..Block(Len(ts), BlockBound) /\ b \in Nat
         /\ TurnOf(b) \in S /\ PartOf(b) \in 1..BlockBound /\ b = Block(TurnOf(b), PartOf(b))
         /\ PartOf(b) \in DOMAIN Blocks[ts[TurnOf(b)].message]
         /\ RowIn(ts, b).cost \in Nat /\ RowIn(ts, b).reads \in Nat
<1>0. BlockBound \in Nat \ {0} /\ Len(ts) \in Nat
  BY ConversationConstants, LenProperties
<1>1. PICK i \in S : \E k \in DOMAIN Blocks[ts[i].message] : b = Block(i, k)
  BY DEF OfTurns
<1>2. PICK k \in DOMAIN Blocks[ts[i].message] : b = Block(i, k)
  BY <1>1
<1>3. i \in 1..Len(ts) /\ i \in Nat /\ ts[i] \in TurnRow
  BY <1>0, ElementOfSeq
<1> DEFINE mine == Blocks[ts[i].message]
<1>4. mine \in Seq([cost : Nat, reads : Nat]) /\ Len(mine) \in 1..BlockBound
  <2>1. ts[i].message \in ClientMessage
    BY <1>3 DEF TurnRow
  <2> QED
    BY <2>1, ConversationConstants
<1>5. k \in 1..Len(mine) /\ k \in 1..BlockBound /\ mine[k] \in [cost : Nat, reads : Nat]
  <2>1. k \in 1..Len(mine)
    BY <1>2, <1>4, LenProperties
  <2>2. k \in 1..BlockBound
    BY <1>0, <1>4, <2>1
  <2> QED
    BY <1>4, <2>1, <2>2, ElementOfSeq
<1>6. b \in Nat /\ TurnOf(b) = i /\ PartOf(b) = k
  BY <1>2, <1>3, <1>5, BlockFacts
<1>7. RowIn(ts, b) = mine[k]
  BY <1>6 DEF RowIn
<1>8. b \in 1..Block(Len(ts), BlockBound)
  <2>1. BlockBound \in 1..BlockBound /\ 1 \in 1..BlockBound /\ 0 \in Nat
    BY <1>0
  <2>2. Block(Len(ts), BlockBound) \in Nat /\ Block(0, 1) \in Nat
    BY <1>0, <2>1, BlockFacts
  <2>3. Block(0, 1) < Block(i, k)
    BY <1>3, <1>5, <2>1, BlockOrder
  <2>4. ~(Block(Len(ts), BlockBound) < Block(i, k))
    <3>1. ~(Len(ts) < i) /\ ~(Len(ts) = i /\ BlockBound < k)
      BY <1>0, <1>3, <1>5
    <3> QED
      BY <1>0, <1>3, <1>5, <2>1, <3>1, BlockOrder
  <2> QED
    BY <1>2, <1>6, <2>2, <2>3, <2>4
<1> QED
  BY <1>2, <1>5, <1>6, <1>7, <1>8

\* Each part of a Turn among S is a block of theirs; the first of any is.
LEMMA OfTurnsHas ==
  ASSUME NEW ts \in Seq(TurnRow), NEW S \in SUBSET (1..Len(ts)), NEW i \in S
  PROVE  Block(i, 1) \in OfTurns(ts, S) /\ 1 \in 1..BlockBound
<1>0. BlockBound \in Nat \ {0} /\ Len(ts) \in Nat
  BY ConversationConstants, LenProperties
<1>1. ts[i] \in TurnRow
  BY <1>0, ElementOfSeq
<1>2. ts[i].message \in ClientMessage
  BY <1>1 DEF TurnRow
<1> DEFINE mine == Blocks[ts[i].message]
<1>3. mine \in Seq([cost : Nat, reads : Nat]) /\ Len(mine) \in 1..BlockBound
  BY <1>2, ConversationConstants
<1>4. 1 \in DOMAIN mine
  BY <1>0, <1>3, LenProperties
<1>5. Block(i, 1) \in {Block(i, k) : k \in DOMAIN mine}
  BY <1>4
<1> QED
  BY <1>0, <1>5 DEF OfTurns

LEMMA BlocksListed ==
  ASSUME NEW ts \in Seq(TurnRow), NEW S \in SUBSET (1..Len(ts))
  PROVE  Lists(Ascending(OfTurns(ts, S)), OfTurns(ts, S)) /\ OfTurns(ts, S) \subseteq OfTurns(ts, 1..Len(ts))
<1> DEFINE n == Block(Len(ts), BlockBound)
<1>1. n \in Nat
  <2>1. BlockBound \in Nat \ {0} /\ Len(ts) \in Nat
    BY ConversationConstants, LenProperties
  <2>2. BlockBound \in 1..BlockBound
    BY <2>1
  <2> QED
    BY <2>1, <2>2, BlockFacts
<1>2. OfTurns(ts, S) \subseteq 1..n
  BY OfTurnsFacts
<1> HIDE DEF n
<1>3. Lists(Ascending(OfTurns(ts, S)), OfTurns(ts, S))
  BY <1>1, <1>2, AscendingLists
<1>4. OfTurns(ts, S) \subseteq OfTurns(ts, 1..Len(ts))
  BY DEF OfTurns
<1> QED
  BY <1>3, <1>4

\* The members from lo on.
From(S, lo) == {x \in S : lo <= x}

\* The blocks from the first of Turn i on are those of the Turns from i on.
LEMMA LaterBlocks ==
  ASSUME NEW ts \in Seq(TurnRow), NEW S \in SUBSET (1..Len(ts)), NEW i \in Nat
  PROVE  OfTurns(ts, From(S, i)) = From(OfTurns(ts, S), Block(i, 1)) /\ Block(i, 1) \in Nat
<1> DEFINE T == {j \in S : i <= j}
<1>0. BlockBound \in Nat \ {0} /\ Len(ts) \in Nat /\ 1 \in 1..BlockBound /\ T \in SUBSET (1..Len(ts)) /\ S \subseteq Nat
  <2>1. BlockBound \in Nat \ {0} /\ Len(ts) \in Nat
    BY ConversationConstants, LenProperties
  <2>2. T \in SUBSET (1..Len(ts))
    OBVIOUS
  <2> HIDE DEF T
  <2> QED
    BY <2>1, <2>2
<1>1. Block(i, 1) \in Nat
  BY <1>0, BlockFacts
<1>2. ASSUME NEW b \in OfTurns(ts, S)
      PROVE  Block(i, 1) <= b <=> i <= TurnOf(b)
  <2>1. /\ TurnOf(b) \in S /\ PartOf(b) \in 1..BlockBound /\ b = Block(TurnOf(b), PartOf(b)) /\ b \in Nat
    BY OfTurnsFacts
  <2>2. TurnOf(b) \in Nat
    BY <1>0, <2>1
  <2>3. b < Block(i, 1) <=> TurnOf(b) < i \/ (TurnOf(b) = i /\ PartOf(b) < 1)
    BY <1>0, <2>1, <2>2, BlockOrder, SMTT(30)
  <2>4. ~(PartOf(b) < 1)
    BY <1>0, <2>1
  <2> QED
    BY <1>1, <2>1, <2>2, <2>3, <2>4
<1>3. ASSUME NEW b \in OfTurns(ts, T)
      PROVE  b \in OfTurns(ts, S) /\ Block(i, 1) <= b
  <2>1. b \in OfTurns(ts, S)
    BY DEF OfTurns
  <2>2. TurnOf(b) \in T
    BY <1>0, OfTurnsFacts
  <2> QED
    BY <1>2, <2>1, <2>2
<1>4. ASSUME NEW b \in OfTurns(ts, S), Block(i, 1) <= b
      PROVE  b \in OfTurns(ts, T)
  <2>1. TurnOf(b) \in T
    BY <1>2, <1>4, OfTurnsFacts
  <2>2. b = Block(TurnOf(b), PartOf(b)) /\ PartOf(b) \in DOMAIN Blocks[ts[TurnOf(b)].message]
    BY OfTurnsFacts
  <2> QED
    BY <2>1, <2>2 DEF OfTurns
<1> HIDE DEF T
<1>5. OfTurns(ts, T) = From(OfTurns(ts, S), Block(i, 1))
  BY <1>3, <1>4 DEF From
<1> QED
  BY <1>1, <1>5 DEF T, From

\* What is left from a block on, joined by later blocks, is what is left from it on.
LEMMA StretchJoined ==
  ASSUME NEW S \in SUBSET Nat, NEW T \in SUBSET Nat, \A x \in S, y \in T : x < y,
         NEW lo \in Nat, \A y \in T : lo <= y,
         NEW s, NEW t, Lists(s, From(S, lo)), Lists(t, T)
  PROVE  Lists(s \o t, From(S \cup T, lo))
<1> DEFINE L == From(S, lo)
<1>1. \A x \in L, y \in T : x < y
  BY DEF From
<1>2. L \cup T = From(S \cup T, lo)
  BY DEF From
<1> HIDE DEF L
<1>3. Lists(s \o t, L \cup T)
  BY <1>1, ListsJoined DEF L
<1> QED
  BY <1>2, <1>3

\* The newest of what is left from a number on is what is left from a later one on.
LEMMA StretchCut ==
  ASSUME NEW S \in SUBSET Nat, NEW lo \in Nat, NEW s, Lists(s, From(S, lo)), NEW k \in 1..Len(s)
  PROVE  /\ Newest(s, k)[1] = s[Len(s) - k + 1] /\ Newest(s, k)[1] \in S /\ lo <= Newest(s, k)[1]
         /\ Lists(Newest(s, k), From(S, Newest(s, k)[1])) /\ Len(Newest(s, k)) = k
<1> DEFINE L == From(S, lo)
           b == s[Len(s) - k + 1]
<1>1. s \in Seq(Nat) /\ Len(s) \in Nat
  BY LenProperties DEF Lists
<1>2. Newest(s, k)[1] = b /\ Len(Newest(s, k)) = k
  <2>1. k \in 0..Len(s) /\ 1 \in 1..k
    BY <1>1
  <2> QED
    BY <1>1, <2>1, NewestFacts
<1>3. Len(s) - k + 1 \in 1..Len(s)
  BY <1>1
<1>4. b \in L
  BY <1>3 DEF Lists
<1>5. Lists(Newest(s, k), {x \in L : b <= x})
  BY ListsNewest
<1>6. b \in S /\ lo <= b /\ b \in Nat
  BY <1>4 DEF From
<1> HIDE DEF b
<1>7. {x \in L : b <= x} = From(S, b)
  <2>1. ASSUME NEW x \in S, b <= x PROVE lo <= x
    <3>1. x \in Nat
      OBVIOUS
    <3> QED
      BY <1>6, <2>1, <3>1
  <2> QED
    BY <2>1 DEF From
<1> HIDE DEF L
<1>8. Lists(Newest(s, k), From(S, b))
  BY <1>5, <1>7
<1>9. s[Len(s) - k + 1] = b
  BY DEF b
<1> QED
  BY <1>2, <1>6, <1>8, <1>9

LEMMA ListsSet ==
  ASSUME NEW s, NEW S, Lists(s, S)
  PROVE  ToSet(s) = S
<1>1. DOMAIN s = 1..Len(s)
  BY LenProperties DEF Lists
<1> QED
  BY <1>1 DEF Lists, ToSet
-----------------------------------------------------------------------------
(* What is assembled for a Run.                                            *)

AnsweredOf(ts, lo, hi) == {i \in 1..Len(ts) : ts[i].state = "succeeded" /\ lo <= i /\ i <= hi}

\* The blocks of the answered Turns up to hi.
BlocksUpTo(ts, hi) == OfTurns(ts, AnsweredOf(ts, 1, hi))

PairCostIn(ts) == [i \in 1..Len(ts) |-> Cost[ts[i].message]]
BlockCostIn(ts) == [b \in OfTurns(ts, 1..Len(ts)) |-> RowIn(ts, b).cost]
PairCostsIn(ts, seq) == [k \in 1..Len(seq) |-> Cost[ts[seq[k]].message]]
BlockCostsIn(ts, seq) == [k \in 1..Len(seq) |-> RowIn(ts, seq[k]).cost]

\* A context for message m of Turn n: the newest answered Turns before it, the
\* blocks just before theirs, all within the budget.
Shown(ts, n, m, c) ==
  /\ \E lo \in Nat : Lists(c.history, AnsweredOf(ts, lo, n - 1))
  /\ c.history \in Seq(AnsweredOf(ts, 1, n - 1)) /\ c.blocks \in Seq(BlocksUpTo(ts, n - 1))
  /\ \E lo \in Nat : Lists(c.blocks \o Ascending(OfTurns(ts, ToSet(c.history))),
                          From(BlocksUpTo(ts, n - 1), lo))
  /\ Cost[m] + Cardinality(c.memories) + SumOf(BlockCostsIn(ts, c.blocks))
       + SumOf(PairCostsIn(ts, c.history)) <= ContextBudget

\* No block but a Turn's first looks like a heading.
PlainIn(ts, hi) == \A i \in AnsweredOf(ts, 1, hi) : \A k \in DOMAIN Blocks[ts[i].message] \ {1} :
                      Blocks[ts[i].message][k].reads = 0

\* A compaction holds the newest blocks of the answered Turns up to its end, an
\* answered one, and says in which Turn they begin.
Summary(ts, cp) ==
  /\ cp.version \in Nat /\ cp.end \in 0..Len(ts)
  /\ cp.end # 0 => ts[cp.end].state = "succeeded"
  /\ \E lo \in Nat : Lists(cp.blocks, From(BlocksUpTo(ts, cp.end), lo))
  /\ cp.version = 0 => cp.end = 0 /\ cp.blocks = <<>>
  /\ cp.version # 0 => /\ cp.blocks # <<>> /\ cp.start \in 1..cp.end
                       /\ PlainIn(ts, cp.end) => cp.start = TurnOf(cp.blocks[1])

LEMMA ListsWithin ==
  ASSUME NEW s, NEW S, Lists(s, S), NEW R, S \subseteq R
  PROVE  s \in Seq(R)
<1>1. s \in Seq(Nat) /\ Len(s) \in Nat
  BY LenProperties DEF Lists
<1>2. s = [k \in 1..Len(s) |-> s[k]] /\ \A k \in 1..Len(s) : s[k] \in R
  BY <1>1, LenProperties DEF Lists
<1>3. [k \in 1..Len(s) |-> s[k]] \in Seq(R)
  BY <1>1, <1>2
<1> QED
  BY <1>2, <1>3

LEMMA NewestAll ==
  ASSUME NEW R, NEW c \in Seq(R)
  PROVE  Newest(c, Len(c)) = c
<1>1. Len(c) \in Nat /\ Len(c) \in 0..Len(c)
  BY LenProperties
<1>2. /\ Newest(c, Len(c)) \in Seq(R) /\ Len(Newest(c, Len(c))) = Len(c)
      /\ \A i \in 1..Len(c) : Newest(c, Len(c))[i] = c[Len(c) - Len(c) + i]
  BY <1>1, NewestFacts
<1>3. \A i \in 1..Len(c) : Len(c) - Len(c) + i = i
  BY <1>1
<1> QED
  BY <1>1, <1>2, <1>3, SeqEqual

LEMMA NewestOfNewest ==
  ASSUME NEW R, NEW c \in Seq(R), NEW k \in 0..Len(c), NEW j \in 0..k
  PROVE  Newest(Newest(c, k), j) = Newest(c, j) /\ j \in 0..Len(c)
<1> DEFINE r == Newest(c, k)
<1>1. Len(c) \in Nat /\ j \in 0..Len(c)
  BY LenProperties
<1>2. r \in Seq(R) /\ Len(r) = k /\ k \in Nat /\ \A i \in 1..k : r[i] = c[Len(c) - k + i]
  BY NewestFacts
<1> HIDE DEF r
<1>3. Newest(r, j) \in Seq(R) /\ Len(Newest(r, j)) = j /\ \A i \in 1..j : Newest(r, j)[i] = r[k - j + i]
  BY <1>2, NewestFacts, ZenonT(30)
<1>4. Newest(c, j) \in Seq(R) /\ Len(Newest(c, j)) = j /\ \A i \in 1..j : Newest(c, j)[i] = c[Len(c) - j + i]
  BY <1>1, NewestFacts
<1>5. ASSUME NEW i \in 1..j PROVE Newest(r, j)[i] = Newest(c, j)[i]
  <2>1. k - j + i \in 1..k /\ Len(c) - k + (k - j + i) = Len(c) - j + i
    BY <1>1, <1>2
  <2>2. r[k - j + i] = c[Len(c) - k + (k - j + i)]
    BY <1>2, <2>1
  <2> QED
    BY <1>3, <1>4, <2>1, <2>2
<1> HIDE DEF Newest
<1>6. Newest(r, j) = Newest(c, j)
  BY <1>3, <1>4, <1>5, SeqEqual
<1> QED
  BY <1>1, <1>6 DEF r

LEMMA RestListed ==
  ASSUME NEW c, NEW S, Lists(c, S), NEW k \in 0..(Len(c) - 1)
  PROVE  /\ Lists(Newest(c, k), {i \in S : c[Len(c) - k] + 1 <= i})
         /\ c[Len(c) - k] \in S
<1> DEFINE e == c[Len(c) - k]
           T == {i \in S : e + 1 <= i}
<1>1. c \in Seq(Nat) /\ Len(c) \in Nat /\ \A i \in 1..Len(c) : c[i] \in Nat
  BY LenProperties, ElementOfSeq DEF Lists
<1>2. Len(c) - k \in 1..Len(c) /\ k \in 0..Len(c)
  BY <1>1
<1>3. e \in S /\ e \in Nat
  BY <1>1, <1>2 DEF Lists
<1>4. ASSUME NEW i \in S, e + 1 <= i PROVE \E p \in (Len(c) - k + 1)..Len(c) : c[p] = i
  <2>1. PICK p \in 1..Len(c) : c[p] = i
    BY DEF Lists
  <2>2. p < Len(c) - k => c[p] < e
    BY <1>2 DEF Lists
  <2>3. ~(p <= Len(c) - k)
    <3> SUFFICES ASSUME p <= Len(c) - k PROVE FALSE
      OBVIOUS
    <3>1. p < Len(c) - k \/ p = Len(c) - k
      BY <1>1
    <3>2. c[p] \in Nat /\ e + 1 <= c[p]
      BY <1>1, <1>4, <2>1
    <3> HIDE DEF e
    <3>3. p = Len(c) - k => c[p] = e
      BY DEF e
    <3> QED
      BY <1>3, <2>2, <3>1, <3>2, <3>3
  <2> QED
    BY <1>1, <2>1, <2>3
<1>5. CASE k = 0
  <2>1. T = {}
    BY <1>1, <1>4, <1>5
  <2>2. Newest(c, k) \in Seq(Nat) /\ Len(Newest(c, k)) = 0
    BY <1>1, <1>2, <1>5, NewestFacts
  <2>3. Newest(c, k) = <<>>
    BY <2>2, EmptySeq
  <2> QED
    BY <1>3, <2>1, <2>3, ListsNone
<1>6. CASE k # 0
  <2> DEFINE b == c[Len(c) - k + 1]
  <2>1. k \in 1..Len(c) /\ Len(c) - k + 1 \in 1..Len(c) /\ Len(c) - k < Len(c) - k + 1
    BY <1>1, <1>6
  <2>2. Lists(Newest(c, k), {i \in S : b <= i})
    BY <2>1, ListsNewest
  <2>3. b \in Nat /\ e < b
    BY <1>1, <1>2, <2>1 DEF Lists
  <2>4. ASSUME NEW i \in S, b <= i PROVE e + 1 <= i
    <3>1. i \in Nat
      BY <1>1 DEF Lists
    <3> HIDE DEF b, e
    <3> QED
      BY <1>3, <2>3, <2>4, <3>1
  <2>5. ASSUME NEW i \in S, e + 1 <= i PROVE b <= i
    <3>1. PICK p \in (Len(c) - k + 1)..Len(c) : c[p] = i
      BY <1>4, <2>5
    <3>2. p = Len(c) - k + 1 \/ Len(c) - k + 1 < p
      BY <1>1
    <3>3. p \in 1..Len(c)
      BY <1>1, <2>1
    <3>4. Len(c) - k + 1 < p => b < c[p]
      BY <2>1, <3>3 DEF Lists
    <3>5. c[p] \in Nat
      BY <1>1, <3>3
    <3>6. p = Len(c) - k + 1 => c[p] = b
      OBVIOUS
    <3> HIDE DEF b
    <3> QED
      BY <2>3, <3>1, <3>2, <3>4, <3>5, <3>6
  <2>6. {i \in S : b <= i} = T
    <3> HIDE DEF b, e
    <3> QED
      BY <2>4, <2>5
  <2> QED
    BY <1>3, <2>2, <2>6
<1> QED
  BY <1>1, <1>5, <1>6

LEMMA AnsweredSame ==
  ASSUME turns \in Seq(TurnRow)
  PROVE  \A lo, hi : AnsweredIn(lo, hi) = AnsweredOf(turns, lo, hi)
<1>1. DOMAIN turns = 1..Len(turns)
  BY LenProperties
<1> QED
  BY <1>1 DEF AnsweredIn, AnsweredOf, Succeeded

LEMMA PairCostFacts ==
  ASSUME NEW ts \in Seq(TurnRow), NEW seq \in Seq(1..Len(ts))
  PROVE  PairCostIn(ts) \in [1..Len(ts) -> Nat] /\ PairCostsIn(ts, seq) = CostsBy(PairCostIn(ts), seq)
<1>1. ASSUME NEW i \in 1..Len(ts) PROVE Cost[ts[i].message] \in Nat
  <2>1. ts[i] \in TurnRow
    BY LenProperties, ElementOfSeq
  <2>2. ts[i].message \in ClientMessage
    BY <2>1 DEF TurnRow
  <2> QED
    BY <2>2, ConversationConstants
<1>2. \A k \in 1..Len(seq) : seq[k] \in 1..Len(ts)
  BY ElementOfSeq
<1>3. PairCostIn(ts) \in [1..Len(ts) -> Nat] /\ \A i \in 1..Len(ts) : PairCostIn(ts)[i] = Cost[ts[i].message]
  BY <1>1 DEF PairCostIn
<1>4. \A k \in 1..Len(seq) : Cost[ts[seq[k]].message] = PairCostIn(ts)[seq[k]]
  BY <1>2, <1>3
<1> QED
  BY <1>3, <1>4 DEF PairCostsIn, CostsBy

LEMMA BlockCostFacts ==
  ASSUME NEW ts \in Seq(TurnRow), NEW seq \in Seq(OfTurns(ts, 1..Len(ts)))
  PROVE  /\ BlockCostIn(ts) \in [OfTurns(ts, 1..Len(ts)) -> Nat]
         /\ BlockCostsIn(ts, seq) = CostsBy(BlockCostIn(ts), seq)
<1> DEFINE R == OfTurns(ts, 1..Len(ts))
<1>1. ASSUME NEW b \in R PROVE RowIn(ts, b).cost \in Nat
  <2>1. 1..Len(ts) \in SUBSET (1..Len(ts))
    OBVIOUS
  <2> QED
    BY <2>1, OfTurnsFacts
<1>2. \A k \in 1..Len(seq) : seq[k] \in R
  BY ElementOfSeq
<1> HIDE DEF R
<1>3. BlockCostIn(ts) \in [R -> Nat] /\ \A b \in R : BlockCostIn(ts)[b] = RowIn(ts, b).cost
  BY <1>1 DEF BlockCostIn, R
<1>4. \A k \in 1..Len(seq) : RowIn(ts, seq[k]).cost = BlockCostIn(ts)[seq[k]]
  BY <1>2, <1>3
<1>5. BlockCostsIn(ts, seq) = CostsBy(BlockCostIn(ts), seq)
  BY <1>4 DEF BlockCostsIn, CostsBy
<1> QED
  BY <1>3, <1>5 DEF R

\* The model's costs and blocks are those of the current Turns.
LEMMA CostsNow ==
  /\ \A seq : PairCosts(seq) = PairCostsIn(turns, seq)
  /\ \A seq : BlockCosts(seq) = BlockCostsIn(turns, seq)
  /\ \A S : BlocksOf(S) = Ascending(OfTurns(turns, S))
<1>1. \A seq : PairCosts(seq) = PairCostsIn(turns, seq)
  BY DEF PairCosts, PairCost, PairCostsIn
<1>2. \A seq : BlockCosts(seq) = BlockCostsIn(turns, seq)
  BY DEF BlockCosts, BlockRow, BlockCostsIn, RowIn
<1>3. \A S : BlocksOf(S) = Ascending(OfTurns(turns, S))
  BY DEF BlocksOf, OfTurns
<1> QED
  BY <1>1, <1>2, <1>3

\* The blocks of the answered Turns before and after one.
LEMMA UpToFacts ==
  ASSUME NEW ts \in Seq(TurnRow), NEW e \in Nat, NEW hi \in Nat, e <= hi
  PROVE  /\ AnsweredOf(ts, 1, e) \in SUBSET (1..Len(ts)) /\ AnsweredOf(ts, e + 1, hi) \in SUBSET (1..Len(ts))
         /\ BlocksUpTo(ts, e) \subseteq Nat /\ OfTurns(ts, AnsweredOf(ts, e + 1, hi)) \subseteq Nat
         /\ BlocksUpTo(ts, e) \cup OfTurns(ts, AnsweredOf(ts, e + 1, hi)) = BlocksUpTo(ts, hi)
         /\ \A x \in BlocksUpTo(ts, e), y \in OfTurns(ts, AnsweredOf(ts, e + 1, hi)) :
               x < Block(e + 1, 1) /\ Block(e + 1, 1) <= y /\ x < y
         /\ Block(e + 1, 1) \in Nat
         /\ OfTurns(ts, AnsweredOf(ts, e + 1, hi)) = From(BlocksUpTo(ts, hi), Block(e + 1, 1))
<1> DEFINE A == AnsweredOf(ts, 1, e)
           B == AnsweredOf(ts, e + 1, hi)
           C == AnsweredOf(ts, 1, hi)
<1>1. /\ A \in SUBSET (1..Len(ts)) /\ B \in SUBSET (1..Len(ts)) /\ C \in SUBSET (1..Len(ts)) /\ A \cup B = C
      /\ B = {i \in C : e + 1 <= i} /\ (\A i \in A : i <= e) /\ Len(ts) \in Nat
  <2>1. Len(ts) \in Nat
    BY LenProperties
  <2> QED
    BY <2>1 DEF AnsweredOf
<1> HIDE DEF A, B, C
<1>2. OfTurns(ts, A) \subseteq Nat /\ OfTurns(ts, B) \subseteq Nat /\ OfTurns(ts, C) \subseteq Nat
  BY <1>1, OfTurnsFacts
<1>3. OfTurns(ts, A) \cup OfTurns(ts, B) = OfTurns(ts, C)
  BY <1>1 DEF OfTurns
<1>4. OfTurns(ts, B) = From(OfTurns(ts, C), Block(e + 1, 1)) /\ Block(e + 1, 1) \in Nat
  <2>1. e + 1 \in Nat
    OBVIOUS
  <2>2. C \in SUBSET (1..Len(ts))
    BY <1>1
  <2>3. OfTurns(ts, From(C, e + 1)) = From(OfTurns(ts, C), Block(e + 1, 1)) /\ Block(e + 1, 1) \in Nat
    BY <2>1, <2>2, LaterBlocks
  <2> QED
    BY <1>1, <2>3 DEF From
<1>5. ASSUME NEW x \in OfTurns(ts, A) PROVE x < Block(e + 1, 1)
  <2>1. TurnOf(x) \in A /\ PartOf(x) \in 1..BlockBound /\ x = Block(TurnOf(x), PartOf(x))
    BY <1>1, OfTurnsFacts
  <2>2. TurnOf(x) \in Nat /\ TurnOf(x) < e + 1 /\ e + 1 \in Nat /\ 1 \in 1..BlockBound
    <3>1. TurnOf(x) \in 1..Len(ts) /\ TurnOf(x) <= e
      BY <1>1, <2>1
    <3>2. BlockBound \in Nat \ {0}
      BY ConversationConstants
    <3> QED
      BY <1>1, <3>1, <3>2
  <2>3. PICK i \in Nat, p \in 1..BlockBound : x = Block(i, p) /\ i < e + 1
    BY <2>1, <2>2
  <2>4. Block(i, p) < Block(e + 1, 1) <=> i < e + 1 \/ (i = e + 1 /\ p < 1)
    BY <2>2, BlockOrder
  <2> QED
    BY <2>3, <2>4
<1>6. ASSUME NEW x \in OfTurns(ts, A), NEW y \in OfTurns(ts, B) PROVE x < Block(e + 1, 1) /\ Block(e + 1, 1) <= y /\ x < y
  <2>1. x \in Nat /\ y \in Nat
    BY <1>2
  <2>2. x < Block(e + 1, 1) /\ Block(e + 1, 1) <= y
    BY <1>4, <1>5 DEF From
  <2> QED
    BY <1>4, <2>1, <2>2
<1> QED
  BY <1>1, <1>2, <1>3, <1>4, <1>6 DEF A, B, C, BlocksUpTo

LEMMA ShownWhen ==
  ASSUME NEW ts, NEW n, NEW m, NEW h, NEW b, NEW x,
         \E lo \in Nat : Lists(h, AnsweredOf(ts, lo, n - 1)),
         h \in Seq(AnsweredOf(ts, 1, n - 1)), b \in Seq(BlocksUpTo(ts, n - 1)),
         \E lo \in Nat : Lists(b \o Ascending(OfTurns(ts, ToSet(h))), From(BlocksUpTo(ts, n - 1), lo)),
         Cost[m] + Cardinality(x) + SumOf(BlockCostsIn(ts, b)) + SumOf(PairCostsIn(ts, h)) <= ContextBudget
  PROVE  Shown(ts, n, m, [history |-> h, blocks |-> b, memories |-> x])
BY DEF Shown

\* Whatever the compaction covers, history and blocks meet.
LEMMA AssembleShows ==
  ASSUME TalkInv, Summary(turns, compaction), NEW n \in 1..(Len(turns) + 1), NEW m \in ClientMessage,
         NEW memories, Cardinality(memories) \in Nat, Cardinality(memories) <= ContextBudget - Cost[m]
  PROVE  Shown(turns, n, m, Assemble(n, m, memories)) /\ Assemble(n, m, memories).memories = memories
<1> DEFINE c == CandidateTurns(n)
           S == AnsweredOf(turns, 1, n - 1)
           R == 1..Len(turns)
           recent == IF Len(c) > RecentPairs THEN Newest(c, RecentPairs) ELSE c
           left == HistoryBudget(m, memories)
           history == Fitting(recent, PairCosts(recent), left)
           older == SubSeq(c, 1, Len(c) - Len(history))
           spent == SumOf(PairCosts(history))
           rest == left - spent
           cb == compaction.blocks
           blocks == IF CompactionJoins(older) THEN Fitting(cb, BlockCosts(cb), rest) ELSE <<>>
           told == Ascending(OfTurns(turns, ToSet(history)))
           shown == Assemble(n, m, memories)
<1>1. turns \in Seq(TurnRow) /\ Len(turns) \in Nat /\ Told(turns, replies, runs)
  BY LenProperties DEF TalkInv, Told
<1>2. n \in Nat /\ n - 1 \in 0..Len(turns) /\ n - 1 \in Nat
  BY <1>1
<1>3. shown = [history |-> history, blocks |-> blocks, memories |-> memories]
  BY DEF Assemble
<1> HIDE DEF R
<1>4. S \subseteq 1..(n - 1) /\ S \subseteq R /\ c = Ascending(S)
  <2>1. AnsweredIn(1, n - 1) = S
    BY <1>1, AnsweredSame
  <2>2. S \subseteq 1..(n - 1) /\ S \subseteq R
    BY <1>1, <1>2 DEF AnsweredOf, R
  <2>3. c = Ascending(AnsweredIn(1, n - 1))
    BY DEF CandidateTurns
  <2> HIDE DEF S, c
  <2> QED
    BY <2>1, <2>2, <2>3
<1> HIDE DEF c, S
<1>5. Lists(c, S) /\ c \in Seq(S) /\ c \in Seq(R) /\ Len(c) \in Nat
  <2>1. Lists(c, S)
    BY <1>2, <1>4, AscendingLists
  <2>2. c \in Seq(S) /\ c \in Seq(R)
    BY <1>4, <2>1, ListsWithin
  <2> QED
    BY <2>1, <2>2, LenProperties
<1>6. PICK k1 \in 0..Len(c) : recent = Newest(c, k1)
  <2>1. CASE Len(c) > RecentPairs
    <3>1. RecentPairs \in 0..Len(c)
      BY <1>5, <2>1, ConversationConstants
    <3> QED
      BY <2>1, <3>1
  <2>2. CASE ~(Len(c) > RecentPairs)
    <3>1. Len(c) \in 0..Len(c)
      BY <1>5
    <3>2. Newest(c, Len(c)) = c
      BY <1>5, NewestAll
    <3> QED
      BY <2>2, <3>1, <3>2
  <2> QED
    BY <2>1, <2>2
<1>7. recent \in Seq(R) /\ Len(recent) = k1
  BY <1>5, <1>6, NewestFacts
<1>8. left \in Nat /\ left = ContextBudget - Cost[m] - Cardinality(memories)
  BY ConversationConstants DEF HistoryBudget
<1> HIDE DEF recent, left
<1> DEFINE f == PairCostIn(turns)
           g == BlockCostIn(turns)
           AllBlocks == OfTurns(turns, 1..Len(turns))
<1>9. PICK k \in 0..k1 : history = Newest(recent, k) /\ SumOf(CostsBy(f, history)) \in 0..left
  <2>1. f \in [R -> Nat] /\ PairCosts(recent) = CostsBy(f, recent)
    BY <1>1, <1>7, PairCostFacts, CostsNow DEF R
  <2> HIDE DEF f
  <2>2. \E k \in 0..Len(recent) : /\ Fitting(recent, CostsBy(f, recent), left) = Newest(recent, k)
                                  /\ SumOf(CostsBy(f, Newest(recent, k))) \in 0..left
    BY <1>7, <1>8, <2>1, FittingFacts
  <2>3. history = Fitting(recent, CostsBy(f, recent), left)
    BY <2>1
  <2> HIDE DEF history
  <2> QED
    BY <1>7, <2>2, <2>3
<1>10. history = Newest(c, k) /\ k \in 0..Len(c)
  BY <1>5, <1>6, <1>9, NewestOfNewest
<1> HIDE DEF history
<1>11. history \in Seq(S) /\ history \in Seq(R) /\ Len(history) = k
  BY <1>5, <1>10, NewestFacts
<1>12. spent \in 0..left /\ rest \in Nat /\ rest = left - spent /\ spent = SumOf(PairCostsIn(turns, history))
  <2>1. PairCostsIn(turns, history) = CostsBy(f, history)
    BY <1>1, <1>11, PairCostFacts DEF R
  <2>2. PairCosts(history) = PairCostsIn(turns, history)
    BY CostsNow
  <2>3. spent \in 0..left
    BY <1>9, <2>1, <2>2
  <2> HIDE DEF spent
  <2>4. rest \in Nat
    BY <1>8, <2>3
  <2> QED
    BY <2>2, <2>3, <2>4 DEF spent
<1> HIDE DEF rest, spent
<1> DEFINE e == c[Len(c) - k]
           later == AnsweredOf(turns, e + 1, n - 1)
<1>13. ASSUME k # Len(c)
       PROVE  Lists(history, later) /\ e \in 1..(n - 1) /\ Len(older) # 0 /\ older[Len(older)] = e
  <2>1. k \in 0..(Len(c) - 1)
    BY <1>5, <1>10, <1>13
  <2>2. Lists(Newest(c, k), {i \in S : e + 1 <= i}) /\ e \in S
    BY <1>5, <2>1, RestListed
  <2>3. e \in 1..(n - 1)
    BY <1>4, <2>2
  <2> HIDE DEF e
  <2>4. {i \in S : e + 1 <= i} = AnsweredOf(turns, e + 1, n - 1)
    BY <1>2, <2>3 DEF S, AnsweredOf
  <2>5. Len(c) - k \in 0..Len(c) /\ Len(c) - k \in 1..(Len(c) - k)
    BY <1>5, <2>1
  <2>6. Len(older) = Len(c) - k /\ older[Len(c) - k] = c[Len(c) - k]
    BY <1>5, <1>11, <2>5, OldestFacts
  <2>7. Len(older) # 0
    BY <1>5, <2>1, <2>6
  <2> QED
    BY <1>10, <2>2, <2>3, <2>4, <2>6, <2>7 DEF e
<1>14. ASSUME k = Len(c)
       PROVE  Lists(history, S) /\ Len(older) = 0
  <2>2. history = c
    BY <1>5, <1>10, <1>14, NewestAll
  <2>3. Len(c) - Len(history) = 0 /\ 0 \in 0..Len(c)
    BY <1>5, <1>11, <1>14
  <2>4. Len(older) = 0
    BY <1>5, <2>3, OldestFacts
  <2> QED
    BY <1>5, <2>2, <2>4
<1> HIDE DEF older, e
<1>15. ASSUME k # Len(c)
       PROVE  /\ Lists(told, OfTurns(turns, later)) /\ e \in Nat /\ e <= n - 1
              /\ Lists(told, From(BlocksUpTo(turns, n - 1), Block(e + 1, 1))) /\ Block(e + 1, 1) \in Nat
  <2>1. e \in Nat /\ e <= n - 1
    BY <1>2, <1>13, <1>15
  <2>2. /\ later \in SUBSET (1..Len(turns)) /\ Block(e + 1, 1) \in Nat
        /\ OfTurns(turns, later) = From(BlocksUpTo(turns, n - 1), Block(e + 1, 1))
    BY <1>1, <1>2, <2>1, UpToFacts
  <2> HIDE DEF later
  <2>3. ToSet(history) = later
    BY <1>13, <1>15, ListsSet
  <2>4. Lists(told, OfTurns(turns, later))
    BY <1>1, <2>2, <2>3, BlocksListed
  <2> HIDE DEF told
  <2> QED
    BY <2>1, <2>2, <2>4
<1>16. \E lo \in Nat : Lists(history, AnsweredOf(turns, lo, n - 1))
  <2>1. CASE k # Len(c)
    <3>1. e + 1 \in Nat
      BY <1>13, <2>1
    <3> QED
      BY <1>13, <2>1, <3>1
  <2>2. CASE k = Len(c)
    BY <1>14, <2>2 DEF S
  <2> QED
    BY <2>1, <2>2
<1>17. \E lo \in Nat : Lists(told, From(BlocksUpTo(turns, n - 1), lo))
  <2>1. CASE k # Len(c)
    BY <1>15, <2>1
  <2>2. CASE k = Len(c)
    <3>1. ToSet(history) = S
      BY <1>14, <2>2, ListsSet
    <3>2. S \in SUBSET (1..Len(turns))
      BY <1>4 DEF R
    <3>3. Lists(told, OfTurns(turns, S))
      BY <1>1, <3>1, <3>2, BlocksListed
    <3>4. OfTurns(turns, S) \subseteq Nat
      BY <1>1, <3>2, OfTurnsFacts
    <3>5. OfTurns(turns, S) = BlocksUpTo(turns, n - 1)
      BY DEF BlocksUpTo, S
    <3> HIDE DEF told, S
    <3>6. From(BlocksUpTo(turns, n - 1), 0) = BlocksUpTo(turns, n - 1)
      BY <3>4, <3>5 DEF From
    <3> QED
      BY <3>3, <3>5, <3>6
  <2> QED
    BY <2>1, <2>2
<1>18. told \in Seq(Nat)
  BY <1>17 DEF Lists
<1> HIDE DEF told
<1>19. CASE ~CompactionJoins(older)
  <2>1. blocks = <<>> /\ <<>> \in Seq(BlocksUpTo(turns, n - 1)) /\ blocks \o told = told
    BY <1>18, <1>19
  <2>2. SumOf(BlockCostsIn(turns, <<>>)) = 0
    <3>1. Len(<<>>) = 0 /\ <<>> \in Seq(OfTurns(turns, 1..Len(turns)))
      OBVIOUS
    <3>2. /\ BlockCostIn(turns) \in [OfTurns(turns, 1..Len(turns)) -> Nat]
          /\ BlockCostsIn(turns, <<>>) = CostsBy(BlockCostIn(turns), <<>>)
      BY <1>1, <3>1, BlockCostFacts
    <3>3. /\ \A f0 \in [OfTurns(turns, 1..Len(turns)) -> Nat] : SumOf(CostsBy(f0, <<>>)) = 0
      BY <3>1, CostsFacts
    <3> QED
      BY <3>2, <3>3
  <2>3. Cost[m] + Cardinality(memories) + 0 + spent <= ContextBudget
    BY <1>8, <1>12, ConversationConstants, SMTT(30)
  <2>4. blocks \in Seq(BlocksUpTo(turns, n - 1)) /\ history \in Seq(AnsweredOf(turns, 1, n - 1))
    BY <1>11, <2>1 DEF S
  <2>5. Cost[m] + Cardinality(memories) + SumOf(BlockCostsIn(turns, blocks))
          + SumOf(PairCostsIn(turns, history)) <= ContextBudget
    BY <1>12, <2>1, <2>2, <2>3
  <2>6. \E lo \in Nat : Lists(blocks \o Ascending(OfTurns(turns, ToSet(history))),
                              From(BlocksUpTo(turns, n - 1), lo))
    BY <1>17, <2>1 DEF told
  <2> HIDE DEF blocks
  <2> QED
    BY <1>3, <1>16, <2>4, <2>5, <2>6, ShownWhen
<1>20. CASE CompactionJoins(older)
  <2>1. k # Len(c)
    BY <1>14, <1>20 DEF CompactionJoins
  <2>2. compaction.end = e /\ e \in 1..(n - 1)
    BY <1>13, <1>20, <2>1 DEF CompactionJoins
  <2> DEFINE X == BlocksUpTo(turns, e)
             Y == OfTurns(turns, later)
             Z == BlocksUpTo(turns, n - 1)
  <2>3. PICK lo0 \in Nat : Lists(cb, From(X, lo0))
    BY <2>2 DEF Summary
  <2>4. /\ X \in SUBSET Nat /\ Y \in SUBSET Nat /\ X \cup Y = Z /\ (\A x \in X, y \in Y : x < y)
        /\ X \subseteq AllBlocks /\ X \subseteq Z
    <3>1. e \in Nat /\ e <= n - 1
      BY <1>15, <2>1
    <3>2. /\ X \in SUBSET Nat /\ Y \in SUBSET Nat /\ X \cup Y = Z /\ (\A x \in X, y \in Y : x < y)
          /\ AnsweredOf(turns, 1, e) \in SUBSET (1..Len(turns))
      BY <1>1, <1>2, <3>1, UpToFacts
    <3>3. OfTurns(turns, AnsweredOf(turns, 1, e)) \subseteq AllBlocks
      BY <1>1, <3>2, BlocksListed
    <3> HIDE DEF Y, Z, AllBlocks, later
    <3> QED
      BY <3>2, <3>3 DEF BlocksUpTo
  <2>5. Lists(told, Y)
    BY <1>15, <2>1
  <2> HIDE DEF X, Y, Z
  <2>6. cb \in Seq(AllBlocks) /\ cb \in Seq(Z) /\ Len(cb) \in Nat
    <3>1. From(X, lo0) \subseteq AllBlocks /\ From(X, lo0) \subseteq Z
      BY <2>4 DEF From
    <3> HIDE DEF AllBlocks, cb
    <3> QED
      BY <2>3, <3>1, ListsWithin, LenProperties
  <2> HIDE DEF cb
  <2>7. PICK j \in 0..Len(cb) : blocks = Newest(cb, j) /\ SumOf(CostsBy(g, blocks)) \in 0..rest
    <3>1. g \in [AllBlocks -> Nat] /\ BlockCosts(cb) = CostsBy(g, cb)
      BY <1>1, <2>6, BlockCostFacts, CostsNow
    <3>2. blocks = Fitting(cb, CostsBy(g, cb), rest)
      BY <1>20, <3>1 DEF cb
    <3> HIDE DEF AllBlocks, g, blocks
    <3> QED
      BY <1>12, <2>6, <3>1, <3>2, FittingFacts
  <2> HIDE DEF blocks
  <2>8. blocks \in Seq(Z) /\ blocks \in Seq(AllBlocks) /\ Len(blocks) = j
    BY <2>6, <2>7, NewestFacts
  <2>9. SumOf(BlockCostsIn(turns, blocks)) \in 0..rest
    <3>1. BlockCostsIn(turns, blocks) = CostsBy(g, blocks)
      BY <1>1, <2>8, BlockCostFacts
    <3> QED
      BY <2>7, <3>1
  <2>10. Cost[m] + Cardinality(memories) + SumOf(BlockCostsIn(turns, blocks)) + spent <= ContextBudget
    <3>1. Cost[m] \in Nat /\ ContextBudget \in Nat
      BY ConversationConstants
    <3> DEFINE x == SumOf(BlockCostsIn(turns, blocks))
    <3>2. x <= rest /\ x \in Nat
      BY <1>12, <2>9
    <3> HIDE DEF x
    <3>3. x <= ContextBudget - Cost[m] - Cardinality(memories) - spent /\ spent \in Nat
      BY <1>8, <1>12, <3>2
    <3>4. \A a, b, u, v, all \in Nat : u <= all - a - b - v => a + b + u + v <= all
      OBVIOUS
    <3>5. Cost[m] + Cardinality(memories) + x + spent <= ContextBudget
      BY <3>1, <3>2, <3>3, <3>4
    <3> QED
      BY <3>5 DEF x
  <2>11. \E l \in Nat : Lists(blocks \o told, From(Z, l))
    <3>1. CASE j = 0
      <4>1. blocks = <<>>
        BY <2>8, <3>1, EmptySeq
      <4>2. blocks \o told = told
        BY <1>18, <4>1
      <4> QED
        BY <1>17, <4>2 DEF Z
    <3>2. CASE j # 0
      <4> DEFINE b == Newest(cb, j)[1]
      <4>1. j \in 1..Len(cb)
        BY <2>6, <3>2
      <4>2. Lists(Newest(cb, j), From(X, b)) /\ b \in X
        <5>1. X \in SUBSET Nat
          BY <2>4
        <5> QED
          BY <2>3, <4>1, <5>1, StretchCut
      <4>3. b \in Nat
        BY <2>4, <4>2
      <4>4. \A y \in Y : b <= y
        <5>1. \A y \in Y : b < y /\ y \in Nat
          BY <2>4, <4>2
        <5> HIDE DEF b
        <5> QED
          BY <4>3, <5>1
      <4> HIDE DEF b
      <4>5. Lists(blocks \o told, From(X \cup Y, b))
        BY <2>4, <2>5, <2>7, <4>2, <4>3, <4>4, StretchJoined
      <4> QED
        BY <2>4, <4>3, <4>5
    <3> QED
      BY <3>1, <3>2
  <2>12. blocks \in Seq(BlocksUpTo(turns, n - 1)) /\ history \in Seq(AnsweredOf(turns, 1, n - 1))
    BY <1>11, <2>8 DEF S, Z
  <2>13. Cost[m] + Cardinality(memories) + SumOf(BlockCostsIn(turns, blocks))
          + SumOf(PairCostsIn(turns, history)) <= ContextBudget
    BY <1>12, <2>10
  <2>14. \E lo \in Nat : Lists(blocks \o Ascending(OfTurns(turns, ToSet(history))),
                              From(BlocksUpTo(turns, n - 1), lo))
    BY <2>11 DEF told, Z
  <2>15. Shown(turns, n, m, [history |-> history, blocks |-> blocks, memories |-> memories])
    <3>1. /\ blocks \in Seq(BlocksUpTo(turns, n - 1))
          /\ history \in Seq(AnsweredOf(turns, 1, n - 1))
      BY <2>12
    <3> QED
      BY <1>16, <2>13, <2>14, <3>1, ShownWhen, SMTT(30)
  <2> QED
    BY <1>3, <2>15
<1> QED
  BY <1>3, <1>19, <1>20

-----------------------------------------------------------------------------
(* What changes of the Turns leave of contexts and compaction.             *)

\* What every change of the Turns leaves: only the newest, not answered yet, is rewritten.
Extends(ts, next) ==
  /\ Len(ts) <= Len(next)
  /\ \A i \in 1..Len(ts) :
       /\ next[i].message = ts[i].message
       /\ (i < Len(ts) \/ ts[i].state = "succeeded") => next[i] = ts[i]

\* Turns that stay keep what is said, listed and charged of them.
LEMMA PastSame ==
  ASSUME NEW ts \in Seq(TurnRow), NEW next, Len(next) \in Nat, NEW hi \in 0..Len(ts), hi <= Len(next),
         \A i \in 1..hi : next[i] = ts[i]
  PROVE  /\ \A lo \in Nat : AnsweredOf(next, lo, hi) = AnsweredOf(ts, lo, hi)
         /\ \A S \in SUBSET (1..hi) : OfTurns(next, S) = OfTurns(ts, S)
         /\ AnsweredOf(ts, 1, hi) \in SUBSET (1..hi)
         /\ BlocksUpTo(next, hi) = BlocksUpTo(ts, hi)
         /\ PlainIn(next, hi) <=> PlainIn(ts, hi)
         /\ \A seq \in Seq(AnsweredOf(ts, 1, hi)) : PairCostsIn(next, seq) = PairCostsIn(ts, seq)
         /\ \A seq \in Seq(BlocksUpTo(ts, hi)) : BlockCostsIn(next, seq) = BlockCostsIn(ts, seq)
<1> DEFINE A == AnsweredOf(ts, 1, hi)
<1>1. Len(ts) \in Nat /\ hi \in Nat
  BY LenProperties
<1>2. ASSUME NEW lo \in Nat PROVE AnsweredOf(next, lo, hi) = AnsweredOf(ts, lo, hi)
  <2>1. \A i \in 1..Len(next) : i <= hi => i \in 1..hi /\ i \in 1..Len(ts)
    BY <1>1
  <2>2. \A i \in 1..Len(ts) : i <= hi => i \in 1..hi /\ i \in 1..Len(next)
    BY <1>1
  <2> QED
    BY <2>1, <2>2 DEF AnsweredOf
<1>3. A \in SUBSET (1..hi) /\ A \in SUBSET (1..Len(ts)) /\ AnsweredOf(next, 1, hi) = A
  BY <1>1, <1>2 DEF AnsweredOf
<1> HIDE DEF A
<1>4. ASSUME NEW S \in SUBSET (1..hi) PROVE OfTurns(next, S) = OfTurns(ts, S)
  BY DEF OfTurns
<1>5. BlocksUpTo(next, hi) = BlocksUpTo(ts, hi) /\ BlocksUpTo(ts, hi) = OfTurns(ts, A)
  BY <1>3, <1>4 DEF BlocksUpTo, A
<1>6. PlainIn(next, hi) <=> PlainIn(ts, hi)
  <2>1. \A i \in A : next[i] = ts[i]
    BY <1>3
  <2>2. PlainIn(ts, hi) <=> \A i \in A : \A k \in DOMAIN Blocks[ts[i].message] \ {1} : Blocks[ts[i].message][k].reads = 0
    BY DEF PlainIn, A
  <2>3. PlainIn(next, hi) <=> \A i \in A : \A k \in DOMAIN Blocks[next[i].message] \ {1} : Blocks[next[i].message][k].reads = 0
    BY <1>3 DEF PlainIn
  <2> QED
    BY <2>1, <2>2, <2>3
<1>7. ASSUME NEW seq \in Seq(A) PROVE PairCostsIn(next, seq) = PairCostsIn(ts, seq)
  <2>1. \A k \in 1..Len(seq) : seq[k] \in 1..hi
    BY <1>3, ElementOfSeq
  <2>2. \A k \in 1..Len(seq) : Cost[next[seq[k]].message] = Cost[ts[seq[k]].message]
    BY <2>1
  <2> QED
    BY <2>2 DEF PairCostsIn
<1>8. ASSUME NEW seq \in Seq(OfTurns(ts, A)) PROVE BlockCostsIn(next, seq) = BlockCostsIn(ts, seq)
  <2>1. ASSUME NEW k \in 1..Len(seq) PROVE RowIn(next, seq[k]) = RowIn(ts, seq[k])
    <3>1. seq[k] \in OfTurns(ts, A)
      BY ElementOfSeq
    <3>2. TurnOf(seq[k]) \in A
      BY <1>3, <3>1, OfTurnsFacts
    <3>3. next[TurnOf(seq[k])] = ts[TurnOf(seq[k])]
      BY <1>3, <3>2
    <3> QED
      BY <3>3 DEF RowIn
  <2> QED
    BY <2>1 DEF BlockCostsIn
<1> QED
  BY <1>2, <1>3, <1>4, <1>5, <1>6, <1>7, <1>8 DEF A

LEMMA ShownMove ==
  ASSUME NEW ts \in Seq(TurnRow), NEW next, Len(next) \in Nat, Len(ts) <= Len(next),
         NEW n \in 1..(Len(ts) + 1), \A i \in 1..(n - 1) : next[i] = ts[i],
         NEW m, NEW c, Shown(ts, n, m, c)
  PROVE  Shown(next, n, m, c)
<1> DEFINE hi == n - 1
           h == c.history
           b == c.blocks
<1>1. Len(ts) \in Nat /\ hi \in 0..Len(ts) /\ hi <= Len(next)
  BY LenProperties
<1> HIDE DEF hi
<1>2. \A i \in 1..hi : next[i] = ts[i]
  BY DEF hi
<1>3. /\ \A lo \in Nat : AnsweredOf(next, lo, hi) = AnsweredOf(ts, lo, hi)
      /\ \A S \in SUBSET (1..hi) : OfTurns(next, S) = OfTurns(ts, S)
      /\ AnsweredOf(ts, 1, hi) \in SUBSET (1..hi)
      /\ BlocksUpTo(next, hi) = BlocksUpTo(ts, hi)
      /\ \A seq \in Seq(AnsweredOf(ts, 1, hi)) : PairCostsIn(next, seq) = PairCostsIn(ts, seq)
      /\ \A seq \in Seq(BlocksUpTo(ts, hi)) : BlockCostsIn(next, seq) = BlockCostsIn(ts, seq)
  BY <1>1, <1>2, PastSame
<1>4. /\ \E lo \in Nat : Lists(h, AnsweredOf(ts, lo, hi))
      /\ h \in Seq(AnsweredOf(ts, 1, hi)) /\ b \in Seq(BlocksUpTo(ts, hi))
      /\ \E lo \in Nat : Lists(b \o Ascending(OfTurns(ts, ToSet(h))), From(BlocksUpTo(ts, hi), lo))
      /\ Cost[m] + Cardinality(c.memories) + SumOf(BlockCostsIn(ts, b)) + SumOf(PairCostsIn(ts, h)) <= ContextBudget
  BY DEF Shown, hi
<1> HIDE DEF h, b
<1>5. PairCostsIn(next, h) = PairCostsIn(ts, h) /\ BlockCostsIn(next, b) = BlockCostsIn(ts, b)
  BY <1>3, <1>4
<1>6. OfTurns(next, ToSet(h)) = OfTurns(ts, ToSet(h))
  <2>1. DOMAIN h = 1..Len(h) /\ \A k \in 1..Len(h) : h[k] \in AnsweredOf(ts, 1, hi)
    BY <1>4, LenProperties, ElementOfSeq
  <2>2. ToSet(h) \in SUBSET (1..hi)
    BY <1>3, <2>1 DEF ToSet
  <2> QED
    BY <1>3, <2>2
<1>7. /\ \E lo \in Nat : Lists(h, AnsweredOf(next, lo, hi))
      /\ h \in Seq(AnsweredOf(next, 1, hi)) /\ b \in Seq(BlocksUpTo(next, hi))
  BY <1>3, <1>4
<1>8. \E lo \in Nat : Lists(b \o Ascending(OfTurns(next, ToSet(h))), From(BlocksUpTo(next, hi), lo))
  BY <1>3, <1>4, <1>6
<1>9. Cost[m] + Cardinality(c.memories) + SumOf(BlockCostsIn(next, b)) + SumOf(PairCostsIn(next, h)) <= ContextBudget
  BY <1>4, <1>5
<1> QED
  BY <1>7, <1>8, <1>9 DEF Shown, hi, h, b

LEMMA SummaryMove ==
  ASSUME NEW ts \in Seq(TurnRow), NEW next, Len(next) \in Nat, Extends(ts, next),
         NEW cp, Summary(ts, cp)
  PROVE  Summary(next, cp)
<1> DEFINE hi == cp.end
<1>1. /\ hi \in 0..Len(ts) /\ hi \in 0..Len(next) /\ Len(ts) <= Len(next) /\ Len(ts) \in Nat /\ hi <= Len(next)
      /\ hi # 0 => ts[hi].state = "succeeded"
  BY LenProperties DEF Summary, Extends
<1>2. \A i \in 1..hi : i \in 1..Len(ts) /\ next[i] = ts[i]
  BY <1>1 DEF Extends
<1>3. hi # 0 => next[hi].state = "succeeded"
  <2>1. hi # 0 => hi \in 1..hi
    BY <1>1
  <2> QED
    BY <1>1, <1>2, <2>1
<1> HIDE DEF hi
<1>4. BlocksUpTo(next, hi) = BlocksUpTo(ts, hi) /\ (PlainIn(next, hi) <=> PlainIn(ts, hi))
  BY <1>1, <1>2, PastSame
<1> QED
  BY <1>1, <1>3, <1>4 DEF Summary, hi

-----------------------------------------------------------------------------
(* A refresh.                                                              *)

LEMMA Extremes ==
  ASSUME NEW n \in Nat, NEW S \in SUBSET (1..n), S # {}
  PROVE  /\ Min(S) \in S /\ (\A y \in S : Min(S) <= y)
         /\ Max(S) \in S /\ (\A y \in S : y <= Max(S))
<1>1. \E x \in S : \A y \in S : x <= y
  <2>1. S \subseteq Nat
    OBVIOUS
  <2> QED
    BY <2>1, LeastOf
<1>2. \E x \in S : \A y \in S : x >= y
  <2> DEFINE T == {n - y : y \in S}
  <2>1. T \subseteq Nat /\ T # {}
    <3>1. PICK y \in S : TRUE
      OBVIOUS
    <3>2. n - y \in T
      BY <3>1
    <3>3. ASSUME NEW d \in T PROVE d \in Nat
      <4>1. PICK x \in S : d = n - x
        BY <3>3
      <4>2. x \in Nat /\ x <= n
        BY <4>1
      <4> QED
        BY <4>1, <4>2
    <3> QED
      BY <3>2, <3>3
  <2>2. PICK d \in T : \A y \in T : d <= y
    <3> HIDE DEF T
    <3> QED
      BY <2>1, LeastOf
  <2>3. PICK x \in S : d = n - x
    OBVIOUS
  <2>4. \A y \in S : n - y \in T
    OBVIOUS
  <2> HIDE DEF T
  <2>5. ASSUME NEW y \in S PROVE x >= y
    <3>1. d <= n - y /\ x \in Nat /\ y \in Nat
      BY <2>2, <2>4
    <3> QED
      BY <2>3, <3>1
  <2> QED
    BY <2>5
<1>3. Min(S) = CHOOSE x \in S : \A y \in S : x <= y
  BY DEF Min
<1>4. Max(S) = CHOOSE x \in S : \A y \in S : x >= y
  BY DEF Max
<1> HIDE DEF Min, Max
<1>5. Min(S) \in S /\ \A y \in S : Min(S) <= y
  BY <1>1, <1>3
<1>6. Max(S) \in S /\ \A y \in S : Max(S) >= y
  BY <1>2, <1>4
<1> HIDE DEF Min, Max
<1>7. \A x, y \in S : x >= y => y <= x
  OBVIOUS
<1> QED
  BY <1>5, <1>6, <1>7

\* Something is always left.
LEMMA TrimmedFacts ==
  ASSUME NEW old, NEW whole, Len(old) \in Nat, Len(whole) \in Nat \ {0}
  PROVE  TrimmedTo(old, whole) \in 1..Len(whole)
<1> DEFINE C == Cuts(old, whole)
           fits == {k \in C : SumOf(Newest(BlockCosts(whole), k)) <= CompactionLimit}
<1>1. Len(whole) \in C /\ C \in SUBSET (1..Len(whole))
  BY DEF Cuts
<1>2. TrimmedTo(old, whole) = IF fits = {} THEN Min(C) ELSE Max(fits)
  BY DEF TrimmedTo
<1>3. fits \in SUBSET C /\ Len(whole) \in Nat
  OBVIOUS
<1> HIDE DEF C, fits
<1>4. Min(C) \in C
  BY <1>1, <1>3, Extremes
<1>5. fits # {} => Max(fits) \in fits
  <2>1. fits \in SUBSET (1..Len(whole))
    BY <1>1, <1>3
  <2> QED
    BY <1>3, <2>1, Extremes
<1> QED
  BY <1>1, <1>2, <1>3, <1>4, <1>5

\* Between two blocks of different Turns the later one begins.
LEMMA TurnBegins ==
  ASSUME NEW ts \in Seq(TurnRow), NEW e, NEW lo \in Nat, NEW whole, Lists(whole, From(BlocksUpTo(ts, e), lo)),
         NEW p \in 1..Len(whole), NEW q \in 1..Len(whole), p <= q, TurnOf(whole[p]) # TurnOf(whole[q])
  PROVE  \E r \in 1..Len(whole) : p < r /\ r <= q /\ PartOf(whole[r]) = 1
<1> DEFINE A == AnsweredOf(ts, 1, e)
           X == OfTurns(ts, A)
<1>1. Len(ts) \in Nat /\ A \in SUBSET (1..Len(ts)) /\ whole \in Seq(Nat) /\ Len(whole) \in Nat
  BY LenProperties DEF AnsweredOf, Lists
<1>2. Lists(whole, From(X, lo))
  BY DEF BlocksUpTo
<1> HIDE DEF A
<1>3. whole[p] \in X /\ whole[q] \in X /\ lo <= whole[p] /\ (p = q \/ whole[p] < whole[q]) /\ X \subseteq Nat
  <2>1. whole[p] \in From(X, lo) /\ whole[q] \in From(X, lo)
    BY <1>2 DEF Lists
  <2>2. p = q \/ whole[p] < whole[q]
    BY <1>1, <1>2 DEF Lists
  <2>3. X \subseteq Nat
    BY <1>1, OfTurnsFacts
  <2> QED
    BY <2>1, <2>2, <2>3 DEF From
<1>4. PICK u \in A, i \in 1..BlockBound : whole[p] = Block(u, i) /\ TurnOf(whole[p]) = u
  BY <1>1, <1>3, OfTurnsFacts
<1>5. PICK v \in A, j \in 1..BlockBound : whole[q] = Block(v, j) /\ TurnOf(whole[q]) = v
  BY <1>1, <1>3, OfTurnsFacts
<1>6. u \in Nat /\ v \in Nat /\ u # v /\ 1 \in 1..BlockBound /\ p # q
  <2>1. u \in Nat /\ v \in Nat
    BY <1>1
  <2>2. 1 \in 1..BlockBound
    BY ConversationConstants
  <2> QED
    BY <1>4, <1>5, <2>1, <2>2
<1>7. Block(v, 1) \in X /\ PartOf(Block(v, 1)) = 1 /\ Block(v, 1) \in Nat
  BY <1>1, <1>6, OfTurnsHas, BlockFacts
<1>8. u < v
  <2>1. Block(v, j) < Block(u, i) <=> v < u \/ (v = u /\ j < i)
    BY <1>6, BlockOrder
  <2>2. Block(u, i) < Block(v, j) /\ Block(u, i) \in Nat /\ Block(v, j) \in Nat
    BY <1>3, <1>4, <1>5, <1>6
  <2> QED
    BY <1>6, <2>1, <2>2
<1>9. whole[p] < Block(v, 1)
  BY <1>4, <1>6, <1>8, BlockOrder
<1>10. ~(whole[q] < Block(v, 1))
  <2>1. Block(v, j) < Block(v, 1) <=> v < v \/ (v = v /\ j < 1)
    BY <1>6, BlockOrder
  <2>2. ~(j < 1) /\ ~(v < v)
    BY <1>6, ConversationConstants
  <2> QED
    BY <1>5, <2>1, <2>2
<1> HIDE DEF X
<1>11. Block(v, 1) \in From(X, lo)
  <2>1. lo <= Block(v, 1)
    <3>1. \A a, b, c \in Nat : a <= b /\ b < c => a <= c
      OBVIOUS
    <3>2. whole[p] \in Nat /\ whole[p] < Block(v, 1) /\ Block(v, 1) \in Nat /\ lo <= whole[p]
      BY <1>3, <1>7, <1>9
    <3> QED
      BY <3>1, <3>2
  <2> QED
    BY <1>7, <2>1 DEF From
<1>12. PICK r \in 1..Len(whole) : whole[r] = Block(v, 1)
  BY <1>2, <1>11 DEF Lists
<1>13. p < r
  <2>1. r < p => whole[r] < whole[p]
    BY <1>2 DEF Lists
  <2>2. whole[p] \in Nat /\ whole[r] \in Nat
    BY <1>3, <1>7, <1>12
  <2> QED
    BY <1>1, <1>9, <1>12, <2>1, <2>2
<1>14. r <= q
  <2>1. q < r => whole[q] < whole[r]
    BY <1>2 DEF Lists
  <2> QED
    BY <1>1, <1>10, <1>12, <2>1
<1> QED
  BY <1>7, <1>12, <1>13, <1>14

\* Unless a message looks like a heading, the start follows the front.
LEMMA StartFollows ==
  ASSUME turns \in Seq(TurnRow), NEW e, NEW lo \in Nat, NEW whole, Lists(whole, From(BlocksUpTo(turns, e), lo)),
         PlainIn(turns, e), NEW k \in 1..Len(whole), NEW old, Len(old) \in Nat
  PROVE  StartAfter(old, whole, k, TurnOf(whole[1])) = TurnOf(whole[Len(whole) - k + 1])
<1> DEFINE W == Len(whole)
           at(j) == whole[W - j + 1]
           A == AnsweredOf(turns, 1, e)
           X == OfTurns(turns, A)
           H == {j \in Cuts(old, whole) : k <= j /\ j < W /\ Reads(at(j)) # 0}
           G == {j \in 1..W : k <= j /\ j < W /\ PartOf(at(j)) = 1}
<1>1. Len(turns) \in Nat /\ A \in SUBSET (1..Len(turns)) /\ whole \in Seq(Nat) /\ W \in Nat
  BY LenProperties DEF AnsweredOf, Lists
<1>2. ASSUME NEW p \in 1..W
      PROVE  TurnOf(whole[p]) \in Nat \ {0} /\ Reads(whole[p]) = IF PartOf(whole[p]) = 1 THEN TurnOf(whole[p]) ELSE 0
  <2> DEFINE b == whole[p]
             i == TurnOf(b)
  <2>1. b \in X
    <3>1. b \in From(BlocksUpTo(turns, e), lo)
      BY DEF Lists
    <3> QED
      BY <3>1 DEF From, BlocksUpTo
  <2> HIDE DEF b, A
  <2>2. i \in A /\ PartOf(b) \in DOMAIN Blocks[turns[i].message]
    BY <1>1, <2>1, OfTurnsFacts
  <2>3. PartOf(b) # 1 => BlockRow(b).reads = 0
    BY <2>2 DEF PlainIn, BlockRow, A
  <2>4. i \in Nat \ {0}
    <3>1. i \in 1..Len(turns)
      BY <1>1, <2>2
    <3> HIDE DEF i
    <3> QED
      BY <1>1, <3>1
  <2>5. Reads(b) = IF PartOf(b) = 1 THEN i ELSE 0
    BY <2>3 DEF Reads
  <2> QED
    BY <2>4, <2>5 DEF b
<1>3. ASSUME NEW j \in 1..W PROVE W - j + 1 \in 1..W
  BY <1>1
<1>4. H = G
  <2>1. ASSUME NEW j \in H PROVE j \in G
    <3>1. j \in 1..W
      BY DEF Cuts
    <3>2. PartOf(at(j)) = 1
      BY <1>2, <1>3, <3>1
    <3> QED
      BY <3>1, <3>2
  <2>2. ASSUME NEW j \in G PROVE j \in H
    <3>1. W - j + 1 \in 1..W
      BY <1>3
    <3>2. Reads(at(j)) # 0
      BY <1>2, <3>1
    <3>3. j \in Cuts(old, whole)
      BY DEF Cuts
    <3> QED
      BY <3>2, <3>3
  <2> HIDE DEF H, G
  <2> QED
    BY <2>1, <2>2
<1>5. StartAfter(old, whole, k, TurnOf(whole[1])) = IF H = {} THEN TurnOf(whole[1]) ELSE Reads(at(Min(H)))
  BY DEF StartAfter
<1> HIDE DEF H
<1>6. ASSUME NEW p \in 1..W, p <= W - k + 1, TurnOf(whole[p]) # TurnOf(at(k))
      PROVE  \E j \in G : j < W - p + 1
  <2>1. W - k + 1 \in 1..W
    BY <1>3
  <2>2. PICK r \in 1..W : p < r /\ r <= W - k + 1 /\ PartOf(whole[r]) = 1
    BY <1>6, <2>1, TurnBegins
  <2> DEFINE w == W
  <2>3. w \in Nat /\ r \in 1..w /\ p \in 1..w /\ p < r /\ r <= w - k + 1 /\ k \in 1..w
    BY <1>1, <1>6, <2>2
  <2> HIDE DEF w
  <2>4. w - r + 1 \in 1..w /\ k <= w - r + 1 /\ w - r + 1 < w /\ w - (w - r + 1) + 1 = r /\ w - r + 1 < w - p + 1
    BY <2>3
  <2>5. PartOf(at(W - r + 1)) = 1 /\ W - r + 1 \in 1..W /\ k <= W - r + 1 /\ W - r + 1 < W
    BY <2>2, <2>4 DEF w
  <2>6. W - r + 1 \in G
    BY <2>5
  <2> HIDE DEF G
  <2> QED
    BY <2>4, <2>6 DEF w
<1>7. CASE H = {}
  <2>1. 1 \in 1..W /\ 1 <= W - k + 1
    BY <1>1
  <2>2. TurnOf(whole[1]) = TurnOf(at(k))
    BY <1>4, <1>6, <1>7, <2>1
  <2> QED
    BY <1>5, <1>7, <2>2
<1>8. CASE H # {}
  <2> DEFINE h == Min(H)
  <2>1. h \in G /\ \A j \in G : h <= j
    <3>1. H \in SUBSET (1..W)
      BY <1>4
    <3> HIDE DEF G
    <3> QED
      BY <1>1, <1>4, <1>8, <3>1, Extremes
  <2> HIDE DEF h
  <2>2. h \in 1..W /\ k <= h /\ PartOf(at(h)) = 1 /\ W - h + 1 \in 1..W /\ W - h + 1 <= W - k + 1 /\ W - (W - h + 1) + 1 = h
    BY <1>1, <2>1
  <2>3. Reads(at(h)) = TurnOf(at(h))
    BY <1>2, <2>2
  <2>4. ~\E j \in G : j < h
    BY <2>1
  <2>5. TurnOf(at(h)) = TurnOf(at(k))
    <3> HIDE DEF G
    <3> QED
      BY <1>6, <2>2, <2>4
  <2> QED
    BY <1>5, <1>8, <2>3, <2>5 DEF h
<1> QED
  BY <1>7, <1>8
LEMMA TrimmedStretch ==
  ASSUME turns \in Seq(TurnRow), NEW e \in 1..Len(turns), turns[e].state = "succeeded",
         NEW lo \in Nat, NEW old, Len(old) \in Nat,
         NEW whole, Lists(whole, From(BlocksUpTo(turns, e), lo)), Len(whole) # 0,
         NEW k \in 1..Len(whole)
  PROVE  /\ Newest(whole, k) # <<>> /\ \E low \in Nat : Lists(Newest(whole, k), From(BlocksUpTo(turns, e), low))
         /\ PlainIn(turns, e) => StartAfter(old, whole, k, TurnOf(whole[1])) = TurnOf(Newest(whole, k)[1])
<1> DEFINE kept == Newest(whole, k)
           U == BlocksUpTo(turns, e)
<1>1. Len(whole) \in Nat \ {0}
  BY LenProperties DEF Lists
<1>2. k \in 1..Len(whole)
  OBVIOUS
<1>3. U \in SUBSET Nat
  <2>1. e \in Nat
    BY LenProperties
  <2> QED
    BY <2>1, UpToFacts
<1>4. PlainIn(turns, e) => StartAfter(old, whole, k, TurnOf(whole[1])) = TurnOf(whole[Len(whole) - k + 1])
  BY <1>2, StartFollows
<1>4a. Lists(whole, From(U, lo))
  OBVIOUS
<1> HIDE DEF U, kept
<1>5. /\ kept[1] = whole[Len(whole) - k + 1] /\ kept[1] \in U /\ Len(kept) = k
      /\ Lists(kept, From(U, kept[1]))
  BY <1>2, <1>3, <1>4a, StretchCut DEF kept
<1>6. kept # <<>>
  <2>1. k # 0
    BY <1>1, <1>2
  <2>2. Len(<<>>) = 0
    OBVIOUS
  <2> QED
    BY <1>5, <2>1, <2>2
<1>7. PlainIn(turns, e) => StartAfter(old, whole, k, TurnOf(whole[1])) = TurnOf(kept[1])
  BY <1>4, <1>5
<1>8. \E low \in Nat : Lists(kept, From(U, low))
  BY <1>3, <1>5
<1> QED
  BY <1>6, <1>7, <1>8 DEF U, kept

\* A Turn's blocks are read in order, and the first of them is its first.
LEMMA FirstOfBatch ==
  ASSUME turns \in Seq(TurnRow), NEW batch, NEW S \in SUBSET (1..Len(turns)), Lists(batch, S), Len(batch) # 0,
         NEW new, Lists(new, OfTurns(turns, S))
  PROVE  Len(new) \in Nat \ {0} /\ TurnOf(new[1]) = batch[1] /\ batch[1] \in S
<1>1. /\ batch \in Seq(Nat) /\ Len(batch) \in Nat \ {0} /\ new \in Seq(Nat) /\ Len(new) \in Nat /\ Len(turns) \in Nat
      /\ BlockBound \in Nat \ {0}
  BY LenProperties, ConversationConstants DEF Lists
<1> DEFINE f == batch[1]
<1>2. f \in S /\ f \in Nat /\ \A j \in S : f <= j
  <2>1. 1 \in 1..Len(batch)
    BY <1>1
  <2>2. f \in S /\ f \in Nat
    BY <1>1, <2>1 DEF Lists
  <2>3. ASSUME NEW j \in S PROVE f <= j
    <3>1. PICK p \in 1..Len(batch) : batch[p] = j
      BY DEF Lists
    <3>2. 1 < p => f < batch[p]
      BY <2>1 DEF Lists
    <3>3. p = 1 \/ 1 < p
      BY <1>1
    <3>4. j \in Nat
      BY <1>1
    <3>5. p = 1 => j = f
      BY <3>1
    <3> HIDE DEF f
    <3> QED
      BY <2>2, <3>1, <3>2, <3>3, <3>4, <3>5
  <2> QED
    BY <2>2, <2>3
<1> HIDE DEF f
<1>3. Block(f, 1) \in OfTurns(turns, S) /\ 1 \in 1..BlockBound
  BY <1>2, OfTurnsHas
<1>4. PICK p \in 1..Len(new) : new[p] = Block(f, 1)
  BY <1>3 DEF Lists
<1>5. Len(new) \in Nat \ {0} /\ 1 \in 1..Len(new)
  BY <1>1, <1>4
<1>6. new[1] \in OfTurns(turns, S)
  BY <1>5 DEF Lists
<1>7. PICK i \in S, q \in 1..BlockBound : new[1] = Block(i, q) /\ TurnOf(new[1]) = i
  BY <1>6, OfTurnsFacts
<1>8. i \in Nat /\ f <= i
  BY <1>1, <1>2
<1>9. ~(f < i)
  <2> SUFFICES ASSUME f < i PROVE FALSE
    OBVIOUS
  <2>1. Block(f, 1) < Block(i, q)
    BY <1>2, <1>3, <1>8, BlockOrder
  <2>2. 1 < p => new[1] < new[p]
    BY <1>5 DEF Lists
  <2>3. Block(f, 1) \in Nat /\ Block(i, q) \in Nat
    BY <1>2, <1>3, <1>8, BlockFacts
  <2>4. p = 1 => new[1] = new[p]
    OBVIOUS
  <2>5. p = 1 \/ 1 < p
    BY <1>1
  <2>6. \A a, b \in Nat : ~(a < b /\ (a = b \/ b < a))
    OBVIOUS
  <2> QED
    BY <1>4, <1>7, <2>1, <2>2, <2>3, <2>4, <2>5, <2>6
<1>10. f = i
  BY <1>2, <1>8, <1>9
<1> QED
  BY <1>2, <1>5, <1>7, <1>10 DEF f

\* A refresh covers the next answered Turns and says what it still holds.
LEMMA RefreshSummarises ==
  ASSUME TalkInv, Summary(turns, compaction), RefreshCompaction
  PROVE  Summary(turns, compaction')
<1> DEFINE answered == Ascending(AnsweredIn(1, Len(turns)))
           cutoff == answered[Len(answered) - RecentPairs]
           c0 == compaction.end
           fresh == Ascending(AnsweredIn(c0 + 1, cutoff))
           batch == IF Len(fresh) > CompactionBatch THEN SubSeq(fresh, 1, CompactionBatch) ELSE fresh
           old == compaction.blocks
           new == BlocksOf(ToSet(batch))
           whole == old \o new
           k == TrimmedTo(old, whole)
           was == IF compaction.version = 0 THEN batch[1] ELSE compaction.start
           begin == StartAfter(old, whole, k, was)
           e == CoveredTo(batch, cutoff)
           kept == Newest(whole, k)
           over == SumOf(Newest(BlockCosts(whole), k)) > CompactionRoom
<1>1. turns \in Seq(TurnRow) /\ Len(turns) \in Nat
  BY LenProperties DEF TalkInv, Told
<1>2. compaction' = IF Len(answered) <= RecentPairs \/ fresh = <<>> \/ begin \notin 1..e \/ over
                    THEN compaction
                    ELSE [version |-> compaction.version + 1, start |-> begin, end |-> e, blocks |-> kept]
  BY DEF RefreshCompaction
<1>3. /\ compaction.version \in Nat /\ c0 \in Nat /\ c0 \in 0..Len(turns)
      /\ compaction.version = 0 => c0 = 0 /\ old = <<>>
      /\ compaction.version # 0 => old # <<>> /\ (PlainIn(turns, c0) => compaction.start = TurnOf(old[1]))
  BY <1>1 DEF Summary
<1>3a. PICK lo \in Nat : Lists(old, From(BlocksUpTo(turns, c0), lo))
  BY DEF Summary
<1> HIDE DEF over
<1> SUFFICES ASSUME ~(Len(answered) <= RecentPairs), fresh # <<>>, begin \in 1..e
             PROVE  Summary(turns, [version |-> compaction.version + 1, start |-> begin, end |-> e, blocks |-> kept])
  BY <1>2
<1>4. cutoff \in 1..Len(turns)
  <2>1. AnsweredIn(1, Len(turns)) \subseteq 1..Len(turns)
    BY <1>1, AnsweredSame DEF AnsweredOf
  <2>2. Lists(answered, AnsweredIn(1, Len(turns)))
    BY <1>1, <2>1, AscendingLists
  <2> HIDE DEF answered
  <2>3. Len(answered) \in Nat
    BY <2>2, LenProperties DEF Lists
  <2>4. Len(answered) - RecentPairs \in 1..Len(answered)
    BY <2>3, ConversationConstants
  <2> QED
    BY <2>1, <2>2, <2>4 DEF Lists
<1> HIDE DEF cutoff, answered
<1>5. /\ AnsweredIn(c0 + 1, cutoff) = AnsweredOf(turns, c0 + 1, cutoff)
      /\ AnsweredOf(turns, c0 + 1, cutoff) \subseteq 1..Len(turns)
  BY <1>1, AnsweredSame DEF AnsweredOf
<1>6. Lists(fresh, AnsweredOf(turns, c0 + 1, cutoff))
  BY <1>1, <1>5, AscendingLists
<1> HIDE DEF fresh, c0
<1>7. fresh \in Seq(Nat) /\ Len(fresh) \in Nat \ {0}
  BY <1>6, LenProperties, EmptySeq DEF Lists
<1>8. PICK b \in 1..Len(fresh) : batch = SubSeq(fresh, 1, b)
  <2>1. CASE Len(fresh) > CompactionBatch
    <3>1. CompactionBatch \in 1..Len(fresh)
      BY <1>7, <2>1, ConversationConstants
    <3> QED
      BY <2>1, <3>1
  <2>2. CASE ~(Len(fresh) > CompactionBatch)
    <3>1. Len(fresh) \in 1..Len(fresh) /\ Len(fresh) \in 0..Len(fresh)
      BY <1>7
    <3>2. SubSeq(fresh, 1, Len(fresh)) = fresh
      BY <1>7, <3>1, OldestFacts, SeqEqual
    <3> QED
      BY <2>2, <3>1, <3>2
  <2> QED
    BY <2>1, <2>2
<1> HIDE DEF batch
<1>9. Len(batch) = b /\ b \in 1..b /\ batch[b] = fresh[b] /\ batch \in Seq(Nat) /\ b # 0
  <2>1. b \in 0..Len(fresh) /\ b \in 1..b /\ b # 0
    BY <1>7
  <2> QED
    BY <1>7, <1>8, <2>1, OldestFacts
<1>10. e = fresh[b] /\ e \in AnsweredOf(turns, c0 + 1, cutoff)
  BY <1>6, <1>9 DEF CoveredTo, Lists
<1> HIDE DEF e
<1>11. e \in 1..Len(turns) /\ turns[e].state = "succeeded" /\ c0 + 1 <= e /\ e <= cutoff /\ c0 <= e /\ e \in Nat
  <2>1. e \in 1..Len(turns) /\ turns[e].state = "succeeded" /\ c0 + 1 <= e /\ e <= cutoff
    BY <1>10 DEF AnsweredOf
  <2>2. e \in Nat /\ c0 <= e
    BY <1>1, <1>3, <2>1
  <2> QED
    BY <2>1, <2>2
<1> DEFINE B == AnsweredOf(turns, c0 + 1, e)
           A == BlocksUpTo(turns, c0)
           U == BlocksUpTo(turns, e)
           F == OfTurns(turns, B)
<1>12. Lists(batch, B)
  <2>1. Lists(batch, {i \in AnsweredOf(turns, c0 + 1, cutoff) : i <= e})
    BY <1>6, <1>8, <1>10, ListsOldest
  <2>2. {i \in AnsweredOf(turns, c0 + 1, cutoff) : i <= e} = AnsweredOf(turns, c0 + 1, e)
    BY <1>3, <1>4, <1>11 DEF AnsweredOf
  <2> QED
    BY <2>1, <2>2
<1>13. /\ B \in SUBSET (1..Len(turns)) /\ A \in SUBSET Nat /\ F \in SUBSET Nat /\ A \cup F = U
       /\ \A x \in A, y \in F : x < y
  BY <1>1, <1>3, <1>11, UpToFacts
<1>14. new = Ascending(F)
  BY <1>12, ListsSet, CostsNow
<1>15. Lists(new, F)
  BY <1>1, <1>13, <1>14, BlocksListed
<1>16. Len(new) \in Nat \ {0} /\ TurnOf(new[1]) = batch[1] /\ new \in Seq(Nat)
  <2>1. new \in Seq(Nat)
    BY <1>15 DEF Lists
  <2>2. Len(batch) # 0
    BY <1>9
  <2> HIDE DEF B, new
  <2> QED
    BY <1>1, <1>12, <1>13, <1>15, <2>1, <2>2, FirstOfBatch
<1>17. old \in Seq(Nat) /\ Len(old) \in Nat /\ \A j \in 1..Len(old) : old[j] \in A /\ lo <= old[j]
  BY <1>3a, LenProperties DEF Lists, From
<1> HIDE DEF new
<1>18. /\ Len(whole) \in Nat \ {0}
       /\ whole[1] = IF old = <<>> THEN new[1] ELSE old[1]
  <2>1. Len(whole) = Len(old) + Len(new) /\ \A j \in 1..Len(whole) : whole[j] = IF j <= Len(old) THEN old[j] ELSE new[j - Len(old)]
    BY <1>16, <1>17, ConcatProperties
  <2>2. old = <<>> <=> Len(old) = 0
    BY <1>17, EmptySeq
  <2>3. 1 \in 1..Len(whole) /\ Len(whole) \in Nat \ {0} /\ (Len(old) # 0 => 1 <= Len(old))
    BY <1>16, <1>17, <2>1
  <2>4. Len(old) = 0 => whole[1] = new[1]
    <3> SUFFICES ASSUME Len(old) = 0 PROVE whole[1] = new[1]
      OBVIOUS
    <3>1. whole[1] = IF 1 <= 0 THEN old[1] ELSE new[1 - 0]
      BY <2>1, <2>3
    <3> QED
      BY <3>1
  <2> HIDE DEF whole
  <2> QED
    BY <2>1, <2>2, <2>3, <2>4
<1> HIDE DEF A, F, U, B
<1>19. \E low \in Nat : Lists(whole, From(U, low))
  <2>1. CASE old = <<>>
    <3>1. A = {} \/ \A x \in A : x < lo
      <4>1. \A x \in A : ~(lo <= x)
        BY <1>3a, <2>1 DEF Lists, From, A
      <4> QED
        BY <1>13, <4>1
    <3>2. PICK f \in F : \A y \in F : f <= y
      <4>1. F # {} /\ F \subseteq Nat
        BY <1>13, <1>15, <1>16 DEF Lists
      <4> QED
        BY <4>1, LeastOf
    <3>3. f \in Nat
      BY <1>13
    <3>4. From(U, f) = F
      <4>1. ASSUME NEW x \in U, f <= x PROVE x \in F
        <5>1. x \in A => x < f /\ x \in Nat
          BY <1>13
        <5> QED
          BY <1>13, <3>3, <4>1, <5>1
      <4>2. \A x \in F : x \in U /\ f <= x
        BY <1>13, <3>2
      <4> QED
        BY <4>1, <4>2 DEF From
    <3>5. whole = new
      BY <1>16, <2>1, ConcatProperties, SeqEqual
    <3> QED
      BY <1>15, <3>3, <3>4, <3>5
  <2>2. CASE old # <<>>
    <3>1. Len(old) # 0
      BY <1>17, <2>2, EmptySeq
    <3>2. 1 \in 1..Len(old)
      BY <1>17, <3>1
    <3>3. old[1] \in A /\ lo <= old[1]
      BY <1>17, <3>2
    <3>4. \A y \in F : lo <= y
      <4>1. \A y \in F : old[1] < y /\ y \in Nat /\ old[1] \in Nat
        BY <1>13, <3>3
      <4>2. \A a, b1, c \in Nat : a <= b1 /\ b1 < c => a <= c
        OBVIOUS
      <4> QED
        BY <3>3, <4>1, <4>2
    <3>5. Lists(old, From(A, lo))
      BY <1>3a DEF A
    <3>6. Lists(whole, From(A \cup F, lo))
      BY <1>13, <1>15, <3>4, <3>5, StretchJoined
    <3> QED
      BY <1>13, <3>6
  <2> QED
    BY <2>1, <2>2
<1>20. PlainIn(turns, e) => was = TurnOf(whole[1])
  <2>1. PlainIn(turns, e) => PlainIn(turns, c0)
    <3>1. AnsweredOf(turns, 1, c0) \subseteq AnsweredOf(turns, 1, e)
      BY <1>1, <1>3, <1>11 DEF AnsweredOf
    <3> QED
      BY <3>1 DEF PlainIn
  <2> HIDE DEF whole, old
  <2>2. compaction.version = 0 => whole[1] = new[1]
    BY <1>3, <1>18
  <2>3. compaction.version # 0 => whole[1] = old[1]
    BY <1>3, <1>18
  <2> QED
    BY <1>3, <1>16, <2>1, <2>2, <2>3
<1> HIDE DEF whole, old
<1>21. PICK low \in Nat : Lists(whole, From(U, low))
  BY <1>19
<1>22. /\ kept # <<>> /\ \E down \in Nat : Lists(kept, From(U, down))
       /\ PlainIn(turns, e) => StartAfter(old, whole, k, TurnOf(whole[1])) = TurnOf(kept[1])
  <2> DEFINE n == k
  <2>1. n \in 1..Len(whole)
    BY <1>17, <1>18, TrimmedFacts
  <2>2. Lists(whole, From(BlocksUpTo(turns, e), low)) /\ Len(whole) # 0 /\ Len(old) \in Nat
    BY <1>17, <1>18, <1>21 DEF U
  <2> HIDE DEF n
  <2>3. /\ Newest(whole, n) # <<>> /\ \E down \in Nat : Lists(Newest(whole, n), From(BlocksUpTo(turns, e), down))
        /\ PlainIn(turns, e) => StartAfter(old, whole, n, TurnOf(whole[1])) = TurnOf(Newest(whole, n)[1])
    BY <1>1, <1>11, <2>1, <2>2, TrimmedStretch
  <2> QED
    BY <2>3 DEF U, n
<1>23. PlainIn(turns, e) => begin = TurnOf(kept[1])
  BY <1>20, <1>22
<1> HIDE DEF begin, kept
<1>24. e \in 0..Len(turns) /\ compaction.version + 1 \in Nat /\ compaction.version + 1 # 0
  BY <1>1, <1>3, <1>11
<1> QED
  BY <1>11, <1>22, <1>23, <1>24 DEF Summary, U
-----------------------------------------------------------------------------
(* The inductive invariant of contexts and compaction.                     *)

\* The context of every Run of a Turn, as it was assembled for its message.
Contexts(ts, rs) ==
  \A r \in 1..Len(rs) :
    rs[r].turn # 0 => Shown(ts, rs[r].turn, ts[rs[r].turn].message, rs[r].context)

FaithfulInv == Summary(turns, compaction) /\ Contexts(turns, runs)

\* What every change of the Runs leaves: contexts are written once.
Recalls(rs, next) ==
  /\ Len(rs) <= Len(next)
  /\ \A r \in 1..Len(rs) : next[r].turn = rs[r].turn /\ next[r].context = rs[r].context

LEMMA ContextsMove ==
  ASSUME NEW ts, NEW next, NEW rs, NEW later, NEW rps, Told(ts, rps, rs), Len(next) \in Nat, Len(later) \in Nat,
         Extends(ts, next), Recalls(rs, later), Contexts(ts, rs),
         \A r \in 1..Len(later) : r > Len(rs) /\ later[r].turn # 0 =>
            Shown(next, later[r].turn, next[later[r].turn].message, later[r].context)
  PROVE  Contexts(next, later)
<1>1. ts \in Seq(TurnRow) /\ Len(ts) \in Nat /\ Len(rs) \in Nat /\ \A r \in 1..Len(rs) : rs[r].turn \in 0..Len(ts)
  <2>1. ts \in Seq(TurnRow) /\ Len(ts) \in Nat /\ Len(rs) \in Nat
    BY LenProperties, TableFacts DEF Told
  <2>2. ASSUME NEW r \in 1..Len(rs) PROVE rs[r].turn \in 0..Len(ts)
    <3>1. rs[r].turn \in Nat /\ rs[r].turn <= Len(ts)
      BY TableFacts DEF Told
    <3> QED
      BY <2>1, <3>1
  <2> QED
    BY <2>1, <2>2
<1> SUFFICES ASSUME NEW r \in 1..Len(later), later[r].turn # 0
             PROVE  Shown(next, later[r].turn, next[later[r].turn].message, later[r].context)
  BY DEF Contexts
<1>2. CASE r > Len(rs)
  BY <1>2
<1>3. CASE r <= Len(rs)
  <2> DEFINE n == rs[r].turn
             c == rs[r].context
  <2>1. r \in 1..Len(rs) /\ later[r].turn = n /\ later[r].context = c
    BY <1>1, <1>3 DEF Recalls
  <2>2. n \in 1..Len(ts) /\ n \in 1..(Len(ts) + 1) /\ Shown(ts, n, ts[n].message, c)
    BY <1>1, <2>1 DEF Contexts
  <2> HIDE DEF n, c
  <2>3. next[n].message = ts[n].message /\ Len(ts) <= Len(next) /\ \A i \in 1..(n - 1) : next[i] = ts[i]
    BY <1>1, <2>2 DEF Extends
  <2>4. Shown(next, n, ts[n].message, c)
    BY <1>1, <2>2, <2>3, ShownMove
  <2> QED
    BY <2>1, <2>3, <2>4
<1> QED
  BY <1>1, <1>2, <1>3

\* Nothing new is assembled.
LEMMA FaithfulMove ==
  ASSUME TalkInv, TalkInv', FaithfulInv, Extends(turns, turns'), Recalls(runs, runs'),
         \A r \in 1..Len(runs') : r > Len(runs) => runs'[r].turn = 0,
         UNCHANGED compaction
  PROVE  FaithfulInv'
<1>1. /\ Told(turns, replies, runs) /\ turns \in Seq(TurnRow)
      /\ Len(turns) \in Nat /\ Len(turns') \in Nat /\ Len(runs') \in Nat
  BY LenProperties, TableFacts DEF TalkInv, Told
<1>2. Contexts(turns', runs')
  BY <1>1, ContextsMove DEF FaithfulInv
<1>3. Summary(turns', compaction)
  BY <1>1, SummaryMove DEF FaithfulInv
<1> QED
  BY <1>2, <1>3 DEF FaithfulInv

LEMMA NothingExtends ==
  ASSUME TalkInv
  PROVE  Extends(turns, turns) /\ Recalls(runs, runs) /\ \A r \in 1..Len(runs) : ~(r > Len(runs))
<1>1. Len(turns) \in Nat /\ Len(runs) \in Nat
  BY LenProperties, TableFacts DEF TalkInv, Told
<1> QED
  BY <1>1 DEF Extends, Recalls

\* The message is asked with what was said before it.
LEMMA SendShows ==
  ASSUME TalkInv, FaithfulInv, NEW m \in ClientMessage, NEW memories, SendMessage(m, memories),
         Cardinality(memories) \in Nat, Cardinality(memories) <= ContextBudget - Cost[m]
  PROVE  FaithfulInv'
<1> DEFINE n == Len(turns) + 1
           row == [message |-> m, state |-> "running", authority |-> 0]
           x == NewRun(n, m, memories)
<1>1. /\ Told(turns, replies, runs) /\ turns \in Seq(TurnRow) /\ RunTable(runs)
      /\ Len(turns) \in Nat /\ Len(runs) \in Nat
  BY LenProperties, TableFacts DEF TalkInv, Told
<1>2. turns' = Append(turns, row) /\ runs' = Append(runs, x) /\ compaction' = compaction
  BY DEF SendMessage
<1>3. x.turn = n /\ x.context = Assemble(n, m, memories) /\ RunRow(x)
  BY <1>1, NewRunFits DEF NewRun
<1>4. n \in 1..(Len(turns) + 1)
  BY <1>1
<1>5. Shown(turns, n, m, x.context)
  BY <1>3, <1>4, AssembleShows DEF FaithfulInv
<1> HIDE DEF x
<1>6. row \in TurnRow /\ row.message = m
  BY DEF TurnRow, TurnState, ActiveTurn
<1> HIDE DEF row
<1>7. Len(turns') = n /\ turns'[n] = row /\ \A i \in 1..Len(turns) : turns'[i] = turns[i]
  BY <1>1, <1>2, <1>6, AppendProperties
<1>8. Len(runs') = Len(runs) + 1 /\ runs'[Len(runs) + 1] = x /\ \A r \in 1..Len(runs) : runs'[r] = runs[r]
  BY <1>1, <1>2, <1>3, TableAppend
<1>9. Extends(turns, turns') /\ Recalls(runs, runs')
  BY <1>1, <1>7, <1>8 DEF Extends, Recalls
<1>10. Shown(turns', n, m, x.context)
  <2>1. \A i \in 1..(n - 1) : turns'[i] = turns[i]
    BY <1>1, <1>7
  <2>2. Len(turns) \in Nat /\ Len(turns') \in Nat /\ Len(turns) <= Len(turns') /\ n \in 1..(Len(turns) + 1)
    BY <1>1, <1>4, <1>7
  <2> HIDE DEF n
  <2> QED
    BY <1>1, <1>5, <2>1, <2>2, ShownMove
<1>11. ASSUME NEW r \in 1..Len(runs'), r > Len(runs)
       PROVE  Shown(turns', runs'[r].turn, turns'[runs'[r].turn].message, runs'[r].context)
  <2>1. runs'[r] = x
    BY <1>1, <1>8, <1>11
  <2> QED
    BY <1>3, <1>6, <1>7, <1>10, <2>1
<1>12. Contexts(turns', runs')
  BY <1>1, <1>7, <1>8, <1>9, <1>11, ContextsMove DEF FaithfulInv
<1>13. Summary(turns', compaction)
  BY <1>1, <1>7, <1>9, SummaryMove DEF FaithfulInv
<1> QED
  BY <1>2, <1>12, <1>13 DEF FaithfulInv

\* The newest Turn is asked again with what was said before it.
LEMMA RetryShows ==
  ASSUME TalkInv, FaithfulInv, NEW i, NEW memories, RetryTurn(i, memories),
         Cardinality(memories) \in Nat, Cardinality(memories) <= ContextBudget - Cost[turns[i].message]
  PROVE  FaithfulInv'
<1> DEFINE m == turns[i].message
           row == [turns[i] EXCEPT !.state = "running"]
           x == NewRun(i, m, memories)
<1>1. /\ Told(turns, replies, runs) /\ turns \in Seq(TurnRow) /\ RunTable(runs)
      /\ Len(turns) \in Nat /\ Len(runs) \in Nat
  BY LenProperties, TableFacts DEF TalkInv, Told
<1>2. turns' = [turns EXCEPT ![i] = row] /\ runs' = Append(runs, x) /\ compaction' = compaction
  BY DEF RetryTurn
<1>3. i \in 1..Len(turns) /\ i = Len(turns) /\ turns[i].state # "succeeded" /\ i \in 1..(Len(turns) + 1)
  BY <1>1, LenProperties DEF RetryTurn, Retryable
<1>4. turns[i] \in TurnRow /\ m \in ClientMessage
  <2>1. turns[i] \in TurnRow
    BY <1>1, <1>3, ElementOfSeq
  <2> QED
    BY <2>1 DEF TurnRow
<1>5. x.turn = i /\ x.context = Assemble(i, m, memories) /\ RunRow(x)
  BY <1>3, NewRunFits DEF NewRun
<1>6. Shown(turns, i, m, x.context)
  BY <1>3, <1>4, <1>5, AssembleShows DEF FaithfulInv
<1> HIDE DEF x
<1>7. row \in TurnRow /\ row.message = m
  BY <1>4 DEF TurnRow, TurnState, ActiveTurn
<1> HIDE DEF row, m
<1>8. Len(turns') = Len(turns) /\ \A j \in 1..Len(turns) : turns'[j] = IF j = i THEN row ELSE turns[j]
  BY <1>1, <1>2, <1>3, <1>7, ExceptSeq
<1>9. Len(runs') = Len(runs) + 1 /\ runs'[Len(runs) + 1] = x /\ \A r \in 1..Len(runs) : runs'[r] = runs[r]
  BY <1>1, <1>2, <1>5, TableAppend
<1>10. Extends(turns, turns')
  BY <1>1, <1>3, <1>7, <1>8 DEF Extends, m
<1>11. Recalls(runs, runs')
  BY <1>1, <1>9 DEF Recalls
<1>12. Shown(turns', i, m, x.context)
  <2>1. \A j \in 1..(i - 1) : turns'[j] = turns[j]
    BY <1>1, <1>3, <1>8
  <2>2. Len(turns) \in Nat /\ Len(turns') \in Nat /\ Len(turns) <= Len(turns')
    BY <1>1, <1>8
  <2> QED
    BY <1>1, <1>3, <1>6, <2>1, <2>2, ShownMove
<1>13. ASSUME NEW r \in 1..Len(runs'), r > Len(runs)
       PROVE  Shown(turns', runs'[r].turn, turns'[runs'[r].turn].message, runs'[r].context)
  <2>1. runs'[r] = x
    BY <1>1, <1>9, <1>13
  <2>2. turns'[i].message = m
    BY <1>3, <1>7, <1>8
  <2> QED
    BY <1>5, <1>12, <2>1, <2>2
<1>14. Contexts(turns', runs')
  BY <1>1, <1>8, <1>9, <1>10, <1>11, <1>13, ContextsMove DEF FaithfulInv
<1>15. Summary(turns', compaction)
  BY <1>1, <1>8, <1>10, SummaryMove DEF FaithfulInv
<1> QED
  BY <1>2, <1>14, <1>15 DEF FaithfulInv

\* One Run's row changes, not what it was shown.
LEMMA RunRecalls ==
  ASSUME TalkInv, NEW r \in 1..Len(runs), NEW x, x.turn = runs[r].turn, x.context = runs[r].context,
         RunRow(x), runs' = [runs EXCEPT ![r] = x]
  PROVE  Recalls(runs, runs') /\ Len(runs') = Len(runs)
<1>1. RunTable(runs) /\ Len(runs) \in Nat
  BY TableFacts DEF TalkInv, Told
<1>2. Len(runs') = Len(runs) /\ \A i \in 1..Len(runs) : runs'[i] = IF i = r THEN x ELSE runs[i]
  BY <1>1, TableRewrite
<1> QED
  BY <1>1, <1>2 DEF Recalls

\* An active Turn takes a verdict: it is the newest, and its message stays.
LEMMA VerdictExtends ==
  ASSUME TalkInv, NEW t, NEW r, NEW verdict, turns' = Projected(t, r, verdict), turns[t].state \in ActiveTurn,
         t \in 1..Len(turns)
  PROVE  Extends(turns, turns')
<1> DEFINE row == [message |-> turns[t].message, state |-> verdict,
                   authority |-> IF verdict = "succeeded" THEN r ELSE turns[t].authority]
<1>1. turns' = [turns EXCEPT ![t] = row] /\ row.message = turns[t].message
  BY DEF Projected
<1> HIDE DEF row
<1>2. turns \in Seq(TurnRow) /\ Len(turns) \in Nat /\ DOMAIN turns = 1..Len(turns) /\ t = Len(turns)
  BY LenProperties DEF TalkInv, Told
<1>3. turns \in Seq(TurnRow \cup {row}) /\ row \in TurnRow \cup {row}
  BY <1>2, SeqMonotonic
<1>4. Len(turns') = Len(turns) /\ \A j \in 1..Len(turns) : turns'[j] = IF j = t THEN row ELSE turns[j]
  BY <1>1, <1>3, ExceptSeq
<1>5. turns[t].state # "succeeded"
  BY DEF ActiveTurn
<1>6. ASSUME NEW j \in 1..Len(turns)
      PROVE  /\ turns'[j].message = turns[j].message
             /\ (j < Len(turns) \/ turns[j].state = "succeeded") => turns'[j] = turns[j]
  <2>1. CASE j = t
    BY <1>1, <1>2, <1>4, <1>5, <2>1
  <2>2. CASE j # t
    BY <1>4, <2>2
  <2> QED
    BY <2>1, <2>2
<1>7. Len(turns) <= Len(turns')
  <2>1. Len(turns') = Len(turns)
    BY <1>4
  <2>2. \A a, b \in Nat : a = b => b <= a
    OBVIOUS
  <2> QED
    BY <1>2, <2>1, <2>2
<1> QED
  BY <1>6, <1>7 DEF Extends
LEMMA ReverseFacts ==
  ASSUME NEW R, NEW s \in Seq(R)
  PROVE  /\ Reverse(s) \in Seq(R) /\ Len(Reverse(s)) = Len(s)
         /\ \A i \in 1..Len(s) : Reverse(s)[i] = s[Len(s) - i + 1]
<1>1. Len(s) \in Nat /\ \A i \in 1..Len(s) : Len(s) - i + 1 \in 1..Len(s)
  BY LenProperties
<1>2. \A i \in 1..Len(s) : s[Len(s) - i + 1] \in R
  BY <1>1, ElementOfSeq
<1>3. Reverse(s) = [i \in 1..Len(s) |-> s[Len(s) - i + 1]]
  BY DEF Reverse
<1> HIDE DEF Reverse
<1> QED
  BY <1>1, <1>2, <1>3

LEMMA NewestIsSuffix ==
  ASSUME NEW R, NEW c \in Seq(R), NEW k \in 0..Len(c)
  PROVE  IsSuffix(Newest(c, k), c)
<1> DEFINE s == Newest(c, k)
<1>1. Len(c) \in Nat
  BY LenProperties
<1>2. s \in Seq(R) /\ Len(s) = k /\ k \in Nat /\ \A i \in 1..k : s[i] = c[Len(c) - k + i]
  BY NewestFacts
<1> HIDE DEF s
<1>3. /\ Reverse(s) \in Seq(R) /\ Len(Reverse(s)) = k
      /\ \A i \in 1..k : Reverse(s)[i] = s[k - i + 1]
  BY <1>2, ReverseFacts
<1>4. /\ Reverse(c) \in Seq(R) /\ Len(Reverse(c)) = Len(c)
      /\ \A i \in 1..Len(c) : Reverse(c)[i] = c[Len(c) - i + 1]
  BY ReverseFacts
<1>5. ASSUME NEW i \in 1..k PROVE Reverse(s)[i] = Reverse(c)[i]
  <2>1. k - i + 1 \in 1..k /\ Len(c) - k + (k - i + 1) = Len(c) - i + 1 /\ i \in 1..Len(c)
    BY <1>1, <1>2
  <2>2. s[k - i + 1] = c[Len(c) - k + (k - i + 1)]
    BY <1>2, <2>1
  <2> QED
    BY <1>3, <1>4, <2>1, <2>2
<1> DEFINE a == Reverse(s)
           b == Reverse(c)
<1>6. a \in Seq(R) /\ b \in Seq(R) /\ Len(a) = k /\ Len(b) = Len(c) /\ k <= Len(c) /\ \A i \in 1..k : a[i] = b[i]
  <2>1. k <= Len(c)
    BY <1>1
  <2> HIDE DEF Reverse
  <2> QED
    BY <1>3, <1>4, <1>5, <2>1
<1> HIDE DEF a, b
<1>7. SubSeq(a, 1, k) = SubSeq(b, 1, k)
  <2>1. k \in 0..Len(a) /\ k \in 0..Len(b)
    BY <1>1, <1>6
  <2>2. SubSeq(a, 1, k) \in Seq(R) /\ Len(SubSeq(a, 1, k)) = k /\ \A i \in 1..k : SubSeq(a, 1, k)[i] = a[i]
    BY <1>6, <2>1, OldestFacts
  <2>3. SubSeq(b, 1, k) \in Seq(R) /\ Len(SubSeq(b, 1, k)) = k /\ \A i \in 1..k : SubSeq(b, 1, k)[i] = b[i]
    BY <1>6, <2>1, OldestFacts
  <2> QED
    BY <1>6, <2>2, <2>3, SeqEqual
<1>8. IsPrefix(a, b)
  BY <1>6, <1>7 DEF IsPrefix
<1> QED
  BY <1>8 DEF IsSuffix, a, b, s

LEMMA RunsChangeShows ==
  ASSUME TalkInv, TalkInv', FaithfulInv, NEW r, NEW v,
         RunChange(r, v) \/ ScheduleAnotherAttempt(r), v \in RunEnded
  PROVE  FaithfulInv'
<1>1. r \in 1..Len(runs) /\ turns' = turns /\ compaction' = compaction
  BY RunChangeShape, ScheduleShape
<1>2. PICK x : RunGoesOn(runs[r], x) /\ x.context = runs[r].context /\ runs' = [runs EXCEPT ![r] = x]
  BY RunChangeShape, ScheduleShape
<1>3. RunRow(x) /\ x.turn = runs[r].turn
  BY <1>2 DEF RunGoesOn
<1>4. Recalls(runs, runs') /\ Len(runs') = Len(runs)
  BY <1>1, <1>2, <1>3, RunRecalls
<1>5. \A q \in 1..Len(runs') : ~(q > Len(runs))
  BY <1>4, NothingExtends
<1>6. Extends(turns, turns')
  BY <1>1, NothingExtends
<1> QED
  BY <1>1, <1>4, <1>5, <1>6, FaithfulMove

\* A projection, by the Worker that settled the Run or by the maintenance pass.
LEMMA ProjectionExtends ==
  ASSUME TalkInv, NEW r \in 1..Len(runs), runs[r].turn # 0, NEW verdict,
         ProjectRun(r, verdict) \/ Reconcile(r)
  PROVE  Extends(turns, turns')
<1>1. Told(turns, replies, runs) /\ Len(turns) \in Nat
  BY LenProperties DEF TalkInv, Told
<1> DEFINE t == runs[r].turn
<1>2. t \in 1..Len(turns)
  <2>1. t \in Nat /\ t <= Len(turns)
    BY <1>1, TableFacts DEF Told
  <2> QED
    BY <1>1, <2>1
<1>3. CASE ProjectRun(r, verdict)
  <2>1. CASE AcceptsVerdict(t, verdict)
    <3>1. turns' = Projected(t, r, verdict) /\ turns[t].state \in ActiveTurn
      BY <1>3, <2>1 DEF ProjectRun, AcceptsVerdict
    <3> HIDE DEF t
    <3> QED
      BY <1>2, <3>1, VerdictExtends
  <2>2. CASE ~AcceptsVerdict(t, verdict)
    <3>1. turns' = turns
      BY <1>3, <2>2 DEF ProjectRun
    <3> QED
      BY <3>1, NothingExtends
  <2> QED
    BY <2>1, <2>2
<1>4. CASE Reconcile(r)
  <2>1. turns' = Projected(t, r, runs[r].status) /\ turns[t].state \in ActiveTurn
    BY <1>4 DEF Reconcile
  <2> HIDE DEF t
  <2> QED
    BY <1>2, <2>1, VerdictExtends
<1> QED
  BY <1>3, <1>4

LEMMA TalkStepShows ==
  ASSUME TalkInv, FaithfulInv, TalkStep
  PROVE  FaithfulInv'
<1>1. TalkInv'
  BY TalkStepKeeps
<1>2. ASSUME NEW r, NEW v \in {"succeeded", "failed", "ambiguous", "cancelled"},
             RunChange(r, v) \/ ScheduleAnotherAttempt(r)
      PROVE  FaithfulInv'
  BY <1>1, <1>2, RunsChangeShows DEF RunEnded
<1>3. ASSUME NEW r, Reconcile(r) PROVE FaithfulInv'
  <2>1. r \in 1..Len(runs) /\ runs[r].turn # 0 /\ runs' = runs /\ compaction' = compaction
    BY <1>3, TableFacts DEF Reconcile, TalkInv, Told
  <2>2. Extends(turns, turns')
    BY <1>3, <2>1, ProjectionExtends
  <2>3. Recalls(runs, runs') /\ \A q \in 1..Len(runs') : ~(q > Len(runs))
    BY <2>1, NothingExtends
  <2> QED
    BY <1>1, <2>1, <2>2, <2>3, FaithfulMove
<1>4. ASSUME NEW p \in owed, Project(p) PROVE FaithfulInv'
  <2>1. p.run \in 1..Len(runs) /\ runs[p.run].turn # 0
    BY DEF TalkInv, OwedTrue
  <2>2. ProjectRun(p.run, p.verdict) /\ runs' = runs /\ compaction' = compaction
    BY <1>4 DEF Project
  <2>3. Extends(turns, turns')
    BY <2>1, <2>2, ProjectionExtends
  <2>4. Recalls(runs, runs') /\ \A q \in 1..Len(runs') : ~(q > Len(runs))
    BY <2>2, NothingExtends
  <2> QED
    BY <1>1, <2>2, <2>3, <2>4, FaithfulMove
<1>5. CASE RefreshCompaction
  <2>1. Summary(turns, compaction')
    BY <1>5, RefreshSummarises DEF FaithfulInv
  <2>2. UNCHANGED <<turns, runs>>
    BY <1>5 DEF RefreshCompaction
  <2> QED
    BY <2>1, <2>2 DEF FaithfulInv
<1>6. CASE LoseRefresh \/ Archive \/ Unarchive \/ Delete \/ \E p \in owed : LoseProjection(p)
  <2>1. UNCHANGED <<turns, runs, compaction>>
    BY <1>6 DEF LoseRefresh, Archive, Unarchive, Delete, LoseProjection
  <2> QED
    BY <2>1 DEF FaithfulInv
<1>7. ASSUME NEW r, NEW v \in {"succeeded", "failed", "ambiguous"}, SettleAttempt(r, v) \/ SettleLate(r, v)
      PROVE  RunChange(r, v)
  BY <1>7 DEF RunChange
<1>8. ASSUME NEW r, NEW v \in {"failed", "ambiguous", "cancelled"}, EndUnprojected(r, v)
      PROVE  RunChange(r, v)
  BY <1>8 DEF RunChange
<1> QED
  BY <1>2, <1>3, <1>4, <1>5, <1>6, <1>7, <1>8 DEF TalkStep

LEMMA FaithfulInitial ==
  ConversationInit => FaithfulInv
<1> SUFFICES ASSUME ConversationInit PROVE FaithfulInv
  OBVIOUS
<1>1. turns = <<>> /\ runs = <<>> /\ compaction = NoCompaction /\ Len(turns) = 0 /\ Len(runs) = 0
  BY DEF ConversationInit
<1>2. compaction.version = 0 /\ compaction.end = 0 /\ compaction.blocks = <<>>
  BY <1>1 DEF NoCompaction
<1>3. AnsweredOf(turns, 1, 0) = {}
  BY <1>1 DEF AnsweredOf
<1>4. From(BlocksUpTo(turns, 0), 0) = {}
  BY <1>3 DEF From, BlocksUpTo, OfTurns
<1>5. \E lo \in Nat : Lists(compaction.blocks, From(BlocksUpTo(turns, compaction.end), lo))
  BY <1>2, <1>4, ListsNone
<1> QED
  BY <1>1, <1>2, <1>5 DEF FaithfulInv, Summary, Contexts

\* What is left of an ascending sequence from a number on is its end.
LEMMA StretchIsSuffix ==
  ASSUME NEW S, NEW c, Lists(c, S), NEW s, \E lo \in Nat : Lists(s, From(S, lo))
  PROVE  IsSuffix(s, c)
<1>1. PICK lo \in Nat : Lists(s, {i \in S : lo <= i})
  BY DEF From
<1>2. \E k \in 0..Len(c) : s = Newest(c, k)
  BY <1>1, ListsSuffix
<1>3. c \in Seq(Nat)
  BY DEF Lists
<1> QED
  BY <1>2, <1>3, NewestIsSuffix

\* The invariant says what the run checks.
LEMMA FaithfulImplies ==
  ASSUME TalkInv, FaithfulInv
  PROVE  ContextFaithful
<1>1. /\ Told(turns, replies, runs) /\ turns \in Seq(TurnRow) /\ Len(turns) \in Nat
      /\ DOMAIN runs = 1..Len(runs) /\ Len(runs) \in Nat
  BY LenProperties, TableFacts DEF TalkInv, Told
<1>2. ASSUME NEW r \in 1..Len(runs), runs[r].turn # 0
      PROVE  /\ runs[r].turn \in 1..Len(turns)
             /\ Shown(turns, runs[r].turn, turns[runs[r].turn].message, runs[r].context)
  <2>1. runs[r].turn \in Nat /\ runs[r].turn <= Len(turns)
    BY <1>1, TableFacts DEF Told
  <2> QED
    BY <1>1, <1>2, <2>1 DEF FaithfulInv, Contexts
<1>3. ASSUME NEW hi \in Nat
      PROVE  /\ AnsweredIn(1, hi) = AnsweredOf(turns, 1, hi) /\ AnsweredOf(turns, 1, hi) \in SUBSET (1..Len(turns))
             /\ BlocksOf(AnsweredIn(1, hi)) = Ascending(BlocksUpTo(turns, hi))
             /\ Lists(Ascending(BlocksUpTo(turns, hi)), BlocksUpTo(turns, hi))
  <2>1. AnsweredIn(1, hi) = AnsweredOf(turns, 1, hi) /\ AnsweredOf(turns, 1, hi) \in SUBSET (1..Len(turns))
    BY <1>1, AnsweredSame DEF AnsweredOf
  <2> QED
    BY <1>1, <2>1, CostsNow, BlocksListed DEF BlocksUpTo
<1>4. ContextUnbroken
  <2> SUFFICES ASSUME NEW r \in 1..Len(runs), runs[r].turn # 0
               PROVE  /\ IsSuffix(runs[r].context.history, CandidateTurns(runs[r].turn))
                      /\ IsSuffix(runs[r].context.blocks \o BlocksOf(ToSet(runs[r].context.history)),
                                  BlocksOf(AnsweredIn(1, runs[r].turn - 1)))
    BY <1>1 DEF ContextUnbroken
  <2> DEFINE hi == runs[r].turn - 1
             h == runs[r].context.history
             b == runs[r].context.blocks
             S == AnsweredOf(turns, 1, hi)
             U == BlocksUpTo(turns, hi)
             new == Ascending(OfTurns(turns, ToSet(h)))
  <2>1. hi \in Nat
    BY <1>1, <1>2
  <2>2. \E lo \in Nat : Lists(h, AnsweredOf(turns, lo, hi))
    BY <1>2 DEF Shown
  <2>3. \E lo \in Nat : Lists(b \o new, From(U, lo))
    BY <1>2 DEF Shown
  <2>4. CandidateTurns(runs[r].turn) = Ascending(S) /\ S \in SUBSET (1..Len(turns))
    <3>1. CandidateTurns(runs[r].turn) = Ascending(AnsweredIn(1, hi))
      BY DEF CandidateTurns
    <3> HIDE DEF hi
    <3> QED
      BY <1>3, <2>1, <3>1
  <2>5. BlocksOf(AnsweredIn(1, hi)) = Ascending(U) /\ Lists(Ascending(U), U)
    <3> HIDE DEF hi
    <3> QED
      BY <1>3, <2>1
  <2>6. BlocksOf(ToSet(h)) = new
    BY CostsNow
  <2> HIDE DEF h, b, new, U, hi
  <2>7. IsSuffix(h, Ascending(S))
    <3>1. PICK lo \in Nat : Lists(h, AnsweredOf(turns, lo, hi))
      BY <2>2
    <3>2. AnsweredOf(turns, lo, hi) \subseteq {i \in S : lo <= i}
      BY <1>1, <2>1 DEF AnsweredOf
    <3>3. {i \in S : lo <= i} \subseteq AnsweredOf(turns, lo, hi)
      BY DEF AnsweredOf
    <3>4. Lists(Ascending(S), S)
      BY <1>1, <2>4, AscendingLists
    <3> DEFINE c == Ascending(S)
    <3> HIDE DEF c, S
    <3>5. Lists(h, {i \in S : lo <= i}) /\ Lists(c, S)
      <4>1. AnsweredOf(turns, lo, hi) = {i \in S : lo <= i}
        BY <3>2, <3>3
      <4> QED
        BY <3>1, <3>4, <4>1 DEF c
    <3>6. \E k \in 0..Len(c) : h = Newest(c, k)
      BY <3>5, ListsSuffix
    <3>7. c \in Seq(Nat)
      BY <3>5 DEF Lists
    <3>8. IsSuffix(h, c)
      BY <3>6, <3>7, NewestIsSuffix
    <3> QED
      BY <3>8 DEF c
  <2>8. IsSuffix(b \o new, Ascending(U))
    BY <2>3, <2>5, StretchIsSuffix
  <2> QED
    BY <2>4, <2>5, <2>6, <2>7, <2>8 DEF h, b, hi
<1>5. ContextWithinBudget
  <2> SUFFICES ASSUME NEW r \in 1..Len(runs), runs[r].turn # 0
               PROVE  Cost[turns[runs[r].turn].message] + Cardinality(runs[r].context.memories)
                        + SumOf(BlockCosts(runs[r].context.blocks)) + SumOf(PairCosts(runs[r].context.history)) <= ContextBudget
    BY <1>1 DEF ContextWithinBudget
  <2>1. Cost[turns[runs[r].turn].message] + Cardinality(runs[r].context.memories)
          + SumOf(BlockCostsIn(turns, runs[r].context.blocks)) + SumOf(PairCostsIn(turns, runs[r].context.history))
            <= ContextBudget
    BY <1>2 DEF Shown
  <2> QED
    BY <2>1, CostsNow
<1>6. CompactionExact
  <2> SUFFICES ASSUME compaction.version # 0
               PROVE  /\ compaction.blocks # <<>>
                      /\ IsSuffix(compaction.blocks, BlocksOf(AnsweredIn(1, compaction.end)))
                      /\ compaction.start \in 1..compaction.end
                      /\ PlainUpTo(compaction.end) => compaction.start = TurnOf(compaction.blocks[1])
    BY DEF CompactionExact
  <2> DEFINE e == compaction.end
             b == compaction.blocks
             U == BlocksUpTo(turns, e)
  <2>1. /\ e \in Nat /\ b # <<>> /\ compaction.start \in 1..e
        /\ PlainIn(turns, e) => compaction.start = TurnOf(b[1])
    BY <1>1 DEF FaithfulInv, Summary
  <2>2. \E lo \in Nat : Lists(b, From(U, lo))
    BY DEF FaithfulInv, Summary
  <2> HIDE DEF e
  <2>3. BlocksOf(AnsweredIn(1, e)) = Ascending(U) /\ Lists(Ascending(U), U)
    BY <1>3, <2>1
  <2>4. PlainUpTo(e) <=> PlainIn(turns, e)
    <3>1. AnsweredIn(1, e) = AnsweredOf(turns, 1, e)
      BY <1>3, <2>1
    <3> QED
      BY <3>1 DEF PlainUpTo, PlainIn
  <2> HIDE DEF b, U
  <2>5. IsSuffix(b, Ascending(U))
    BY <2>2, <2>3, StretchIsSuffix
  <2> QED
    BY <2>1, <2>3, <2>4, <2>5 DEF b, e
<1> QED
  BY <1>4, <1>5, <1>6 DEF ContextFaithful
-----------------------------------------------------------------------------
(* What the memory injects fits.                                           *)

Seen == [item : Nat, version : Nat]

LEMMA MinOfTwo ==
  ASSUME NEW a \in Nat, NEW b \in Nat
  PROVE  Min({a, b}) \in {a, b} /\ Min({a, b}) <= a /\ Min({a, b}) <= b
<1>1. \E x \in {a, b} : \A y \in {a, b} : x <= y
  BY a <= b \/ b <= a
<1>2. Min({a, b}) = CHOOSE x \in {a, b} : \A y \in {a, b} : x <= y
  BY DEF Min
<1>3. Min({a, b}) \in {a, b} /\ \A y \in {a, b} : Min({a, b}) <= y
  <2> HIDE DEF Min
  <2> QED
    BY <1>1, <1>2
<1> HIDE DEF Min
<1> QED
  BY <1>3

LEMMA TakeFacts ==
  ASSUME NEW R, NEW s \in Seq(R), NEW k \in Nat
  PROVE  Take(s, k) \in Seq(R) /\ Len(Take(s, k)) <= k
<1>1. Len(s) \in Nat
  BY LenProperties
<1> DEFINE j == Min({Len(s), k})
<1>2. j \in {Len(s), k} /\ j <= Len(s) /\ j <= k
  BY <1>1, MinOfTwo
<1>3. Take(s, k) = SubSeq(s, 1, j)
  BY DEF Take
<1> HIDE DEF j
<1>4. j \in 0..Len(s) /\ j \in Nat
  BY <1>1, <1>2
<1>5. SubSeq(s, 1, j) \in Seq(R) /\ Len(SubSeq(s, 1, j)) = j
  BY <1>4, OldestFacts
<1> QED
  BY <1>2, <1>3, <1>5

LEMMA Newest1stSeen ==
  ASSUME items \in Seq(ItemRow), NEW scope
  PROVE  Newest1st(scope) \in Seq(Seen)
<1> DEFINE S == ActiveIn(items, scope)
           ids == Reverse(Ascending(S))
           n == Len(ids)
<1>1. S \subseteq 1..Len(items) /\ Len(items) \in Nat
  BY ActiveFinite, LenProperties
<1>2. Lists(Ascending(S), S)
  BY <1>1, AscendingLists
<1> HIDE DEF S
<1>3. Ascending(S) \in Seq(1..Len(items))
  BY <1>1, <1>2, ListsWithin
<1>4. ids \in Seq(1..Len(items)) /\ n \in Nat
  BY <1>3, ReverseFacts, LenProperties
<1>5. Newest1st(scope) = [k \in 1..n |-> [item |-> ids[k], version |-> CurrentVersion(ids[k])]]
  BY DEF Newest1st, S
<1> HIDE DEF ids
<1>6. ASSUME NEW k \in 1..n PROVE [item |-> ids[k], version |-> CurrentVersion(ids[k])] \in Seen
  <2>1. ids[k] \in 1..Len(items)
    BY <1>4, ElementOfSeq
  <2>2. items[ids[k]].versions \in Seq(Version)
    <3>1. items[ids[k]] \in ItemRow
      BY <2>1, ElementOfSeq
    <3> QED
      BY <3>1 DEF ItemRow
  <2>3. CurrentVersion(ids[k]) \in Nat
    BY <2>2, LenProperties DEF CurrentVersion
  <2> QED
    BY <1>1, <2>1, <2>3 DEF Seen
<1> HIDE DEF n
<1> QED
  BY <1>4, <1>5, <1>6

LEMMA ShareSeen ==
  ASSUME NEW mine \in Seq(Seen), NEW other \in Seq(Seen)
  PROVE  Share(mine, other) \in Seq(Seen)
<1>1. Len(other) \in Nat /\ PerScope \in Nat
  BY LenProperties, MemoryConstants
<1>2. Len(other) < PerScope => PerScope + (PerScope - Len(other)) \in Nat
  BY <1>1
<1> QED
  BY <1>1, <1>2, TakeFacts DEF Share

LEMMA FewMembers ==
  ASSUME NEW R, NEW s \in Seq(R)
  PROVE  Cardinality(ToSet(s)) \in Nat /\ Cardinality(ToSet(s)) <= Len(s)
<1> DEFINE n == Len(s)
           T == ToSet(s)
<1>1. n \in Nat /\ DOMAIN s = 1..n
  BY LenProperties
<1>2. T = {s[i] : i \in 1..n}
  BY <1>1 DEF ToSet
<1>3. s = [i \in 1..n |-> s[i]]
  BY <1>1, LenProperties
<1> HIDE DEF n, T
<1>4. s \in [1..n -> T]
  BY <1>2, <1>3
<1>5. \A x \in T : \E i \in 1..n : s[i] = x
  BY <1>2
<1>6. s \in Surjection(1..n, T)
  BY <1>4, <1>5 DEF Surjection
<1>7. IsFiniteSet(1..n) /\ Cardinality(1..n) = n
  <2>1. IsFiniteSet(1..n) /\ Cardinality(1..n) = IF 1 > n THEN 0 ELSE n - 1 + 1
    BY <1>1, FS_Interval
  <2> QED
    BY <1>1, <2>1
<1>8. IsFiniteSet(T) /\ Cardinality(T) <= n
  BY <1>6, <1>7, FS_Surjection
<1> QED
  BY <1>8, FS_CardinalityType DEF n, T

LEMMA CandidatesFit ==
  ASSUME LearntInv, NEW m \in ClientMessage
  PROVE  Cardinality(Candidates(m)) \in Nat /\ Cardinality(Candidates(m)) <= ContextBudget - Cost[m]
<1> DEFINE user == Newest1st("user")
           own == Newest1st("agent")
           both == Share(user, own) \o Share(own, user)
           fit == Min({MemoryBudget, ContextBudget - Cost[m]})
<1>1. items \in Seq(ItemRow)
  BY DEF LearntInv, Kept, Books0, Shelf
<1>2. user \in Seq(Seen) /\ own \in Seq(Seen)
  BY <1>1, Newest1stSeen
<1>3. Candidates(m) = ToSet(Take(both, fit))
  BY DEF Candidates
<1> HIDE DEF user, own
<1>4. both \in Seq(Seen)
  BY <1>2, ShareSeen, ConcatProperties
<1>5. ContextBudget - Cost[m] \in Nat /\ MemoryBudget \in Nat
  BY ConversationConstants, MemoryConstants
<1>6. fit \in Nat /\ fit <= ContextBudget - Cost[m]
  <2>1. fit \in {MemoryBudget, ContextBudget - Cost[m]} /\ fit <= ContextBudget - Cost[m]
    BY <1>5, MinOfTwo
  <2> HIDE DEF fit
  <2> QED
    BY <1>5, <2>1
<1> HIDE DEF both, fit
<1>7. Take(both, fit) \in Seq(Seen) /\ Len(Take(both, fit)) <= fit
  BY <1>4, <1>6, TakeFacts
<1> DEFINE t == Take(both, fit)
<1> HIDE DEF t
<1>8. Cardinality(ToSet(t)) \in Nat /\ Cardinality(ToSet(t)) <= Len(t) /\ Len(t) \in Nat /\ Len(t) <= fit
  BY <1>7, FewMembers, LenProperties DEF t
<1>9. Cardinality(ToSet(t)) <= ContextBudget - Cost[m]
  BY <1>5, <1>6, <1>8
<1> QED
  BY <1>3, <1>8, <1>9 DEF t

-----------------------------------------------------------------------------
(* The steps of a conversation whose Runs learn.                           *)

LEMMA SubmitShows ==
  ASSUME LearntInv, FaithfulInv, TalkSubmit
  PROVE  FaithfulInv'
<1>1. TalkInv
  BY DEF LearntInv, MemoryInv
<1>2. ASSUME NEW m \in ClientMessage, SendMessage(m, Candidates(m)) PROVE FaithfulInv'
  <2> DEFINE few == Candidates(m)
  <2>1. Cardinality(few) \in Nat /\ Cardinality(few) <= ContextBudget - Cost[m] /\ SendMessage(m, few)
    BY <1>2, CandidatesFit
  <2> HIDE DEF few
  <2> QED
    BY <1>1, <2>1, SendShows
<1>3. ASSUME NEW i \in DOMAIN turns, RetryTurn(i, Candidates(turns[i].message)) PROVE FaithfulInv'
  <2> DEFINE few == Candidates(turns[i].message)
  <2>1. turns[i].message \in ClientMessage
    <3>1. turns \in Seq(TurnRow) /\ DOMAIN turns = 1..Len(turns)
      BY <1>1, LenProperties DEF TalkInv, Told
    <3>2. turns[i] \in TurnRow
      BY <3>1, ElementOfSeq
    <3> QED
      BY <3>2 DEF TurnRow
  <2>2. Cardinality(few) \in Nat /\ Cardinality(few) <= ContextBudget - Cost[turns[i].message] /\ RetryTurn(i, few)
    BY <1>3, <2>1, CandidatesFit
  <2> HIDE DEF few
  <2> QED
    BY <1>1, <2>2, RetryShows
<1> QED
  BY <1>2, <1>3 DEF TalkSubmit

LEMMA SubmitRunShows ==
  ASSUME LearntInv, FaithfulInv, NEW m, SubmitRun(m)
  PROVE  FaithfulInv'
<1> DEFINE x == NewRun(0, m, Candidates(m))
<1>1. TalkInv /\ RunTable(runs) /\ Len(runs) \in Nat
  BY TableFacts DEF LearntInv, MemoryInv, TalkInv, Told
<1>2. RunRow(x) /\ x.turn = 0
  BY NewRunFits
<1>3. runs' = Append(runs, x) /\ turns' = turns /\ compaction' = compaction
  BY DEF SubmitRun
<1> HIDE DEF x
<1>4. Len(runs') = Len(runs) + 1 /\ runs'[Len(runs) + 1] = x /\ \A r \in 1..Len(runs) : runs'[r] = runs[r]
  BY <1>1, <1>2, <1>3, TableAppend
<1>5. Recalls(runs, runs') /\ \A r \in 1..Len(runs') : r > Len(runs) => runs'[r].turn = 0
  <2>1. \A r \in 1..Len(runs') : r > Len(runs) => r = Len(runs) + 1
    BY <1>1, <1>4
  <2> QED
    BY <1>1, <1>2, <1>4, <2>1 DEF Recalls
<1>6. Extends(turns, turns')
  BY <1>1, <1>3, NothingExtends
<1>7. TalkInv'
  BY SubmitRunKeeps DEF LearntInv, MemoryGoal, MemoryInv
<1> QED
  BY <1>1, <1>3, <1>5, <1>6, <1>7, FaithfulMove

LEMMA QueueShows ==
  ASSUME LearntInv, FaithfulInv, QueueExtractions
  PROVE  FaithfulInv'
<1> DEFINE all == {r \in DOMAIN runs : runs[r].status = "succeeded" /\ integrations[r].state = "extraction_pending"}
           rows == FirstOf(all, ExtractLimit)
           queued == FirstOf({r \in rows : ExtractionVerdict(r) = "extraction_queued"}, MaxRuns - Len(runs))
           n == Cardinality(queued)
<1>1. TalkInv /\ RunTable(runs) /\ Len(runs) \in Nat /\ DOMAIN runs = 1..Len(runs)
  BY TableFacts DEF LearntInv, MemoryInv, TalkInv, Told
<1>2. n \in Nat
  <2>1. all \in SUBSET (1..Len(runs))
    BY <1>1
  <2>2. rows \in SUBSET (1..Len(runs))
    BY <1>1, <2>1, FirstOfFinite
  <2>3. {r \in rows : ExtractionVerdict(r) = "extraction_queued"} \in SUBSET (1..Len(runs))
    BY <2>2
  <2> QED
    BY <1>1, <2>3, FirstOfFinite
<1>3. PICK m \in ClientMessage : runs' = runs \o [k \in 1..n |-> NewRun(0, m, Candidates(m))]
  BY DEF QueueExtractions
<1>4. turns' = turns /\ compaction' = compaction
  BY DEF QueueExtractions
<1> DEFINE x == NewRun(0, m, Candidates(m))
<1>5. RunRow(x) /\ x.turn = 0
  BY NewRunFits
<1> HIDE DEF n, x
<1>6. runs' = runs \o [k \in 1..n |-> x]
  BY <1>3 DEF x
<1>7. /\ Len(runs') = Len(runs) + n
      /\ \A r \in 1..Len(runs) : runs'[r] = runs[r]
      /\ \A r \in (Len(runs) + 1)..(Len(runs) + n) : runs'[r] = x
  BY <1>1, <1>2, <1>5, <1>6, TableExtend
<1>8. Recalls(runs, runs') /\ \A r \in 1..Len(runs') : r > Len(runs) => runs'[r].turn = 0
  <2>1. \A r \in 1..Len(runs') : r > Len(runs) => r \in (Len(runs) + 1)..(Len(runs) + n)
    BY <1>1, <1>2, <1>7
  <2>2. Len(runs) <= Len(runs')
    BY <1>1, <1>2, <1>7
  <2> QED
    BY <1>5, <1>7, <2>1, <2>2 DEF Recalls
<1>9. Extends(turns, turns')
  BY <1>1, <1>4, NothingExtends
<1>10. TalkInv'
  BY QueueKeeps DEF LearntInv, MemoryGoal, MemoryInv
<1> QED
  BY <1>1, <1>4, <1>8, <1>9, <1>10, FaithfulMove

LEMMA PassProjectsShows ==
  ASSUME LearntInv, FaithfulInv, NEW r, PassProjects(r)
  PROVE  FaithfulInv'
<1>1. TalkInv /\ r \in 1..Len(runs)
  BY DEF LearntInv, MemoryInv, PassTrue, PassProjects
<1>2. runs' = runs /\ compaction' = compaction
  BY DEF PassProjects
<1>3. Extends(turns, turns')
  <2>1. CASE runs[r].turn # 0
    <3>1. ProjectRun(r, "succeeded")
      BY <2>1 DEF PassProjects
    <3> QED
      BY <1>1, <2>1, <3>1, ProjectionExtends
  <2>2. CASE runs[r].turn = 0
    <3>1. turns' = turns
      BY <2>2 DEF PassProjects
    <3> QED
      BY <1>1, <3>1, NothingExtends
  <2> QED
    BY <2>1, <2>2
<1>4. Recalls(runs, runs') /\ \A q \in 1..Len(runs') : ~(q > Len(runs))
  BY <1>1, <1>2, NothingExtends
<1>5. TalkInv'
  BY PassProjectsKeeps DEF LearntInv, MemoryGoal, MemoryInv
<1> QED
  BY <1>1, <1>2, <1>3, <1>4, <1>5, FaithfulMove

LEMMA MemoryNextShows ==
  ASSUME LearntInv, FaithfulInv, [MemoryNext]_memoryVars
  PROVE  FaithfulInv'
<1>0. TalkInv
  BY DEF LearntInv, MemoryInv
<1>1. CASE UNCHANGED memoryVars \/ OwnerEdits \/ ToggleInstance
  <2>1. UNCHANGED <<turns, runs, compaction>>
    BY <1>1 DEF memoryVars, talkVars, memoryOnly, OwnerEdits, ToggleInstance, SetPolicy, DecideSuggestion,
         CreateMemory, PromoteRun, ReadMemory, EditMemory, DeleteMemory
  <2> QED
    BY <2>1 DEF FaithfulInv
<1>2. CASE BeginPass \/ AbandonPass \/ MaterializePending
  <2>1. UNCHANGED <<turns, runs, compaction>>
    BY <1>2 DEF BeginPass, AbandonPass, MaterializePending, talkVars
  <2> QED
    BY <2>1 DEF FaithfulInv
<1>3. ASSUME NEW r, NEW ps, SucceedProposing(r, ps) PROVE FaithfulInv'
  <2>1. RunChange(r, "succeeded") /\ "succeeded" \in RunEnded
    BY <1>3 DEF SucceedProposing, RunEnded, RunChange
  <2>2. TalkInv'
    BY <1>0, <2>1, SettleKeeps
  <2> QED
    BY <1>0, <2>1, <2>2, RunsChangeShows
<1>4. CASE TalkOn
  BY <1>0, <1>4, TalkStepShows DEF TalkOn
<1>5. CASE MemoryRuns
  BY <1>3, <1>4, <1>5, SubmitShows, SubmitRunShows DEF MemoryRuns
<1>6. CASE MemoryPass \/ AbandonPass
  BY <1>2, <1>6, QueueShows, PassProjectsShows DEF MemoryPass
<1> QED
  BY <1>1, <1>5, <1>6 DEF MemoryNext

LEMMA ConversationNextShows ==
  ASSUME TalkInv, FaithfulInv, [ConversationNext]_talkVars
  PROVE  FaithfulInv'
<1>1. CASE UNCHANGED talkVars
  BY <1>1 DEF talkVars, FaithfulInv
<1>2. Cardinality({}) = 0
  BY FS_EmptySet
<1>3. ASSUME NEW m \in ClientMessage, SendMessage(m, {}) PROVE FaithfulInv'
  <2>1. Cardinality({}) \in Nat /\ Cardinality({}) <= ContextBudget - Cost[m]
    BY <1>2, ConversationConstants
  <2> QED
    BY <1>3, <2>1, SendShows
<1>4. ASSUME NEW i \in DOMAIN turns, RetryTurn(i, {}) PROVE FaithfulInv'
  <2>1. turns \in Seq(TurnRow) /\ DOMAIN turns = 1..Len(turns)
    BY LenProperties DEF TalkInv, Told
  <2>2. turns[i] \in TurnRow
    BY <2>1, ElementOfSeq
  <2>3. turns[i].message \in ClientMessage
    BY <2>2 DEF TurnRow
  <2>4. Cardinality({}) \in Nat /\ Cardinality({}) <= ContextBudget - Cost[turns[i].message]
    BY <1>2, <2>3, ConversationConstants
  <2> QED
    BY <1>4, <2>4, RetryShows
<1>5. CASE ConversationNext
  BY <1>3, <1>4, <1>5, TalkStepShows DEF ConversationNext
<1> QED
  BY <1>1, <1>5

(* What a Run is shown of its conversation is the end of what was answered *)
(* before its own Turn, down to the block and within its limits, and the   *)
(* compaction is the end of what was answered up to the Turn it says it    *)
(* reaches, wherever messages break into blocks                            *)
(* (ContextBuilder.assemble, refresh_compaction).                          *)
THEOREM ContextFaithfulAlone == ConversationSpec => []ContextFaithful
<1>1. ConversationInit => TalkInv /\ FaithfulInv
  BY TalkInitial, FaithfulInitial
<1>2. TalkInv /\ FaithfulInv /\ [ConversationNext]_talkVars => (TalkInv /\ FaithfulInv)'
  BY TalkNextKeeps, ConversationNextShows
<1>3. TalkInv /\ FaithfulInv => ContextFaithful
  BY FaithfulImplies
<1> QED
  BY <1>1, <1>2, <1>3, PTL DEF ConversationSpec

(* The same with memories injected, however many the scopes hold: what     *)
(* they take is left out of the history (ContextBuilder.assemble, the      *)
(* candidates of infrastructure/database/memory.py).                       *)
THEOREM ContextFaithfulHolds == MemorySpec => []ContextFaithful
<1>1. MemoryInit => FaithfulInv
  BY FaithfulInitial DEF MemoryInit
<1>2. LearntInv /\ FaithfulInv /\ [MemoryNext]_memoryVars => FaithfulInv'
  BY MemoryNextShows
<1>3. LearntInv /\ FaithfulInv => ContextFaithful
  BY FaithfulImplies DEF LearntInv, MemoryInv
<1> QED
  BY LearntInvariant, <1>1, <1>2, <1>3, PTL DEF MemorySpec
=============================================================================
